-------------------------------- MODULE System --------------------------------
(***************************************************************************)
(* The structure of the models of oms3 and the calls that build it and     *)
(* take it apart: the registry of Scope.cpp, Model.cpp, and System.cpp     *)
(* with its connectors, connections, buses and sub-models.                 *)
(*                                                                         *)
(* A model is a tree: a function from the paths of its systems, sequences  *)
(* of names that start with the top-level system, to what each contains.   *)
(* A reference (ComRef) is a sequence of names, relative to a system.  The *)
(* methods of System call themselves for the sub-system a reference starts *)
(* with; here they look once how far the reference leads.  A method that   *)
(* refuses its arguments returns the tree it was given.                    *)
(***************************************************************************)
EXTENDS Integers, SequencesExt, FiniteSetsExt

CONSTANTS
  Names,      (* the names of models                                       *)
  Bases,      (* the trees the model of the client may start with          *)
  Systems, Connectors, SubModels, Ends, Buses, Signals,
              (* the references the client uses in its calls; those of     *)
              (* Systems start with the top-level system                   *)
  TLMTypes,   (* the variables of a TLM bus, in order                      *)
  Kinds,      (* the connectors of the components that are added, by kind  *)
  MaxCalls    (* bound: the calls of the client                            *)

VARIABLES
  models,   (* the vector models: [cref, tree]                             *)
  index,    (* models_map: the position of every name                      *)
  file,     (* the .ssp file exported last                                 *)
  clash,    (* a model was given the name of another one                   *)
  removed,  (* a part of a model was deleted, or another one put in its    *)
            (* place                                                       *)
  calls

vars == <<models, index, file, clash, removed, calls>>

NoTree == [p \in {} |-> 0]
NoFile == [cref |-> "", document |-> NoTree]
Empty(type) == [type |-> type, connectors |-> NoTree, components |-> NoTree,
                connections |-> << >>, buses |-> << >>, tlmbuses |-> << >>]

Put(f, k, v) == [x \in DOMAIN f \cup {k} |-> IF x = k THEN v ELSE f[x]]
Without(f, keys) == Restrict(f, DOMAIN f \ keys)

(* The element is overwritten by the last one, which is then popped.       *)
SwapRemove(s, i) == [j \in 1..(Len(s) - 1) |-> IF j = i THEN s[Len(s)] ELSE s[j]]

Init ==
  /\ \E n \in Names, t \in Bases : models = <<[cref |-> n, tree |-> t]>> /\ index = [x \in {n} |-> 1]
  /\ file = NoFile
  /\ clash = FALSE /\ removed = FALSE
  /\ calls = 0

-----------------------------------------------------------------------------
(* Looking up. *)

(* How many names of c lead from p through sub-systems.                    *)
Through(t, p, c) == Max({k \in 0..Len(c) : p \o SubSeq(c, 1, k) \in DOMAIN t})
Into(t, p, c) == p \o SubSeq(c, 1, Through(t, p, c))
Rest(t, p, c) == SubSeq(c, Through(t, p, c) + 1, Len(c))

IsIdent(c) == Len(c) = 1

(* The connectors c may refer to: at most one.                             *)
GetConnector(t, p, c) ==
  LET s == t[Into(t, p, c)]  r == Rest(t, p, c) IN
    IF r = << >> THEN {}
    ELSE IF Head(r) \in DOMAIN s.components
         THEN LET inside == s.components[Head(r)].connectors IN
                IF Len(r) = 2 /\ r[2] \in DOMAIN inside THEN {inside[r[2]]} ELSE {}
         ELSE IF IsIdent(r) /\ Head(r) \in DOMAIN s.connectors
              THEN {s.connectors[Head(r)]} ELSE {}

HasSystem(t, p, n) == Append(p, n) \in DOMAIN t
HasComponent(t, p, n) == n \in DOMAIN t[p].components

ValidCref(t, p, c) ==
  /\ IsIdent(c)
  /\ ~HasSystem(t, p, c[1])
  /\ ~HasComponent(t, p, c[1])
  /\ GetConnector(t, p, c) = {}

(* The buses, or TLM buses, of that name in the system c leads to, if it   *)
(* leads into a sub-system of p at all.                                    *)
BusesAt(t, p, c) ==
  {n \in DOMAIN t[Into(t, p, c)].buses : <<t[Into(t, p, c)].buses[n].name>> = Rest(t, p, c)}
TLMBusesAt(t, p, c) ==
  {n \in DOMAIN t[Into(t, p, c)].tlmbuses : <<t[Into(t, p, c)].tlmbuses[n].name>> = Rest(t, p, c)}
IsBusEnd(t, p, c) == Through(t, p, c) > 0 /\ BusesAt(t, p, c) # {}

(* A connector of the system itself is seen from inside.                   *)
Gives(k, c) == k.causality = IF IsIdent(c) THEN "input" ELSE "output"
Takes(k, c) == k.causality = IF IsIdent(c) THEN "output" ELSE "input"

ContainsSignal(connection, c) == connection.a = c \/ connection.b = c
IsEqual(connection, a, b) == {connection.a, connection.b} = {a, b}
Connected(s, a, b) == \E n \in DOMAIN s.connections : IsEqual(s.connections[n], a, b)

(* How far a and b lead into the same sub-system.                          *)
Common(t, p, a, b) ==
  Max({k \in 0..Min({Len(a), Len(b)}) :
         SubSeq(a, 1, k) = SubSeq(b, 1, k) /\ p \o SubSeq(a, 1, k) \in DOMAIN t})

-----------------------------------------------------------------------------
(* Systems, sub-models and connectors. *)

(* The types of system another one, or the model itself, may contain.      *)
Nested(type) == CASE type = "model" -> {"tlm", "wc", "sc"}
                  [] type = "tlm" -> {"wc"}
                  [] type = "wc" -> {"sc"}
                  [] OTHER -> {}

Component(kind) == [kind |-> kind, connectors |-> Kinds[kind]]

AddSubModel(t, p, c, kind) ==
  LET q == p \o Front(c)  n == Last(c) IN
    IF /\ q \in DOMAIN t
       /\ ValidCref(t, q, <<n>>)
       /\ \/ kind = "table"
          \/ kind = "cs" /\ t[q].type = "wc"
          \/ kind = "me" /\ t[q].type = "sc"
    THEN [t EXCEPT ![q].components = Put(@, n, Component(kind))] ELSE t

(* The name is not checked: a component that has it is replaced.           *)
AddExternalModel(t, p, c) ==
  IF t[p].type = "tlm" /\ IsIdent(c)
  THEN [t EXCEPT ![p].components = Put(@, c[1], Component("external"))] ELSE t

(* Model::addSystem, System::addSubSystem and System::NewSystem; c starts  *)
(* with the top-level system.  The name may be that of a connector.        *)
AddSystem(t, c, type) ==
  LET parent == Front(c)
      inside == IF IsIdent(c) THEN "model" ELSE t[parent].type
  IN
    IF /\ IF IsIdent(c) THEN t = NoTree
          ELSE parent \in DOMAIN t /\ ~HasComponent(t, parent, Last(c))
       /\ c \notin DOMAIN t
       /\ type \in Nested(inside)
    THEN Put(t, c, Empty(type)) ELSE t

AddConnector(t, p, c, connector) ==
  LET q == Into(t, p, c)  r == Rest(t, p, c) IN
    IF t[q].type # "tlm" /\ ValidCref(t, q, r)
    THEN [t EXCEPT ![q].connectors = Put(@, r[1], connector)] ELSE t

(* deleteAllConectionsTo is given the name of an element, and looks for    *)
(* connections to exactly that: those to the connectors of the element     *)
(* stay.  In place of one that is deleted the last one is looked at, so    *)
(* that it has looked at m connections when the one at x.i is next.        *)
Sweep(connections, n) ==
  LET swept[m \in 0..Len(connections)] ==
        IF m = 0 THEN [left |-> connections, i |-> 1]
        ELSE LET x == swept[m - 1] IN
               IF ContainsSignal(x.left[x.i], <<n>>)
               THEN [x EXCEPT !.left = SwapRemove(@, x.i)] ELSE [x EXCEPT !.i = @ + 1]
  IN swept[Len(connections)].left

DeleteAllConectionsTo(s, n) == [s EXCEPT !.connections = Sweep(@, n)]

(* System::delete_ below the top-level system.                             *)

Delete(t, p, c) ==
  LET q == p \o Front(c)  n == Last(c)  whole == Append(q, n) IN
    IF q \notin DOMAIN t THEN t
    ELSE IF whole \in DOMAIN t
    THEN Without([t EXCEPT ![q] = DeleteAllConectionsTo(@, n)],
                 {x \in DOMAIN t : IsPrefix(whole, x)})
    ELSE IF HasComponent(t, q, n)
    THEN [t EXCEPT ![q] = [DeleteAllConectionsTo(@, n) EXCEPT !.components = Without(@, {n})]]
    ELSE [t EXCEPT ![q].connectors = Without(@, {n})]

-----------------------------------------------------------------------------
(* Connections. *)

Append1(t, q, connection) == [t EXCEPT ![q].connections = Append(@, connection)]

(* Mutant: only the second end is looked for among the connections.        *)
FreeSecond(s, conA, a, conB, b) ==
  \A n \in DOMAIN s.connections :
    ~(conB.causality = "input" /\ ContainsSignal(s.connections[n], b))

(* An input is connected once.                                             *)
Free(s, conA, a, conB, b) ==
  \A n \in DOMAIN s.connections :
    /\ ~(conA.causality = "input" /\ ContainsSignal(s.connections[n], a))
    /\ ~(conB.causality = "input" /\ ContainsSignal(s.connections[n], b))

(* Mutant: the causality is not flipped for the system's own connectors.   *)
FitsUnflipped(conA, a, conB, b) ==
  conA.causality # conB.causality

Fits(conA, a, conB, b) ==
  /\ ~(IsIdent(a) /\ IsIdent(b))
  /\ \/ Gives(conA, a) /\ Takes(conB, b)
     \/ Gives(conB, b) /\ Takes(conA, a)

(* Connecting a and b in the system q itself: two buses of sub-systems, or *)
(* two connectors, the one that gives its value first.                     *)
Connect(t, q, a, b) ==
  LET ends == GetConnector(t, q, a) \X GetConnector(t, q, b)
      given == \E e \in ends : Gives(e[1], a)
  IN
    IF Connected(t[q], a, b) THEN t
    ELSE IF IsBusEnd(t, q, a) /\ IsBusEnd(t, q, b)
    THEN Append1(t, q, [a |-> a, b |-> b, kind |-> "bus", delay |-> 0])
    ELSE IF \E e \in ends : /\ e[1].type = e[2].type
                            /\ Free(t[q], e[1], a, e[2], b) /\ Fits(e[1], a, e[2], b)
    THEN Append1(t, q, [a |-> IF given THEN a ELSE b, b |-> IF given THEN b ELSE a,
                        kind |-> "single", delay |-> 0])
    ELSE t

AddConnection(t, p, a, b) ==
  LET k == Common(t, p, a, b) IN
    Connect(t, p \o SubSeq(a, 1, k), SubSeq(a, k + 1, Len(a)), SubSeq(b, k + 1, Len(b)))

(* Every system on the way is searched before the next one.                *)
DeleteConnection(t, p, a, b) ==
  LET At(k) == p \o SubSeq(a, 1, k)
      Positions(k) == {n \in DOMAIN t[At(k)].connections :
                         IsEqual(t[At(k)].connections[n], SubSeq(a, k + 1, Len(a)),
                                                          SubSeq(b, k + 1, Len(b)))}
      levels == {k \in 0..Common(t, p, a, b) : Positions(k) # {}}
      k == Min(levels)
  IN IF levels = {} THEN t
     ELSE [t EXCEPT ![At(k)].connections = SwapRemove(@, Min(Positions(k)))]

(* Only in the top-level system; sub-systems are no TLM systems.           *)
AddTLMConnection(t, p, a, b, delay) ==
  LET Delayed(u, c) == [u EXCEPT ![Into(t, p, c)].tlmbuses =
        [n \in DOMAIN @ |-> IF n = Min(TLMBusesAt(t, p, c)) THEN [@[n] EXCEPT !.delay = delay]
                           ELSE @[n]]]
  IN IF /\ t[p].type = "tlm" /\ Common(t, p, a, b) = 0
        /\ Through(t, p, a) > 0 /\ TLMBusesAt(t, p, a) # {}
        /\ Through(t, p, b) > 0 /\ TLMBusesAt(t, p, b) # {}
     THEN Append1(Delayed(Delayed(t, a), b), p, [a |-> a, b |-> b, kind |-> "tlm", delay |-> delay])
     ELSE t

-----------------------------------------------------------------------------
(* Buses.  Their names are checked against nothing but elements. *)

BusAllowed(t, p, c) ==
  LET q == Into(t, p, c)  r == Rest(t, p, c) IN
    IsIdent(r) /\ ~HasComponent(t, q, r[1]) /\ t[q].type # "tlm"

AddBus(t, p, c) ==
  IF BusAllowed(t, p, c)
  THEN [t EXCEPT ![Into(t, p, c)].buses = Append(@, [name |-> Last(c), signals |-> << >>])]
  ELSE t

AddTLMBus(t, p, c) ==
  IF BusAllowed(t, p, c)
  THEN [t EXCEPT ![Into(t, p, c)].tlmbuses =
          Append(@, [name |-> Last(c), signals |-> NoTree, sorted |-> << >>, delay |-> 0])]
  ELSE t

(* The system bus and connector lead to, and what is left of the two.      *)
Together(t, p, b, c) == p \o SubSeq(b, 1, Common(t, p, b, c))
Left(t, p, b, c, x) == SubSeq(x, Common(t, p, b, c) + 1, Len(x))

OnBuses(s, r, F(_)) ==
  [n \in DOMAIN s |-> IF <<s[n].name>> = r THEN F(s[n]) ELSE s[n]]

(* The connector need not exist.                                           *)
AddConnectorToBus(t, p, b, c) ==
  LET q == Together(t, p, b, c)
      Add(bus) == [bus EXCEPT !.signals = Append(@, Left(t, p, b, c, c))]
  IN IF t[q].type = "tlm" THEN t
     ELSE [t EXCEPT ![q].buses = OnBuses(@, Left(t, p, b, c, b), Add)]

DeleteConnectorFromBus(t, p, b, c) ==
  LET q == Together(t, p, b, c)
      at(bus) == {n \in DOMAIN bus.signals : bus.signals[n] = Left(t, p, b, c, c)}
      Drop(bus) == IF at(bus) = {} THEN bus
                   ELSE [bus EXCEPT !.signals = RemoveAt(@, Min(at(bus)))]
  IN IF t[q].type = "tlm" THEN t
     ELSE [t EXCEPT ![q].buses = OnBuses(@, Left(t, p, b, c, b), Drop)]

(* sortConnectors: when all are there they are appended to what was sorted *)
(* before.                                                                 *)
Sorted(bus) ==
  IF DOMAIN bus.signals = ToSet(TLMTypes)
  THEN [bus EXCEPT !.sorted = @ \o [n \in DOMAIN TLMTypes |-> bus.signals[TLMTypes[n]]]]
  ELSE bus

(* The map of a TLM bus keeps the connector a type has already.            *)
AddConnectorToTLMBus(t, p, b, c, type) ==
  LET q == Together(t, p, b, c)  r == Left(t, p, b, c, c)
      Add(bus) == Sorted([bus EXCEPT !.signals =
                            IF type \in DOMAIN @ THEN @ ELSE Put(@, type, r)])
  IN IF /\ t[q].type # "tlm" /\ IsIdent(r) /\ r[1] \in DOMAIN t[q].connectors
        /\ type \in ToSet(TLMTypes)
     THEN [t EXCEPT ![q].tlmbuses = OnBuses(@, Left(t, p, b, c, b), Add)] ELSE t

DeleteConnectorFromTLMBus(t, p, b, c) ==
  LET q == Together(t, p, b, c)
      at(bus) == {x \in DOMAIN bus.signals : bus.signals[x] = Left(t, p, b, c, c)}
      Drop(bus) == Sorted([bus EXCEPT !.signals = Without(@, {CHOOSE x \in at(bus) : TRUE})])
      named(s) == {n \in DOMAIN s : <<s[n].name>> = Left(t, p, b, c, b)}
  IN IF t[q].type = "tlm" THEN t
     ELSE [t EXCEPT ![q].tlmbuses = [n \in DOMAIN @ |->
             IF n \in named(@) /\ \A m \in named(@) : m <= n => at(@[m]) # {}
             THEN Drop(@[n]) ELSE @[n]]]

-----------------------------------------------------------------------------
(* System::updateDependencyGraphs of p accepts the connections in it and   *)
(* in its sub-systems. *)
Joins(t, q, e) ==
  \E conA \in GetConnector(t, q, e.a), conB \in GetConnector(t, q, e.b) :
    Gives(conA, e.a) /\ Takes(conB, e.b)
AcceptedIn(t, q) ==
  \A n \in DOMAIN t[q].connections :
    t[q].connections[n].kind = "single" => Joins(t, q, t[q].connections[n])
Accepted(t, p) == \A q \in {x \in DOMAIN t : IsPrefix(p, x)} : AcceptedIn(t, q)

-----------------------------------------------------------------------------
(* Export and import. *)

(* The connections whose kind is one of kinds.                             *)
OfKind(connections, kinds) ==
  FlattenSeq([n \in DOMAIN connections |->
    IF connections[n].kind \in kinds THEN <<connections[n]>> ELSE << >>])

(* The type attribute of a component, the same for both kinds of FMU; an   *)
(* external model has none.                                                *)
TypeAttribute(kind) == CASE kind \in {"cs", "me"} -> "fmu"
                         [] kind = "table" -> "table"
                         [] OTHER -> ""

(* The archive has the file that the import opens for the component n: a   *)
(* table, or an FMU for co-simulation of that name, of whatever system.  A *)
(* model-exchange FMU is not copied when it is added.                      *)
Archived(t, p, n) ==
  \/ t[p].components[n].kind = "table"
  \/ \E q \in DOMAIN t : n \in DOMAIN t[q].components /\ t[q].components[n].kind = "cs"

ExportComponent(t, p, n) ==
  [type |-> TypeAttribute(t[p].components[n].kind), archived |-> Archived(t, p, n),
   connectors |-> t[p].components[n].connectors]

(* Bound: a delay is a number of tenths of the last of the six decimals    *)
(* that std::to_string writes.                                             *)
Written(delay) == 10 * ((delay + 5) \div 10)
ExportConnection(connection) == [connection EXCEPT !.delay = Written(@)]

(* System::exportToSSD: the connections by kind, the other ones in an      *)
(* annotation after the buses.                                             *)
ExportToSSD(t) ==
  [p \in DOMAIN t |->
    [type |-> t[p].type, connectors |-> t[p].connectors,
     components |-> [n \in DOMAIN t[p].components |-> ExportComponent(t, p, n)],
     connections |-> OfKind(t[p].connections, {"single"}),
     buses |-> t[p].buses,
     tlmbuses |-> [n \in DOMAIN t[p].tlmbuses |->
                     [name |-> t[p].tlmbuses[n].name, signals |-> t[p].tlmbuses[n].signals]],
     busconnections |-> [n \in DOMAIN OfKind(t[p].connections, {"bus", "tlm"}) |->
                           ExportConnection(OfKind(t[p].connections, {"bus", "tlm"})[n])]]]

(* The calls that System::importFromSSD makes for the system p, once it is *)
(* there and those in it have been read.                                   *)
Steps(document, p) ==
  LET d == document[p]
      Step(call, of) == [call |-> call, at |-> p, of |-> of]
      Bus(bus) == <<Step("bus", bus)>>
        \o [m \in DOMAIN bus.signals |-> Step("signal", [bus |-> bus, signal |-> bus.signals[m]])]
      TLMBus(bus) == <<Step("tlmbus", bus)>>
        \o [m \in DOMAIN TLMTypes |-> Step("tlmsignal", [bus |-> bus, type |-> TLMTypes[m]])]
  IN <<Step("contents", d)>>
       \o [n \in DOMAIN d.connections |-> Step("connection", d.connections[n])]
       \o FlattenSeq([n \in DOMAIN d.buses |-> Bus(d.buses[n])])
       \o FlattenSeq([n \in DOMAIN d.tlmbuses |-> TLMBus(d.tlmbuses[n])])
       \o [n \in DOMAIN d.busconnections |-> Step("connection", d.busconnections[n])]

(* Connector::NewConnector refuses enumerations and strings.               *)
IsRead(connector) == connector.type \in {"real", "integer", "boolean"}

(* Every FMU is read as one for co-simulation.  The connectors that are    *)
(* refused are left out of a component.                                    *)
Found(component) == component.type # "" /\ component.archived
ReadComponent(component) ==
  [kind |-> IF component.type = "fmu" THEN "cs" ELSE component.type,
   connectors |-> Restrict(component.connectors,
                           {n \in DOMAIN component.connectors : IsRead(component.connectors[n])})]

(* A connector of the system itself must not be refused.                   *)
ContentsAreRead(d) ==
  /\ \A n \in DOMAIN d.components : Found(d.components[n])
  /\ \A n \in DOMAIN d.connectors : IsRead(d.connectors[n])

Contents(t, p, d) ==
  [t EXCEPT ![p].components = [n \in DOMAIN d.components |-> ReadComponent(d.components[n])],
            ![p].connectors = d.connectors]

(* A call of addSystem, addConnection and so on has failed if it has       *)
(* changed nothing.  The connectors of a bus are not checked.              *)
Perform(t, step) ==
  LET p == step.at
      d == step.of
      Checked(u) == [ok |-> u # t, tree |-> u]
      Unchecked(u) == [ok |-> TRUE, tree |-> u]
  IN CASE step.call = "system" -> Checked(AddSystem(t, p, d))
       [] step.call = "contents" -> [ok |-> ContentsAreRead(d), tree |-> Contents(t, p, d)]
       [] step.call = "connection" ->
            Checked(IF d.kind = "tlm" THEN AddTLMConnection(t, p, d.a, d.b, d.delay)
                    ELSE AddConnection(t, p, d.a, d.b))
       [] step.call = "bus" -> Checked(AddBus(t, p, <<d.name>>))
       [] step.call = "signal" -> Unchecked(AddConnectorToBus(t, p, <<d.bus.name>>, d.signal))
       [] step.call = "tlmbus" -> Checked(AddTLMBus(t, p, <<d.name>>))
       [] step.call = "tlmsignal" ->
            Unchecked(IF d.type \in DOMAIN d.bus.signals
                      THEN AddConnectorToTLMBus(t, p, <<d.bus.name>>, d.bus.signals[d.type], d.type)
                      ELSE t)

(* The steps in turn, until one fails.                                     *)
Run(steps, start) ==
  LET after[n \in 0..Len(steps)] ==
        IF n = 0 THEN start
        ELSE LET x == after[n - 1] IN IF x.ok THEN Perform(x.tree, steps[n]) ELSE x
  IN after[Len(steps)]

(* Systems nest three deep.                                                *)
AtDepth(document, k) == SetToSeq({p \in DOMAIN document : Len(p) = k})

(* Mutant of ReadingOrder: a system is read before the systems in it.      *)
CreationOrder(document) == AtDepth(document, 1) \o AtDepth(document, 2) \o AtDepth(document, 3)

(* The elements of a system, its sub-systems among them, come first in its *)
(* document.                                                               *)
ReadingOrder(document) == AtDepth(document, 3) \o AtDepth(document, 2) \o AtDepth(document, 1)

(* Model::importFromSSD.                                                   *)
Creation(document) ==
  LET order == CreationOrder(document) IN
    [n \in DOMAIN order |-> [call |-> "system", at |-> order[n], of |-> document[order[n]].type]]
Reading(document) ==
  LET order == ReadingOrder(document) IN FlattenSeq([n \in DOMAIN order |-> Steps(document, order[n])])
ImportFromSSD(document) ==
  Run(Reading(document), Run(Creation(document), [ok |-> TRUE, tree |-> NoTree]))

-----------------------------------------------------------------------------
(* The calls of the client.  A call that is refused changes nothing. *)

Called == calls < MaxCalls /\ calls' = calls + 1
Tree(n) == models[index[n]].tree

AddModel(n, t) ==
  /\ n \notin DOMAIN index
  /\ models' = Append(models, [cref |-> n, tree |-> t])
  /\ index' = Put(index, n, Len(models) + 1)

NewModel ==
  /\ Called
  /\ \E n \in Names : AddModel(n, NoTree)
  /\ UNCHANGED <<file, clash, removed>>

(* Nothing keeps the new name from being that of another model.            *)
RenameModel ==
  /\ Called
  /\ \E n \in DOMAIN index : \E m \in Names \ {n} :
       /\ models' = [models EXCEPT ![index[n]].cref = m]
       /\ index' = Put(Without(index, {n}), m, index[n])
       /\ clash' = (clash \/ m \in DOMAIN index)
  /\ UNCHANGED <<file, removed>>

(* Mutant: the map is not told of the model that takes the free position.  *)
ReindexedNot(m, i) == index

(* The model moved to position i, if there is one.                         *)
Reindexed(m, i) == IF i \in DOMAIN m THEN Put(index, m[i].cref, i) ELSE index

DeleteModel ==
  /\ Called
  /\ \E n \in DOMAIN index :
       /\ models' = SwapRemove(models, index[n])
       /\ index' = Without(Reindexed(SwapRemove(models, index[n]), index[n]), {n})
  /\ UNCHANGED <<file, clash, removed>>

ExportModel ==
  /\ Called
  /\ \E n \in DOMAIN index :
       file' = [cref |-> models[index[n]].cref, document |-> ExportToSSD(Tree(n))]
  /\ UNCHANGED <<models, index, clash, removed>>

(* A model that cannot be imported is deleted again.                       *)
ImportModel ==
  /\ Called
  /\ file # NoFile
  /\ LET r == ImportFromSSD(file.document) IN r.ok /\ AddModel(file.cref, r.tree)
  /\ UNCHANGED <<file, clash, removed>>

Change(n, t) ==
  /\ Called
  /\ t # Tree(n)
  /\ models' = [models EXCEPT ![index[n]].tree = t]
  /\ UNCHANGED <<index, file, clash>>

Top(t) == {p \in DOMAIN t : IsIdent(p)}

CallAddSystem ==
  \E n \in DOMAIN index, c \in Systems, type \in {"tlm", "wc", "sc"} :
    Change(n, AddSystem(Tree(n), c, type)) /\ UNCHANGED removed

(* Model::delete_; the top-level system itself, or a part of it.           *)
CallDelete ==
  \E n \in DOMAIN index : \E p \in Top(Tree(n)) :
    /\ \/ Change(n, NoTree)
       \/ \E c \in Connectors \cup SubModels \cup {Tail(x) : x \in Systems \ {p}} :
            Change(n, Delete(Tree(n), p, c))
    /\ removed' = TRUE

CallAddSubModel ==
  \E n \in DOMAIN index, c \in SubModels, kind \in {"cs", "me", "table"} : \E p \in Top(Tree(n)) :
    Change(n, AddSubModel(Tree(n), p, c, kind)) /\ UNCHANGED removed

CallAddExternalModel ==
  \E n \in DOMAIN index, c \in SubModels : \E p \in Top(Tree(n)) :
    /\ Change(n, AddExternalModel(Tree(n), p, c))
    /\ removed' = (removed \/ HasComponent(Tree(n), p, Head(c)))

CallAddConnector ==
  \E n \in DOMAIN index, c \in Connectors, causality \in {"input", "output"},
     type \in {"real", "enum"} : \E p \in Top(Tree(n)) :
    /\ Change(n, AddConnector(Tree(n), p, c, [causality |-> causality, type |-> type]))
    /\ UNCHANGED removed

CallAddConnection ==
  \E n \in DOMAIN index, a \in Ends, b \in Ends : \E p \in Top(Tree(n)) :
    Change(n, AddConnection(Tree(n), p, a, b)) /\ UNCHANGED removed

CallDeleteConnection ==
  \E n \in DOMAIN index, a \in Ends, b \in Ends : \E p \in Top(Tree(n)) :
    Change(n, DeleteConnection(Tree(n), p, a, b)) /\ UNCHANGED removed

Delays == {10, 14}

CallAddTLMConnection ==
  \E n \in DOMAIN index, a \in Ends, b \in Ends, delay \in Delays : \E p \in Top(Tree(n)) :
    Change(n, AddTLMConnection(Tree(n), p, a, b, delay)) /\ UNCHANGED removed

CallAddBus ==
  \E n \in DOMAIN index, c \in Buses : \E p \in Top(Tree(n)) :
    Change(n, AddBus(Tree(n), p, c)) /\ UNCHANGED removed

CallAddTLMBus ==
  \E n \in DOMAIN index, c \in Buses : \E p \in Top(Tree(n)) :
    Change(n, AddTLMBus(Tree(n), p, c)) /\ UNCHANGED removed

CallAddConnectorToBus ==
  \E n \in DOMAIN index, b \in Buses, c \in Signals : \E p \in Top(Tree(n)) :
    Change(n, AddConnectorToBus(Tree(n), p, b, c)) /\ UNCHANGED removed

CallDeleteConnectorFromBus ==
  \E n \in DOMAIN index, b \in Buses, c \in Signals : \E p \in Top(Tree(n)) :
    Change(n, DeleteConnectorFromBus(Tree(n), p, b, c)) /\ UNCHANGED removed

CallAddConnectorToTLMBus ==
  \E n \in DOMAIN index, b \in Buses, c \in Signals, v \in ToSet(TLMTypes) : \E p \in Top(Tree(n)) :
    Change(n, AddConnectorToTLMBus(Tree(n), p, b, c, v)) /\ UNCHANGED removed

CallDeleteConnectorFromTLMBus ==
  \E n \in DOMAIN index, b \in Buses, c \in Signals : \E p \in Top(Tree(n)) :
    Change(n, DeleteConnectorFromTLMBus(Tree(n), p, b, c)) /\ UNCHANGED removed

Done == calls = MaxCalls /\ UNCHANGED vars

Next ==
  \/ NewModel \/ RenameModel \/ DeleteModel \/ ExportModel \/ ImportModel
  \/ CallAddSystem \/ CallDelete \/ CallAddSubModel \/ CallAddExternalModel
  \/ CallAddConnector \/ CallAddConnection \/ CallDeleteConnection \/ CallAddTLMConnection
  \/ CallAddBus \/ CallAddTLMBus \/ CallAddConnectorToBus \/ CallDeleteConnectorFromBus
  \/ CallAddConnectorToTLMBus \/ CallDeleteConnectorFromTLMBus
  \/ Done

Spec == Init /\ [][Next]_vars

-----------------------------------------------------------------------------
Trees == {models[n].tree : n \in DOMAIN models}

(* models_map and models agree, whatever models are created, renamed,      *)
(* imported and deleted (Scope.cpp): every entry leads to the model of its *)
(* name, and every model is found under its name as long as no model is    *)
(* given the name of another.                                              *)
Registered ==
  /\ \A n \in DOMAIN index : index[n] \in DOMAIN models /\ models[index[n]].cref = n
  /\ ~clash => \A i \in DOMAIN models : models[i].cref \in DOMAIN index /\ index[models[i].cref] = i

(* System::addConnection: an input of an element has one driver, also when *)
(* the element was deleted, its connections staying behind, and another    *)
(* one has got its name.  (Outputs of the system itself may have several.) *)
Driven(s) ==
  \A m, n \in DOMAIN s :
    s[m].kind = "single" /\ s[n].kind = "single" /\ s[m].b = s[n].b /\ Len(s[m].b) > 1 => m = n
OneDriver == \A t \in Trees : \A p \in DOMAIN t : Driven(t[p].connections)

(* A system may have the name of a connector: it hides it.                 *)
Hides(t) == \E p \in DOMAIN t : \E n \in DOMAIN t[p].connectors : HasSystem(t, p, n)

(* The tests of addConnection, made when the connection is added, and of   *)
(* updateDependencyGraphs, made at the initialisation (and, for a TLM      *)
(* system, by exportDependencyGraphs), agree: what was built without       *)
(* deleting, replacing and hiding anything is accepted.                    *)
BuiltIsAccepted ==
  \A t \in Trees : ~removed /\ ~Hides(t) => \A p \in DOMAIN t : Accepted(t, p)

NamesOf(t, p) ==
  SetToSeq({Last(x) : x \in {y \in DOMAIN t : ~IsIdent(y) /\ Front(y) = p}})
    \o SetToSeq(DOMAIN t[p].connectors) \o SetToSeq(DOMAIN t[p].components)
    \o [n \in DOMAIN t[p].buses |-> t[p].buses[n].name]
    \o [n \in DOMAIN t[p].tlmbuses |-> t[p].tlmbuses[n].name]

(* What importFromSSD refuses: external models, model-exchange FMUs (but   *)
(* where the file of another FMU has their name), and enumerations and     *)
(* strings that are connectors of a system or are connected.               *)
Importable(t) ==
  \A p \in DOMAIN t :
    /\ \A n \in DOMAIN t[p].components :
         t[p].components[n].kind # "external" /\ Archived(t, p, n)
    /\ \A n \in DOMAIN t[p].connectors : IsRead(t[p].connectors[n])
    /\ \A n \in DOMAIN t[p].connections :
         \A k \in GetConnector(t, p, t[p].connections[n].a) : IsRead(k)

(* The document without the connectors that components lose.               *)
WithoutRefused(document) ==
  [p \in DOMAIN document |->
    [document[p] EXCEPT !.components =
      [n \in DOMAIN @ |-> [@[n] EXCEPT !.connectors = ReadComponent(document[p].components[n]).connectors]]]]

(* oms3_export and oms3_import: a model none of whose parts was deleted    *)
(* and whose systems use no name twice can be imported again exactly when  *)
(* nothing in it is refused, and what has been imported is exported as     *)
(* before but for the connectors that components lose.                     *)
RoundTrip ==
  \A t \in Trees :
    ~removed /\ (\A p \in DOMAIN t : IsInjective(NamesOf(t, p))) =>
      LET document == ExportToSSD(t)
          r == ImportFromSSD(document)
      IN /\ r.ok <=> Importable(t)
         /\ r.ok => ExportToSSD(r.tree) = WithoutRefused(document)

-----------------------------------------------------------------------------
(* What is inductive. *)

Refs == Seq(STRING)
Connection == [a : Refs, b : Refs, kind : {"single", "bus", "tlm"}, delay : Nat]
Bus == [name : STRING, signals : Seq(Refs)]
IsList(s) == s \in Seq({s[n] : n \in DOMAIN s})

(* The TLM buses of a system, or of one in a document.                     *)
NamesRefs(bus) == bus.name \in STRING /\ \A x \in DOMAIN bus.signals : bus.signals[x] \in Refs
TLMBusOK(bus) ==
  /\ bus = [name |-> bus.name, signals |-> bus.signals, sorted |-> bus.sorted, delay |-> bus.delay]
  /\ NamesRefs(bus)

(* A TLM system has no connectors of its own.                              *)
SystemOK(s) ==
  /\ s = [type |-> s.type, connectors |-> s.connectors, components |-> s.components,
          connections |-> s.connections, buses |-> s.buses, tlmbuses |-> s.tlmbuses]
  /\ s.connections \in Seq(Connection)
  /\ s.buses \in Seq(Bus)
  /\ IsList(s.tlmbuses) /\ \A n \in DOMAIN s.tlmbuses : TLMBusOK(s.tlmbuses[n])
  /\ s.type = "tlm" => DOMAIN s.connectors = {}
TreeOK(t) ==
  /\ t = [p \in DOMAIN t |-> t[p]]
  /\ DOMAIN t \subseteq Refs /\ IsFiniteSet(DOMAIN t)
  /\ \A p \in DOMAIN t : SystemOK(t[p])

(* A tree as its model may have it: nothing in it has two drivers, and it  *)
(* is accepted as long as nothing is lost and nothing hidden.              *)
Sound(t, lost) ==
  /\ TreeOK(t)
  /\ \A p \in DOMAIN t : Driven(t[p].connections)
  /\ ~lost /\ ~Hides(t) => \A p \in DOMAIN t : AcceptedIn(t, p)

(* The document of a tree has lists where the tree has them.               *)
DocumentOK(document) ==
  /\ DOMAIN document \subseteq Refs /\ IsFiniteSet(DOMAIN document)
  /\ \A p \in DOMAIN document :
       /\ document[p].connections \in Seq(Connection)
       /\ document[p].busconnections \in Seq(Connection)
       /\ document[p].buses \in Seq(Bus)
       /\ IsList(document[p].tlmbuses)
       /\ \A n \in DOMAIN document[p].tlmbuses : NamesRefs(document[p].tlmbuses[n])
       /\ document[p].type = "tlm" => DOMAIN document[p].connectors = {}

IInv ==
  /\ IsList(models)
  /\ \A n \in DOMAIN models :
       /\ models[n] = [cref |-> models[n].cref, tree |-> models[n].tree]
       /\ Sound(models[n].tree, removed)
  /\ removed \in BOOLEAN
  /\ DocumentOK(file.document)
  /\ Registered

(* References have at least one name.  A model is built up from a tree     *)
(* that calls have built.                                                  *)
ASSUME ReferencesAssumption ==
  /\ Systems \cup Connectors \cup SubModels \cup Ends \cup Buses \cup Signals \subseteq Refs \ {<< >>}
  /\ TLMTypes \in Seq(STRING)
ASSUME BasesAssumption == \A t \in Bases : Sound(t, FALSE)
=============================================================================
