-------------------------------- MODULE Values -------------------------------
(***************************************************************************)
(* The values of an oms3 model: a weakly coupled top-level system with     *)
(* sub-systems, FMUs and connectors (System.cpp, SystemWC.cpp,             *)
(* ComponentFMUCS.cpp, Model.cpp).  The client adds and deletes            *)
(* connectors, sets values, instantiates, initialises, steps, changes the  *)
(* result file and terminates, in any order; a system copies outputs to    *)
(* inputs and every signal goes to its column of the result file.          *)
(*                                                                         *)
(* FMUs are external: the outputs are computed from the first input of     *)
(* their type when the FMU leaves the initialisation mode and at every     *)
(* step; inputs can be set at any time, parameters in the initialisation   *)
(* mode only.  Values are small integers.  A signal is <<owner, name,      *)
(* type>>, where the owner is an FMU or, for a connector, a system.        *)
(***************************************************************************)
EXTENDS Integers, SequencesExt, FiniteSetsExt, Functions

CONSTANTS
  Top,           (* the top-level system                                    *)
  SubSystems,    (* its sub-systems, in the order of their names            *)
  Components,    (* system -> sequence of FMUs                              *)
  Variables,     (* FMU -> sequence of records name, type, causality, start *)
  Drafts,        (* sets of connectors that a system has at first           *)
  Connectors,    (* those the client adds: records name, type, causality    *)
  Wirings,       (* system -> sequence of groups of connections: records    *)
                 (* from, to, each an <<owner, name>>, in sorted order      *)
  Settings,      (* type -> the values the client sets                      *)
  StepSize, StopTime, MaxCalls

VARIABLES
  modelState,
  wiring,        (* one of Wirings                                          *)
  connectors,    (* system -> sequence of connectors                        *)
  value,         (* signal -> value: the maps of the systems, and the FMUs  *)
  sorted,        (* system -> the sorted connections, since initialize      *)
  mapping,       (* owner -> resultFileMapping, from IDs to indices         *)
  signals,       (* the signals of the writer by ID; none without a writer  *)
  emitted,       (* the rows of the last call: records row, true            *)
  time,
  deleted,       (* a connector was deleted since the registration          *)
  fault,         (* a NULL pointer, memory outside of the row, or an FMU in *)
                 (* the wrong mode has been used                            *)
  calls

vars == <<modelState, wiring, connectors, value, sorted, mapping, signals,
          emitted, time, deleted, fault, calls>>
file == <<mapping, signals, emitted, deleted>>

Systems == ToSet(SubSystems) \cup {Top}
FMUs == UNION {ToSet(Components[s]) : s \in Systems}
Start == 0
Garbage == -99
Types == {"real", "int", "bool"}

-----------------------------------------------------------------------------
(* Reading and setting. *)

(* Of an FMU every variable has a value, of a system the connectors that   *)
(* it has now; what was never set is 0.                                    *)
HasVariable(x) ==
  \E i \in DOMAIN Variables[x[1]] :
    Variables[x[1]][i].name = x[2] /\ Variables[x[1]][i].type = x[3]
HasConnector(cs, x) ==
  \E i \in DOMAIN cs[x[1]] : cs[x[1]][i].name = x[2] /\ cs[x[1]][i].type = x[3]
Has(cs, x) == IF x[1] \in FMUs THEN HasVariable(x) ELSE HasConnector(cs, x)
Get(v, x) == IF x \in DOMAIN v THEN v[x] ELSE 0

Causality(f, name) ==
  LET i == CHOOSE i \in DOMAIN Variables[f] : Variables[f][i].name = name
  IN Variables[f][i].causality
Accepts(x, initializing) ==
  \/ Causality(x[1], x[2]) = "input"
  \/ Causality(x[1], x[2]) = "parameter" /\ initializing

SetVariable(v, x, n, initializing) ==
  IF HasVariable(x) /\ Accepts(x, initializing) THEN [v EXCEPT ![x] = n] ELSE v
SetConnector(cs, v, x, n) == IF HasConnector(cs, x) THEN (x :> n) @@ v ELSE v
Set(cs, v, x, n, initializing) ==
  IF x[1] \in FMUs THEN SetVariable(v, x, n, initializing) ELSE SetConnector(cs, v, x, n)

(* The FMU computes its outputs.                                           *)
Started(v, f) ==
  [x \in {<<f, Variables[f][i].name, Variables[f][i].type>> : i \in DOMAIN Variables[f]} |->
     LET i == CHOOSE i \in DOMAIN Variables[f] : Variables[f][i].name = x[2]
     IN Variables[f][i].start] @@ v
Stepped(v, f, t) ==
  LET Source(type) ==
        LET found == {i \in DOMAIN Variables[f] :
                        Variables[f][i].causality = "input" /\ Variables[f][i].type = type}
        IN IF found = {} THEN 0 ELSE v[<<f, Variables[f][Min(found)].name, type>>]
      Output(acc, u) ==
        IF u.causality # "output" THEN acc
        ELSE [acc EXCEPT ![<<f, u.name, u.type>>] = u.start + t + Source(u.type)]
  IN FoldLeft(Output, v, Variables[f])
AllStepped(v, s, t) == FoldLeft(LAMBDA acc, f : Stepped(acc, f, t), v, Components[s])

-----------------------------------------------------------------------------
(* Outputs go to inputs. *)

(* updateDependencyGraphs: the connections whose ends there are, with the  *)
(* type of the input.                                                      *)
TypesOf(cs, p) == {type \in Types : Has(cs, <<p[1], p[2], type>>)}
Accepted(cs, s) ==
  \A i \in DOMAIN wiring[s] : \A j \in DOMAIN wiring[s][i] :
    LET c == wiring[s][i][j] IN TypesOf(cs, c.from) # {} /\ TypesOf(cs, c.to) # {}
Sorted(cs, s) ==
  [i \in DOMAIN wiring[s] |-> [j \in DOMAIN wiring[s][i] |->
     LET c == wiring[s][i][j] IN
       [from |-> c.from, to |-> c.to, type |-> CHOOSE type \in TypesOf(cs, c.to) : TRUE]]]

(* What is copied: nothing from the first loop or the first connection     *)
(* that is not real on.                                                    *)
Single(group) == Len(group) = 1 /\ group[1].type = "real"
Followed(groups) ==
  SelectSeq([i \in DOMAIN groups |-> <<i, groups[i][1]>>],
            LAMBDA c : \A j \in 1..c[1] : Single(groups[j]))
Passes(groups) == \A i \in DOMAIN groups : Single(groups[i])

(* The value of a signal that cannot be read is 0.                         *)
UpdateInputs(cs, v, groups) ==
  LET Copy(acc, c) ==
        LET from == Append(c[2].from, "real") IN
          Set(cs, acc, Append(c[2].to, "real"), IF Has(cs, from) THEN Get(acc, from) ELSE 0, FALSE)
  IN FoldLeft(Copy, v, Followed(groups))

-----------------------------------------------------------------------------
(* The result file. *)

(* FMUs, sub-systems, connectors: the owners in the order of their IDs.    *)
Owners == FlattenSeq([n \in DOMAIN SubSystems |-> Components[SubSystems[n]] \o <<SubSystems[n]>>])
Order == Components[Top] \o Owners \o <<Top>>

Listed(cs, o) == IF o \in FMUs THEN Variables[o] ELSE cs[o]
(* Parameters of FMUs are no columns.                                      *)
Columns(cs, o) ==
  SelectSeq([i \in DOMAIN Listed(cs, o) |-> i],
            LAMBDA i : o \notin FMUs \/ Listed(cs, o)[i].causality # "parameter")

(* ID 1 is the clock of the model.                                         *)
All(cs) ==
  <<<<"clock">>>> \o FlattenSeq([n \in DOMAIN Order |->
     LET o == Order[n] IN
       [k \in DOMAIN Columns(cs, o) |-> LET u == Listed(cs, o)[Columns(cs, o)[k]]
                                        IN <<o, u.name, u.type>>]])

Mapped(cs, all, o) ==
  LET columns == Columns(cs, o)
      first == Min({id \in DOMAIN all : all[id][1] = o} \cup {Len(all) + 1})
  IN [id \in first..(first + Len(columns) - 1) |-> columns[id - first + 1]]

(* Mutant: the mapping of an earlier registration stays.                   *)
RegisterKept(cs) ==
  LET all == All(cs) IN [o \in DOMAIN mapping |-> Mapped(cs, all, o) @@ mapping[o]]
(* registerSignalsForResultFile: the mappings are new.                     *)
Register(cs) == LET all == All(cs) IN [o \in DOMAIN mapping |-> Mapped(cs, all, o)]

(* updateSignals: the connector that an ID is mapped to is looked up by    *)
(* its position, and read by its name.                                     *)
Outside(cs, m, w) ==
  \E o \in DOMAIN m : \E id \in DOMAIN m[o] : id > Len(w) \/ m[o][id] > Len(Listed(cs, o))
Cell(cs, v, m, w, id) ==
  LET o == CHOOSE o \in DOMAIN m : id \in DOMAIN m[o]
      u == Listed(cs, o)[m[o][id]]
  IN IF u.type = w[id][3] THEN Get(v, <<o, u.name, u.type>>) ELSE Garbage

(* Model::emit, and what the row should be.                                *)
Emit(cs, v, m, w) ==
  IF Outside(cs, m, w) THEN [row |-> << >>, true |-> << >>]
  ELSE [row |-> [id \in 2..Len(w) |-> Cell(cs, v, m, w, id)],
        true |-> [id \in 2..Len(w) |-> Get(v, w[id])]]

-----------------------------------------------------------------------------
(* The calls. *)

Init ==
  /\ modelState = "terminated"
  /\ wiring \in Wirings
  /\ connectors \in Drafts
  /\ value = << >>
  /\ sorted = [s \in Systems |-> << >>]
  /\ mapping = [o \in Systems \cup FMUs |-> << >>]
  /\ signals = << >> /\ emitted = << >>
  /\ time = Start
  /\ deleted = FALSE /\ fault = FALSE /\ calls = 0

Called == ~fault /\ calls < MaxCalls /\ calls' = calls + 1

(* addConnector and delete_ of a connector: whatever the state is.         *)
AddConnector(s) ==
  /\ Called
  /\ \E c \in Connectors :
       /\ \A i \in DOMAIN connectors[s] : connectors[s][i].name # c.name
       /\ connectors' = [connectors EXCEPT ![s] = Append(@, c)]
  /\ UNCHANGED <<modelState, wiring, value, sorted, file, time, fault>>

(* The last one takes the place of the one that is deleted.                *)
DeleteConnector(s) ==
  /\ Called
  /\ \E i \in DOMAIN connectors[s] :
       connectors' = [connectors EXCEPT ![s] = Front([@ EXCEPT ![i] = Last(connectors[s])])]
  /\ deleted' = TRUE
  /\ UNCHANGED <<modelState, wiring, value, sorted, mapping, signals, emitted, time, fault>>

SetIn(type) ==
  /\ modelState \in {"instantiated", "simulation"} /\ Called
  /\ \E n \in Settings[type], o \in Systems \cup FMUs :
     \E i \in DOMAIN Listed(connectors, o) :
       value' = Set(connectors, value, <<o, Listed(connectors, o)[i].name, type>>, n,
                    modelState = "instantiated")
  /\ UNCHANGED <<modelState, wiring, connectors, sorted, file, time, fault>>

SetReal == SetIn("real")
SetInteger == SetIn("int")
SetBoolean == SetIn("bool")

Instantiate ==
  /\ modelState = "terminated" /\ Called
  /\ value' = FoldSet(LAMBDA f, v : Started(v, f), value, FMUs)
  /\ modelState' = "instantiated"
  /\ UNCHANGED <<wiring, connectors, sorted, file, time, fault>>

(* SystemWC::initialize: the sub-systems first, each of which copies what  *)
(* its connectors have at that time.                                       *)
InitializeSystem(v, s) ==
  UpdateInputs(connectors, AllStepped(v, s, Start), Sorted(connectors, s))
InitializeAll == InitializeSystem(FoldLeft(InitializeSystem, value, SubSystems), Top)
Ready(s) == Accepted(connectors, s) /\ Passes(Sorted(connectors, s))
SubSystemsReady == \A s \in ToSet(SubSystems) : Ready(s)
NewlySorted == [s \in Systems |-> Sorted(connectors, s)]

Initialize ==
  /\ modelState = "instantiated" /\ Called
  /\ SubSystemsReady /\ Ready(Top)
  /\ modelState' = "simulation" /\ time' = Start
  /\ value' = InitializeAll
  /\ sorted' = NewlySorted
  /\ mapping' = Register(connectors) /\ signals' = All(connectors)
  /\ fault' = Outside(connectors, mapping', signals')
  /\ emitted' = <<Emit(connectors, value', mapping', signals')>>
  /\ deleted' = FALSE
  /\ UNCHANGED <<wiring, connectors>>

(* A connection without one of its ends, a loop or a connection that is    *)
(* not real: of the top-level system the FMUs can be terminated; if it is  *)
(* in a sub-system they are still in the initialisation mode.              *)
InitializeFails ==
  /\ modelState = "instantiated" /\ Called
  /\ ~(SubSystemsReady /\ Ready(Top))
  /\ modelState' = "terminated" /\ time' = Start
  /\ signals' = << >> /\ emitted' = << >>
  /\ fault' = ~SubSystemsReady
  /\ UNCHANGED <<wiring, connectors, value, sorted, mapping, deleted>>

(* Mutant: the inputs are copied before the FMUs have been stepped.        *)
StepSystemLate(v, s, t) == AllStepped(UpdateInputs(connectors, v, sorted[s]), s, t)
StepSystem(v, s, t) == UpdateInputs(connectors, AllStepped(v, s, t), sorted[s])

(* SystemWC::stepUntil, one step: the sub-systems, the FMUs, a row, the    *)
(* inputs, another row.                                                    *)
DoStep ==
  /\ modelState = "simulation" /\ time < StopTime /\ ~fault
  /\ time' = IF time + StepSize > StopTime THEN StopTime ELSE time + StepSize
  /\ LET subs == FoldLeft(LAMBDA v, s : StepSystem(v, s, time'), value, SubSystems)
         all == AllStepped(subs, Top, time')
     IN /\ value' = UpdateInputs(connectors, all, sorted[Top])
        /\ fault' = (signals = << >> \/ Outside(connectors, mapping, signals))
        /\ emitted' = <<Emit(connectors, all, mapping, signals),
                        Emit(connectors, value', mapping, signals)>>
  /\ UNCHANGED <<modelState, wiring, connectors, sorted, mapping, signals, deleted, calls>>

(* A new file in place of one, or none.                                    *)
SetResultFile ==
  /\ signals # << >> /\ Called
  /\ \/ mapping' = Register(connectors) /\ signals' = All(connectors) /\ deleted' = FALSE
     \/ signals' = << >> /\ UNCHANGED <<mapping, deleted>>
  /\ emitted' = << >>
  /\ UNCHANGED <<modelState, wiring, connectors, value, sorted, time, fault>>

Terminate ==
  /\ modelState = "simulation" /\ ~fault
  /\ modelState' = "terminated"
  /\ signals' = << >> /\ emitted' = << >>
  /\ UNCHANGED <<wiring, connectors, value, sorted, mapping, time, deleted, fault, calls>>

(* A model that is only instantiated is initialised for it; if that fails  *)
(* its FMUs are left in different modes.                                   *)
TerminateInstantiated ==
  /\ modelState = "instantiated" /\ Called
  /\ IF SubSystemsReady /\ Ready(Top)
     THEN /\ modelState' = "terminated"
          /\ value' = InitializeAll /\ sorted' = NewlySorted /\ time' = Start
          /\ UNCHANGED fault
     ELSE fault' = TRUE /\ UNCHANGED <<modelState, value, sorted, time>>
  /\ UNCHANGED <<wiring, connectors, file>>

Next ==
  \/ \E s \in Systems : AddConnector(s) \/ DeleteConnector(s)
  \/ SetReal \/ SetInteger \/ SetBoolean
  \/ Instantiate \/ Initialize \/ InitializeFails \/ DoStep
  \/ SetResultFile \/ Terminate \/ TerminateInstantiated

Spec == Init /\ [][Next]_vars

-----------------------------------------------------------------------------
(* The ends of a connection are still connectors as they were when the     *)
(* connections were sorted.                                                *)
Stands(c) == \A p \in {c.from, c.to} : Has(connectors, Append(p, "real"))

(* A step leaves every input with the value of what drives it, except that *)
(* what enters a sub-system through a connector of it is one step old: the *)
(* sub-system has copied it before the system around it did                *)
(* (SystemWC::stepUntil and updateInputs, System::getReal and setReal).    *)
StepPasses ==
  [][DoStep => \A s \in Systems : \A i \in DOMAIN sorted[s] :
       LET c == sorted[s][i][1]  enters == s # Top /\ c.from[1] = s IN
         Stands(c) =>
           Get(value', Append(c.to, "real"))
             = Get(IF enters THEN value ELSE value', Append(c.from, "real"))]_vars

(* Every column has the value of the signal that it was registered for,    *)
(* whatever is added, set or begun anew, and nothing is read or written    *)
(* beside the row, unless a connector was deleted since: the mapping has   *)
(* the connectors by their positions (registerSignalsForResultFile,        *)
(* updateSignals, delete_).                                                *)
ColumnsAreTheirs ==
  ~deleted /\ signals # << >> =>
    /\ ~Outside(connectors, mapping, signals)
    /\ \A n \in DOMAIN emitted : emitted[n].row = emitted[n].true
=============================================================================
