----------------------------- MODULE FMIStructure ----------------------------
(***************************************************************************)
(* The structure of an FMI composite model of oms2 and the methods that    *)
(* change it (FMICompositeModel.cpp, Solver.cpp): FMUs, tables, solvers    *)
(* and connections are added, deleted and renamed in any order, and the    *)
(* model is initialised and loaded again.                                  *)
(*                                                                         *)
(* FMUs and solvers point at each other, so both are objects in memory     *)
(* with an address that is not given out again; a name leads to an         *)
(* address.  A reference is a sequence of identifiers; the client may say  *)
(* <<"f">> or <<"A", "f">> for the sub-model f of its model A.  A method   *)
(* that refuses its arguments returns the model it was given.              *)
(***************************************************************************)
EXTENDS Integers, SequencesExt, FiniteSetsExt

CONSTANTS
  MapOrder     (* every name of a sub-model or a solver, as std::map sorts   *)

None == [x \in {} |-> 0]
Null == 0
Unset == "unset"
Put(f, k, v) == (k :> v) @@ f
Without(f, k) == Restrict(f, DOMAIN f \ {k})

NewModel(name) == [
  name |-> name,
  subModels |-> None,       (* name -> address                               *)
  solvers |-> None,         (* name -> address                               *)
  object |-> None,          (* address -> sub-model: name, parent, kind,      *)
                            (*   solver, realParameters, geometry, activationRatio, fetchAllVars *)
  fmus |-> None,            (* address of a solver -> its FMUs               *)
  method |-> None,          (* address of a solver -> its method             *)
  connections |-> << >>,         (* parent, a and b                          *)
  components |-> {},        (* the cached list of elements, if there is one  *)
  fault |-> FALSE]          (* an FMU was used after it had been deleted     *)

-----------------------------------------------------------------------------
(* Addresses and names. *)

InMemory(m, f) == f \in DOMAIN m.object
Dangling(m) == {f \in UNION {ToSet(m.fmus[s]) : s \in DOMAIN m.fmus} : ~InMemory(m, f)}
Fresh(m) == Max({Null} \cup DOMAIN m.object \cup DOMAIN m.fmus \cup Dangling(m)) + 1

(* All FMUs of the given solvers are used.                                 *)
Use(m, used) ==
  [m EXCEPT !.fault = \E s \in used : \E f \in ToSet(m.fmus[s]) : ~InMemory(m, f)]

Local(c) == <<Last(c)>>
IsIdent(c) == Len(c) = 1
InOrder(f) == SelectSeq(MapOrder, LAMBDA c : c \in DOMAIN f)
IsFMU(m, f) == m.object[f].kind # "table"

GetSubModel(m, c) ==
  IF Local(c) \in DOMAIN m.subModels THEN {m.subModels[Local(c)]} ELSE {}

(* For a reference that is no identifier oms_status_error is returned,     *)
(* which is not false: it counts as valid and unused.                      *)
ValidAndUnusedCref(m, c) ==
  IsIdent(c) => c \notin DOMAIN m.subModels /\ c \notin DOMAIN m.solvers

-----------------------------------------------------------------------------
(* Solver::removeFMU and addFMU. *)

TakeOut(s, i) == [j \in 1..(Len(s) - 1) |-> IF j = i THEN Last(s) ELSE s[j]]

(* All FMUs of that name, except that the one moved into a gap is passed.  *)
RECURSIVE RemoveFrom(_, _, _, _)
RemoveFrom(m, s, c, i) ==
  IF i > Len(m.fmus[s]) THEN m
  ELSE LET f == m.fmus[s][i] IN
    IF ~InMemory(m, f) THEN [m EXCEPT !.fault = TRUE]
    ELSE IF m.object[f].name = c
    THEN RemoveFrom([m EXCEPT !.object[f].solver = Null, !.fmus[s] = TakeOut(@, i)], s, c, i + 1)
    ELSE RemoveFrom(m, s, c, i + 1)

RemoveFMU(m, s, c) == RemoveFrom(m, s, c, 1)

(* Mutant: the FMU stays with the solver it had.                           *)
AddFMUToBoth(m, s, f) ==
  [m EXCEPT !.fmus[s] = Append(@, f), !.object[f].solver = s]
AddFMUTo(m, s, f) ==
  LET freed == IF m.object[f].solver = Null THEN m
               ELSE RemoveFMU(m, m.object[f].solver, m.object[f].name)
  IN [freed EXCEPT !.fmus[s] = Append(@, f), !.object[f].solver = s]

-----------------------------------------------------------------------------
(* Sub-models and solvers. *)

DeleteComponents(m) == [m EXCEPT !.components = {}]

AddSubModel(m, c, kind) ==
  IF ValidAndUnusedCref(m, c)
  THEN DeleteComponents(
         [m EXCEPT !.subModels = Put(@, c, Fresh(m)),
                   !.object = Put(@, Fresh(m), [name |-> c, parent |-> m.name, kind |-> kind, solver |-> Null,
                                                realParameters |-> Unset, geometry |-> Unset,
                                                activationRatio |-> 1, fetchAllVars |-> FALSE])])
  ELSE m

AddSolver(m, c, method) ==
  IF ValidAndUnusedCref(m, c)
  THEN [m EXCEPT !.solvers = Put(@, c, Fresh(m)), !.fmus = Put(@, Fresh(m), << >>),
                 !.method = Put(@, Fresh(m), method)]
  ELSE m

ConnectSolver(m, c, s) ==
  LET Step(acc, k) ==
        IF k = s THEN AddFMUTo(acc, acc.solvers[k], acc.subModels[Local(c)])
        ELSE RemoveFMU(acc, acc.solvers[k], c)
  IN IF \E f \in GetSubModel(m, c) : IsFMU(m, f)
     THEN FoldLeft(Step, m, InOrder(m.solvers)) ELSE m

UnconnectSolver(m, c, s) ==
  IF s \in DOMAIN m.solvers /\ \E f \in GetSubModel(m, c) : IsFMU(m, f)
  THEN RemoveFMU(m, m.solvers[s], c) ELSE m

(* The last connection is moved into the gap, and looked at, too.          *)
RECURSIVE Unconnected(_, _, _)
Unconnected(connections, c, i) ==
  IF i > Len(connections) THEN connections
  ELSE IF c \in {connections[i].a.cref, connections[i].b.cref}
       THEN Unconnected(TakeOut(connections, i), c, i) ELSE Unconnected(connections, c, i + 1)

(* The FMU is freed; its solver is not told.  Connections are compared     *)
(* with the reference as the client gave it.                               *)
DeleteSubModel(m, c) ==
  IF c \in DOMAIN m.subModels
  THEN DeleteComponents(
         [m EXCEPT !.object = Without(@, m.subModels[c]),
                   !.subModels = Without(@, c),
                   !.connections = Unconnected(@, c, 1)])
  ELSE IF c \in DOMAIN m.solvers
  THEN LET s == m.solvers[c]  freed == ToSet(m.fmus[s]) IN
         [Use(m, {s}) EXCEPT !.solvers = Without(@, c), !.fmus = Without(@, s), !.method = Without(@, s),
                   !.object = [f \in DOMAIN @ |-> IF f \in freed THEN [@[f] EXCEPT !.solver = Null]
                                                  ELSE @[f]]]
  ELSE m

(* The name of the sub-model becomes the reference as given; a solver may  *)
(* have that name, and the connections are left as they are.  That the     *)
(* variables of an FMU keep its old name is left out: no value is passed   *)
(* here.                                                                   *)
RenameSubModel(m, old, new) ==
  IF Local(old) \in DOMAIN m.subModels /\ Local(new) \notin DOMAIN m.subModels
  THEN LET f == m.subModels[Local(old)] IN
         [m EXCEPT !.object[f].name = new,
                   !.subModels = Put(Without(@, Local(old)), Local(new), f)]
  ELSE m

GetElements(m) ==
  IF m.components = {}
  THEN [m EXCEPT !.components = {{m.subModels[c] : c \in DOMAIN m.subModels}}] ELSE m

Configured(m, c, field, v) == [m EXCEPT !.object[m.subModels[Local(c)]][field] = v]

(* The value is kept before the FMU is asked to take it.                   *)
SetRealParameter(m, c, v) ==
  IF \E f \in GetSubModel(m, c) : IsFMU(m, f)
  THEN Configured(m, c, "realParameters", v) ELSE m

-----------------------------------------------------------------------------
(* Connections. *)

(* FMUs have an input u and an output y, tables a column y.                *)
Causality(m, signal) ==
  {IF signal.var = "y" THEN "output" ELSE "input" :
     f \in {f \in GetSubModel(m, signal.cref) : IsFMU(m, f) \/ signal.var = "y"}}

Wired(m, a, b) == Causality(m, a) = {"output"} /\ Causality(m, b) = {"input"}

AddConnection(m, a, b) ==
  IF Wired(m, a, b)
  THEN [m EXCEPT !.connections = Append(@, [parent |-> m.name, a |-> a, b |-> b])]
  ELSE IF Wired(m, b, a)
  THEN [m EXCEPT !.connections = Append(@, [parent |-> m.name, a |-> b, b |-> a])]
  ELSE m

DeleteConnection(m, a, b) ==
  LET equal == {n \in DOMAIN m.connections :
                  /\ m.connections[n].parent = m.name
                  /\ {m.connections[n].a, m.connections[n].b} = {a, b}}
  IN IF equal = {} THEN m ELSE [m EXCEPT !.connections = TakeOut(@, Min(equal))]

(* Mutant: the connections keep the name their model had.                  *)
SetNameOnly(m, name) == [m EXCEPT !.name = name]

(* A connection is looked up together with the name of its model.          *)
SetName(m, name) ==
  [m EXCEPT !.name = name,
            !.connections = [n \in DOMAIN @ |-> [@[n] EXCEPT !.parent = name]]]

-----------------------------------------------------------------------------
(* Initialising and loading. *)

(* updateDependencyGraphs                                                  *)
GraphsUpdated(m) == \A n \in DOMAIN m.connections : Wired(m, m.connections[n].a, m.connections[n].b)

SolverName(c) == <<"solver_" \o Head(c)>> \o Tail(c)
DefaultSolver(m, c) ==
  LET f == m.subModels[c]
      method == IF m.object[f].kind = "cs" THEN "internal" ELSE "euler"
  IN IF IsFMU(m, f) /\ m.object[f].solver = Null
     THEN ConnectSolver(AddSolver(m, SolverName(c), method), c, SolverName(c)) ELSE m
WithSolvers(m) == FoldLeft(DefaultSolver, m, InOrder(m.subModels))

Listed(m) == {m.subModels[c] : c \in DOMAIN m.subModels}
AllSolvers(m) == {m.solvers[c] : c \in DOMAIN m.solvers}
Suits(kind, method) ==
  IF method = "internal" THEN kind \in {"cs", "me_and_cs"} ELSE kind \in {"me", "me_and_cs"}

(* Mutant: an FMU without a solver is passed over.                         *)
InitializableUnassigned(m) ==
  \A f \in {f \in Listed(m) : IsFMU(m, f) /\ m.object[f].solver # Null} :
    Suits(m.object[f].kind, m.method[m.object[f].solver])

(* enterInitialization and exitInitialization of every FMU.                *)
Initializable(m) ==
  \A f \in {f \in Listed(m) : IsFMU(m, f)} :
    m.object[f].solver # Null /\ Suits(m.object[f].kind, m.method[m.object[f].solver])

(* The default solvers stay when an FMU cannot be initialised.  Leaving    *)
(* the initialisation, a solver other than internal iterates the events of *)
(* as many of its FMUs as were initialised, from the first on.             *)
Initialized(m) ==
  LET n == WithSolvers(m)
      Assigned(s) == {f \in Listed(n) : n.object[f].solver = s}
      iterated == UNION {{n.fmus[s][i] : i \in 1..Min({Cardinality(Assigned(s)), Len(n.fmus[s])})} :
                           s \in {s \in DOMAIN n.fmus : n.method[s] # "internal"}}
  IN IF ~GraphsUpdated(m) THEN m
     ELSE IF n.fault \/ ~Initializable(n) THEN n
     ELSE [n EXCEPT !.fault = \E f \in iterated : ~InMemory(n, f)]

(* Mutant: reals are read with as_int, too.                                *)
RereadInteger(v) == "zero"

(* What std::to_string and the words true and false become when they are   *)
(* read with as_double and as_int.                                         *)
Reread(v) == CASE v = "small" -> "zero" [] v = "true" -> "false" [] OTHER -> v

(* A sub-model of m is read again, under the last part of its name.        *)
LoadSubModel(acc, m, c) ==
  LET f == m.object[m.subModels[c]]  n == Local(f.name)
      added == Configured(AddSubModel(acc, n, f.kind), n, "geometry", f.geometry)
  IN IF f.realParameters = Unset THEN added
     ELSE SetRealParameter(added, n, Reread(f.realParameters))

(* save and LoadModel: sub-models, then connections.  Solvers are left out. *)
Load(m) ==
  FoldLeft(LAMBDA acc, e : AddConnection(acc, e.a, e.b),
           FoldLeft(LAMBDA acc, c : LoadSubModel(acc, m, c), NewModel(m.name), InOrder(m.subModels)),
           m.connections)

(* LoadModel gives up when one of the parts is refused, or a value by its  *)
(* FMU, which was kept when the FMU refused it before.                     *)
Loadable(m) ==
  /\ Cardinality({Local(m.object[f].name) : f \in Listed(m)}) = Cardinality(DOMAIN m.subModels)
  /\ GraphsUpdated(m)
  /\ \A f \in Listed(m) : m.object[f].realParameters # "refused"
=============================================================================
