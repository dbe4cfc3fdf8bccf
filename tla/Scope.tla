-------------------------------- MODULE Scope --------------------------------
(***************************************************************************)
(* The models of oms2 (Scope.cpp, Model.cpp) and the calls that make,      *)
(* change, rename, save, load and unload them (OMSimulator.cpp).  An FMI   *)
(* composite model has the structure of module FMIStructure, and so has    *)
(* the file it is saved in; of a TLM composite model only the name is      *)
(* told, and it takes none of the calls for sub-models.                    *)
(***************************************************************************)
EXTENDS FMIStructure

CONSTANTS
  Names,       (* the names of models                                       *)
  Bases,       (* the structures of the model the client may start with      *)
  SubModels, Solvers, FMUs, Signals, Deletions,
               (* the references the client uses in its calls, see there     *)
  Renamings,   (* the pairs of full references of oms2_rename                *)
  Kinds, Methods, Values,
  Settings,    (* pairs of a field of the experiment and a value             *)
  MaxModels,   (* bound: the models in the scope                             *)
  MaxCalls     (* bound: the calls of the client                             *)

VARIABLES
  models,      (* name -> model: type, structure, experiment, geometry,     *)
               (*   state, ready: it was initialised and not changed since   *)
  file,        (* the model description that was saved last, if any          *)
  fault,       (* what is deleted, lost or of the other type was used        *)
  calls

vars == <<models, file, fault, calls>>

Default(name) ==
  [startTime |-> "zero", stopTime |-> "one", communicationInterval |-> "tenth",
   loggingInterval |-> "zero", resultFile |-> name, masterAlgorithm |-> "standard"]

New(type, name) == [type |-> type, structure |-> NewModel(name),
                    experiment |-> Default(name), geometry |-> Unset,
                    state |-> "instantiated", ready |-> FALSE]

-----------------------------------------------------------------------------
(* Model and Scope. *)

InScope(n) == n \in DOMAIN models
IsFMI(n) == InScope(n) /\ models[n].type = "fmi"
IsTLM(n) == InScope(n) /\ models[n].type = "tlm"
Structure(n) == models[n].structure

(* ~FMICompositeModel: every solver tells its FMUs that it is gone.        *)
DeletedBadly(n) == InScope(n) /\ Use(Structure(n), AllSolvers(Structure(n))).fault

(* What is written, and read again: the solvers and the settings but for   *)
(* the times are left out.                                                 *)
Saved(n) ==
  [structure |-> Load(Structure(n)), complete |-> Loadable(Structure(n)),
   geometry |-> models[n].geometry,
   startTime |-> Reread(models[n].experiment.startTime),
   stopTime |-> Reread(models[n].experiment.stopTime)]

Loaded(f) ==
  [New("fmi", f.structure.name) EXCEPT
     !.structure = f.structure, !.geometry = f.geometry,
     !.experiment.startTime = f.startTime, !.experiment.stopTime = f.stopTime]

-----------------------------------------------------------------------------
(* The calls of the client.  One that is refused is no step. *)

Init ==
  /\ \E m \in Bases : models = m.name :> [New("fmi", m.name) EXCEPT !.structure = m]
  /\ file = {} /\ fault = FALSE /\ calls = 0

Called ==
  /\ ~fault /\ \A n \in DOMAIN models : ~Structure(n).fault
  /\ calls < MaxCalls /\ calls' = calls + 1

Scoped(scope) == Called /\ models' = scope /\ UNCHANGED <<file, fault>>
Changed(n, m) ==
  Scoped([models EXCEPT ![n].structure = m, ![n].ready = @ /\ m = Structure(n)])

NewCompositeModel(type) ==
  \E n \in Names : ~InScope(n) /\ Cardinality(DOMAIN models) < MaxModels
                     /\ Scoped(Put(models, n, New(type, n)))
NewFMIModel == NewCompositeModel("fmi")
NewTLMModel == NewCompositeModel("tlm")

UnloadModel ==
  \E n \in Names : /\ InScope(n) /\ Called
                   /\ models' = Without(models, n) /\ fault' = DeletedBadly(n)
                   /\ UNCHANGED file

(* addFMU and deleteSubModel say that the model is no FMI composite model, *)
(* and go on with it.                                                      *)
OnWrongType ==
  \E n \in Names : IsTLM(n) /\ Called /\ fault' = TRUE /\ UNCHANGED <<models, file>>

CallAddSubModel ==
  \E n \in Names, c \in SubModels, k \in Kinds :
    IsFMI(n) /\ Changed(n, AddSubModel(Structure(n), c, k))

CallDeleteSubModel ==
  \E n \in Names, c \in Deletions : IsFMI(n) /\ Changed(n, DeleteSubModel(Structure(n), c))

RenameModel(old, new) ==
  /\ IsIdent(old) /\ IsIdent(new) /\ InScope(old) /\ ~InScope(new)
  /\ Scoped(Put(Without(models, old), new,
                [models[old] EXCEPT !.structure = SetName(@, new)]))

(* Two references with the same model are those of a sub-model.            *)
Rename ==
  \E r \in Renamings :
    IF Head(r[1]) = Head(r[2])
    THEN LET n == <<Head(r[1])>> IN
           IsFMI(n) /\ Changed(n, RenameSubModel(Structure(n), r[1], r[2]))
    ELSE RenameModel(r[1], r[2])

SaveModel ==
  \E n \in Names : IsFMI(n) /\ Called /\ file' = {Saved(n)} /\ UNCHANGED <<models, fault>>

(* A model of that name that is there already is deleted first.            *)
LoadModel ==
  \E f \in file :
    /\ f.complete /\ Called
    /\ models' = Put(models, f.structure.name, Loaded(f))
    /\ fault' = DeletedBadly(f.structure.name)
    /\ UNCHANGED file

CallGetElements == \E n \in Names : IsFMI(n) /\ Changed(n, GetElements(Structure(n)))

(* The sub-model a full reference leads to: what its getters read.         *)
GetElement(c) ==
  IF ~IsIdent(c) /\ IsFMI(<<Head(c)>>) THEN GetSubModel(Structure(<<Head(c)>>), c) ELSE {}

(* Is there a model, a sub-model or a solver of that name?                 *)
Exists(c) ==
  LET n == <<Head(c)>> IN
    \/ IsIdent(c) /\ InScope(c)
    \/ ~IsIdent(c) /\ IsFMI(n) /\ (GetElement(c) # {} \/ Local(c) \in DOMAIN Structure(n).solvers)

SetGeometry(g) ==
  \E n \in Names :
    \/ InScope(n) /\ Scoped([models EXCEPT ![n].geometry = g])
    \/ \E c \in FMUs : GetElement(n \o c) # {}
                         /\ Changed(n, Configured(Structure(n), c, "geometry", g))
SetElementGeometry == SetGeometry("moved")

SetActivationRatio ==
  \E n \in Names, c \in FMUs :
    GetElement(n \o c) # {} /\ Changed(n, Configured(Structure(n), c, "activationRatio", 2))

SetFlags ==
  \E n \in Names, c \in FMUs :
    GetElement(n \o c) # {} /\ Changed(n, Configured(Structure(n), c, "fetchAllVars", TRUE))

CallSetRealParameter ==
  \E n \in Names, c \in SubModels, v \in Values :
    GetElement(n \o c) # {} /\ Changed(n, SetRealParameter(Structure(n), n \o c, v))

CallAddSolver ==
  \E n \in Names, c \in Solvers, t \in Methods :
    IsFMI(n) /\ Changed(n, AddSolver(Structure(n), c, t))
CallConnectSolver ==
  \E n \in Names, c \in FMUs, s \in Solvers :
    IsFMI(n) /\ Changed(n, ConnectSolver(Structure(n), c, s))
CallUnconnectSolver ==
  \E n \in Names, c \in FMUs, s \in Solvers :
    IsFMI(n) /\ Changed(n, UnconnectSolver(Structure(n), c, s))
CallAddConnection ==
  \E n \in Names, a, b \in Signals : IsFMI(n) /\ Changed(n, AddConnection(Structure(n), a, b))
CallDeleteConnection ==
  \E n \in Names, a, b \in Signals : IsFMI(n) /\ Changed(n, DeleteConnection(Structure(n), a, b))

SetExperiment ==
  \E n \in Names, s \in Settings :
    InScope(n) /\ Scoped([models EXCEPT ![n].experiment[s[1]] = s[2]])

Initialize ==
  \E n \in Names :
    /\ IsFMI(n) /\ models[n].state = "instantiated"
    /\ LET m == Initialized(Structure(n))
           ok == GraphsUpdated(Structure(n)) /\ Initializable(m)
       IN Scoped([models EXCEPT ![n].structure = m, ![n].ready = ok,
                    ![n].state = IF ok THEN "simulation" ELSE @])

(* A solver steps its FMUs, those that were deleted after initialize, too. *)
(* An FMU looks for its sockets in the model that has the name its own     *)
(* model had when it was added.                                            *)
SocketsLost(m) ==
  \E s \in AllSolvers(m) : \E f \in ToSet(m.fmus[s]) :
    InMemory(m, f) /\ ~IsFMI(m.object[f].parent)

DoStep ==
  \E n \in Names :
    /\ IsFMI(n) /\ models[n].state = "simulation" /\ Called
    /\ models' = [models EXCEPT ![n].structure = Use(@, AllSolvers(@))]
    /\ fault' = SocketsLost(Structure(n))
    /\ UNCHANGED file

Reset ==
  \E n \in Names :
    /\ IsFMI(n) /\ Scoped([models EXCEPT ![n].state = "instantiated", ![n].ready = FALSE])

-----------------------------------------------------------------------------
(* The API, section by section. *)

ModelCalls == NewFMIModel \/ NewTLMModel \/ UnloadModel
SubModelCalls == CallAddSubModel \/ CallDeleteSubModel \/ OnWrongType \/ Rename
FileCalls == SaveModel \/ LoadModel
ElementCalls == CallGetElements \/ SetElementGeometry

(* The arguments are signals, or an FMU and a solver.                      *)
AddCalls == CallAddConnection \/ CallConnectSolver
DeleteCalls == CallDeleteConnection \/ CallUnconnectSolver
SimulationCalls == Initialize \/ DoStep \/ Reset
SettingCalls == SetExperiment
SubModelSettings == CallSetRealParameter \/ SetActivationRatio \/ SetFlags

Next ==
  \/ ModelCalls \/ SubModelCalls \/ FileCalls \/ ElementCalls
  \/ SubModelSettings \/ CallAddSolver \/ AddCalls \/ DeleteCalls \/ SimulationCalls \/ SettingCalls

Spec == Init /\ [][Next]_vars

-----------------------------------------------------------------------------
(* Whenever nothing has been used that is gone, of every FMI model n:      *)

FMIModels == {n \in DOMAIN models : IsFMI(n) /\ ~Structure(n).fault}

(* An FMU points at a solver exactly if that solver has it, once: what     *)
(* enterInitialization trusts (FMUWrapper.cpp) and what doStep steps       *)
(* (Solver.cpp) are kept by different calls.                               *)
SolverLinks ==
  \A n \in FMIModels :
    LET m == Structure(n) IN
      \A f \in DOMAIN m.object, s \in DOMAIN m.fmus :
        Cardinality({i \in DOMAIN m.fmus[s] : m.fmus[s][i] = f})
          = IF m.object[f].solver = s THEN 1 ELSE 0

(* After initialize every FMU is stepped, by one solver of the model and   *)
(* of its kind, however often it was connected, renamed and deleted before *)
(* (initialize, stepUntil).  A solver whose name is no identifier can be   *)
(* added again over the first one, which then steps nothing.               *)
ReadyModelIsStepped ==
  \A n \in FMIModels :
    LET m == Structure(n) IN
      models[n].ready /\ DOMAIN m.fmus = AllSolvers(m) =>
        \A f \in {f \in Listed(m) : IsFMU(m, f)} :
          /\ Cardinality({s \in AllSolvers(m) : f \in ToSet(m.fmus[s])}) = 1
          /\ \A s \in AllSolvers(m) :
               f \in ToSet(m.fmus[s]) => Suits(m.object[f].kind, m.method[s])

(* What is looked up by a name is found after any renaming: the model      *)
(* (getModel), its connections, which are compared with the name of their  *)
(* model (getConnection), and a sub-model by the name its own element tells *)
(* (getElement), and the cached elements, which are those of the sub-      *)
(* models of now (getElements).                                            *)
LookupsAgree ==
  \A n \in FMIModels :
    LET m == Structure(n) IN
      /\ m.name = n
      /\ \A i \in DOMAIN m.connections : m.connections[i].parent = n
      /\ \A c \in {c \in DOMAIN m.subModels : IsIdent(c)} :
           GetElement(n \o Local(m.object[m.subModels[c]].name)) = {m.subModels[c]}
      /\ \A c \in DOMAIN m.solvers : IsIdent(c) => Exists(n \o c)
      /\ m.components \subseteq {Listed(m)}

(* A model whose connections are between parts it has, and whose FMUs have *)
(* refused no value, is the same after it was saved and loaded, but for    *)
(* the solvers, most settings and what cannot be written, the words for a  *)
(* boolean and reals of less than six digits (save, LoadModel).            *)
LoadedIsSaved ==
  \A n \in FMIModels :
    LET m == Structure(n)
        Written(v) == v \notin {"true", "small"}
    IN Loadable(m) =>
         LET l == Loaded(Saved(n)) IN
           /\ l.structure.connections = m.connections
           /\ {Local(m.object[f].name) : f \in Listed(m)} = DOMAIN l.structure.subModels
           /\ \A f \in Listed(m) :
                LET g == l.structure.object[l.structure.subModels[Local(m.object[f].name)]]
                    v == m.object[f].realParameters
                IN /\ <<g.kind, g.geometry>> = <<m.object[f].kind, m.object[f].geometry>>
                   /\ Written(v) => g.realParameters = v
           /\ l.geometry = models[n].geometry
           /\ \A t \in {"startTime", "stopTime"} :
                Written(models[n].experiment[t]) => l.experiment[t] = models[n].experiment[t]
=============================================================================
