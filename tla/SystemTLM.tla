------------------------------ MODULE SystemTLM ------------------------------
(***************************************************************************)
(* A TLM system (oms3::SystemTLM in SystemTLM.cpp) and a TLM composite     *)
(* model (oms2::TLMCompositeModel): their subsystems step asynchronously,  *)
(* one thread each, and exchange motions and forces with a TLM manager.    *)
(* stepUntil runs in phases, with one thread per subsystem in every phase: *)
(* connect, initialise, simulate and, in oms3, disconnect.  In oms2 the    *)
(* subsystems are FMI models of their own, which the client gathers here.  *)
(*                                                                         *)
(* The manager and its plugins (OMTLMSimulator) are not part of the        *)
(* repository.  What the code counts on is modelled: a plugin answers for  *)
(* time u as soon as the other end of the connection has sent its motion   *)
(* for u minus the delay; a subsystem may close when all have sent what    *)
(* they have.  Delays are counted in halves, so that half a delay is whole.*)
(***************************************************************************)
EXTENDS Integers, FiniteSets, Sequences, FiniteSetsExt, SequencesExt

CONSTANTS
  Setups,   (* records of                                                  *)
            (*   api          "oms2" or "oms3"                             *)
            (*   systems      the subsystems, in the order of their names  *)
            (*   connections  of two ends, a subsystem and the kind of its *)
            (*                bus, and half the delay                      *)
            (*   loose        subsystems with a bus that is not connected  *)
            (*   failing      those the plugin or the FMU may refuse       *)
            (*   stepSize                                                  *)
            (* in oms2, those a client may add                             *)
  StopTime, (* of the model                                                *)
  Halves,   (* the delays, in halves, a client may set                     *)
  Garbage,  (* what the delay of a bus that is not connected may be        *)
  MaxRuns   (* bound: number of calls of simulate                          *)

VARIABLES
  setup,
  fmiModels,   (* the subsystems that have been added                      *)
  joined,      (* the connections that have been added                     *)
  initialValues, (* the ends with initial values of the client's           *)
  half,        (* half the delay of every connection                       *)
  managed,     (* the same, as the manager has been told, or NotThere      *)
  delay,       (* half the delays of the buses of an end (oms2: added)     *)
  unset,       (* half the delay a bus that is not connected is born with  *)
  modelState,
  stepSize,    (* of every subsystem                                       *)
  mode,        (* the FMI mode of its FMU                                  *)
  time,        (* of the subsystem                                         *)
  at,          (* of its FMU                                               *)
  sent,        (* the time of the last motion it has sent                  *)
  plugins,     (* its entry in the map of plugins                          *)
  raced,       (* the subsystems whose insertion in the map has overlapped *)
  connectedsubsystems, initializedsubsystems, (* oms2: flags of the models *)
  given,       (* oms2: the ends whose plugin has initial values           *)
  alone,       (* oms2: a client has used or unloaded a subsystem itself   *)
  main,        (* the phase of stepUntil                                   *)
  pc,          (* where the thread of every subsystem is in it             *)
  master,      (* the thread of the manager                                *)
  abandoned,   (* a thread of the manager is left to itself                *)
  status,      (* what the last call of simulate has returned              *)
  fault,       (* what the program was stopped by                          *)
  runs         (* history: number of calls of simulate                     *)

building == <<fmiModels, joined, initialValues>>
delays == <<half, managed, delay, unset>>
steps == <<stepSize, mode, time, at, sent>>
lists == <<connectedsubsystems, initializedsubsystems, given>>
call == <<main, master, abandoned, status, runs>>
vars == <<setup, building, delays, modelState, steps, plugins, raced, lists, alone, pc, call,
          fault>>

Start == 0
NotThere == 0 - 1
Oms2 == setup.api = "oms2"
Pool == ToSet(setup.systems)
Systems == fmiModels
Connections == DOMAIN setup.connections
Buses == Connections \X (1..2)
Owner(e) == setup.connections[e[1]].ends[e[2]][1]
Ends(s) == {e \in Buses : Owner(e) = s /\ managed[e[1]] # NotThere}
Kind(e) == setup.connections[e[1]].ends[e[2]][2]
Peer(e) == setup.connections[e[1]].ends[3 - e[2]][1]
Everywhere(x) == [s \in Pool |-> x]

Init ==
  /\ setup \in Setups
  /\ fmiModels = (IF Oms2 THEN {} ELSE Pool) /\ initialValues = {}
  /\ joined = IF Oms2 THEN {} ELSE Connections
  /\ half = [c \in Connections |-> setup.connections[c].half]
  /\ managed = IF Oms2 THEN [c \in Connections |-> NotThere] ELSE half
  /\ delay = [e \in Buses |-> IF Oms2 THEN {} ELSE {half[e[1]]}]
  /\ unset \in IF Oms2 \/ setup.loose # {} THEN Garbage ELSE {Start}
  /\ modelState = "instantiated"
  /\ stepSize = Everywhere(setup.stepSize)
  /\ mode = Everywhere("initialization")
  /\ time = Everywhere(Start) /\ at = Everywhere(Start) /\ sent = Everywhere(Start)
  /\ plugins = Everywhere("none") /\ raced = {}
  /\ connectedsubsystems = {} /\ initializedsubsystems = {} /\ given = {} /\ alone = FALSE
  /\ main = "idle" /\ pc = Everywhere("none")
  /\ master = "none" /\ abandoned = FALSE /\ status = "none"
  /\ fault = "none" /\ runs = 0

-----------------------------------------------------------------------------
(* The client builds an oms2 model.  Nothing forbids it after a simulation: *)
(* that it comes first is a bound, as is one call of a subsystem alone.    *)

Idle == fault = "none" /\ main = "idle"
Interfaces == {e \in Buses : delay[e] # {}}
Building ==
  /\ Idle /\ Oms2 /\ modelState # "deleted" /\ runs = 0
  /\ UNCHANGED <<setup, half, unset, modelState, steps, plugins, raced, lists, alone, pc, call,
                 fault>>

AddFMIModel(s) ==
  /\ Building /\ s \notin fmiModels
  /\ fmiModels' = fmiModels \cup {s}
  /\ UNCHANGED <<joined, initialValues, managed, delay>>

(* The number of signals an interface takes; one dimension stands for all. *)
SubSignals == [input |-> 1, output |-> 1, plain |-> 3, coarse |-> 4, fine |-> 23]

(* An interface that is there already is not noticed: there are two of its *)
(* name then.                                                              *)
AddInterface(e, signals) ==
  /\ Building /\ Owner(e) \in fmiModels /\ mode[Owner(e)] # "unloaded"
  /\ signals = SubSignals[Kind(e)]
  /\ delay' = [delay EXCEPT ![e] = @ \cup {unset}]
  /\ UNCHANGED <<building, managed>>

(* External: the manager knows no connection whose interfaces come later.  *)
AddConnection(c) ==
  /\ Building /\ c \notin joined
  /\ joined' = joined \cup {c}
  /\ delay' = [e \in Buses |-> IF e[1] = c /\ delay[e] # {} THEN {half[c]} ELSE delay[e]]
  /\ managed' = IF {<<c, 1>>, <<c, 2>>} \subseteq Interfaces
                THEN [managed EXCEPT ![c] = half[c]] ELSE managed
  /\ UNCHANGED <<fmiModels, initialValues>>

(* insert: the values an interface has already stay.                       *)
SetTLMInitialValues(e) ==
  /\ Building /\ e \in Interfaces /\ mode[Owner(e)] # "unloaded"
  /\ initialValues' = initialValues \cup {e}
  /\ UNCHANGED <<fmiModels, joined, managed, delay>>

-----------------------------------------------------------------------------
(* The client uses a model. *)

(* System::setTLMConnectionParameters: the connection only.                *)
SetTLMConnectionParameters(c, h) ==
  /\ Idle /\ ~Oms2 /\ modelState = "instantiated"
  /\ half' = [half EXCEPT ![c] = h]
  /\ UNCHANGED <<setup, building, managed, delay, unset, modelState, steps, plugins, raced, lists,
                 alone, pc, call, fault>>

Unloaded == \E s \in Systems : mode[s] = "unloaded"

(* The manager is told of the buses and the connections, in oms2 it knows; *)
(* the FMUs are left to stepUntil.                                         *)
Initialize ==
  /\ Idle /\ modelState = "instantiated"
  /\ managed' = IF Oms2 THEN managed ELSE half
  /\ modelState' = "simulation"
  /\ fault' = IF Unloaded THEN "model" ELSE fault
  /\ UNCHANGED <<setup, building, half, delay, unset, steps, plugins, raced, lists, alone, pc,
                 call>>

Enter(phase, place) ==
  main' = phase /\ pc' = [s \in Pool |-> IF s \in Systems THEN place ELSE "none"]

(* oms2 looks for the FMUs of the interfaces before it starts the manager. *)
MissingFMUs == \E e \in Interfaces : mode[Owner(e)] = "missing"

Simulate ==
  /\ Idle /\ modelState = "simulation"
  /\ runs < MaxRuns
  /\ runs' = runs + 1
  /\ fault' = IF Unloaded THEN "model" ELSE fault
  /\ IF MissingFMUs THEN status' = "error" /\ UNCHANGED <<main, pc, master>>
     ELSE status' = "none" /\ master' = "running" /\ Enter("connecting", "connect")
  /\ UNCHANGED <<setup, building, delays, modelState, steps, plugins, raced, lists, alone,
                 abandoned>>

(* The FMUs in turn, until one refuses: fmi2Terminate fails in another mode. *)
Terminate ==
  LET n == Min({Len(setup.systems) + 1} \cup
               {m \in DOMAIN setup.systems : mode[setup.systems[m]] # "simulation"})
      done == {setup.systems[m] : m \in 1..(n - 1)}
  IN  /\ Idle /\ ~Oms2 /\ modelState \in {"instantiated", "simulation"}
      /\ managed' = IF modelState = "instantiated" THEN half ELSE managed
      /\ mode' = [s \in Pool |-> IF s \in done THEN "freed" ELSE mode[s]]
      /\ modelState' = IF done = Systems THEN "terminated" ELSE modelState
      /\ UNCHANGED <<setup, building, half, delay, unset, stepSize, time, at, sent, plugins, raced,
                     lists, alone, pc, call, fault>>

(* oms2::Model::reset: the subsystems are not touched.                     *)
Reset ==
  /\ Idle /\ Oms2 /\ modelState = "simulation"
  /\ modelState' = "instantiated"
  /\ UNCHANGED <<setup, building, delays, steps, plugins, raced, lists, alone, pc, call, fault>>

(* ~SystemTLM: the model of the manager goes, whoever is at work on it.    *)
Delete ==
  /\ Idle /\ modelState # "deleted"
  /\ modelState' = "deleted"
  /\ fault' = IF abandoned THEN "manager" ELSE fault
  /\ UNCHANGED <<setup, building, delays, steps, plugins, raced, lists, alone, pc, call>>

(* The FMI models of oms2 can be called by their own name.                 *)
OnItsOwn(s) ==
  /\ Idle /\ Oms2
  /\ UNCHANGED <<setup, building, delays, modelState, stepSize, time, at, sent, plugins, raced,
                 lists, pc, call>>

ResetSubModel(s) ==
  /\ OnItsOwn(s) /\ mode[s] \in {"simulation", "error"}
  /\ mode' = [mode EXCEPT ![s] = "initialization"]
  /\ UNCHANGED <<alone, fault>>

(* The sockets are read, be there a plugin or not, and a plugin that has   *)
(* been deleted is asked to check the model.                               *)
InitializeSubModel(s) ==
  /\ OnItsOwn(s) /\ ~alone /\ mode[s] = "initialization"
  /\ alone' = TRUE
  /\ mode' = [mode EXCEPT ![s] = "simulation"]
  /\ LET read == {e \in Interfaces : Owner(e) = s} # {}
     IN  fault' = IF \/ plugins[s] = "null"
                     \/ read /\ plugins[s] = "none"
                     \/ read /\ modelState = "deleted"
                  THEN "plugin" ELSE fault

DeleteFMU(s) ==
  /\ OnItsOwn(s) /\ ~alone
  /\ \E e \in Interfaces : Owner(e) = s
  /\ alone' = TRUE
  /\ mode' = [mode EXCEPT ![s] = "missing"]
  /\ UNCHANGED fault

UnloadSubModel(s) ==
  /\ OnItsOwn(s) /\ ~alone
  /\ alone' = TRUE
  /\ mode' = [mode EXCEPT ![s] = "unloaded"]
  /\ UNCHANGED fault

-----------------------------------------------------------------------------
(* stepUntil. *)

Running == fault = "none" /\ UNCHANGED <<setup, building, delays, modelState, alone, runs>>
Joined == \A s \in Systems : pc[s] = "done"

(* The error return: nobody waits for the manager any more.                *)
Fail ==
  /\ Enter("idle", "none")
  /\ status' = "error"
  /\ abandoned' = TRUE /\ master' = "none"

(* Mutant: what has been connected is not looked at.                       *)
ConnectUnchecked ==
  /\ Running /\ main = "connecting" /\ Joined
  /\ Enter("initializing", "initialize")
  /\ UNCHANGED <<steps, plugins, raced, lists, master, abandoned, status, fault>>

Connect ==
  /\ Running /\ main = "connecting" /\ Joined
  /\ IF connectedsubsystems = Systems
     THEN Enter("initializing", "initialize") /\ UNCHANGED <<master, abandoned, status>>
     ELSE Fail
  /\ UNCHANGED <<steps, plugins, raced, lists, fault>>

(* Mutant: the threads that initialise are not waited for.                 *)
InitializeUnjoined ==
  /\ Running /\ main = "initializing"
  /\ initializedsubsystems # {} \/ Joined
  /\ IF initializedsubsystems # {}
     THEN Enter("simulating", "simulate") /\ UNCHANGED <<master, abandoned, status>>
     ELSE Fail
  /\ UNCHANGED <<steps, plugins, raced, lists, fault>>

InitializeAll ==
  /\ Running /\ main = "initializing" /\ Joined
  /\ IF initializedsubsystems = Systems
     THEN Enter("simulating", "simulate") /\ UNCHANGED <<master, abandoned, status>>
     ELSE Fail
  /\ UNCHANGED <<steps, plugins, raced, lists, fault>>

SimulateAll ==
  /\ Running /\ main = "simulating" /\ Joined
  /\ main' = "joining"
  /\ UNCHANGED <<steps, plugins, raced, lists, pc, master, abandoned, status, fault>>

JoinMaster ==
  /\ Running /\ main = "joining" /\ master = "ended"
  /\ master' = "none"
  /\ IF Oms2 THEN Enter("idle", "none") /\ status' = "ok"
     ELSE Enter("disconnecting", "disconnect") /\ UNCHANGED status
  /\ UNCHANGED <<steps, plugins, raced, lists, abandoned, fault>>

Return ==
  /\ Running /\ main = "disconnecting" /\ Joined
  /\ Enter("idle", "none")
  /\ status' = "ok"
  /\ UNCHANGED <<steps, plugins, raced, lists, master, abandoned, fault>>

(* External: the manager ends once everything is closed. *)
MasterEnds ==
  /\ Running /\ master = "running"
  /\ main \in {"simulating", "joining"} /\ Joined
  /\ master' = "ended"
  /\ UNCHANGED <<steps, plugins, raced, lists, main, pc, abandoned, status, fault>>

-----------------------------------------------------------------------------
(* The threads of the subsystems. *)

Go(s, place) == pc' = [pc EXCEPT ![s] = place]
Thread(s, place) == Running /\ pc[s] = place /\ UNCHANGED <<main, master, abandoned, status>>

(* The buses hold the delay their connection was added with.               *)
Limits(s) ==
  UNION {delay[e] : e \in {b \in Buses : Owner(b) = s}} \cup
    (IF s \in setup.loose THEN {unset} ELSE {})

(* Mutant: the communication interval is not limited.                      *)
UnlimitedStep(s) == stepSize[s]

LimitedStep(s) == Min({stepSize[s]} \cup Limits(s))

(* plugins[system] = plugin takes no lock: when the keys are new and two   *)
(* threads insert at a time, an entry may be lost.                         *)
ConnectToSockets(s) ==
  /\ Thread(s, "connect") /\ ~Oms2
  /\ stepSize' = [stepSize EXCEPT ![s] = LimitedStep(s)]
  /\ LET others == {r \in Systems : pc[r] = "inserting"}
     IN  IF plugins[s] = "none"
         THEN /\ Go(s, "inserting")
              /\ raced' = IF others = {} THEN raced ELSE raced \cup others \cup {s}
              /\ UNCHANGED <<plugins, sent>>
         ELSE /\ Go(s, "inserted")
              /\ plugins' = [plugins EXCEPT ![s] = "created"]
              /\ sent' = [sent EXCEPT ![s] = Start]
              /\ UNCHANGED raced
  /\ UNCHANGED <<mode, time, at, lists, fault>>

(* oms2 starts from the interval of the model; the plugin is the model's own. *)
SetupTLMSockets(s) ==
  /\ Thread(s, "connect") /\ Oms2
  /\ stepSize' = [stepSize EXCEPT ![s] = Min({setup.stepSize} \cup Limits(s))]
  /\ time' = [time EXCEPT ![s] = Start] /\ sent' = [sent EXCEPT ![s] = Start]
  /\ plugins' = [plugins EXCEPT ![s] = "created"]
  /\ given' = given \ Ends(s)
  /\ Go(s, "inserted")
  /\ UNCHANGED <<mode, at, raced, connectedsubsystems, initializedsubsystems, fault>>

Insert(s) ==
  /\ Thread(s, "inserting")
  /\ \/ plugins' = [plugins EXCEPT ![s] = "created"]
     \/ s \in raced /\ UNCHANGED plugins
  /\ sent' = [sent EXCEPT ![s] = Start]
  /\ Go(s, "inserted")
  /\ UNCHANGED <<stepSize, mode, time, at, raced, lists, fault>>

(* Init and registerToSockets, by the local pointer.                       *)
Register(s) ==
  /\ Thread(s, "inserted")
  /\ plugins' = [plugins EXCEPT ![s] = IF @ = "created" THEN "registered" ELSE @]
  /\ connectedsubsystems' = connectedsubsystems \cup {s}
  /\ Go(s, "done")
  /\ UNCHANGED <<steps, raced, initializedsubsystems, given, fault>>

RegisterFails(s) ==
  /\ Thread(s, "inserted") /\ s \in setup.failing
  /\ Go(s, "done")
  /\ UNCHANGED <<steps, plugins, raced, lists, fault>>

(* External: the plugin answers for time u at the end e. *)
Answers(e, u) == u - 2 * managed[e[1]] <= sent[Peer(e)]

(* readFromSockets: the interpolating kinds also ask for the end of the step. *)
ReadAt(s, e, u) == IF Kind(e) \in {"coarse", "fine"} THEN u + stepSize[s] ELSE u
CanRead(s, u) == \A e \in Ends(s) : Kind(e) # "output" => Answers(e, ReadAt(s, e, u))

(* writeToSockets: the force is asked for before the motion is sent.       *)
CanWrite(s) == \A e \in Ends(s) : Kind(e) \notin {"input", "output"} => Answers(e, at[s])

Usable(s) == plugins[s] = "registered"

UseOfMissing(s) == fault' = "plugin" /\ UNCHANGED <<steps, pc>>

(* SystemWC::initialize: fmi2ExitInitializationMode fails in another mode. *)
InitializeSubSystem(s, ok) ==
  /\ Thread(s, "initialize") /\ ~Oms2
  /\ ok \/ s \in setup.failing
  /\ time' = [time EXCEPT ![s] = Start]
  /\ IF ok /\ mode[s] = "initialization"
     THEN /\ mode' = [mode EXCEPT ![s] = "simulation"]
          /\ initializedsubsystems' = initializedsubsystems \cup {s}
     ELSE /\ mode' = [mode EXCEPT ![s] = "error"]
          /\ UNCHANGED initializedsubsystems
  /\ Go(s, "done")
  /\ UNCHANGED <<stepSize, at, sent, plugins, raced, connectedsubsystems, given, fault>>

(* updateInitialTLMValues: the client's, or those the FMU has now.         *)
InitialValues(s) ==
  {e \in Ends(s) : Kind(e) \in {"input", "plain"} \/ (Kind(e) # "output" /\ e \in initialValues)}

(* oms2: a model that is initialised already refuses; the sockets are read *)
(* before the plugin is given the initial values.                          *)
InitializeTLM(s, ok) ==
  /\ Thread(s, "initialize") /\ Oms2
  /\ ok \/ s \in setup.failing
  /\ UNCHANGED <<stepSize, sent, plugins, raced, connectedsubsystems>>
  /\ IF mode[s] # "initialization"
     THEN Go(s, "done") /\ UNCHANGED <<mode, time, at, initializedsubsystems, given, fault>>
     ELSE IF ~Usable(s) /\ Ends(s) # {}
     THEN fault' = "plugin" /\ UNCHANGED <<mode, time, at, initializedsubsystems, given, pc>>
     ELSE /\ CanRead(s, Start)
          /\ mode' = [mode EXCEPT ![s] = IF ok THEN "simulation" ELSE "error"]
          /\ time' = [time EXCEPT ![s] = Start] /\ at' = [at EXCEPT ![s] = Start]
          /\ given' = IF ok THEN given \cup InitialValues(s) ELSE given
          /\ initializedsubsystems' =
               IF ok THEN initializedsubsystems \cup {s} ELSE initializedsubsystems
          /\ Go(s, "done")
          /\ UNCHANGED fault

NextTime(s) == Min({time[s] + stepSize[s], StopTime})

(* SystemWC::stepUntil and ComponentFMUCS::stepUntil.  The map of mutexes, *)
(* into which the first lock of a subsystem inserts, is left out.          *)
Read(s) ==
  /\ Thread(s, "simulate") /\ time[s] < StopTime /\ at[s] < NextTime(s)
  /\ IF Usable(s)
     THEN /\ CanRead(s, at[s])
          /\ at' = [at EXCEPT ![s] = NextTime(s)]
          /\ Go(s, "stepped")
          /\ UNCHANGED <<stepSize, mode, time, sent, fault>>
     ELSE UseOfMissing(s)
  /\ UNCHANGED <<plugins, raced, lists>>

Write(s) ==
  /\ Thread(s, "stepped")
  /\ IF Usable(s)
     THEN /\ CanWrite(s)
          /\ sent' = [sent EXCEPT ![s] = at[s]]
          /\ time' = [time EXCEPT ![s] = at[s]]
          /\ Go(s, "simulate")
          /\ UNCHANGED <<stepSize, mode, at, fault>>
     ELSE UseOfMissing(s)
  /\ UNCHANGED <<plugins, raced, lists>>

(* An FMU that is ahead is set back to the time of the subsystem; in oms2  *)
(* the solver leaves it alone.                                             *)
Skip(s) ==
  /\ Thread(s, "simulate") /\ time[s] < StopTime /\ at[s] >= NextTime(s)
  /\ at' = IF Oms2 THEN at ELSE [at EXCEPT ![s] = NextTime(s)]
  /\ time' = [time EXCEPT ![s] = NextTime(s)]
  /\ UNCHANGED <<stepSize, mode, sent, plugins, raced, lists, pc, fault>>

Finish(s) ==
  /\ Thread(s, "simulate") /\ time[s] >= StopTime
  /\ Go(s, "closing")
  /\ UNCHANGED <<steps, plugins, raced, lists, fault>>

(* External: a subsystem may close when all have sent what they have.      *)
MayClose == \A r \in Systems : pc[r] \in {"closing", "done"}

(* AwaitClosePermission; plugins[...] is by the map again.                 *)
AwaitClosePermission(s) ==
  /\ Thread(s, "closing") /\ ~Oms2
  /\ IF Usable(s) THEN MayClose /\ Go(s, "done") /\ UNCHANGED <<steps, fault>>
     ELSE UseOfMissing(s)
  /\ UNCHANGED <<plugins, raced, lists>>

(* oms2 deletes the plugin at once.                                        *)
FinalizeTLMSockets(s) ==
  /\ Thread(s, "closing") /\ Oms2
  /\ IF Usable(s)
     THEN /\ MayClose
          /\ plugins' = [plugins EXCEPT ![s] = "null"]
          /\ Go(s, "done")
          /\ UNCHANGED <<steps, fault>>
     ELSE UseOfMissing(s) /\ UNCHANGED plugins
  /\ UNCHANGED <<raced, lists>>

DisconnectFromSockets(s) ==
  /\ Thread(s, "disconnect")
  /\ plugins' = [plugins EXCEPT ![s] = "null"]
  /\ Go(s, "done")
  /\ UNCHANGED <<steps, raced, lists, fault>>

-----------------------------------------------------------------------------
StepUntil ==
  Connect \/ InitializeAll \/ SimulateAll \/ JoinMaster \/ Return

SubSystem(s) ==
  \/ ConnectToSockets(s) \/ SetupTLMSockets(s) \/ Insert(s) \/ Register(s) \/ RegisterFails(s)
  \/ (\E ok \in BOOLEAN : InitializeSubSystem(s, ok) \/ InitializeTLM(s, ok))
  \/ Read(s) \/ Write(s) \/ Skip(s) \/ Finish(s)
  \/ AwaitClosePermission(s) \/ FinalizeTLMSockets(s) \/ DisconnectFromSockets(s)

Build ==
  \/ \E s \in Pool : AddFMIModel(s)
  \/ \E e \in Buses : SetTLMInitialValues(e) \/ \E n \in {1, 3, 4, 23} : AddInterface(e, n)
  \/ \E c \in Connections : AddConnection(c)

Next ==
  \/ Build
  \/ \E c \in Connections, h \in Halves : SetTLMConnectionParameters(c, h)
  \/ Initialize \/ Simulate \/ Terminate \/ Reset \/ Delete
  \/ \E s \in Pool : ResetSubModel(s) \/ InitializeSubModel(s) \/ DeleteFMU(s) \/ UnloadSubModel(s)
  \/ StepUntil \/ MasterEnds
  \/ \E s \in Systems : SubSystem(s)

Spec == Init /\ [][Next]_vars

(* Every thread runs when it can. *)
FairSpec ==
  /\ Spec /\ WF_vars(StepUntil) /\ WF_vars(MasterEnds)
  /\ \A n \in 1..Max({Len(u.systems) : u \in Setups}) :
       WF_vars(/\ n \in DOMAIN setup.systems /\ setup.systems[n] \in Systems
               /\ SubSystem(setup.systems[n]))

-----------------------------------------------------------------------------
(* Properties *)

(* No call of simulate has failed, no entry of the map has been lost, no   *)
(* plugin can refuse a second call, which finds every subsystem on the     *)
(* lists of the first, and no subsystem is used on its own in between.     *)
Clean ==
  /\ ~abandoned /\ ~alone
  /\ \A s \in raced : plugins[s] # "none"
  /\ runs > 1 => setup.failing = {}

(* No subsystem moves before the plugins of all are registered, the FMUs   *)
(* of all have left the initialisation mode and, in oms2, their plugins    *)
(* have the initial values of what they are the receivers of, nor once one *)
(* of them is disconnected: the joins between the phases of                *)
(* SystemTLM::stepUntil and TLMCompositeModel::stepUntil.                  *)
PhasesAreBarriers ==
  Clean /\ main \in {"simulating", "joining"} =>
    \A s \in Systems : (pc[s] \in {"stepped", "closing"} \/ sent[s] > Start) =>
      \A r \in Systems :
        /\ mode[r] # "initialization"
        /\ plugins[r] = "registered" \/ (Oms2 /\ pc[r] = "done")
        /\ Oms2 /\ runs = 1 => InitialValues(r) \subseteq given

(* Every thread is at its end, the manager's too, every plugin is gone and *)
(* every FMU has come to the stop time.                                    *)
AllDone ==
  /\ master = "none"
  /\ \A s \in Systems : plugins[s] = "null" /\ time[s] = StopTime /\ at[s] = StopTime

(* A plugin that is not there or not registered is used, and the model of  *)
(* the manager or of a subsystem used when deleted, only where Clean says: *)
(* after an error return, a second call that is refused, insertions that   *)
(* overlap, or calls of a subsystem on its own.                            *)
NothingMissing == fault # "none" => ~Clean

(* The inductive invariant of NothingMissing and PhasesAreBarriers.        *)

Modes == {"initialization", "simulation", "error", "freed", "missing", "unloaded"}
Plugins == {"none", "created", "registered", "null"}
Places == [idle |-> {"none"}, connecting |-> {"connect", "inserting", "inserted", "done"},
           initializing |-> {"initialize", "done"},
           simulating |-> {"simulate", "stepped", "closing", "done"},
           joining |-> {"done"}, disconnecting |-> {"disconnect", "done"}]
AllPlaces == {"none", "connect", "inserting", "inserted", "initialize", "simulate", "stepped",
              "closing", "disconnect", "done"}

(* The threads are all in the phase that stepUntil is in.                  *)
TypeOK ==
  /\ fmiModels \subseteq Pool /\ raced \subseteq Pool
  /\ mode \in [Pool -> Modes] /\ plugins \in [Pool -> Plugins]
  /\ main \in DOMAIN Places /\ pc \in [Pool -> AllPlaces]
  /\ \A s \in Pool : pc[s] \in IF s \in Systems THEN Places[main] ELSE {"none"}
  /\ abandoned \in BOOLEAN /\ alone \in BOOLEAN
  /\ runs \in Nat /\ fault \in {"none", "plugin", "model", "manager"}

(* What of Clean never becomes true again.                                 *)
Accepted == ~abandoned /\ ~alone /\ (runs > 1 => setup.failing = {})

(* The entry of a subsystem in the map, unless it has been lost.           *)
Entered(s, plugin) == plugins[s] = plugin \/ (s \in raced /\ plugins[s] = "none")

(* Before the first call of simulate, and until a thread of it has come to *)
(* the end, a subsystem is not on a list.                                  *)
ListsInv ==
  /\ runs = 0 => connectedsubsystems = {} /\ main = "idle"
  /\ runs <= 1 /\ main = "connecting" =>
       /\ initializedsubsystems = {}
       /\ \A s \in Systems : pc[s] # "done" => s \notin connectedsubsystems
  /\ runs = 0 => initializedsubsystems = {}

(* Every thread has entered its plugin, and registered it when it is on    *)
(* the list; in oms2 it deletes it when it is done.                        *)
PluginsInv ==
  /\ \A s \in Systems :
       /\ pc[s] = "inserting" => plugins[s] = "none"
       /\ pc[s] = "inserted" => Entered(s, "created")
       /\ Accepted /\ main = "connecting" /\ pc[s] = "done" /\ s \in connectedsubsystems =>
            Entered(s, "registered")
  /\ Accepted /\ main \in {"initializing", "simulating", "joining"} =>
       \A s \in Systems :
         Entered(s, "registered") \/ (Oms2 /\ main # "initializing" /\ pc[s] = "done")

(* The FMUs have left the initialisation mode, and their plugins have the  *)
(* initial values.                                                         *)
ModesInv ==
  /\ \A s \in Pool : mode[s] = "unloaded" => alone
  /\ main \in {"initializing", "simulating", "joining"} =>
       \A s \in Systems : main # "initializing" \/ pc[s] = "done" => mode[s] # "initialization"
  /\ Oms2 /\ runs = 1 /\ main \in {"initializing", "simulating", "joining"} =>
       \A s \in Systems : main # "initializing" \/ s \in initializedsubsystems =>
         InitialValues(s) \subseteq given

IInv == TypeOK /\ ListsInv /\ PluginsInv /\ ModesInv /\ NothingMissing

(* The delays the subsystems are limited by are the manager's, and the     *)
(* garbage of a bus that is not connected does not stop them.              *)
LimitsAreRight ==
  /\ \A e \in Buses : managed[e[1]] # NotThere => \E d \in delay[e] : d <= managed[e[1]]
  /\ \A e \in Buses : \A d \in delay[e] : d > 0
  /\ \A s \in setup.loose : unset > 0

(* Subsystems that wait for each other's motions do not wait for ever:     *)
(* the first call of simulate returns, with an error, or with ok when all  *)
(* is done.                                                                *)
SimulateReturns ==
  (main = "connecting" /\ runs = 1 /\ LimitsAreRight)
    ~> ((main = "idle" /\ (status = "ok" => AllDone)) \/ ~Clean)
=============================================================================
