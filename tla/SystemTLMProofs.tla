--------------------------- MODULE SystemTLMProofs ---------------------------
(***************************************************************************)
(* Proofs about SystemTLM for any number of subsystems, buses, connections *)
(* and calls of simulate, whatever the plugins and the FMUs refuse.        *)
(***************************************************************************)
EXTENDS SystemTLM, TLAPS

(* Where a thread is says which phase stepUntil is in.                     *)
LEMMA PhaseOf ==
  ASSUME TypeOK, NEW s \in Systems
  PROVE  /\ pc[s] \in {"connect", "inserting", "inserted"} => main = "connecting"
         /\ pc[s] = "initialize" => main = "initializing"
         /\ pc[s] \in {"simulate", "stepped", "closing"} => main = "simulating"
         /\ pc[s] = "disconnect" => main = "disconnecting"
         /\ main = "idle" => pc[s] = "none"
<1>1. s \in Pool /\ pc[s] \in Places[main] /\ main \in DOMAIN Places
  BY DEF TypeOK, Systems
<1> QED
  BY <1>1 DEF Places

(* The places of the phases, one by one. *)
LEMMA PhasePlaces ==
  /\ DOMAIN Places = {"idle", "connecting", "initializing", "simulating", "joining", "disconnecting"}
  /\ Places["idle"] = {"none"}
  /\ Places["connecting"] = {"connect", "inserting", "inserted", "done"}
  /\ Places["initializing"] = {"initialize", "done"}
  /\ Places["simulating"] = {"simulate", "stepped", "closing", "done"}
  /\ Places["joining"] = {"done"}
  /\ Places["disconnecting"] = {"disconnect", "done"}
BY DEF Places

(* Nothing holds of a phase that is over: what is left between two calls.  *)
LEMMA IdleInv ==
  ASSUME TypeOK', NothingMissing', main' = "idle",
         runs' = 0 => connectedsubsystems' = {} /\ initializedsubsystems' = {},
         \A s \in Pool' : mode'[s] = "unloaded" => alone'
  PROVE  IInv'
<1>1. \A s \in Systems' : s \in Pool' /\ pc'[s] = "none"
  BY PhasePlaces DEF TypeOK, Systems
<1>2. ListsInv'
  BY DEF ListsInv
<1>3. PluginsInv'
  BY <1>1 DEF PluginsInv
<1>4. ModesInv'
  BY DEF ModesInv
<1> QED
  BY <1>2, <1>3, <1>4 DEF IInv

(* What a subsystem has when it is Clean where it uses its plugin.         *)
LEMMA MissingIsUnclean ==
  ASSUME IInv, NEW s \in Systems, ~ Usable(s),
         pc[s] \in {"initialize", "simulate", "stepped", "closing"}
  PROVE  ~ Clean
<1> SUFFICES ASSUME Clean PROVE FALSE
  OBVIOUS
<1>1. TypeOK /\ PluginsInv
  BY DEF IInv
<1>2. Accepted /\ \A r \in raced : plugins[r] # "none"
  BY DEF Clean, Accepted
<1>3. main \in {"initializing", "simulating"} /\ pc[s] # "done"
  BY <1>1, PhaseOf
<1>4. Entered(s, "registered")
  BY <1>1, <1>2, <1>3 DEF PluginsInv
<1> QED
  BY <1>2, <1>4 DEF Entered, Usable

LEMMA InitInv == Init => IInv
<1> SUFFICES ASSUME Init PROVE IInv
  OBVIOUS
<1>1. /\ fmiModels \subseteq Pool /\ raced = {} /\ main = "idle" /\ runs = 0 /\ fault = "none"
      /\ mode = [s \in Pool |-> "initialization"]
      /\ plugins = [s \in Pool |-> "none"] /\ pc = [s \in Pool |-> "none"]
      /\ connectedsubsystems = {} /\ initializedsubsystems = {}
      /\ alone = FALSE /\ abandoned = FALSE
  BY DEF Init, Everywhere
<1>2. TypeOK
  <2>1. main \in DOMAIN Places /\ Places[main] = {"none"}
    BY <1>1, PhasePlaces
  <2> QED
    BY <1>1, <2>1 DEF TypeOK, Modes, Plugins, AllPlaces
<1>3. ListsInv
  BY <1>1 DEF ListsInv
<1>4. PluginsInv
  BY <1>1 DEF PluginsInv, Systems
<1>5. ModesInv
  BY <1>1 DEF ModesInv
<1>6. NothingMissing
  BY <1>1 DEF NothingMissing
<1> QED
  BY <1>2, <1>3, <1>4, <1>5, <1>6 DEF IInv

-----------------------------------------------------------------------------
(* The client. *)

LEMMA BuildInv ==
  ASSUME IInv, Build
  PROVE  IInv'
<1>0. TypeOK /\ ListsInv /\ ModesInv /\ NothingMissing
  BY DEF IInv
<1>1. /\ fault = "none" /\ main = "idle" /\ fmiModels' \subseteq Pool
      /\ UNCHANGED <<setup, mode, plugins, raced, connectedsubsystems, initializedsubsystems, alone,
                     pc, main, abandoned, runs, fault>>
  BY <1>0 DEF Build, Building, Idle, AddFMIModel, AddInterface, AddConnection, SetTLMInitialValues,
              building, delays, steps, lists, call, TypeOK
<1>2. TypeOK'
  <2>1. \A s \in Pool : pc[s] = "none"
    BY <1>0, <1>1, PhasePlaces DEF TypeOK
  <2>2. Places[main] = {"none"}
    BY <1>1, PhasePlaces
  <2> QED
    BY <1>0, <1>1, <2>1, <2>2 DEF TypeOK, Pool, Systems
<1>3. NothingMissing'
  BY <1>1 DEF NothingMissing
<1>4. \A s \in Pool' : mode'[s] = "unloaded" => alone'
  BY <1>0, <1>1 DEF ModesInv, Pool
<1>5. runs' = 0 => connectedsubsystems' = {} /\ initializedsubsystems' = {}
  BY <1>0, <1>1 DEF ListsInv
<1> QED
  BY <1>1, <1>2, <1>3, <1>4, <1>5, IdleInv

(* Calls of a model that is not simulated meanwhile.                       *)
LEMMA ModelCallInv ==
  ASSUME IInv,
         \/ \E c \in Connections, h \in Halves : SetTLMConnectionParameters(c, h)
         \/ Initialize \/ Terminate \/ Reset \/ Delete
  PROVE  IInv'
<1>0. TypeOK /\ ListsInv /\ ModesInv /\ NothingMissing
  BY DEF IInv
<1>1. /\ fault = "none" /\ main = "idle"
      /\ UNCHANGED <<setup, fmiModels, plugins, raced, connectedsubsystems, initializedsubsystems,
                     alone, pc, main, abandoned, runs>>
  BY DEF SetTLMConnectionParameters, Initialize, Terminate, Reset, Delete, Idle,
         building, delays, steps, lists, call
<1>2. mode' \in [Pool -> Modes] /\ \A s \in Pool : mode'[s] \in {mode[s], "freed"}
  <2>1. CASE Terminate
    <3> DEFINE n == Min({Len(setup.systems) + 1} \cup
                        {m \in DOMAIN setup.systems : mode[setup.systems[m]] # "simulation"})
               done == {setup.systems[m] : m \in 1..(n - 1)}
    <3>1. mode' = [s \in Pool |-> IF s \in done THEN "freed" ELSE mode[s]]
      BY <2>1 DEF Terminate
    <3> HIDE DEF done
    <3> QED
      BY <1>0, <3>1 DEF TypeOK, Modes
  <2>2. CASE ~ Terminate
    <3>1. mode' = mode
      BY <2>2 DEF SetTLMConnectionParameters, Initialize, Reset, Delete, steps
    <3> QED
      BY <1>0, <3>1 DEF TypeOK
  <2> QED
    BY <2>1, <2>2
<1>3. \/ fault' = "none"
      \/ fault' = "model" /\ Unloaded
      \/ fault' = "manager" /\ abandoned
  BY <1>1 DEF SetTLMConnectionParameters, Initialize, Terminate, Reset, Delete
<1>4. TypeOK'
  BY <1>0, <1>1, <1>2, <1>3 DEF TypeOK, Pool, Systems
<1>5. NothingMissing'
  <2>1. Unloaded => alone
    BY <1>0 DEF Unloaded, ModesInv, TypeOK, Systems
  <2>2. fault' # "none" => alone' \/ abandoned'
    BY <1>1, <1>3, <2>1
  <2> QED
    BY <2>2 DEF NothingMissing, Clean
<1>6. \A s \in Pool' : mode'[s] = "unloaded" => alone'
  BY <1>0, <1>1, <1>2 DEF ModesInv, Pool
<1>7. runs' = 0 => connectedsubsystems' = {} /\ initializedsubsystems' = {}
  BY <1>0, <1>1 DEF ListsInv
<1> QED
  BY <1>1, <1>4, <1>5, <1>6, <1>7, IdleInv

(* Calls of a subsystem on its own.                                        *)
LEMMA OnItsOwnInv ==
  ASSUME IInv, NEW s \in Pool,
         ResetSubModel(s) \/ InitializeSubModel(s) \/ DeleteFMU(s) \/ UnloadSubModel(s)
  PROVE  IInv'
<1>0. TypeOK /\ ListsInv /\ ModesInv /\ NothingMissing
  BY DEF IInv
<1>1. /\ fault = "none" /\ main = "idle"
      /\ UNCHANGED <<setup, fmiModels, plugins, raced, connectedsubsystems, initializedsubsystems,
                     pc, main, abandoned, runs>>
  BY DEF ResetSubModel, InitializeSubModel, DeleteFMU, UnloadSubModel, OnItsOwn, Idle,
         building, lists, call
<1>2. \/ /\ mode' = [mode EXCEPT ![s] = "initialization"] /\ UNCHANGED <<alone, fault>>
      \/ /\ mode' \in {[mode EXCEPT ![s] = m] : m \in {"simulation", "missing", "unloaded"}}
         /\ alone' = TRUE /\ fault' \in {"plugin", fault}
  BY DEF ResetSubModel, InitializeSubModel, DeleteFMU, UnloadSubModel
<1>3. TypeOK'
  <2>1. mode' \in [Pool -> Modes] /\ alone' \in BOOLEAN
    BY <1>0, <1>2 DEF TypeOK, Modes
  <2>2. fault' \in {"none", "plugin"}
    BY <1>1, <1>2
  <2> QED
    BY <1>0, <1>1, <2>1, <2>2 DEF TypeOK, Pool, Systems
<1>4. NothingMissing'
  BY <1>1, <1>2 DEF NothingMissing, Clean
<1>5. \A r \in Pool' : mode'[r] = "unloaded" => alone'
  BY <1>0, <1>1, <1>2 DEF ModesInv, Pool, TypeOK
<1>6. runs' = 0 => connectedsubsystems' = {} /\ initializedsubsystems' = {}
  BY <1>0, <1>1 DEF ListsInv
<1> QED
  BY <1>1, <1>3, <1>4, <1>5, <1>6, IdleInv
LEMMA SimulateInv ==
  ASSUME IInv, Simulate
  PROVE  IInv'
<1>0. TypeOK /\ ListsInv /\ ModesInv /\ NothingMissing
  BY DEF IInv
<1>1. /\ fault = "none" /\ main = "idle" /\ runs' = runs + 1
      /\ fault' = IF Unloaded THEN "model" ELSE fault
      /\ \/ UNCHANGED <<main, pc>>
         \/ /\ main' = "connecting"
            /\ pc' = [s \in Pool |-> IF s \in Systems THEN "connect" ELSE "none"]
      /\ UNCHANGED <<setup, fmiModels, mode, plugins, raced, connectedsubsystems,
                     initializedsubsystems, alone, abandoned>>
  BY DEF Simulate, Idle, Enter, building, delays, steps, lists
<1>2. runs \in Nat /\ runs' \in Nat /\ runs' # 0 /\ (runs' <= 1 => runs = 0)
  BY <1>0, <1>1 DEF TypeOK
<1>3. NothingMissing'
  <2>1. Unloaded => alone
    BY <1>0 DEF Unloaded, ModesInv, TypeOK, Systems
  <2> QED
    BY <1>1, <2>1 DEF NothingMissing, Clean
<1>4. fault' \in {"none", "model"}
  BY <1>1
<1>5. CASE UNCHANGED <<main, pc>>
  <2>1. TypeOK'
    BY <1>0, <1>1, <1>2, <1>4, <1>5 DEF TypeOK, Pool, Systems
  <2>2. \A s \in Pool' : mode'[s] = "unloaded" => alone'
    BY <1>0, <1>1 DEF ModesInv, Pool
  <2> QED
    BY <1>1, <1>2, <1>3, <1>5, <2>1, <2>2, IdleInv
<1>6. CASE /\ main' = "connecting"
           /\ pc' = [s \in Pool |-> IF s \in Systems THEN "connect" ELSE "none"]
  <2>1. TypeOK'
    <3>1. pc' \in [Pool -> AllPlaces]
      BY <1>6 DEF AllPlaces
    <3>2. \A s \in Pool : pc'[s] \in IF s \in Systems THEN Places["connecting"] ELSE {"none"}
      BY <1>6, PhasePlaces
    <3>3. main' \in DOMAIN Places
      BY <1>6, PhasePlaces
    <3> QED
      BY <1>0, <1>1, <1>2, <1>4, <1>6, <3>1, <3>2, <3>3 DEF TypeOK, Pool, Systems
  <2>2. \A s \in Systems' : pc'[s] = "connect"
    BY <1>0, <1>1, <1>6 DEF TypeOK, Systems
  <2>3. ListsInv'
    BY <1>0, <1>1, <1>2, <1>6, <2>2 DEF ListsInv
  <2>4. PluginsInv'
    BY <1>6, <2>2 DEF PluginsInv
  <2>5. ModesInv'
    BY <1>0, <1>1, <1>6 DEF ModesInv, Pool
  <2> QED
    BY <1>3, <2>1, <2>3, <2>4, <2>5 DEF IInv
<1> QED
  BY <1>1, <1>5, <1>6

-----------------------------------------------------------------------------
(* The phases of stepUntil. *)

(* An error return. *)
LEMMA FailInv ==
  ASSUME IInv, Fail, fault = "none",
         UNCHANGED <<setup, fmiModels, mode, plugins, raced, connectedsubsystems,
                     initializedsubsystems, alone, runs, fault>>
  PROVE  IInv'
<1>0. TypeOK /\ ListsInv /\ ModesInv
  BY DEF IInv
<1>1. /\ main' = "idle" /\ abandoned' = TRUE
      /\ pc' = [s \in Pool |-> IF s \in Systems THEN "none" ELSE "none"]
  BY DEF Fail, Enter
<1>2. TypeOK'
  <2>1. pc' \in [Pool -> AllPlaces] /\ \A s \in Pool : pc'[s] = "none"
    BY <1>1 DEF AllPlaces
  <2>2. main' \in DOMAIN Places /\ Places[main'] = {"none"}
    BY <1>1, PhasePlaces
  <2> QED
    BY <1>0, <1>1, <2>1, <2>2 DEF TypeOK, Pool, Systems
<1>3. NothingMissing'
  BY DEF NothingMissing
<1>4. \A s \in Pool' : mode'[s] = "unloaded" => alone'
  BY <1>0 DEF ModesInv, Pool
<1>5. runs' = 0 => connectedsubsystems' = {} /\ initializedsubsystems' = {}
  BY <1>0 DEF ListsInv
<1> QED
  BY <1>1, <1>2, <1>3, <1>4, <1>5, IdleInv

(* All threads are joined, and the subsystems on the list have their       *)
(* plugins.                                                                *)
LEMMA ConnectInv ==
  ASSUME IInv, Connect
  PROVE  IInv'
<1>0. TypeOK /\ ListsInv /\ PluginsInv /\ ModesInv /\ NothingMissing
  BY DEF IInv
<1>1. /\ fault = "none" /\ main = "connecting" /\ \A s \in Systems : pc[s] = "done"
      /\ \/ Fail
         \/ /\ connectedsubsystems = Systems /\ main' = "initializing"
            /\ pc' = [s \in Pool |-> IF s \in Systems THEN "initialize" ELSE "none"]
            /\ UNCHANGED abandoned
      /\ UNCHANGED <<setup, fmiModels, managed, initialValues, mode, plugins, raced,
                     connectedsubsystems, initializedsubsystems, given, alone, runs, fault>>
  BY DEF Connect, Running, Joined, Enter, building, delays, steps, lists
<1>2. CASE Fail
  BY <1>1, <1>2, FailInv
<1>3. CASE /\ connectedsubsystems = Systems /\ main' = "initializing"
           /\ pc' = [s \in Pool |-> IF s \in Systems THEN "initialize" ELSE "none"]
           /\ UNCHANGED abandoned
  <2>1. TypeOK'
    <3>1. pc' \in [Pool -> AllPlaces]
      BY <1>3 DEF AllPlaces
    <3>2. \A s \in Pool : pc'[s] \in IF s \in Systems THEN Places["initializing"] ELSE {"none"}
      BY <1>3, PhasePlaces
    <3>3. main' \in DOMAIN Places
      BY <1>3, PhasePlaces
    <3> QED
      BY <1>0, <1>1, <1>3, <3>1, <3>2, <3>3 DEF TypeOK, Pool, Systems
  <2>2. \A s \in Systems' : pc'[s] = "initialize"
    BY <1>0, <1>1, <1>3 DEF TypeOK, Systems
  <2>3. ListsInv'
    BY <1>0, <1>1, <1>3 DEF ListsInv
  <2>4. PluginsInv'
    <3>1. Accepted => \A s \in Systems : Entered(s, "registered")
      BY <1>0, <1>1, <1>3 DEF PluginsInv
    <3>2. UNCHANGED Accepted
      BY <1>1, <1>3 DEF Accepted
    <3>3. Accepted' => \A s \in Systems' : Entered(s, "registered")'
      BY <1>1, <3>1, <3>2 DEF Entered, Systems
    <3> QED
      BY <1>3, <2>2, <3>3 DEF PluginsInv
  <2>5. ModesInv'
    <3>1. \A s \in Pool' : mode'[s] = "unloaded" => alone'
      BY <1>0, <1>1 DEF ModesInv, Pool
    <3>2. runs' = 1 => initializedsubsystems' = {}
      BY <1>0, <1>1 DEF ListsInv
    <3> QED
      BY <1>3, <2>2, <3>1, <3>2 DEF ModesInv
  <2>6. NothingMissing'
    BY <1>1 DEF NothingMissing
  <2> QED
    BY <2>1, <2>3, <2>4, <2>5, <2>6 DEF IInv
<1> QED
  BY <1>1, <1>2, <1>3

LEMMA InitializeAllInv ==
  ASSUME IInv, InitializeAll
  PROVE  IInv'
<1>0. TypeOK /\ ListsInv /\ PluginsInv /\ ModesInv /\ NothingMissing
  BY DEF IInv
<1>1. /\ fault = "none" /\ main = "initializing" /\ \A s \in Systems : pc[s] = "done"
      /\ \/ Fail
         \/ /\ initializedsubsystems = Systems /\ main' = "simulating"
            /\ pc' = [s \in Pool |-> IF s \in Systems THEN "simulate" ELSE "none"]
            /\ UNCHANGED abandoned
      /\ UNCHANGED <<setup, fmiModels, managed, initialValues, mode, plugins, raced,
                     connectedsubsystems, initializedsubsystems, given, alone, runs, fault>>
  BY DEF InitializeAll, Running, Joined, Enter, building, delays, steps, lists
<1>2. CASE Fail
  BY <1>1, <1>2, FailInv
<1>3. CASE /\ initializedsubsystems = Systems /\ main' = "simulating"
           /\ pc' = [s \in Pool |-> IF s \in Systems THEN "simulate" ELSE "none"]
           /\ UNCHANGED abandoned
  <2>1. TypeOK'
    <3>1. pc' \in [Pool -> AllPlaces]
      BY <1>3 DEF AllPlaces
    <3>2. \A s \in Pool : pc'[s] \in IF s \in Systems THEN Places["simulating"] ELSE {"none"}
      BY <1>3, PhasePlaces
    <3>3. main' \in DOMAIN Places
      BY <1>3, PhasePlaces
    <3> QED
      BY <1>0, <1>1, <1>3, <3>1, <3>2, <3>3 DEF TypeOK, Pool, Systems
  <2>2. \A s \in Systems' : pc'[s] = "simulate"
    BY <1>0, <1>1, <1>3 DEF TypeOK, Systems
  <2>3. ListsInv'
    BY <1>0, <1>1, <1>3 DEF ListsInv
  <2>4. PluginsInv'
    <3>1. Accepted => \A s \in Systems : Entered(s, "registered")
      BY <1>0, <1>1, <1>3 DEF PluginsInv
    <3>2. UNCHANGED Accepted
      BY <1>1, <1>3 DEF Accepted
    <3>3. Accepted' => \A s \in Systems' : Entered(s, "registered")'
      BY <1>1, <3>1, <3>2 DEF Entered, Systems
    <3> QED
      BY <1>3, <2>2, <3>3 DEF PluginsInv
  <2>5. ModesInv'
    <3>1. \A s \in Pool' : mode'[s] = "unloaded" => alone'
      BY <1>0, <1>1 DEF ModesInv, Pool
    <3>2. \A s \in Systems' : mode'[s] # "initialization"
      BY <1>0, <1>1 DEF ModesInv, Systems
    <3>3. Oms2' /\ runs' = 1 => \A s \in Systems' : InitialValues(s)' \subseteq given'
      <4>1. Oms2 /\ runs = 1 => \A s \in Systems : InitialValues(s) \subseteq given
        BY <1>0, <1>1, <1>3 DEF ModesInv
      <4> QED
        BY <1>1, <4>1 DEF Oms2, Systems, InitialValues, Ends, Kind, Owner, Buses, Connections
    <3> QED
      BY <3>1, <3>2, <3>3 DEF ModesInv
  <2>6. NothingMissing'
    BY <1>1 DEF NothingMissing
  <2> QED
    BY <2>1, <2>3, <2>4, <2>5, <2>6 DEF IInv
<1> QED
  BY <1>1, <1>2, <1>3

(* The thread of stepUntil waits for the manager.                          *)
LEMMA JoiningInv ==
  ASSUME IInv, SimulateAll \/ MasterEnds
  PROVE  IInv'
<1>0. TypeOK /\ ListsInv /\ PluginsInv /\ ModesInv /\ NothingMissing
  BY DEF IInv
<1>1. /\ fault = "none" /\ main \in {"simulating", "joining"} /\ \A s \in Systems : pc[s] = "done"
      /\ main' \in {main, "joining"}
      /\ UNCHANGED <<setup, fmiModels, managed, initialValues, mode, plugins, raced, pc, abandoned,
                     connectedsubsystems, initializedsubsystems, given, alone, runs, fault>>
  BY DEF SimulateAll, MasterEnds, Running, Joined, building, delays, steps, lists
<1>2. TypeOK'
  <2>1. main' \in DOMAIN Places /\ "done" \in Places[main']
    BY <1>1, PhasePlaces
  <2> QED
    BY <1>0, <1>1, <2>1 DEF TypeOK, Pool, Systems
<1>3. ListsInv'
  BY <1>0, <1>1 DEF ListsInv
<1>4. PluginsInv'
  <2>1. Accepted => \A s \in Systems : Entered(s, "registered") \/ Oms2
    BY <1>0, <1>1 DEF PluginsInv
  <2>2. Accepted' => \A s \in Systems' : Entered(s, "registered")' \/ Oms2'
    BY <1>1, <2>1 DEF Accepted, Entered, Systems, Oms2
  <2>3. main' \notin {"initializing", "connecting"} /\ \A s \in Systems' : pc'[s] = "done"
    BY <1>1 DEF Systems
  <2> QED
    BY <2>2, <2>3 DEF PluginsInv
<1>5. ModesInv'
  <2>1. \A s \in Pool' : mode'[s] = "unloaded" => alone'
    BY <1>0, <1>1 DEF ModesInv, Pool
  <2>2. \A s \in Systems' : mode'[s] # "initialization"
    BY <1>0, <1>1 DEF ModesInv, Systems
  <2>3. Oms2' /\ runs' = 1 => \A s \in Systems' : InitialValues(s)' \subseteq given'
    <3>1. Oms2 /\ runs = 1 => \A s \in Systems : InitialValues(s) \subseteq given
      BY <1>0, <1>1 DEF ModesInv
    <3> QED
      BY <1>1, <3>1 DEF Oms2, Systems, InitialValues, Ends, Kind, Owner, Buses, Connections
  <2> QED
    BY <2>1, <2>2, <2>3 DEF ModesInv
<1>6. NothingMissing'
  BY <1>1 DEF NothingMissing
<1> QED
  BY <1>2, <1>3, <1>4, <1>5, <1>6 DEF IInv

(* oms3 goes on to disconnect, the others return. *)
LEMMA ReturnInv ==
  ASSUME IInv, JoinMaster \/ Return
  PROVE  IInv'
<1>0. TypeOK /\ ListsInv /\ ModesInv
  BY DEF IInv
<1>1. /\ fault = "none" /\ main \in {"joining", "disconnecting"}
      /\ \/ main' = "idle" /\ pc' = [s \in Pool |-> IF s \in Systems THEN "none" ELSE "none"]
         \/ /\ main' = "disconnecting"
            /\ pc' = [s \in Pool |-> IF s \in Systems THEN "disconnect" ELSE "none"]
      /\ UNCHANGED <<setup, fmiModels, mode, plugins, raced, abandoned, connectedsubsystems,
                     initializedsubsystems, alone, runs, fault>>
  BY DEF JoinMaster, Return, Running, Enter, building, delays, steps, lists
<1>2. NothingMissing'
  BY <1>1 DEF NothingMissing
<1>3. \A s \in Pool' : mode'[s] = "unloaded" => alone'
  BY <1>0, <1>1 DEF ModesInv, Pool
<1>4. runs # 0 /\ runs' = runs
  BY <1>0, <1>1 DEF ListsInv
<1>5. CASE main' = "idle" /\ pc' = [s \in Pool |-> IF s \in Systems THEN "none" ELSE "none"]
  <2>1. pc' \in [Pool -> AllPlaces] /\ \A s \in Pool : pc'[s] = "none"
    BY <1>5 DEF AllPlaces
  <2>2. main' \in DOMAIN Places /\ Places[main'] = {"none"}
    BY <1>5, PhasePlaces
  <2>3. TypeOK'
    BY <1>0, <1>1, <2>1, <2>2 DEF TypeOK, Pool, Systems
  <2> QED
    BY <1>2, <1>3, <1>4, <1>5, <2>3, IdleInv
<1>6. CASE /\ main' = "disconnecting"
           /\ pc' = [s \in Pool |-> IF s \in Systems THEN "disconnect" ELSE "none"]
  <2>1. TypeOK'
    <3>1. pc' \in [Pool -> AllPlaces]
      BY <1>6 DEF AllPlaces
    <3>2. \A s \in Pool : pc'[s] \in IF s \in Systems THEN Places["disconnecting"] ELSE {"none"}
      BY <1>6, PhasePlaces
    <3>3. main' \in DOMAIN Places
      BY <1>6, PhasePlaces
    <3> QED
      BY <1>0, <1>1, <1>6, <3>1, <3>2, <3>3 DEF TypeOK, Pool, Systems
  <2>2. \A s \in Systems' : pc'[s] = "disconnect"
    BY <1>0, <1>1, <1>6 DEF TypeOK, Systems
  <2>3. ListsInv'
    BY <1>4, <1>6 DEF ListsInv
  <2>4. PluginsInv'
    BY <1>6, <2>2 DEF PluginsInv
  <2>5. ModesInv'
    BY <1>3, <1>6 DEF ModesInv
  <2> QED
    BY <1>2, <2>1, <2>3, <2>4, <2>5 DEF IInv
<1> QED
  BY <1>1, <1>5, <1>6
-----------------------------------------------------------------------------
(* The threads of the subsystems. *)

(* A thread that goes to another place of its phase.                       *)
LEMMA GoTyped ==
  ASSUME TypeOK, NEW s \in Systems, NEW place \in Places[main], pc' = [pc EXCEPT ![s] = place]
  PROVE  /\ pc' \in [Pool -> AllPlaces] /\ pc'[s] = place
         /\ \A r \in Pool : r # s => pc'[r] = pc[r]
         /\ \A r \in Pool : pc'[r] \in IF r \in Systems THEN Places[main] ELSE {"none"}
<1>1. s \in Pool /\ pc \in [Pool -> AllPlaces] /\ main \in DOMAIN Places
  BY DEF TypeOK, Systems
<1>2. place \in AllPlaces
  BY <1>1 DEF Places, AllPlaces
<1>3. pc' \in [Pool -> AllPlaces] /\ pc'[s] = place /\ \A r \in Pool : r # s => pc'[r] = pc[r]
  BY <1>1, <1>2
<1>4. \A r \in Pool : pc'[r] \in IF r \in Systems THEN Places[main] ELSE {"none"}
  BY <1>3 DEF TypeOK
<1> QED
  BY <1>3, <1>4

(* What the initial values of a subsystem depend on. *)
LEMMA InitialValuesStay ==
  ASSUME UNCHANGED <<setup, managed, initialValues>>
  PROVE  UNCHANGED Oms2 /\ \A s : InitialValues(s)' = InitialValues(s)
BY DEF Oms2, InitialValues, Ends, Kind, Owner, Buses, Connections

(* The steps of the first phase.                                           *)
LEMMA ConnectingInv ==
  ASSUME IInv, NEW s \in Systems,
         \/ ConnectToSockets(s) \/ SetupTLMSockets(s) \/ Insert(s) \/ Register(s) \/ RegisterFails(s)
  PROVE  IInv'
<1>0. TypeOK /\ ListsInv /\ PluginsInv /\ ModesInv /\ NothingMissing /\ s \in Pool
  BY DEF IInv, TypeOK, Systems
<1>1. /\ fault = "none" /\ pc[s] \in {"connect", "inserting", "inserted"}
      /\ UNCHANGED <<setup, fmiModels, managed, initialValues, mode, alone, runs, main, abandoned,
                     initializedsubsystems, fault>>
  BY DEF ConnectToSockets, SetupTLMSockets, Insert, Register, RegisterFails, Thread, Running,
         building, delays, steps, lists
<1>2. main = "connecting"
  BY <1>0, <1>1, PhaseOf
<1>3. PICK place \in {"inserting", "inserted", "done"} : pc' = [pc EXCEPT ![s] = place]
  BY DEF ConnectToSockets, SetupTLMSockets, Insert, Register, RegisterFails, Go
<1>4. /\ pc' \in [Pool -> AllPlaces] /\ pc'[s] = place
      /\ \A r \in Pool : r # s => pc'[r] = pc[r]
      /\ \A r \in Pool : pc'[r] \in IF r \in Systems THEN Places[main] ELSE {"none"}
  <2>1. place \in Places[main]
    BY <1>2, PhasePlaces
  <2> QED
    BY <1>0, <1>3, <2>1, GoTyped
<1>5. raced \subseteq raced' /\ raced' \subseteq Pool
  <2>1. {r \in Systems : pc[r] = "inserting"} \subseteq Pool
    BY <1>0 DEF TypeOK, Systems
  <2>2. raced' = raced \/ raced' = raced \cup {r \in Systems : pc[r] = "inserting"} \cup {s}
    BY DEF ConnectToSockets, SetupTLMSockets, Insert, Register, RegisterFails
  <2> QED
    BY <1>0, <2>1, <2>2 DEF TypeOK
<1>6. /\ plugins' \in [Pool -> Plugins]
      /\ \A r \in Pool : r # s => plugins'[r] = plugins[r]
  <2>1. \/ UNCHANGED plugins
        \/ plugins' = [plugins EXCEPT ![s] = "created"]
        \/ plugins' = [plugins EXCEPT ![s] = IF @ = "created" THEN "registered" ELSE @]
    BY DEF ConnectToSockets, SetupTLMSockets, Insert, Register, RegisterFails
  <2> QED
    BY <1>0, <2>1 DEF TypeOK, Plugins
<1>7. TypeOK'
  BY <1>0, <1>1, <1>4, <1>5, <1>6 DEF TypeOK, Pool, Systems
<1>8. /\ connectedsubsystems' \in {connectedsubsystems, connectedsubsystems \cup {s}}
      /\ s \in connectedsubsystems' \ connectedsubsystems => place = "done"
  <2>1. CASE Register(s)
    <3>1. pc' = [pc EXCEPT ![s] = "done"]
      BY <2>1 DEF Register, Go
    <3>2. place = "done"
      BY <1>0, <1>3, <3>1 DEF TypeOK
    <3> QED
      BY <2>1, <3>2 DEF Register
  <2>2. CASE ~ Register(s)
    BY <2>2 DEF ConnectToSockets, SetupTLMSockets, Insert, RegisterFails, lists
  <2> QED
    BY <2>1, <2>2
<1>9. ListsInv'
  <2>1. runs # 0
    BY <1>0, <1>2 DEF ListsInv
  <2>2. ASSUME runs <= 1, NEW r \in Systems, pc'[r] # "done" PROVE r \notin connectedsubsystems'
    <3>1. r \in Pool
      BY <1>0 DEF TypeOK, Systems
    <3>2. pc[r] # "done"
      BY <1>1, <1>4, <2>2, <3>1
    <3>3. r \notin connectedsubsystems
      BY <1>0, <1>2, <2>2, <3>2 DEF ListsInv
    <3> QED
      BY <1>4, <1>8, <2>2, <3>3
  <2> QED
    BY <1>0, <1>1, <1>2, <2>1, <2>2 DEF ListsInv, Systems
<1>10. PluginsInv'
  <2>1. UNCHANGED Accepted
    BY <1>1 DEF Accepted
  <2>2. ASSUME NEW r \in Systems, r # s
        PROVE  /\ pc'[r] = "inserting" => plugins'[r] = "none"
               /\ pc'[r] = "inserted" => Entered(r, "created")'
               /\ Accepted /\ pc'[r] = "done" /\ r \in connectedsubsystems' =>
                    Entered(r, "registered")'
    <3>1. r \in Pool /\ pc'[r] = pc[r] /\ plugins'[r] = plugins[r]
      BY <1>0, <1>4, <1>6, <2>2 DEF TypeOK, Systems
    <3>2. r \in connectedsubsystems' => r \in connectedsubsystems
      BY <1>8, <2>2
    <3>3. /\ Entered(r, "created") => Entered(r, "created")'
          /\ Entered(r, "registered") => Entered(r, "registered")'
      BY <1>5, <3>1 DEF Entered
    <3> QED
      BY <1>0, <1>2, <3>1, <3>2, <3>3 DEF PluginsInv
  <2>3. /\ pc'[s] = "inserting" => plugins'[s] = "none"
        /\ pc'[s] = "inserted" => Entered(s, "created")'
        /\ Accepted /\ pc'[s] = "done" /\ s \in connectedsubsystems' => Entered(s, "registered")'
    <3>1. CASE ConnectToSockets(s)
      <4>1. \/ pc' = [pc EXCEPT ![s] = "inserting"] /\ plugins[s] = "none" /\ plugins' = plugins
            \/ pc' = [pc EXCEPT ![s] = "inserted"] /\ plugins' = [plugins EXCEPT ![s] = "created"]
        BY <3>1 DEF ConnectToSockets, Go
      <4>2. \/ pc'[s] = "inserting" /\ plugins'[s] = "none"
            \/ pc'[s] = "inserted" /\ plugins'[s] = "created"
        BY <1>0, <4>1 DEF TypeOK
      <4> QED
        BY <4>2 DEF Entered
    <3>2. CASE SetupTLMSockets(s)
      <4>1. pc'[s] = "inserted" /\ plugins'[s] = "created"
        BY <1>0, <3>2 DEF SetupTLMSockets, Go, TypeOK
      <4> QED
        BY <4>1 DEF Entered
    <3>3. CASE Insert(s)
      <4>1. pc[s] = "inserting" /\ pc'[s] = "inserted"
        BY <1>0, <3>3 DEF Insert, Thread, Go, TypeOK
      <4>2. plugins[s] = "none"
        BY <1>0, <4>1 DEF PluginsInv
      <4>3. plugins'[s] = "created" \/ (s \in raced /\ plugins' = plugins)
        BY <1>0, <3>3 DEF Insert, TypeOK
      <4> QED
        BY <1>5, <4>1, <4>2, <4>3 DEF Entered
    <3>4. CASE Register(s)
      <4>1. pc[s] = "inserted" /\ pc'[s] = "done"
        BY <1>0, <3>4 DEF Register, Thread, Go, TypeOK
      <4>2. Entered(s, "created")
        BY <1>0, <4>1 DEF PluginsInv
      <4>3. plugins' = [plugins EXCEPT ![s] = IF @ = "created" THEN "registered" ELSE @]
        BY <3>4 DEF Register
      <4>4. plugins'[s] = IF plugins[s] = "created" THEN "registered" ELSE plugins[s]
        BY <1>0, <4>3 DEF TypeOK
      <4> QED
        BY <1>5, <4>1, <4>2, <4>4 DEF Entered
    <3>5. CASE RegisterFails(s)
      <4>1. pc[s] = "inserted" /\ pc'[s] = "done" /\ s \in setup.failing
        BY <1>0, <3>5 DEF RegisterFails, Thread, Go, TypeOK
      <4>2. connectedsubsystems' = connectedsubsystems
        BY <3>5 DEF RegisterFails, lists
      <4>3. CASE runs <= 1
        <5>1. s \notin connectedsubsystems
          BY <1>0, <1>2, <4>1, <4>3 DEF ListsInv
        <5> QED
          BY <4>1, <4>2, <5>1
      <4>4. CASE runs > 1
        <5>1. ~ Accepted
          BY <4>1, <4>4 DEF Accepted
        <5> QED
          BY <4>1, <5>1
      <4> QED
        BY <1>0, <4>3, <4>4 DEF TypeOK
    <3> QED
      BY <3>1, <3>2, <3>3, <3>4, <3>5
  <2> QED
    BY <1>1, <1>2, <2>1, <2>2, <2>3 DEF PluginsInv, Systems
<1>11. ModesInv'
  BY <1>0, <1>1, <1>2 DEF ModesInv, Pool
<1>12. NothingMissing'
  BY <1>1 DEF NothingMissing
<1> QED
  BY <1>7, <1>9, <1>10, <1>11, <1>12 DEF IInv

(* The steps of the second phase: the FMU leaves the initialisation mode   *)
(* or the subsystem is not put on the list.                                *)
LEMMA InitializingInv ==
  ASSUME IInv, NEW s \in Systems, NEW ok \in BOOLEAN,
         InitializeSubSystem(s, ok) \/ InitializeTLM(s, ok)
  PROVE  IInv'
<1>0. TypeOK /\ ListsInv /\ PluginsInv /\ ModesInv /\ NothingMissing /\ s \in Pool
  BY DEF IInv, TypeOK, Systems
<1>1. /\ fault = "none" /\ pc[s] = "initialize"
      /\ UNCHANGED <<setup, fmiModels, managed, initialValues, alone, runs, main, abandoned,
                     plugins, raced, connectedsubsystems>>
  BY DEF InitializeSubSystem, InitializeTLM, Thread, Running, building, delays
<1>2. main = "initializing"
  BY <1>0, <1>1, PhaseOf
<1>3. ~ Usable(s) => ~ Clean
  BY <1>1, MissingIsUnclean
<1>4. NothingMissing'
  <2>1. fault' = "none" \/ (fault' = "plugin" /\ ~ Usable(s))
    BY <1>1 DEF InitializeSubSystem, InitializeTLM
  <2>2. Clean' = Clean
    BY <1>1 DEF Clean
  <2> QED
    BY <1>3, <2>1, <2>2 DEF NothingMissing
<1>5. fault' \in {"none", "plugin"}
  BY <1>1 DEF InitializeSubSystem, InitializeTLM
<1>6. ListsInv'
  <2>1. runs # 0
    BY <1>0, <1>2 DEF ListsInv
  <2> QED
    BY <1>1, <1>2, <2>1 DEF ListsInv
<1>7. \/ pc' = pc /\ mode' = mode /\ UNCHANGED <<initializedsubsystems, given>>
      \/ /\ pc' = [pc EXCEPT ![s] = "done"]
         /\ \/ mode' = mode /\ mode[s] # "initialization"
            \/ mode' = [mode EXCEPT ![s] = "simulation"]
            \/ mode' = [mode EXCEPT ![s] = "error"]
         /\ \/ UNCHANGED <<initializedsubsystems, given>>
            \/ UNCHANGED initializedsubsystems /\ given \subseteq given'
            \/ /\ initializedsubsystems' = initializedsubsystems \cup {s} /\ given \subseteq given'
               /\ ~ Oms2 \/ InitialValues(s) \subseteq given'
  <2>1. CASE InitializeSubSystem(s, ok)
    BY <2>1 DEF InitializeSubSystem, Thread, Go
  <2>2. CASE InitializeTLM(s, ok)
    <3>1. CASE mode[s] # "initialization"
      BY <2>2, <3>1 DEF InitializeTLM, Go
    <3>2. CASE mode[s] = "initialization" /\ ~ Usable(s) /\ Ends(s) # {}
      BY <2>2, <3>2 DEF InitializeTLM, Go
    <3>3. CASE mode[s] = "initialization" /\ ~ (~ Usable(s) /\ Ends(s) # {})
      BY <2>2, <3>3 DEF InitializeTLM, Go
    <3> QED
      BY <3>1, <3>2, <3>3
  <2> QED
    BY <2>1, <2>2
<1>8. CASE pc' = pc /\ mode' = mode /\ UNCHANGED <<initializedsubsystems, given>>
  <2>1. TypeOK'
    BY <1>0, <1>1, <1>5, <1>8 DEF TypeOK, Pool, Systems
  <2>2. PluginsInv'
    BY <1>0, <1>1, <1>8 DEF PluginsInv, Entered, Accepted, Systems, Oms2
  <2>3. ModesInv'
    <3>1. UNCHANGED Oms2 /\ \A r : InitialValues(r)' = InitialValues(r)
      BY <1>1, InitialValuesStay
    <3> QED
      BY <1>0, <1>1, <1>8, <3>1 DEF ModesInv, Systems, Pool
  <2> QED
    BY <1>4, <1>6, <2>1, <2>2, <2>3 DEF IInv
<1>9. CASE /\ pc' = [pc EXCEPT ![s] = "done"]
           /\ \/ mode' = mode /\ mode[s] # "initialization"
              \/ mode' = [mode EXCEPT ![s] = "simulation"]
              \/ mode' = [mode EXCEPT ![s] = "error"]
           /\ \/ UNCHANGED <<initializedsubsystems, given>>
              \/ UNCHANGED initializedsubsystems /\ given \subseteq given'
              \/ /\ initializedsubsystems' = initializedsubsystems \cup {s} /\ given \subseteq given'
                 /\ ~ Oms2 \/ InitialValues(s) \subseteq given'
  <2>1. /\ pc' \in [Pool -> AllPlaces] /\ pc'[s] = "done"
        /\ \A r \in Pool : r # s => pc'[r] = pc[r]
        /\ \A r \in Pool : pc'[r] \in IF r \in Systems THEN Places[main] ELSE {"none"}
    <3>1. "done" \in Places[main]
      BY <1>2, PhasePlaces
    <3> QED
      BY <1>0, <1>9, <3>1, GoTyped
  <2>2. /\ mode' \in [Pool -> Modes] /\ mode'[s] # "initialization"
        /\ \A r \in Pool : r # s => mode'[r] = mode[r]
        /\ mode'[s] = "unloaded" => mode[s] = "unloaded"
    BY <1>0, <1>9 DEF TypeOK, Modes
  <2>3. TypeOK'
    BY <1>0, <1>1, <1>5, <2>1, <2>2 DEF TypeOK, Pool, Systems
  <2>4. PluginsInv'
    <3>1. Accepted' => \A r \in Systems' : Entered(r, "registered")'
      BY <1>0, <1>1, <1>2 DEF PluginsInv, Entered, Accepted, Systems
    <3>2. \A r \in Systems' : pc'[r] \in {"initialize", "done"}
      BY <1>0, <1>1, <1>2, <2>1, PhasePlaces DEF TypeOK, Systems
    <3> QED
      BY <1>1, <1>2, <3>1, <3>2 DEF PluginsInv
  <2>5. ModesInv'
    <3>1. UNCHANGED Oms2 /\ \A r : InitialValues(r)' = InitialValues(r)
      BY <1>1, InitialValuesStay
    <3>2. \A r \in Pool' : mode'[r] = "unloaded" => alone'
      BY <1>0, <1>1, <2>2 DEF ModesInv, Pool
    <3>3. ASSUME NEW r \in Systems, pc'[r] = "done" PROVE mode'[r] # "initialization"
      <4>1. r \in Pool
        BY <1>0 DEF TypeOK, Systems
      <4> QED
        BY <1>0, <1>2, <2>1, <2>2, <3>3, <4>1 DEF ModesInv
    <3>4. ASSUME Oms2, runs = 1, NEW r \in Systems, r \in initializedsubsystems'
          PROVE  InitialValues(r) \subseteq given'
      <4>1. r \in initializedsubsystems => InitialValues(r) \subseteq given
        BY <1>0, <1>2, <3>4 DEF ModesInv
      <4>2. given \subseteq given'
        BY <1>9
      <4>3. r \in initializedsubsystems \/ (r = s /\ InitialValues(s) \subseteq given')
        BY <1>9, <3>4
      <4> QED
        BY <4>1, <4>2, <4>3
    <3> QED
      BY <1>1, <1>2, <3>1, <3>2, <3>3, <3>4 DEF ModesInv, Systems
  <2> QED
    BY <1>4, <1>6, <2>3, <2>4, <2>5 DEF IInv
<1> QED
  BY <1>7, <1>8, <1>9
(* The steps of the third phase. *)
LEMMA SimulatingInv ==
  ASSUME IInv, NEW s \in Systems,
         \/ Read(s) \/ Write(s) \/ Skip(s) \/ Finish(s)
         \/ AwaitClosePermission(s) \/ FinalizeTLMSockets(s)
  PROVE  IInv'
<1>0. TypeOK /\ ListsInv /\ PluginsInv /\ ModesInv /\ NothingMissing /\ s \in Pool
  BY DEF IInv, TypeOK, Systems
<1>1. /\ fault = "none" /\ pc[s] \in {"simulate", "stepped", "closing"}
      /\ UNCHANGED <<setup, fmiModels, managed, initialValues, mode, alone, runs, main, abandoned,
                     raced, connectedsubsystems, initializedsubsystems, given>>
  BY DEF Read, Write, Skip, Finish, AwaitClosePermission, FinalizeTLMSockets, Thread, Running,
         UseOfMissing, building, delays, steps, lists
<1>2. main = "simulating"
  BY <1>0, <1>1, PhaseOf
<1>3. fault' = "none" \/ (fault' = "plugin" /\ ~ Usable(s) /\ UNCHANGED plugins)
  BY <1>1 DEF Read, Write, Skip, Finish, AwaitClosePermission, FinalizeTLMSockets, UseOfMissing
<1>4. NothingMissing'
  <2>1. ~ Usable(s) => ~ Clean
    BY <1>1, MissingIsUnclean
  <2>2. UNCHANGED plugins => Clean' = Clean
    BY <1>1 DEF Clean
  <2> QED
    BY <1>3, <2>1, <2>2 DEF NothingMissing
<1>5. \/ pc' = pc /\ plugins' = plugins
      \/ /\ \E place \in {"simulate", "stepped", "closing", "done"} : pc' = [pc EXCEPT ![s] = place]
         /\ plugins' = plugins
      \/ /\ pc' = [pc EXCEPT ![s] = "done"] /\ plugins' = [plugins EXCEPT ![s] = "null"]
         /\ Oms2
  BY DEF Read, Write, Skip, Finish, AwaitClosePermission, FinalizeTLMSockets, UseOfMissing, Go
<1>6. /\ pc' \in [Pool -> AllPlaces]
      /\ \A r \in Pool : r # s => pc'[r] = pc[r]
      /\ \A r \in Pool : pc'[r] \in IF r \in Systems THEN Places[main] ELSE {"none"}
  <2>1. CASE pc' = pc
    BY <1>0, <2>1 DEF TypeOK
  <2>2. ASSUME NEW place \in {"simulate", "stepped", "closing", "done"},
               pc' = [pc EXCEPT ![s] = place]
        PROVE  /\ pc' \in [Pool -> AllPlaces]
               /\ \A r \in Pool : r # s => pc'[r] = pc[r]
               /\ \A r \in Pool : pc'[r] \in IF r \in Systems THEN Places[main] ELSE {"none"}
    <3>1. place \in Places[main]
      BY <1>2, PhasePlaces
    <3> QED
      BY <1>0, <2>2, <3>1, GoTyped
  <2> QED
    BY <1>5, <2>1, <2>2
<1>7. /\ plugins' \in [Pool -> Plugins]
      /\ \A r \in Pool : r # s => plugins'[r] = plugins[r]
      /\ plugins'[s] = plugins[s] \/ (Oms2 /\ pc'[s] = "done")
  BY <1>0, <1>5 DEF TypeOK, Plugins
<1>8. TypeOK'
  BY <1>0, <1>1, <1>3, <1>6, <1>7 DEF TypeOK, Pool, Systems
<1>9. ListsInv'
  <2>1. runs # 0
    BY <1>0, <1>2 DEF ListsInv
  <2> QED
    BY <1>1, <1>2, <2>1 DEF ListsInv
<1>10. PluginsInv'
  <2>1. \A r \in Systems' : r \in Pool /\ pc'[r] \in {"simulate", "stepped", "closing", "done"}
    <3>1. \A r \in Systems : r \in Pool /\ pc'[r] \in Places["simulating"]
      BY <1>0, <1>2, <1>6 DEF TypeOK, Systems
    <3> QED
      BY <1>1, <3>1, PhasePlaces DEF Systems
  <2>2. ASSUME Accepted, NEW r \in Systems
        PROVE  Entered(r, "registered")' \/ (Oms2' /\ pc'[r] = "done")
    <3>1. r \in Pool /\ Oms2' = Oms2
      BY <1>0, <1>1 DEF TypeOK, Systems, Oms2
    <3>2. Entered(r, "registered") \/ (Oms2 /\ pc[r] = "done")
      BY <1>0, <1>2, <2>2 DEF PluginsInv
    <3>3. CASE r # s
      BY <1>1, <1>6, <1>7, <3>1, <3>2, <3>3 DEF Entered
    <3>4. CASE r = s
      BY <1>1, <1>7, <3>1, <3>2, <3>4 DEF Entered
    <3> QED
      BY <3>3, <3>4
  <2>3. Accepted' = Accepted
    BY <1>1 DEF Accepted
  <2> QED
    BY <1>1, <1>2, <2>1, <2>2, <2>3 DEF PluginsInv, Systems
<1>11. ModesInv'
  <2>1. UNCHANGED Oms2 /\ \A r : InitialValues(r)' = InitialValues(r)
    BY <1>1, InitialValuesStay
  <2> QED
    BY <1>0, <1>1, <1>2, <2>1 DEF ModesInv, Systems, Pool
<1> QED
  BY <1>4, <1>8, <1>9, <1>10, <1>11 DEF IInv

(* The last phase of oms3. *)
LEMMA DisconnectInv ==
  ASSUME IInv, NEW s \in Systems, DisconnectFromSockets(s)
  PROVE  IInv'
<1>0. TypeOK /\ ListsInv /\ ModesInv /\ s \in Pool
  BY DEF IInv, TypeOK, Systems
<1>1. /\ fault = "none" /\ pc[s] = "disconnect" /\ pc' = [pc EXCEPT ![s] = "done"]
      /\ plugins' = [plugins EXCEPT ![s] = "null"]
      /\ UNCHANGED <<setup, fmiModels, managed, initialValues, mode, alone, runs, main, abandoned,
                     raced, connectedsubsystems, initializedsubsystems, given, fault>>
  BY DEF DisconnectFromSockets, Go, Thread, Running, building, delays, steps, lists
<1>2. main = "disconnecting"
  BY <1>0, <1>1, PhaseOf
<1>3. /\ pc' \in [Pool -> AllPlaces]
      /\ \A r \in Pool : pc'[r] \in IF r \in Systems THEN Places[main] ELSE {"none"}
  <2>1. "done" \in Places[main]
    BY <1>2, PhasePlaces
  <2> QED
    BY <1>0, <1>1, <2>1, GoTyped
<1>4. TypeOK'
  <2>1. plugins' \in [Pool -> Plugins]
    BY <1>0, <1>1 DEF TypeOK, Plugins
  <2> QED
    BY <1>0, <1>1, <1>3, <2>1 DEF TypeOK, Pool, Systems
<1>5. ListsInv'
  BY <1>0, <1>1, <1>2 DEF ListsInv
<1>6. PluginsInv'
  <2>1. \A r \in Systems' : pc'[r] \in {"disconnect", "done"}
    <3>1. \A r \in Systems : pc'[r] \in Places["disconnecting"]
      BY <1>0, <1>2, <1>3 DEF TypeOK, Systems
    <3> QED
      BY <1>1, <3>1, PhasePlaces DEF Systems
  <2> QED
    BY <1>1, <1>2, <2>1 DEF PluginsInv
<1>7. ModesInv'
  BY <1>0, <1>1, <1>2 DEF ModesInv, Pool
<1>8. NothingMissing'
  BY <1>1 DEF NothingMissing
<1> QED
  BY <1>4, <1>5, <1>6, <1>7, <1>8 DEF IInv

(* A step that changes nothing. *)
LEMMA StutterInv ==
  ASSUME IInv, UNCHANGED vars
  PROVE  IInv'
<1>0. TypeOK /\ ListsInv /\ PluginsInv /\ ModesInv /\ NothingMissing
  BY DEF IInv
<1>1. UNCHANGED <<setup, fmiModels, managed, initialValues, mode, plugins, raced, alone, runs, pc,
                  main, abandoned, connectedsubsystems, initializedsubsystems, given, fault>>
  BY DEF vars, building, delays, steps, lists, call
<1>2. TypeOK'
  BY <1>0, <1>1 DEF TypeOK, Pool, Systems
<1>3. ListsInv'
  BY <1>0, <1>1 DEF ListsInv, Systems
<1>4. PluginsInv'
  BY <1>0, <1>1 DEF PluginsInv, Entered, Accepted, Systems, Oms2
<1>5. ModesInv'
  <2>1. UNCHANGED Oms2 /\ \A r : InitialValues(r)' = InitialValues(r)
    BY <1>1, InitialValuesStay
  <2> QED
    BY <1>0, <1>1, <2>1 DEF ModesInv, Systems, Pool
<1>6. NothingMissing'
  BY <1>0, <1>1 DEF NothingMissing, Clean
<1> QED
  BY <1>2, <1>3, <1>4, <1>5, <1>6 DEF IInv

LEMMA NextInv ==
  ASSUME IInv, [Next]_vars
  PROVE  IInv'
<1>1. CASE Build
  BY <1>1, BuildInv
<1>2. CASE \/ \E c \in Connections, h \in Halves : SetTLMConnectionParameters(c, h)
           \/ Initialize \/ Terminate \/ Reset \/ Delete
  BY <1>2, ModelCallInv
<1>3. CASE Simulate
  BY <1>3, SimulateInv
<1>4. CASE \E s \in Pool : ResetSubModel(s) \/ InitializeSubModel(s) \/ DeleteFMU(s) \/ UnloadSubModel(s)
  BY <1>4, OnItsOwnInv
<1>5. CASE StepUntil
  BY <1>5, ConnectInv, InitializeAllInv, JoiningInv, ReturnInv DEF StepUntil
<1>6. CASE MasterEnds
  BY <1>6, JoiningInv
<1>7. ASSUME NEW s \in Systems, SubSystem(s) PROVE IInv'
  BY <1>7, ConnectingInv, InitializingInv, SimulatingInv, DisconnectInv DEF SubSystem
<1>8. CASE UNCHANGED vars
  BY <1>8, StutterInv
<1> QED
  BY <1>1, <1>2, <1>3, <1>4, <1>5, <1>6, <1>7, <1>8 DEF Next

-----------------------------------------------------------------------------
(* The inductive invariant holds of every run. *)
THEOREM Invariance == Spec => []IInv
<1>1. Init => IInv
  BY InitInv
<1>2. IInv /\ [Next]_vars => IInv'
  BY NextInv
<1> QED
  BY <1>1, <1>2, PTL DEF Spec

(* Whoever uses a plugin or a model that is not there, in any order of the *)
(* threads: an error return, a refusal of a second call, an overlap of two *)
(* insertions or a call of a subsystem on its own has come before.         *)
THEOREM NothingIsMissing == Spec => []NothingMissing
<1>1. IInv => NothingMissing
  BY DEF IInv
<1> QED
  BY <1>1, Invariance, PTL

(* The joins between the phases are barriers: while one subsystem moves    *)
(* the plugins of all are registered, all FMUs have left the               *)
(* initialisation mode and, in oms2, the plugins have the initial values.  *)
THEOREM BarriersHold == Spec => []PhasesAreBarriers
<1>1. IInv => PhasesAreBarriers
  <2> SUFFICES ASSUME IInv, Clean, main \in {"simulating", "joining"}, NEW r \in Systems
               PROVE  /\ mode[r] # "initialization"
                      /\ plugins[r] = "registered" \/ (Oms2 /\ pc[r] = "done")
                      /\ Oms2 /\ runs = 1 => InitialValues(r) \subseteq given
    BY DEF PhasesAreBarriers
  <2>1. PluginsInv /\ ModesInv
    BY DEF IInv
  <2>2. Accepted /\ \A s \in raced : plugins[s] # "none"
    BY DEF Clean, Accepted
  <2>3. Entered(r, "registered") \/ (Oms2 /\ pc[r] = "done")
    BY <2>1, <2>2 DEF PluginsInv
  <2>4. mode[r] # "initialization" /\ (Oms2 /\ runs = 1 => InitialValues(r) \subseteq given)
    BY <2>1 DEF ModesInv
  <2> QED
    BY <2>2, <2>3, <2>4 DEF Entered
<1> QED
  BY <1>1, Invariance, PTL
=============================================================================
