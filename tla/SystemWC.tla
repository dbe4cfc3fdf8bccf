------------------------------- MODULE SystemWC -------------------------------
(***************************************************************************)
(* An oms3 model with a weakly coupled top-level system (oms3::Model in    *)
(* Model.cpp, SystemWC.cpp, ComponentFMUCS.cpp): its life cycle, and the   *)
(* loop of stepUntil, which runs in the client's thread (simulate) or in a *)
(* detached one (simulate_asynchronous) while the client goes on.          *)
(*                                                                         *)
(* Nothing in the code keeps the client from calling anything while a run  *)
(* is under way; the history variable misuse records what should not be    *)
(* done, and the properties say what a client gets that does not do it.    *)
(***************************************************************************)
EXTENDS Integers, SequencesExt, FiniteSetsExt

CONSTANTS
  Setups,   (* records of                                                  *)
            (*   components  the FMUs, in the order of their names         *)
            (*   failing     those that may refuse to be instantiated, to  *)
            (*               leave the initialisation mode, or to be read  *)
            (*   stepSize, stopTime                                        *)
  MaxRuns,  (* bound: number of calls of simulate_asynchronous             *)
  MaxCalls  (* bound: number of calls of the client                        *)

ASSUME BoundsAssumption == MaxRuns \in Nat /\ MaxCalls \in Nat

(* Nothing checks the stop time or the step size; a step that is not       *)
(* positive is left out: stepUntil would never come to its end.            *)
ASSUME SetupsAssumption ==
  \A s \in Setups :
    /\ s.components \in Seq({s.components[m] : m \in DOMAIN s.components})
    /\ s.stepSize \in Nat \ {0} /\ s.stopTime \in Int

VARIABLES
  setup,
  modelState,
  resultFilename,
  resultFile, (* the name of the file of the writer, "NULL" without one    *)
  cancelSim,
  time,       (* of the system                                             *)
  mode,       (* the FMI mode of every component                           *)
  at,         (* the time the components have been stepped to              *)
  pc,         (* where every run is in stepUntil                           *)
  tNext,      (* its local tNext                                           *)
  reports,    (* what it has given to the callback                         *)
  rows,       (* the rows of the writer's file: a time, before or after    *)
              (* the inputs were updated                                   *)
  unread,     (* history: the rows whose values an FMU refused to give     *)
  since,      (* history: the last row before the file was made            *)
  fault,      (* what the program was stopped by                           *)
  misuse,     (* history: what the client has done that it should not      *)
  refused,    (* history: an FMU, or the name of the file, has been refused *)
  late,       (* history: the steps a run has ended after a cancellation   *)
  calls       (* history: the number of calls                              *)

fmus == <<mode, at>>
content == <<rows, unread, since>>
file == <<resultFilename, resultFile, content>>
run == <<pc, tNext, reports>>
client == <<misuse, refused, calls>>
vars == <<setup, modelState, resultFilename, resultFile, cancelSim, time, mode,
          at, pc, tNext, reports, content, fault, misuse, refused, late, calls>>

NotAsked == -1   (* late, as long as nothing is cancelled                *)
Components == ToSet(setup.components)
Start == 0
Sync == 0   (* the run of simulate, which has no callback                  *)
Runs == Sync..MaxRuns

Good == "a.mat"
Unsupported == "model.txt"
Locked == "locked.mat"   (* fopen fails                                    *)
Void == ""
Names == {Good, Unsupported, Locked, Void}

Init ==
  /\ setup \in Setups
  /\ modelState = "terminated"
  /\ resultFilename = Good /\ resultFile = "NULL"
  /\ cancelSim = FALSE
  /\ time = Start /\ at = Start
  /\ mode = [c \in Components |-> "freed"]
  /\ pc = [w \in Runs |-> "none"]
  /\ tNext = [w \in Runs |-> Start]
  /\ reports = [w \in Runs |-> << >>]
  /\ rows = << >> /\ unread = {} /\ since = <<Start, "before">>
  /\ fault = "none"
  /\ misuse = {} /\ refused = FALSE /\ late = NotAsked /\ calls = 0

-----------------------------------------------------------------------------
(* The components in turn, until one of them fails. *)

First(P) == Min(P \cup {Len(setup.components) + 1})
Before(n) == {setup.components[m] : m \in 1..(n - 1)}
None == "none"

(* SystemWC::instantiate: the first one that refuses is left in error.     *)
InstantiateAll(who) ==
  LET n == First({m \in DOMAIN setup.components : setup.components[m] = who})
  IN  [c \in Components |-> IF c \in Before(n) THEN "initialization"
                            ELSE IF c = who THEN "error" ELSE mode[c]]

(* SystemWC::initialize: fmi2ExitInitializationMode fails in another mode. *)
Refusing(who) ==
  First({m \in DOMAIN setup.components :
           mode[setup.components[m]] # "initialization" \/ setup.components[m] = who})
InitializeAll(who) ==
  [c \in Components |-> IF c \in Before(Refusing(who)) THEN "simulation"
                        ELSE IF c = who THEN "error" ELSE mode[c]]
Initialized(who) == Refusing(who) > Len(setup.components)

(* SystemWC::terminate: fmi2Terminate fails in another mode; a component   *)
(* that is freed cannot be called.                                         *)
Unterminated(m) ==
  First({n \in DOMAIN setup.components : m[setup.components[n]] # "simulation"})
TerminateAll(m) == [c \in Components |-> IF c \in Before(Unterminated(m)) THEN "freed" ELSE m[c]]
Terminated(m) == Unterminated(m) > Len(setup.components)
CallsFreed(m) == ~Terminated(m) /\ m[setup.components[Unterminated(m)]] = "freed"

(* Model::terminate, once the components are in the modes m. *)
TerminateWith(m) ==
  /\ mode' = TerminateAll(m)
  /\ fault' = IF CallsFreed(m) THEN "fmu" ELSE fault
  /\ modelState' = IF Terminated(m) THEN "terminated" ELSE "initialization"

-----------------------------------------------------------------------------
(* The calls of the client. *)

(* The run may still touch the model. *)
UnderWay(w) == pc[w] \in {"looping", "stepping", "stepped", "emitting", "emitted", "reported"}

(* Bound: a client that has misused the model calls nothing more, its runs *)
(* go on.                                                                  *)
ClientCall(wrong) ==
  /\ fault = "none" /\ ~UnderWay(Sync)
  /\ misuse = {}
  /\ calls < MaxCalls
  /\ calls' = calls + 1
  /\ misuse' = misuse \cup wrong
  /\ UNCHANGED setup

(* A file is made, and the rows to come are those after the given one; or  *)
(* the file is closed.                                                     *)
NewFile(row) == rows' = << >> /\ unread' = {} /\ since' = row
CloseFile == resultFile' = "NULL" /\ NewFile(<<Start, "before">>)
CloseFileIf(closed) == IF closed THEN CloseFile ELSE UNCHANGED <<resultFile, content>>

(* Model::emit: a row is written unless an FMU refuses to be read; nobody  *)
(* asks whether it was.  Bound: the rows are not recorded any more once    *)
(* the model has been misused.                                             *)
EmitTo(written, lost, row) ==
  \/ misuse # {} /\ UNCHANGED <<rows, unread>>
  \/ misuse = {} /\ rows' = Append(written, row) /\ unread' = lost
  \/ misuse = {} /\ setup.failing # {} /\ rows' = written /\ unread' = lost \cup {row}

Overlap == IF \E w \in Runs : UnderWay(w) THEN {"overlap"} ELSE {}

Instantiate(who) ==
  /\ ClientCall(Overlap)
  /\ modelState = "terminated"
  /\ mode' = InstantiateAll(who)
  /\ at' = Start
  /\ modelState' = IF who = None THEN "instantiated" ELSE "initialization"
  /\ refused' = (refused \/ who # None)
  /\ UNCHANGED <<file, cancelSim, time, run, fault, late>>

(* The unsupported name is noticed when the state has been changed. *)
InitializeUnsupported ==
  /\ ClientCall(Overlap)
  /\ modelState = "instantiated" /\ resultFilename = Unsupported
  /\ modelState' = "initialization"
  /\ cancelSim' = FALSE /\ late' = NotAsked
  /\ refused' = TRUE
  /\ UNCHANGED <<file, time, fmus, run, fault>>

(* An FMU refuses; terminate is called at once. *)
InitializeFails(who) ==
  /\ ClientCall(Overlap)
  /\ modelState = "instantiated" /\ resultFilename # Unsupported
  /\ ~Initialized(who)
  /\ cancelSim' = FALSE /\ late' = NotAsked
  /\ resultFile' = resultFilename /\ NewFile(<<Start, "before">>)
  /\ time' = Start
  /\ refused' = TRUE
  /\ TerminateWith(InitializeAll(who))
  /\ UNCHANGED <<resultFilename, at, run>>

(* The file cannot be created; terminate is called at once. *)
InitializeLocked ==
  /\ ClientCall(Overlap)
  /\ modelState = "instantiated" /\ resultFilename = Locked
  /\ Initialized(None)
  /\ cancelSim' = FALSE /\ late' = NotAsked
  /\ CloseFile
  /\ time' = Start
  /\ TerminateWith(InitializeAll(None))
  /\ UNCHANGED <<resultFilename, at, run, refused>>

Initialize ==
  /\ ClientCall(Overlap)
  /\ modelState = "instantiated" /\ resultFilename \in {Good, Void}
  /\ Initialized(None)
  /\ mode' = InitializeAll(None)
  /\ cancelSim' = FALSE /\ late' = NotAsked
  /\ resultFile' = resultFilename
  /\ since' = <<Start, "before">> /\ EmitTo(<< >>, {}, <<Start, "after">>)
  /\ time' = Start
  /\ modelState' = "simulation"
  /\ UNCHANGED <<resultFilename, at, run, fault, refused>>

Enter(w) ==
  /\ pc' = [pc EXCEPT ![w] = "looping"]
  /\ late' = IF late = NotAsked THEN late ELSE 0

WithoutFile == IF resultFile = "NULL" THEN {"no file"} ELSE {}

Simulate ==
  /\ ClientCall(Overlap \cup WithoutFile \cup IF cancelSim THEN {"cancelled"} ELSE {})
  /\ modelState = "simulation"
  /\ Enter(Sync)
  /\ UNCHANGED <<modelState, file, cancelSim, time, fmus, tNext, reports, fault, refused>>

SimulateAsynchronous(w) ==
  /\ ClientCall(Overlap \cup WithoutFile)
  /\ modelState = "simulation"
  /\ w # Sync /\ pc[w] = "none"
  /\ Enter(w)
  /\ UNCHANGED <<modelState, file, cancelSim, time, fmus, tNext, reports, fault, refused>>

(* The one call that is meant for a run under way. *)
CancelSimulation ==
  /\ ClientCall({})
  /\ modelState = "simulation"
  /\ cancelSim' = TRUE
  /\ late' = IF late = NotAsked THEN 0 ELSE late
  /\ UNCHANGED <<modelState, file, time, fmus, run, fault, refused>>

(* Mutant: the state is not changed.                                       *)
TerminateInState ==
  /\ ClientCall(Overlap)
  /\ modelState \in {"simulation", "initialization"}
  /\ mode' = TerminateAll(mode)
  /\ fault' = IF CallsFreed(mode) THEN "fmu" ELSE fault
  /\ CloseFileIf(Terminated(mode))
  /\ UNCHANGED <<modelState, resultFilename, cancelSim, time, at, run, refused, late>>

Terminate ==
  /\ ClientCall(Overlap)
  /\ modelState \in {"simulation", "initialization"}
  /\ mode' = TerminateAll(mode)
  /\ fault' = IF CallsFreed(mode) THEN "fmu" ELSE fault
  /\ modelState' = IF Terminated(mode) THEN "terminated" ELSE modelState
  /\ CloseFileIf(Terminated(mode))
  /\ UNCHANGED <<resultFilename, cancelSim, time, at, run, refused, late>>

(* An instantiated model is initialised in order to be terminated; when an *)
(* FMU refuses, nothing is terminated.                                     *)
TerminateInstantiated(who) ==
  /\ ClientCall(Overlap)
  /\ modelState = "instantiated"
  /\ time' = Start
  /\ refused' = (refused \/ ~Initialized(who))
  /\ IF Initialized(who)
     THEN /\ mode' = TerminateAll(InitializeAll(who))
          /\ modelState' = "terminated"
          /\ CloseFile
     ELSE mode' = InitializeAll(who) /\ UNCHANGED <<modelState, resultFile, content>>
  /\ UNCHANGED <<resultFilename, cancelSim, at, run, fault, late>>

(* A file is created only in place of another one. *)
SetResultFile(name) ==
  /\ ClientCall(Overlap)
  /\ resultFilename' = name
  /\ resultFile' = IF resultFile # "NULL" /\ name = Good THEN name ELSE "NULL"
  /\ NewFile(<<time, "after">>)
  /\ UNCHANGED <<modelState, cancelSim, time, fmus, run, fault, refused, late>>

-----------------------------------------------------------------------------
(* SystemWC::stepUntil. *)

Go(w, place) == pc' = [pc EXCEPT ![w] = place]
RunStep(w) ==
  /\ fault = "none"
  /\ UNCHANGED <<setup, modelState, resultFilename, resultFile, client>>

Smaller(a, b) == IF a < b THEN a ELSE b
Freed == \E c \in Components : mode[c] = "freed"

(* Mutant: a flag left over from an earlier run is cleared.                *)
LoopResets(w) ==
  /\ RunStep(w) /\ pc[w] = "looping"
  /\ cancelSim' = FALSE
  /\ IF time < setup.stopTime
     THEN /\ tNext' = [tNext EXCEPT ![w] = Smaller(time + setup.stepSize, setup.stopTime)]
          /\ Go(w, "stepping")
     ELSE Go(w, "returned") /\ UNCHANGED tNext
  /\ UNCHANGED <<time, fmus, reports, content, fault, late>>

(* Mutant: a run at the stop time waits to be cancelled.                   *)
LoopWaits(w) ==
  /\ RunStep(w) /\ pc[w] = "looping"
  /\ time < setup.stopTime \/ cancelSim
  /\ IF time < setup.stopTime
     THEN /\ tNext' = [tNext EXCEPT ![w] = Smaller(time + setup.stepSize, setup.stopTime)]
          /\ Go(w, "stepping")
     ELSE Go(w, "returned") /\ UNCHANGED tNext
  /\ UNCHANGED <<cancelSim, time, fmus, reports, content, fault, late>>

(* The loop test reads the member time, and so does the next time. *)
Loop(w) ==
  /\ RunStep(w) /\ pc[w] = "looping"
  /\ IF time < setup.stopTime
     THEN /\ tNext' = [tNext EXCEPT ![w] = Smaller(time + setup.stepSize, setup.stopTime)]
          /\ Go(w, "stepping")
     ELSE Go(w, "returned") /\ UNCHANGED tNext
  /\ UNCHANGED <<cancelSim, time, fmus, reports, content, fault, late>>

(* ComponentFMUCS::stepUntil: a component that is behind is called in      *)
(* whatever mode it is.                                                    *)
StepComponents(w) ==
  /\ RunStep(w) /\ pc[w] = "stepping"
  /\ at' = tNext[w]
  /\ fault' = IF at < tNext[w] /\ Freed THEN "fmu" ELSE fault
  /\ Go(w, "stepped")
  /\ UNCHANGED <<cancelSim, time, mode, tNext, reports, content, late>>

EmitFault == IF resultFile = "NULL" THEN "writer" ELSE IF Freed THEN "fmu" ELSE fault

(* Mutant: the row is that of the time before it is moved.                 *)
EmitBefore(w) ==
  /\ RunStep(w) /\ pc[w] = "stepped"
  /\ time' = tNext[w]
  /\ EmitTo(rows, unread, <<time, "before">>)
  /\ fault' = EmitFault
  /\ late' = IF late = NotAsked THEN late ELSE late + 1
  /\ Go(w, "emitting")
  /\ UNCHANGED <<cancelSim, fmus, tNext, reports, since>>

(* The time is moved, and a row is written before the inputs are updated.  *)
EmitStepped(w) ==
  /\ RunStep(w) /\ pc[w] = "stepped"
  /\ time' = tNext[w]
  /\ EmitTo(rows, unread, <<tNext[w], "before">>)
  /\ fault' = EmitFault
  /\ late' = IF late = NotAsked THEN late ELSE late + 1
  /\ Go(w, "emitting")
  /\ UNCHANGED <<cancelSim, fmus, tNext, reports, since>>

(* updateInputs, and the second row of the time.                           *)
EmitUpdated(w) ==
  /\ RunStep(w) /\ pc[w] = "emitting"
  /\ EmitTo(rows, unread, <<time, "after">>)
  /\ fault' = EmitFault
  /\ Go(w, "emitted")
  /\ UNCHANGED <<cancelSim, time, fmus, tNext, reports, since, late>>

(* The callback, if there is one, is given the member time.                *)
Report(w) ==
  /\ RunStep(w) /\ pc[w] = "emitted"
  /\ reports' = IF w = Sync THEN reports ELSE [reports EXCEPT ![w] = Append(@, <<time, "ok">>)]
  /\ Go(w, "reported")
  /\ UNCHANGED <<cancelSim, time, fmus, tNext, content, fault, late>>

(* Mutant: the run goes on after the last report.                          *)
DiscardAndGoOn(w) ==
  /\ RunStep(w) /\ pc[w] = "reported" /\ cancelSim
  /\ reports' = [reports EXCEPT ![w] = Append(@, <<time, "discard">>)]
  /\ Go(w, "looping")
  /\ UNCHANGED <<cancelSim, time, fmus, tNext, content, fault, late>>

(* A cancelled run tells the callback and returns; simulate has none.      *)
Discard(w) ==
  /\ RunStep(w) /\ pc[w] = "reported" /\ cancelSim
  /\ IF w = Sync
     THEN fault' = "callback" /\ UNCHANGED run
     ELSE /\ reports' = [reports EXCEPT ![w] = Append(@, <<time, "discard">>)]
          /\ Go(w, "discarded")
          /\ UNCHANGED <<tNext, fault>>
  /\ UNCHANGED <<cancelSim, time, fmus, content, late>>

Continue(w) ==
  /\ RunStep(w) /\ pc[w] = "reported" /\ ~cancelSim
  /\ Go(w, "looping")
  /\ UNCHANGED <<cancelSim, time, fmus, tNext, reports, content, fault, late>>

-----------------------------------------------------------------------------
(* No further call, or the program is gone. *)
Over == (fault # "none" \/ calls = MaxCalls \/ misuse # {}) /\ UNCHANGED vars

Client ==
  \/ \E who \in setup.failing \cup {None} :
       Instantiate(who) \/ InitializeFails(who) \/ TerminateInstantiated(who)
  \/ InitializeUnsupported \/ InitializeLocked \/ Initialize
  \/ Simulate \/ (\E w \in Runs : SimulateAsynchronous(w)) \/ CancelSimulation
  \/ Terminate
  \/ \E name \in Names : SetResultFile(name)

StepUntil(w) ==
  \/ Loop(w) \/ StepComponents(w) \/ EmitStepped(w) \/ EmitUpdated(w)
  \/ Report(w) \/ Discard(w) \/ Continue(w)

Next == Client \/ (\E w \in Runs : StepUntil(w)) \/ Over

Spec == Init /\ [][Next]_vars

(* Every thread runs when it can. *)
FairSpec == Spec /\ \A w \in Runs : WF_vars(StepUntil(w))

-----------------------------------------------------------------------------
(* Properties *)

(* The client has called nothing but cancelSimulation while a run was      *)
(* under way, has not replaced the writer by none before a run and has not *)
(* called simulate after a cancellation.                                   *)
Clean == misuse = {}

(* u is the next communication point after t. *)
NextPoint(t, u) == t < setup.stopTime /\ u = Smaller(t + setup.stepSize, setup.stopTime)

(* What the callback of the run w has been told, up to now.                *)
ReportFits(w) ==
  LET r == reports[w]
  IN  /\ \A n \in 1..(Len(r) - 1) :
           /\ r[n][2] = "ok"
           /\ IF r[n + 1][2] = "ok" THEN NextPoint(r[n][1], r[n + 1][1])
                                    ELSE r[n + 1][1] = r[n][1]
      /\ r # << >> =>
           /\ pc[w] = "returned" => Last(r) = <<setup.stopTime, "ok">>
           /\ pc[w] = "discarded" <=> Last(r)[2] = "discard"

(* A callback is told every communication point once and in order, up to   *)
(* the stop time or to the point its run is discarded at, which is the     *)
(* last thing it is told: SystemWC::stepUntil in a thread against a client *)
(* that cancels, ends, and starts anew.                                    *)
ReportsFit == Clean => \A w \in Runs \ {Sync} : ReportFits(w)

(* The rows emit has been asked for, the last one, and the one after x.    *)
Asked == ToSet(rows) \cup unread
Newest == <<time, IF \E w \in Runs : pc[w] = "emitting" THEN "before" ELSE "after">>
After(x) == IF x[2] = "before" THEN <<x[1], "after">>
            ELSE <<Smaller(x[1] + setup.stepSize, setup.stopTime), "before">>
Earlier(x, y) == x[1] < y[1] \/ (x[1] = y[1] /\ x[2] = "before" /\ y[2] = "after")

(* The result file has nothing twice and nothing out of order, and no gap  *)
(* but for the rows that an FMU refused to give, also where one run goes   *)
(* on after another that was cancelled; and both rows of a communication   *)
(* point have been asked for before the callback is told: Model::emit in   *)
(* the thread of the run, setResultFile and initialize in the client's.    *)
RowsFit ==
  Clean =>
    /\ \A m, n \in DOMAIN rows : m < n => Earlier(rows[m], rows[n])
    /\ ToSet(rows) \cap unread = {}
    /\ modelState = "simulation" /\ resultFile # "NULL" =>
         \A x \in {since} \cup Asked : x = Newest \/ After(x) \in Asked
    /\ \A w \in Runs : pc[w] \in {"emitted", "reported"} =>
         at = time /\ {<<time, "before">>, <<time, "after">>} \subseteq Asked

(* Once the client has cancelled, a run ends at most one more step,        *)
(* wherever in stepUntil it was, until the model is initialised again.     *)
CancelIsPrompt == Clean => late <= 1

(* A client that waits for its runs and whose FMUs and file names are      *)
(* accepted meets no freed FMU and no missing writer, in any order of its  *)
(* calls: instantiate, initialize, simulate, cancel, terminate and         *)
(* setResultFile, and a cancelled run is over when the callback is told.   *)
NoFault == Clean /\ ~refused => fault = "none"

-----------------------------------------------------------------------------
(* The inductive invariant of the safety properties. *)

States == {"terminated", "instantiated", "initialization", "simulation"}
Places == {"none", "looping", "stepping", "stepped", "emitting", "emitted", "reported",
           "returned", "discarded"}
Rows == Int \X {"before", "after"}

TypeOK ==
  /\ setup \in Setups
  /\ modelState \in States
  /\ resultFilename \in Names /\ resultFile \in Names \cup {"NULL"}
  /\ cancelSim \in BOOLEAN /\ refused \in BOOLEAN
  /\ time \in Int /\ at \in Int
  /\ mode \in [Components -> {"freed", "initialization", "simulation", "error"}]
  /\ pc \in [Runs -> Places]
  /\ tNext \in [Runs -> Int]
  /\ reports \in [Runs -> Seq(Int \X {"ok", "discard"})]
  /\ rows \in Seq(Rows) /\ unread \subseteq Rows /\ since \in Rows
  /\ fault \in {"none", "fmu", "writer", "callback"}
  /\ misuse \subseteq {"overlap", "no file", "cancelled"}
  /\ late \in Int /\ late >= NotAsked
  /\ calls \in Nat

(* Whatever the client does: a model that can be simulated has FMUs that   *)
(* can be stepped, and a cancellation is known until the next initialize.  *)
LifeCycleInv ==
  /\ modelState = "simulation" => \A c \in Components : mode[c] = "simulation"
  /\ modelState = "initialization" => refused
  /\ late = NotAsked <=> ~cancelSim

(* Of a client that waits for its runs, one run at most is under way, in a *)
(* model that is ready for it.                                             *)
OneRun ==
  \A w \in Runs : UnderWay(w) =>
    /\ modelState = "simulation" /\ resultFile # "NULL"
    /\ w = Sync => ~cancelSim
    /\ \A u \in Runs : UnderWay(u) => u = w

(* Where a run is in stepUntil is what the time, the components, the rows  *)
(* and the reports say.                                                    *)
Reported(w) == Last(reports[w]) = <<time, "ok">> /\ time <= setup.stopTime
Progress(w) ==
  /\ pc[w] = "none" \/ w = Sync => reports[w] = << >>
  /\ pc[w] \in {"looping", "stepping", "stepped", "reported"} /\ reports[w] # << >> => Reported(w)
  /\ pc[w] \in {"stepping", "stepped"} => NextPoint(time, tNext[w])
  /\ pc[w] = "stepped" => at = tNext[w]
  /\ pc[w] \in {"emitting", "emitted"} /\ reports[w] # << >> =>
       Last(reports[w])[2] = "ok" /\ NextPoint(Last(reports[w])[1], time)
  /\ pc[w] \in {"emitting", "emitted"} => time <= setup.stopTime
  /\ pc[w] = "emitting" => at = time
  /\ pc[w] = "reported" /\ w # Sync => reports[w] # << >>
  /\ pc[w] \in {"looping", "stepping", "stepped"} => late <= 0
ProgressInv == \A w \in Runs : Progress(w)

(* No row of the file is after the last one asked for.                     *)
NoneAfter(e) == \A x \in {since} \cup Asked : x = e \/ Earlier(x, e)
RowsReachTime ==
  modelState = "simulation" /\ resultFile # "NULL" =>
    /\ NoneAfter(Newest)
    /\ \A w \in Runs : pc[w] = "emitting" => Newest \in Asked

IInv ==
  /\ TypeOK /\ LifeCycleInv
  /\ Clean => OneRun /\ ProgressInv /\ RowsReachTime
  /\ ReportsFit /\ RowsFit /\ CancelIsPrompt /\ NoFault

(* Every run ends, also one that another run overlaps, unless the program  *)
(* is stopped.                                                             *)
RunsEnd == \A w \in Runs : UnderWay(w) ~> (~UnderWay(w) \/ fault # "none")
=============================================================================
