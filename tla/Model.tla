-------------------------------- MODULE Model --------------------------------
(***************************************************************************)
(* The life cycle of an FMI composite model (oms2::Model in Model.cpp,     *)
(* FMICompositeModel::initialize and reset, FMUWrapper): the client sets a *)
(* result file, initialises, simulates, resets and unloads it, in any      *)
(* order; the model keeps its state, the FMI modes of its FMUs and the     *)
(* writer of the result file in step.  FMUs are external: an FMU has the   *)
(* mode FMI 2.0 says it is in, and may refuse to leave its initialisation. *)
(***************************************************************************)
EXTENDS Integers, SequencesExt, FiniteSetsExt, ResultWriter

CONSTANTS
  Setups,     (* records of                                                *)
              (*   fmus     the FMUs, in the order of their names          *)
              (*   failing  those that may refuse                          *)
              (*   interval, logging, bufferSize                           *)
  FileNames,  (* names of result files that can be written                 *)
  MaxTime,    (* bound: no call simulates beyond this time                 *)
  MaxCalls    (* bound: number of calls of the client                      *)

ASSUME BoundsAssumption == MaxTime \in Nat /\ MaxCalls \in Nat

ASSUME SetupsAssumption ==
  \A s \in Setups :
    /\ s.fmus \in Seq(ToSet(s.fmus))
    /\ s.interval \in Nat /\ s.logging \in Int /\ s.bufferSize \in Int

(* What a writer is called that is the NULL pointer. *)
ASSUME NamesAssumption == "NULL" \notin FileNames

VARIABLES
  setup,
  modelState,
  resultFilename,
  resultFile,  (* the writer                                               *)
  time, tLastEmit,
  mode,        (* the FMI mode of every FMU                                *)
  initialized, (* the FMUs with the flag initialized                       *)
  until,       (* the time the running call simulates to, -1 for none      *)
  calls,       (* number of calls so far                                   *)
  disk,        (* the rows in every file                                   *)
  emitted,     (* the rows given to emit since the file was created        *)
  refused,     (* the FMUs that ever refused to leave the initialisation   *)
  illegal,     (* the FMI calls made in a mode that does not allow them    *)
  fault        (* the NULL writer, or a file that is not open, was used    *)

fmuVars == <<mode, initialized, refused, illegal>>
fileVars == <<resultFile, disk, emitted>>
vars == <<setup, modelState, resultFilename, resultFile, time, tLastEmit, mode,
          initialized, until, calls, disk, emitted, refused, illegal, fault>>

Fmus == ToSet(setup.fmus)
Unsupported == "model.txt"  (* neither .csv nor .mat                       *)
Locked == "locked.mat"      (* fopen fails                                 *)
LockedCSV == "locked.csv"   (* it fails, and createFile does not ask       *)
Void == ""                  (* no result file, what the VoidWriter drops   *)
Names == FileNames \cup {Unsupported, Locked, LockedCSV, Void}
Start == 0

Init ==
  /\ setup \in Setups
  /\ modelState = "instantiated"
  /\ resultFilename \in FileNames
  /\ resultFile = NoWriter
  /\ time = Start /\ tLastEmit = Start
  /\ mode = [f \in Fmus |-> "instantiated"]
  /\ initialized = {}
  /\ until = -1
  /\ calls = 0
  /\ disk = [n \in Names |-> << >>]
  /\ emitted = [n \in Names |-> << >>]
  /\ refused = {}
  /\ illegal = {}
  /\ fault = FALSE

-----------------------------------------------------------------------------
(* Result files. *)

(* Rows go to a writer, one after the other. *)
Emitting(writer, rows) ==
  LET step[i \in 0..Len(rows)] ==
        IF i = 0 THEN [w |-> writer, d |-> << >>]
        ELSE [w |-> Buffered(step[i - 1].w, rows[i], setup.bufferSize),
              d |-> step[i - 1].d \o Flushed(step[i - 1].w, rows[i], setup.bufferSize)]
  IN  step[Len(rows)]

(* The rows of a step reach the writer, the file and the history.          *)
Emit(rows) ==
  LET name == resultFile.name
      after == Emitting(resultFile, rows)
  IN
  /\ resultFile' = after.w
  /\ disk' = IF resultFile.created THEN [disk EXCEPT ![name] = @ \o after.d] ELSE disk
  /\ emitted' = IF resultFile.created THEN [emitted EXCEPT ![name] = @ \o rows] ELSE emitted

(* The writer is deleted: the destructor closes the file. *)
DiskAfterDelete ==
  IF resultFile.created
  THEN [disk EXCEPT ![resultFile.name] = @ \o Rest(resultFile)] ELSE disk

(* A file is created for a new writer, with these first rows.              *)
CreateFile(name, onDisk, rows) ==
  LET after == Emitting(Created(NewWriter(name)), rows) IN
  /\ resultFile' = after.w
  /\ disk' = [onDisk EXCEPT ![name] = after.d]
  /\ emitted' = [emitted EXCEPT ![name] = rows]

-----------------------------------------------------------------------------
(* The calls of the client.  A call is refused, and changes nothing, when  *)
(* the model is in another state.                                          *)

ClientCall ==
  /\ modelState # "unloaded" /\ until = -1 /\ ~fault
  /\ calls < MaxCalls
  /\ calls' = calls + 1

(* The unsupported name is noticed before anything else, the old writer    *)
(* being gone.                                                             *)
InitializeUnsupported ==
  /\ ClientCall
  /\ modelState = "instantiated" /\ resultFilename = Unsupported
  /\ resultFile' = NoWriter
  /\ disk' = DiskAfterDelete
  /\ UNCHANGED <<setup, modelState, resultFilename, time, tLastEmit, fmuVars, until, emitted, fault>>

Initializing ==
  /\ ClientCall
  /\ modelState = "instantiated" /\ resultFilename # Unsupported
  /\ time' = Start /\ tLastEmit' = Start
  /\ UNCHANGED <<setup, resultFilename, until>>

NewWriterOnly ==
  /\ modelState' = "instantiated"
  /\ resultFile' = NewWriter(resultFilename)
  /\ disk' = DiskAfterDelete
  /\ UNCHANGED emitted

First(P) == Min(P \cup {Len(setup.fmus) + 1})
Position(f) == CHOOSE n \in DOMAIN setup.fmus : setup.fmus[n] = f
Before(n) == {f \in Fmus : Position(f) < n}

(* enterInitialization of the FMUs in turn fails at the first one that is  *)
(* not in the mode of a new FMU.                                           *)
InitializeStuck ==
  LET n == First({m \in DOMAIN setup.fmus : mode[setup.fmus[m]] # "instantiated"}) IN
  /\ Initializing
  /\ n \in DOMAIN setup.fmus
  /\ mode' = [f \in Fmus |-> IF f \in Before(n) THEN "initialization" ELSE mode[f]]
  /\ illegal' = illegal \cup {<<"enterInitialization", setup.fmus[n]>>}
  /\ NewWriterOnly
  /\ UNCHANGED <<initialized, refused, fault>>

(* exitInitialization of the FMUs in turn fails at f, which is then in the *)
(* error mode.                                                             *)
InitializeFails(f) ==
  /\ Initializing
  /\ \A g \in Fmus : mode[g] = "instantiated"
  /\ f \in setup.failing
  /\ mode' = [g \in Fmus |-> IF g \in Before(Position(f)) THEN "simulation"
                             ELSE IF g = f THEN "error" ELSE "initialization"]
  /\ initialized' = initialized \cup Before(Position(f))
  /\ refused' = refused \cup {f}
  /\ NewWriterOnly
  /\ UNCHANGED <<illegal, fault>>

(* Initialisation succeeds; the first row is written.  A file that cannot  *)
(* be created makes the call fail, in the state "simulation"; a .csv file  *)
(* is written to all the same.                                             *)
Initialize ==
  /\ Initializing
  /\ \A f \in Fmus : mode[f] = "instantiated"
  /\ mode' = [f \in Fmus |-> "simulation"]
  /\ initialized' = Fmus
  /\ modelState' = "simulation"
  /\ fault' = (resultFilename = LockedCSV)
  /\ IF resultFilename \in {Locked, LockedCSV}
     THEN resultFile' = NoWriter /\ disk' = DiskAfterDelete /\ UNCHANGED emitted
     ELSE CreateFile(resultFilename, DiskAfterDelete, <<Start>>)
  /\ UNCHANGED <<refused, illegal>>

(* setResultFile; in the state "instantiated" the name is only kept. *)
SetResultFile(name) ==
  /\ ClientCall
  /\ resultFilename' = name
  /\ fault' = (modelState # "instantiated" /\ name = LockedCSV)
  /\ IF modelState = "instantiated" THEN UNCHANGED fileVars
     ELSE IF name \in {Unsupported, Locked, LockedCSV, Void}
     THEN resultFile' = NoWriter /\ disk' = DiskAfterDelete /\ UNCHANGED emitted
     ELSE CreateFile(name, DiskAfterDelete, << >>)
  /\ UNCHANGED <<setup, modelState, time, tLastEmit, fmuVars, until>>

(* simulate, stepUntil and doSteps. *)
Simulate(t) ==
  /\ ClientCall
  /\ modelState = "simulation"
  /\ until' = t
  /\ UNCHANGED <<setup, modelState, resultFilename, time, tLastEmit, fmuVars, fileVars, fault>>

Smaller(a, b) == IF a < b THEN a ELSE b

(* Mutant: the last step is a whole one.                                   *)
NextTimeUnclamped == time + setup.interval

NextTime == Smaller(time + setup.interval, until)

(* The rows of a communication step: every step has one before and one     *)
(* after the inputs are updated, or there is one per loggingInterval.      *)
Rows(t) ==
  IF setup.logging = 0 THEN <<t, t>>
  ELSE IF setup.logging > 0 /\ t - tLastEmit >= setup.logging THEN <<t>> ELSE << >>

Step ==
  LET t == NextTime IN
  /\ time < until /\ ~fault
  /\ time' = t
  /\ illegal' = illegal \cup {<<"doStep", f>> : f \in {g \in Fmus : mode[g] # "simulation"}}
  /\ fault' = (Rows(t) # << >> /\ resultFile = NoWriter)
  /\ tLastEmit' = IF Rows(t) # << >> THEN t ELSE tLastEmit
  /\ Emit(Rows(t))
  /\ UNCHANGED <<setup, modelState, resultFilename, mode, initialized, refused, until, calls>>

Return ==
  /\ until >= 0 /\ time >= until
  /\ until' = -1
  /\ UNCHANGED <<setup, modelState, resultFilename, time, tLastEmit, fmuVars, fileVars, calls, fault>>

(* reset first writes a last row and closes the file. *)
Closing ==
  LET after == Emitting(resultFile, <<time>>) IN
  /\ tLastEmit' = IF resultFile = NoWriter THEN tLastEmit ELSE time
  /\ disk' = IF resultFile.created
             THEN [disk EXCEPT ![resultFile.name] = @ \o after.d \o Rest(after.w)] ELSE disk
  /\ emitted' = IF resultFile.created
                THEN [emitted EXCEPT ![resultFile.name] = Append(@, time)] ELSE emitted
  /\ UNCHANGED <<setup, resultFilename, time, until, fault>>

(* The unsupported name is noticed when the file is closed, and nothing is *)
(* reset.                                                                  *)
ResetUnsupported ==
  /\ ClientCall /\ Closing
  /\ resultFilename = Unsupported
  /\ resultFile' = NoWriter
  /\ UNCHANGED <<modelState, fmuVars>>

(* Mutant: the flag initialized is not cleared.                            *)
StillInitialized == initialized

(* The flag initialized is cleared for every FMU that is reset. *)
InitializedAfterReset == {}

(* Mutant: the state of the model is left as it is.                        *)
ResetInState ==
  /\ ClientCall /\ Closing
  /\ resultFilename # Unsupported
  /\ resultFile' = NewWriter(resultFilename)
  /\ mode' = [f \in Fmus |-> IF f \in initialized THEN "instantiated" ELSE mode[f]]
  /\ initialized' = InitializedAfterReset
  /\ UNCHANGED <<modelState, refused, illegal>>

(* FMUs that are not initialised are not reset. *)
Reset ==
  /\ ClientCall /\ Closing
  /\ resultFilename # Unsupported
  /\ resultFile' = NewWriter(resultFilename)
  /\ modelState' = "instantiated"
  /\ mode' = [f \in Fmus |-> IF f \in initialized THEN "instantiated" ELSE mode[f]]
  /\ initialized' = InitializedAfterReset
  /\ UNCHANGED <<refused, illegal>>

(* The destructors of the model and of its FMUs. *)
Unload ==
  /\ ClientCall /\ Closing
  /\ resultFile' = NoWriter
  /\ modelState' = "unloaded"
  /\ illegal' = illegal \cup {<<"terminate", f>> : f \in {g \in initialized : mode[g] # "simulation"}}
  /\ mode' = [f \in Fmus |-> "freed"]
  /\ initialized' = {}
  /\ UNCHANGED refused

(* No further call, the model is gone or the program is. *)
Over == (until = -1 \/ fault) /\ UNCHANGED vars

Client ==
  \/ InitializeUnsupported \/ InitializeStuck \/ Initialize
  \/ \E f \in Fmus : InitializeFails(f)
  \/ \E n \in Names : SetResultFile(n)
  \/ \E t \in 0..MaxTime : Simulate(t)
  \/ ResetUnsupported \/ Reset \/ Unload

Next == Client \/ Step \/ Return \/ Over

Spec == Init /\ [][Next]_vars

-----------------------------------------------------------------------------
(* A model in the state "simulation" can be simulated: every FMU has been  *)
(* initialised and not been reset since, whatever failed on the way, and   *)
(* there is a writer unless the last name is one no file was opened for.   *)
SimulationIsReady ==
  modelState = "simulation" =>
    /\ initialized = Fmus /\ \A f \in Fmus : mode[f] = "simulation"
    /\ resultFile.name # "NULL" \/ resultFilename \in {Unsupported, Locked, LockedCSV, Void}

(* In whatever order the client makes its calls, no FMU is called in a     *)
(* mode that does not allow it, unless one has refused to be initialised.  *)
CallsAreLegal == illegal # {} => refused # {}

(* No row is lost or written twice: at any time, the rows emitted for a    *)
(* file are those on the disk and in the buffer, and when the file is      *)
(* closed, by reset, by unload or for another file, all are on the disk.   *)
(* In a file the time never goes back, although the model is reset and     *)
(* simulated again and the same name is used again.                        *)
RowsKept ==
  \A n \in Names :
    /\ emitted[n] = disk[n] \o (IF resultFile.name = n /\ resultFile.created
                                THEN resultFile.buffer ELSE << >>)
    /\ \A i \in 1..(Len(disk[n]) - 1) : disk[n][i] <= disk[n][i + 1]
(* The inductive invariant of the three.                                   *)

Writers == [name : Names \cup {"NULL"}, created : BOOLEAN, buffer : Seq(Int)]
Modes == {"instantiated", "initialization", "simulation", "error", "freed"}

TypeOK ==
  /\ setup \in Setups
  /\ modelState \in {"instantiated", "simulation", "unloaded"}
  /\ resultFilename \in Names /\ resultFile \in Writers
  /\ time \in Nat /\ tLastEmit \in Int /\ until \in 0..MaxTime \cup {-1} /\ calls \in Nat
  /\ mode \in [Fmus -> Modes] /\ initialized \subseteq Fmus
  /\ disk \in [Names -> Seq(Int)] /\ emitted \in [Names -> Seq(Int)]
  /\ fault \in BOOLEAN

(* There is a file while the model can be simulated; its rows are in order *)
(* and not later than the model.                                           *)
InOrder(rows) == \A i \in 1..(Len(rows) - 1) : rows[i] <= rows[i + 1]
FileInv ==
  /\ resultFile.created =>
       /\ modelState = "simulation" /\ resultFile.name # "NULL"
       /\ \A i \in DOMAIN emitted[resultFile.name] : emitted[resultFile.name][i] <= time
  /\ \A n \in Names : InOrder(emitted[n])

(* The FMUs are in step with the model unless one has refused. *)
ModesInv ==
  /\ refused = {} /\ modelState = "instantiated" =>
       initialized = {} /\ \A f \in Fmus : mode[f] = "instantiated"
  /\ until # -1 => modelState = "simulation"

IInv == TypeOK /\ FileInv /\ ModesInv /\ SimulationIsReady /\ CallsAreLegal /\ RowsKept
=============================================================================
