-------------------------------- MODULE Signals -------------------------------
(***************************************************************************)
(* The variables of the FMUs of an oms2 model, from the calls that get and *)
(* set them to the columns of the result file (FMUWrapper.cpp, the calls   *)
(* in Scope.cpp, FMICompositeModel.cpp and Model.cpp): the client gets and *)
(* sets variables and parameters, chooses the signals for the result file, *)
(* initialises, steps, changes the file and resets, in any order.          *)
(*                                                                         *)
(* FMUs are external: inputs can be set at any time, parameters until the  *)
(* simulation starts and nothing else; an output follows the first input   *)
(* of its type, a local variable the first parameter.  Values are small    *)
(* integers, a boolean is 0 or 1.  The name of a variable in a file is     *)
(* <<FMU, variable>>.                                                      *)
(***************************************************************************)
EXTENDS ResultReader, ResultWriter

CONSTANTS
  FMUs,        (* the FMUs, in the order of their names                     *)
  Tables,      (* the names of the tables among the sub-models              *)
  Variables,   (* FMU -> sequence of records name, type, causality, start   *)
  Connections, (* sorted: <<[fmu, index], [fmu, index]>>                    *)
  Bases,       (* what the client has called before: sets of names          *)
               (*   that an expression added to the results                 *)
  Patterns,    (* sets of names, each those that an expression matches      *)
  Settings,    (* type -> the values the client sets                        *)
  FileNames,   (* records name, kind                                        *)
  Intervals,   (* the communication intervals the client sets              *)
  BufferSize, Start, Stop, MaxTime, MaxCalls

VARIABLES
  fmu,     (* FMU -> record:                                                *)
           (*   value           what was set in the FMU, by variable        *)
           (*   parameters      the cached values of parameters, or Unset   *)
           (*   exported        exportVariables, as a set                   *)
           (*   mapping         resultFileMapping: ID -> variable           *)
  simulating,
  time,
  writer,  (* the ResultWriter with its signals, and the file it writes     *)
  disk,    (* the closed files, by name                                     *)
  truth,   (* of the open file, a record:                                   *)
           (*   fits            every ID of an FMU is one of this writer    *)
           (*   exported        the variables to be in the file             *)
           (*   begin, rows     the values all variables had when it was    *)
           (*                   created and at each of its rows             *)
  history, (* those of the closed files                                     *)
  behind,  (* the parameters that were changed behind the cache             *)
  fault,   (* a NULL pointer or memory outside of the row has been used     *)
  calls

vars == <<fmu, simulating, time, writer, disk, truth, history, behind, fault, calls>>
fileVars == <<writer, disk, truth, history>>

Unset == -100
Garbage == -99
WallTime == <<"wallTime">>

FMUSet == ToSet(FMUs)
Index(f) == DOMAIN Variables[f]
Var(p) == Variables[p[1]][p[2]]
Name(p) == <<p[1], Var(p).name>>
All == FlattenSeq([n \in DOMAIN FMUs |-> [i \in Index(FMUs[n]) |-> <<FMUs[n], i>>]])

-----------------------------------------------------------------------------
(* The FMU. *)

IsParameter(p) == Var(p).causality = "parameter"
Starts(f) == [i \in Index(f) |-> Variables[f][i].start]

(* newSubModel: inputs and outputs go to the result file.                  *)
NewSubModel(f) ==
  [value |-> Starts(f),
   parameters |-> [i \in {i \in Index(f) : IsParameter(<<f, i>>) /\ Variables[f][i].type # "string"}
                     |-> Unset],
   exported |-> {i \in Index(f) : Variables[f][i].causality \in {"input", "output"}},
   mapping |-> << >>]

Added(m, names) ==
  [f \in DOMAIN m |-> [m[f] EXCEPT !.exported = @ \cup {i \in Index(f) : Name(<<f, i>>) \in names}]]
Removed(m, names) ==
  [f \in DOMAIN m |-> [m[f] EXCEPT !.exported = {i \in @ : Name(<<f, i>>) \notin names}]]

Accepts(f, i, sim) ==
  \/ Variables[f][i].causality = "input"
  \/ IsParameter(<<f, i>>) /\ ~sim

(* The first variable of a causality and a type.                           *)
Source(m, f, causality, type) ==
  LET found == {j \in Index(f) : Variables[f][j].causality = causality /\ Variables[f][j].type = type}
  IN IF found = {} THEN 0 ELSE m[f].value[Min(found)]

(* What fmi2GetReal, fmi2GetInteger and fmi2GetBoolean answer.             *)
Get(m, f, i, t) ==
  LET v == Variables[f][i] IN
    CASE v.causality = "output" /\ v.type = "bool" -> Source(m, f, "input", "bool")
      [] v.causality = "output" -> v.start + t + Source(m, f, "input", v.type)
      [] v.causality = "local" -> v.start + t + Source(m, f, "parameter", v.type)
      [] OTHER -> m[f].value[i]

Set(m, f, i, type, v, sim) ==
  IF Variables[f][i].type = type /\ Accepts(f, i, sim) THEN [m EXCEPT ![f].value[i] = v] ELSE m

(* Mutant: a value that was cached before stays.                           *)
SetParameterOnce(m, f, i, v, sim) ==
  Set([m EXCEPT ![f].parameters[i] = IF @ = Unset THEN v ELSE @], f, i, Variables[f][i].type, v, sim)

(* setRealParameter, setIntegerParameter and setBooleanParameter keep the  *)
(* value before the FMU is asked to take it.                               *)
SetParameter(m, f, i, v, sim) ==
  Set([m EXCEPT ![f].parameters[i] = v], f, i, Variables[f][i].type, v, sim)

(* getRealParameter and its siblings ask the FMU once.                     *)
GetParameter(m, f, i, t) ==
  IF m[f].parameters[i] = Unset THEN [m EXCEPT ![f].parameters[i] = Get(m, f, i, t)] ELSE m

-----------------------------------------------------------------------------
(* Inputs follow outputs; what is not real is passed on as an integer, and *)
(* refused by both FMUs if it is a boolean.                                *)
UpdateInputs(m, t) ==
  LET Pass(acc, c) ==
        IF Var(c[1]).type = "bool" THEN acc
        ELSE Set(acc, c[2][1], c[2][2], Var(c[1]).type, Get(acc, c[1][1], c[1][2], t), TRUE)
  IN FoldLeft(Pass, m, Connections)

-----------------------------------------------------------------------------
(* The result file. *)

NullWriter == [signals |-> << >>, file |-> << >>] @@ NoWriter

Exported(m) == SelectSeq(All, LAMBDA p : p[2] \in m[p[1]].exported /\ Var(p).type # "string")
Columned(m) == SelectSeq(Exported(m), LAMBDA p : ~IsParameter(p))
Constants(m) == SelectSeq(Exported(m), IsParameter)

(* Mutant: the column of the clock is not counted.                         *)
IDWithoutClock(n) == n
(* ID 1 is the clock of the composite model.                               *)
ID(n) == n + 1

(* registerSignalsForResultFile: an ID is the number of signals that the   *)
(* writer has.  The mapping of earlier registrations is not cleared.       *)
Registered(m) ==
  LET columns == Columned(m)
      IDs(f) == {ID(n) : n \in {n \in DOMAIN columns : columns[n][1] = f}}
      At(id) == columns[CHOOSE n \in DOMAIN columns : ID(n) = id][2]
  IN [f \in DOMAIN m |-> [m[f] EXCEPT !.mapping = [id \in IDs(f) |-> At(id)] @@ @]]

CreateFile(m, kind, t) ==
  LET columns == Columned(m)  constants == Constants(m)
      signals == <<WallTime>> \o [n \in DOMAIN columns |-> Name(columns[n])]
      parameters == [n \in DOMAIN constants |->
                       [name |-> Name(constants[n]),
                        value |-> Get(m, constants[n][1], constants[n][2], t)]]
  IN IF kind = ".csv" THEN CsvFile(signals) ELSE MatFile(signals, parameters, Start, Stop)

Writer(m, name, kind, t) ==
  LET columns == Columned(m) IN
  [signals |-> <<"real">> \o [n \in DOMAIN columns |-> Var(columns[n]).type],
   file |-> CreateFile(m, kind, t)] @@ Created(NewWriter(name))

(* updateSignal: who writes a cell last, and what it becomes; a cell that  *)
(* nobody writes is memory as it was found.                                *)
Owners(m, id) == {n \in DOMAIN FMUs : id \in DOMAIN m[FMUs[n]].mapping}
Cell(m, w, id, t) ==
  IF Owners(m, id) = {} THEN Garbage
  ELSE LET f == FMUs[Max(Owners(m, id))]  i == m[f].mapping[id]
       IN IF Variables[f][i].type = w.signals[id] THEN Get(m, f, i, t) ELSE Garbage
Row(m, w, t) == <<t, 0>> \o [n \in 1..(Len(w.signals) - 1) |-> Cell(m, w, n + 1, t)]
Outside(m, w) == \E f \in FMUSet : \E id \in DOMAIN m[f].mapping : id > Len(w.signals)

Values(m, t) == [time |-> t, value |-> [p \in ToSet(All) |-> Get(m, p[1], p[2], t)]]

(* FMICompositeModel::emit. *)
Emit(w, m, t) ==
  LET row == Row(m, w, t) IN
  [Buffered(w, row, BufferSize) EXCEPT !.file = Written(@, Flushed(w, row, BufferSize))]

(* The writer is closed: the rest of the buffer reaches the file.          *)
Closed(w) == Written(w.file, Rest(w))

Forgotten(m) == [f \in DOMAIN m |-> [m[f] EXCEPT !.mapping = << >>]]

Truth(m, t) == [fits |-> Registered(Forgotten(m)) = Registered(m),
                exported |-> ToSet(Exported(m)), begin |-> Values(m, t), rows |-> << >>]
Seen(values) == [truth EXCEPT !.rows = @ \o values]
NoTruth == [fits |-> FALSE, exported |-> {}, begin |-> << >>, rows |-> << >>]

Put(files, name, file) == (name :> file) @@ files
Truncated(files, name) == Restrict(files, DOMAIN files \ {name})

-----------------------------------------------------------------------------
(* The calls. *)

Init ==
  /\ \E names \in Bases : fmu = Added([f \in FMUSet |-> NewSubModel(f)], names)
  /\ simulating = FALSE /\ time = Start
  /\ writer = NullWriter
  /\ disk = << >> /\ history = << >>
  /\ truth = NoTruth
  /\ behind = {} /\ fault = FALSE /\ calls = 0

Called == ~fault /\ calls < MaxCalls /\ calls' = calls + 1

(* A step and a reset are not counted: the time bounds them.               *)
Free == ~fault /\ UNCHANGED calls

(* A table is no FMU: the cast gives NULL, which is used.                  *)
OnTable ==
  /\ Tables # {} /\ fault' = TRUE
  /\ UNCHANGED <<fmu, simulating, time, writer, disk, truth, history, behind>>

CallSet(f, i, type) ==
  /\ \E v \in Settings[type] : fmu' = Set(fmu, f, i, type, v, simulating)
  /\ behind' = behind \cup {p \in {<<f, i>>} : IsParameter(p) /\ fmu' # fmu}

CallSetParameter(f, i, type) ==
  /\ i \in DOMAIN fmu[f].parameters /\ Variables[f][i].type = type
  /\ \E v \in Settings[type] : fmu' = SetParameter(fmu, f, i, v, simulating)
  /\ behind' = IF Accepts(f, i, simulating) THEN behind \ {<<f, i>>} ELSE behind \cup {<<f, i>>}

CallGetParameter(f, i, type) ==
  /\ i \in DOMAIN fmu[f].parameters /\ Variables[f][i].type = type
  /\ fmu' = GetParameter(fmu, f, i, time)
  /\ behind' = IF fmu' = fmu THEN behind ELSE behind \ {<<f, i>>}

Access(type) ==
  /\ Called
  /\ \/ /\ \E f \in FMUSet : \E i \in Index(f) :
             CallSet(f, i, type) \/ CallSetParameter(f, i, type) \/ CallGetParameter(f, i, type)
        /\ UNCHANGED <<simulating, time, fileVars, fault>>
     \/ OnTable

CallReal == Access("real")
CallInteger == Access("int")
CallBoolean == Access("bool")

AddSignalsToResults ==
  /\ Called
  /\ \E names \in Patterns : fmu' = Added(fmu, names)
  /\ UNCHANGED <<simulating, time, fileVars, behind, fault>>

RemoveSignalsFromResults ==
  /\ Called
  /\ \E names \in Patterns : fmu' = Removed(fmu, names)
  /\ UNCHANGED <<simulating, time, fileVars, behind, fault>>

Initialize ==
  /\ ~simulating /\ Called
  /\ fmu' = Registered(UpdateInputs(UpdateInputs(fmu, Start), Start))
  /\ \E file \in FileNames :
       LET w == Writer(fmu', file.name, file.kind, Start) IN
         /\ fault' = Outside(fmu', w)
         /\ writer' = IF fault' THEN w ELSE Emit(w, fmu', Start)
         /\ truth' = [Truth(fmu', Start) EXCEPT !.rows = <<Values(fmu', Start)>>]
         /\ disk' = Truncated(disk, file.name) /\ history' = Truncated(history, file.name)
  /\ simulating' = TRUE /\ time' = Start
  /\ UNCHANGED behind

(* One step of doSteps with a logging interval of 0: a row before the      *)
(* inputs follow, and one after.                                           *)
DoStep ==
  /\ simulating /\ Free
  /\ \E interval \in Intervals : time' = time + interval
  /\ time' <= MaxTime
  /\ fmu' = UpdateInputs(fmu, time')
  /\ fault' = Outside(fmu, writer)
  /\ writer' = IF fault' THEN writer ELSE Emit(Emit(writer, fmu, time'), fmu', time')
  /\ truth' = Seen(<<Values(fmu, time'), Values(fmu', time')>>)
  /\ UNCHANGED <<simulating, disk, history, behind>>

(* setResultFile of a model that is initialised: the old file is closed,   *)
(* the signals are registered with a new writer.                           *)
SetResultFile ==
  /\ simulating /\ Called
  /\ fmu' = Registered(fmu)
  /\ \E file \in FileNames :
       /\ writer' = Writer(fmu', file.name, file.kind, time)
       /\ disk' = Truncated(Put(disk, writer.name, Closed(writer)), file.name)
       /\ history' = Truncated(Put(history, writer.name, truth), file.name)
  /\ truth' = Truth(fmu', time)
  /\ UNCHANGED <<simulating, time, behind, fault>>

(* reset: a last row, the file is closed, the FMUs are as instantiated;    *)
(* the maps of parameters and of columns stay.                             *)
Reset ==
  /\ simulating /\ Free
  /\ fault' = Outside(fmu, writer)
  /\ disk' = Put(disk, writer.name,
                 Closed(IF fault' THEN writer ELSE Emit(writer, fmu, time)))
  /\ history' = Put(history, writer.name, Seen(<<Values(fmu, time)>>))
  /\ writer' = NullWriter /\ truth' = NoTruth
  /\ fmu' = [f \in FMUSet |-> [fmu[f] EXCEPT !.value = Starts(f)]]
  /\ behind' = {p \in ToSet(All) : IsParameter(p)}
  /\ simulating' = FALSE
  /\ UNCHANGED time

CompareSimulationResults(n, o, name) ==
  CompareSeries(GetSeries(disk[n], name), GetSeries(disk[o], name))

Next ==
  \/ CallReal \/ CallInteger \/ CallBoolean
  \/ AddSignalsToResults \/ RemoveSignalsFromResults
  \/ Initialize \/ DoStep \/ SetResultFile \/ Reset

Spec == Init /\ [][Next]_vars
-----------------------------------------------------------------------------
(* Whoever reads a file gets, under the name of a variable that was chosen *)
(* for the results, the values it had at every row, and for a parameter    *)
(* the one it had when the file was created: through registration by ID,   *)
(* emit, the buffer, the layout and the reader of either format            *)
(* (registerSignalsForResultFile, emit, createFile, getSeries).  The map   *)
(* of columns is never cleared: if other signals are registered later, an  *)
(* old ID may name another signal's column or none, which fits excepts.    *)
SeriesAreTheirs ==
  ~fault => \A n \in DOMAIN disk : history[n].fits =>
    LET seen == history[n]  kept == {p \in seen.exported : ~IsParameter(p) \/ disk[n].kind = ".mat"} IN
      /\ ToSet(disk[n].names) = {Time, WallTime} \cup {Name(p) : p \in kept}
      /\ \A p \in kept :
           GetSeries(disk[n], Name(p)) =
             IF IsParameter(p)
             THEN [time |-> <<Start, Stop>>, value |-> <<seen.begin.value[p], seen.begin.value[p]>>]
             ELSE [time |-> [k \in DOMAIN seen.rows |-> seen.rows[k].time],
                   value |-> [k \in DOMAIN seen.rows |-> seen.rows[k].value[p]]]

(* The value of a parameter that the wrapper hands to the client, and that *)
(* save writes down, is the one the FMU has, unless the FMU refused it,    *)
(* was reset or was set by another call since (set and getRealParameter,   *)
(* exportToSSD).                                                           *)
ParametersAreKept ==
  \A f \in FMUSet : \A i \in DOMAIN fmu[f].parameters :
    fmu[f].parameters[i] # Unset /\ <<f, i>> \notin behind =>
      fmu[f].parameters[i] = fmu[f].value[i]

Read == {GetSeries(disk[n], Name(p)) : n \in DOMAIN disk, p \in ToSet(All)} \ {NoSeries}

(* Two series compare as equal exactly if they agree at every sample of    *)
(* either, wherever the samples of the other are, except for the last one, *)
(* which compareSeries does not look at.                                   *)
CompareIsSound ==
  \A n, o \in DOMAIN disk : \A p \in ToSet(All) :
    CompareSimulationResults(n, o, Name(p))
      = Agree(GetSeries(disk[n], Name(p)), GetSeries(disk[o], Name(p)))
=============================================================================
