----------------------------- MODULE ResultReader -----------------------------
(***************************************************************************)
(* What is in a result file and how it is read again: the layout of the    *)
(* two formats (MATWriter.cpp, CSVWriter.cpp, MatVer4.cpp), the readers    *)
(* (MatReader.cpp, CSVReader.cpp) and the comparison of two series         *)
(* (ResultReader.cpp).                                                     *)
(*                                                                         *)
(* A file is a record: its names in order, for a MAT file where each of    *)
(* them is (info: which matrix, which row of it), the matrix data_1 of the *)
(* parameters, whose two columns are the start and the stop time, and the  *)
(* columns of data_2, one per row that was emitted.  A series is a record  *)
(* of its times and its values.  A number that a division gives is kept as *)
(* a pair <<numerator, denominator>>; the tolerances are 0.  A name is a   *)
(* sequence of identifiers.                                                *)
(***************************************************************************)
EXTENDS Integers, SequencesExt, FiniteSetsExt

Time == <<"time">>

(* createFile of the two writers; the CSV file does not hold parameters.   *)
MatFile(signals, parameters, start, stop) ==
  [kind |-> ".mat",
   names |-> <<Time>> \o signals \o [i \in DOMAIN parameters |-> parameters[i].name],
   info |-> <<<<0, 1>>>> \o [i \in DOMAIN signals |-> <<2, 1 + i>>]
                         \o [i \in DOMAIN parameters |-> <<1, 1 + i>>],
   data_1 |-> <<<<start>> \o [i \in DOMAIN parameters |-> parameters[i].value],
                <<stop>> \o [i \in DOMAIN parameters |-> parameters[i].value]>>,
   data_2 |-> << >>]

CsvFile(signals) ==
  [kind |-> ".csv", names |-> <<Time>> \o signals, info |-> << >>, data_1 |-> << >>, data_2 |-> << >>]

(* writeFile: MATWriter also counts the columns up in the header.          *)
Written(file, rows) == [file EXCEPT !.data_2 = @ \o rows]

-----------------------------------------------------------------------------
(* Reading. *)

NoSeries == [time |-> << >>, value |-> << >>]

IndexOf(file, name) == Max({0} \cup {i \in DOMAIN file.names : file.names[i] = name})

Columns(matrix, row) == [time |-> [n \in DOMAIN matrix |-> matrix[n][1]],
                         value |-> [n \in DOMAIN matrix |-> matrix[n][row]]]

(* CSVReader::getSeries; NULL for a name that is not in the file.          *)
CsvSeries(file, name) ==
  IF IndexOf(file, name) = 0 THEN NoSeries ELSE Columns(file.data_2, IndexOf(file, name))

(* MatReader::getSeries; the time itself is in neither matrix.             *)
MatSeries(file, name) ==
  IF IndexOf(file, name) = 0 THEN NoSeries
  ELSE LET info == file.info[IndexOf(file, name)] IN
    CASE info[1] = 1 -> Columns(file.data_1, info[2])
      [] info[1] = 2 -> Columns(file.data_2, info[2])
      [] OTHER -> NoSeries

GetSeries(file, name) ==
  IF file.kind = ".csv" THEN CsvSeries(file, name) ELSE MatSeries(file, name)

-----------------------------------------------------------------------------
(* Between two samples the value is that of the line through them. *)

Equal(x, y) == x[1] * y[2] = y[1] * x[2]

Line(s, i, t) ==
  <<s.value[i] * (s.time[i + 1] - s.time[i]) + (t - s.time[i]) * (s.value[i + 1] - s.value[i]),
    s.time[i + 1] - s.time[i]>>

-----------------------------------------------------------------------------
(* ResultReader::compareSeries. *)

(* Mutant: the samples are compared one by one.                            *)
LeavesAlways(s, i, r, j) == TRUE

(* Is the pair i of s left before, or together with, the pair j of r?      *)
Leaves(s, i, r, j) == s.time[i + 1] <= r.time[j + 1]

Rises(s, i) == i < Len(s.time) /\ s.time[i] < s.time[i + 1]

(* The next pair of samples with a later time, or the last sample.         *)
Following(s, i) == Min({j \in (i + 1)..Len(s.time) : Rises(s, j) \/ j = Len(s.time)})

RECURSIVE SameFrom(_, _, _, _)
SameFrom(a, b, i, j) ==
  LET t == IF a.time[i] >= b.time[j] THEN a.time[i] ELSE b.time[j]
      k == IF Leaves(a, i, b, j) THEN Following(a, i) ELSE i
      l == IF Leaves(b, j, a, i) THEN Following(b, j) ELSE j
  IN /\ Equal(Line(a, i, t), Line(b, j, t))
     /\ k < Len(a.time) /\ l < Len(b.time) => SameFrom(a, b, k, l)

Valid(s) == Len(s.time) >= 2 /\ s.time[1] < Last(s.time)

CompareSeries(a, b) ==
  /\ Valid(a) /\ Valid(b)
  /\ a.time[1] = b.time[1] /\ Last(a.time) = Last(b.time)
  /\ SameFrom(a, b, Following(a, 0), Following(b, 0))

-----------------------------------------------------------------------------
(* The definitions the readers are compared with. *)

(* The value of a series from time t on, t before the stop time.           *)
ValueFrom(s, t) == Line(s, Max({i \in DOMAIN s.time : s.time[i] <= t}), t)

(* Two series agree at every time at which one of them has a sample, but   *)
(* for the last one: compareSeries looks at the beginning of every pair of *)
(* samples only.                                                           *)
Agree(a, b) ==
  /\ Valid(a) /\ Valid(b)
  /\ a.time[1] = b.time[1] /\ Last(a.time) = Last(b.time)
  /\ \A t \in (ToSet(a.time) \cup ToSet(b.time)) \ {Last(a.time)} :
       Equal(ValueFrom(a, t), ValueFrom(b, t))
=============================================================================
