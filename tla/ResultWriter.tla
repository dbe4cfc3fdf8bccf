----------------------------- MODULE ResultWriter -----------------------------
(***************************************************************************)
(* A result file (ResultWriter.cpp, CSVWriter.cpp, MATWriter.cpp): rows    *)
(* are collected in a buffer of bufferSize rows, data_2, which goes to the *)
(* file when it is full and when the file is closed.                       *)
(*                                                                         *)
(* A writer is a record; NoWriter is the NULL pointer.                     *)
(***************************************************************************)
EXTENDS Integers, Sequences

NoWriter == [name |-> "NULL", created |-> FALSE, buffer |-> << >>]

(* The constructor: data_2 is NULL. *)
NewWriter(name) == [name |-> name, created |-> FALSE, buffer |-> << >>]

(* create: data_2 is allocated. *)
Created(writer) == [writer EXCEPT !.created = TRUE, !.buffer = << >>]

(* The row that is emitted now is the last one the buffer holds. *)
Full(writer, bufferSize) == Len(writer.buffer) + 1 >= bufferSize

(* emit: a writer without data_2 drops the row. *)
Buffered(writer, row, bufferSize) ==
  IF ~writer.created THEN writer
  ELSE IF Full(writer, bufferSize) THEN [writer EXCEPT !.buffer = << >>]
  ELSE [writer EXCEPT !.buffer = Append(@, row)]

(* What emit appends to the file. *)
Flushed(writer, row, bufferSize) ==
  IF writer.created /\ Full(writer, bufferSize) THEN Append(writer.buffer, row) ELSE << >>

(* Mutant: the rest of the buffer is not written.                          *)
RestLost(writer) == << >>

(* What the destructor and close write before they close the file. *)
Rest(writer) == IF writer.created THEN writer.buffer ELSE << >>
=============================================================================
