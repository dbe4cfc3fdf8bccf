------------------------------- MODULE Lockstep -------------------------------
(***************************************************************************)
(* What every single-rate master of an FMI composite model promises:       *)
(* simulation is a sequence of communication steps, each of which moves    *)
(* the time of the model, steps every sub-model to it, passes the outputs  *)
(* on along the sorted connections and writes a row of results when one is *)
(* due.  In which order, or on which threads, the sub-models are stepped   *)
(* cannot be seen.                                                         *)
(*                                                                         *)
(* A value is represented by its age: the oldest communication time that   *)
(* any part of it goes back to.                                            *)
(***************************************************************************)
EXTENDS Integers, SequencesExt, FiniteSetsExt

VARIABLES
  setup,     (* the composite model and its settings, a record of          *)
             (*   subModels    the tables and FMUs                        *)
             (*   connections  sequence of strongly connected components,  *)
             (*                each a sequence of <<output, input>>        *)
             (*   depends      per output, the inputs it depends on        *)
             (*   interval     communicationInterval                       *)
             (*   logging      loggingInterval                             *)
  time,      (* the last communication time                                *)
  inputs,    (* the age of every connected input                           *)
  tLastEmit, (* when the last row of results was written                   *)
  row        (* the inputs in that row                                     *)

vars == <<setup, time, inputs, tLastEmit, row>>

InputsOf(s) == {c[2] : c \in UNION {ToSet(scc) : scc \in ToSet(s.connections)}}

(* The age of an output, for given inputs, when every sub-model s has been *)
(* stepped to at[s].                                                       *)
OutputAge(output, in, at) == Min({at[output[1]]} \cup {in[i] : i \in setup.depends[output]})

(* A single connection: input := output. *)
Pass(c, in, at) == [in EXCEPT ![c[2]] = OutputAge(c[1], in, at)]

(* solveAlgLoop: read all outputs, then set all inputs, until no output    *)
(* changes any more or after ten rounds.                                   *)
MaxIterations == 10
Round(scc, in, at) ==
  [i \in DOMAIN in |->
     IF \E c \in ToSet(scc) : c[2] = i
     THEN OutputAge((CHOOSE c \in ToSet(scc) : c[2] = i)[1], in, at)
     ELSE in[i]]

SolveAlgLoop(scc, in, at) ==
  LET after[r \in 0..MaxIterations] == IF r = 0 THEN in ELSE Round(scc, after[r - 1], at)
      Settled(r) == \A c \in ToSet(scc) :
                      OutputAge(c[1], after[r], at) = OutputAge(c[1], after[r - 1], at)
  IN  after[Min({r \in 1..MaxIterations : Settled(r)} \cup {MaxIterations})]

Update(scc, in, at) ==
  IF Len(scc) = 1 THEN Pass(scc[1], in, at) ELSE SolveAlgLoop(scc, in, at)

(* Mutant: the connections are passed on from the last to the first.       *)
UpdateInputsReversed(in, at) ==
  LET sorted == Reverse(setup.connections)
      after[n \in 0..Len(sorted)] == IF n = 0 THEN in ELSE Update(sorted[n], after[n - 1], at)
  IN  after[Len(sorted)]

(* updateInputs over the sorted connections. *)
UpdateInputs(in, at) ==
  LET sorted == setup.connections
      after[n \in 0..Len(sorted)] == IF n = 0 THEN in ELSE Update(sorted[n], after[n - 1], at)
  IN  after[Len(sorted)]

RowDue(t) == setup.logging >= 0 /\ t - tLastEmit >= setup.logging

(* At time t, pass the outputs on and write a row if it is due. *)
Exchange(t, at) ==
  /\ inputs' = UpdateInputs(inputs, at)
  /\ IF RowDue(t)
     THEN tLastEmit' = t /\ row' = inputs'
     ELSE UNCHANGED <<tLastEmit, row>>

AllAt(t) == [s \in setup.subModels |-> t]

Initialized(start) ==
  /\ time = start
  /\ inputs = UpdateInputs([i \in InputsOf(setup) |-> start], AllAt(start))
  /\ tLastEmit = start
  /\ row = inputs

Step ==
  \E t \in (time + 1)..(time + setup.interval) :
    /\ time' = t
    /\ Exchange(t, AllAt(t))
    /\ UNCHANGED setup

LockstepSpec == Initialized(0) /\ [][Step]_vars
=============================================================================
