--------------------------- MODULE RateTransition ---------------------------
(***************************************************************************)
(* What a multi-rate channel promises, whatever it synchronises with.      *)
(*                                                                         *)
(* One output FMU writes a value per step of its own, one input FMU reads  *)
(* one per step of its own, and one side steps k times while the other     *)
(* steps once.  Values are numbered in the order in which they are         *)
(* written.  Which value a read must return is fixed by the rates alone,   *)
(* so a run of the parallel master is as reproducible as a sequential one. *)
(***************************************************************************)
EXTENDS Integers

CONSTANTS
  Ratios, (* the activation ratios k a channel may be built with            *)
  Periods (* bound: number of steps of the slower side                      *)
(* The channel that instantiates this module states what they have to be.  *)

VARIABLES
  rt,      (* rt_: the kind of rate transition, fixed by the constructor    *)
  k,       (* k_: the activation ratio, fixed by the constructor            *)
  late,    (* a fast writer is sampled at the end of each slow period, not  *)
           (* at its beginning                                              *)
  written, (* number of completed calls of write                            *)
  reads,   (* number of completed calls of read                             *)
  last     (* the number of the value the last read returned, -1 before it  *)

vars == <<rt, k, late, written, reads, last>>

Transitions == {"FASTTOSLOW", "SLOWTOFAST", "SAME"}

(* Read number m has to return value number q. *)
IsDue(m, q) ==
  CASE rt = "FASTTOSLOW" -> q = m * k + (IF late THEN k - 1 ELSE 0)
    [] rt = "SLOWTOFAST" -> q * k <= m /\ m < (q + 1) * k
    [] OTHER -> q = m

(* A value that the next read has to return has been written. *)
Pending == \E q \in 0..(written - 1) : IsDue(reads, q)

(* The two sides stop after Periods steps of the slower one. *)
WriteLimit == IF rt = "FASTTOSLOW" THEN Periods * k ELSE Periods
ReadLimit == IF rt = "SLOWTOFAST" THEN Periods * k ELSE Periods

TypeOK ==
  /\ rt \in Transitions
  /\ k \in Ratios
  /\ late \in BOOLEAN
  /\ written \in Nat
  /\ reads \in Nat
  /\ last \in Nat \cup {-1}

Init ==
  /\ rt \in Transitions
  /\ k \in Ratios
  /\ late \in BOOLEAN
  /\ written = 0
  /\ reads = 0
  /\ last = -1

(* A value is never overwritten while a read of it is outstanding. *)
Write ==
  /\ ~Pending
  /\ written' = written + 1
  /\ UNCHANGED <<rt, k, late, reads, last>>

(* A read returns exactly the value that is due, and waits for it. *)
Read ==
  /\ \E q \in 0..(written - 1) : IsDue(reads, q) /\ last' = q
  /\ reads' = reads + 1
  /\ UNCHANGED <<rt, k, late, written>>

Next == Write \/ Read

Spec == Init /\ [][Next]_vars
=============================================================================
