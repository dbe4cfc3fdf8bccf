----------------------------- MODULE PMRChannel -----------------------------
(***************************************************************************)
(* One parallel multi-rate channel (PMRChannel.h): one writer thread and   *)
(* one reader thread around a single slot.  The three classes differ in    *)
(* how a call waits for its turn and hands the turn over:                  *)
(*                                                                         *)
(*   "A"   PMRChannelA   polls the atomic flag is_produced_                *)
(*   "CV"  PMRChannelCV  guards the flag with a mutex and waits on the     *)
(*                       condition variable cv_                            *)
(*   "M"   PMRChannelM   locks its own mutex, unlocks the other side's     *)
(*                                                                         *)
(* The slot v_ and the counter n_ are plain fields in all of them.         *)
(***************************************************************************)
EXTENDS Integers

CONSTANTS
  Kinds,   (* the channel classes to look at                               *)
  Ratios,  (* the activation ratios a channel may be built with            *)
  Periods  (* bound: number of steps of the slower side                    *)

ASSUME KindsAssumption == Kinds \subseteq {"A", "CV", "M"}
ASSUME RatiosAssumption == Ratios \subseteq Nat \ {0}
ASSUME PeriodsAssumption == Periods \in Nat

VARIABLES
  kind,        (* the class of the channel                                 *)
  rt, k,       (* the arguments of its constructor                         *)
  n, v,        (* n_ and v_                                                *)
  isProduced,  (* is_produced_ of A and CV                                 *)
  owner,       (* who holds m_ of CV, "none" when it is free               *)
  unlocked,    (* M: the sides whose mutex is unlocked                     *)
  pc,          (* where each side is in its call                           *)
  tmp,         (* the local v of read()                                    *)
  written, reads, last  (* history: completed calls, last value returned   *)

sync == <<isProduced, owner, unlocked>>
slot == <<n, v, tmp>>
history == <<written, reads, last>>
vars == <<kind, rt, k, n, v, isProduced, owner, unlocked, pc, tmp,
          written, reads, last>>

(* What every channel promises.  M counts from 0 and not from k - 1, so it *)
(* samples a fast writer at the end of a slow period.                      *)
Promise == INSTANCE RateTransition WITH late <- kind = "M"

Sides == {"writer", "reader"}
Other(t) == IF t = "writer" THEN "reader" ELSE "writer"

(* testing: holds m_ and tests the flag; inside: may access the slot;      *)
(* accessed: has accessed it; waiting and woken: in cv_.wait; notifying:   *)
(* has released m_ and not yet called notify_one                           *)
Places == {"idle", "testing", "waiting", "woken", "inside", "accessed", "notifying"}

(* Mutant: every class starts to count at 0.                               *)
InitCountsFromZero ==
  /\ kind \in Kinds
  /\ Promise!Init
  /\ n = 0
  /\ v = -1
  /\ isProduced = FALSE
  /\ owner = "none"
  /\ unlocked = {"writer"}
  /\ pc = [t \in Sides |-> "idle"]
  /\ tmp = -1

Init ==
  /\ kind \in Kinds
  /\ Promise!Init
  /\ n = IF kind = "M" THEN 0 ELSE k - 1
  /\ v = -1
  /\ isProduced = FALSE
  /\ owner = "none"
  /\ unlocked = {"writer"}
  /\ pc = [t \in Sides |-> "idle"]
  /\ tmp = -1

-----------------------------------------------------------------------------
(* Waiting for the turn. *)

MayCall(t) ==
  /\ pc[t] = "idle"
  /\ IF t = "writer" THEN written < Promise!WriteLimit ELSE reads < Promise!ReadLimit

Go(t, place) == pc' = [pc EXCEPT ![t] = place]

(* Mutant: the writer does not wait.                                       *)
ReadyUnlessReading(t) == t = "writer" \/ isProduced

(* The condition both A and CV wait for. *)
Ready(t) == IF t = "writer" THEN ~isProduced ELSE isProduced

(* A: the polling loop ends. *)
Poll(t) ==
  /\ kind = "A" /\ MayCall(t)
  /\ Ready(t)
  /\ Go(t, "inside")
  /\ UNCHANGED <<kind, rt, k, sync, slot, history>>

(* CV: take m_, for the call itself or on the way out of cv_.wait. *)
TakeMutex(t) ==
  /\ kind = "CV" /\ (MayCall(t) \/ pc[t] = "woken")
  /\ owner = "none"
  /\ owner' = t
  /\ Go(t, "testing")
  /\ UNCHANGED <<kind, rt, k, isProduced, unlocked, slot, history>>

(* CV: cv_.wait releases m_ and blocks in one step. *)
Wait(t) ==
  /\ pc[t] = "testing"
  /\ ~Ready(t)
  /\ owner' = "none"
  /\ Go(t, "waiting")
  /\ UNCHANGED <<kind, rt, k, isProduced, unlocked, slot, history>>

(* CV: the loop around cv_.wait ends. *)
EndWait(t) ==
  /\ pc[t] = "testing"
  /\ Ready(t)
  /\ Go(t, "inside")
  /\ UNCHANGED <<kind, rt, k, sync, slot, history>>

SpuriousWakeup(t) ==
  /\ pc[t] = "waiting"
  /\ Go(t, "woken")
  /\ UNCHANGED <<kind, rt, k, sync, slot, history>>

(* M: lock the side's own mutex. *)
Lock(t) ==
  /\ kind = "M" /\ MayCall(t)
  /\ t \in unlocked
  /\ unlocked' = unlocked \ {t}
  /\ Go(t, "inside")
  /\ UNCHANGED <<kind, rt, k, isProduced, owner, slot, history>>

-----------------------------------------------------------------------------
(* The switch over rt_, the same in all three classes. *)

WriteCount ==
  CASE rt = "FASTTOSLOW" -> n + 1
    [] rt = "SLOWTOFAST" -> 0
    [] OTHER -> n

WriteAccess ==
  /\ pc["writer"] = "inside"
  /\ v' = written
  /\ n' = WriteCount
  /\ Go("writer", "accessed")
  /\ UNCHANGED <<kind, rt, k, sync, tmp, history>>

ReadCount ==
  CASE rt = "FASTTOSLOW" -> 0
    [] rt = "SLOWTOFAST" -> n + 1
    [] OTHER -> n

ReadAccess ==
  /\ pc["reader"] = "inside"
  /\ tmp' = v
  /\ n' = ReadCount
  /\ Go("reader", "accessed")
  /\ UNCHANGED <<kind, rt, k, v, sync, history>>

-----------------------------------------------------------------------------
(* Handing the turn over. *)

(* The side that has accessed the slot goes on after the access. *)
KeepsTurn(t) ==
  /\ n # k
  /\ rt = (IF t = "writer" THEN "FASTTOSLOW" ELSE "SLOWTOFAST")

NextTurn(t) == IF KeepsTurn(t) THEN t ELSE Other(t)

Return(t) ==
  IF t = "writer"
  THEN written' = written + 1 /\ UNCHANGED <<reads, last>>
  ELSE reads' = reads + 1 /\ last' = tmp /\ UNCHANGED written

(* A: store the flag. *)
StoreFlag(t) ==
  /\ kind = "A" /\ pc[t] = "accessed"
  /\ isProduced' = (NextTurn(t) = "reader")
  /\ Go(t, "idle")
  /\ Return(t)
  /\ UNCHANGED <<kind, rt, k, owner, unlocked, slot>>

(* Mutant: the call to notify_one is missing.                              *)
ReleaseMutexSilently(t) ==
  /\ kind = "CV" /\ pc[t] = "accessed"
  /\ isProduced' = (NextTurn(t) = "reader")
  /\ owner' = "none"
  /\ Go(t, "idle")
  /\ Return(t)
  /\ UNCHANGED <<kind, rt, k, unlocked, slot>>

(* CV: set the flag and release m_; the notification comes later. *)
ReleaseMutex(t) ==
  /\ kind = "CV" /\ pc[t] = "accessed"
  /\ isProduced' = (NextTurn(t) = "reader")
  /\ owner' = "none"
  /\ Go(t, "notifying")
  /\ Return(t)
  /\ UNCHANGED <<kind, rt, k, unlocked, slot>>

(* Mutant: the notification reaches no waiter.                            *)
NotifyNobody(t) ==
  /\ pc[t] = "notifying"
  /\ Go(t, "idle")
  /\ UNCHANGED <<kind, rt, k, sync, slot, history>>

(* CV: notify_one wakes the other side, and is lost if it does not wait. *)
Notify(t) ==
  /\ pc[t] = "notifying"
  /\ pc' = [s \in Sides |-> IF s = t THEN "idle"
                            ELSE IF pc[s] = "waiting" THEN "woken" ELSE pc[s]]
  /\ UNCHANGED <<kind, rt, k, sync, slot, history>>

(* Mutant: the side also releases its own mutex.                           *)
UnlockBoth(t) ==
  /\ kind = "M" /\ pc[t] = "accessed"
  /\ unlocked' = unlocked \cup {NextTurn(t), t}
  /\ Go(t, "idle")
  /\ Return(t)
  /\ UNCHANGED <<kind, rt, k, isProduced, owner, slot>>

(* M: unlock the mutex of the side that is next. *)
Unlock(t) ==
  /\ kind = "M" /\ pc[t] = "accessed"
  /\ unlocked' = unlocked \cup {NextTurn(t)}
  /\ Go(t, "idle")
  /\ Return(t)
  /\ UNCHANGED <<kind, rt, k, isProduced, owner, slot>>

-----------------------------------------------------------------------------
(* Both sides have made all their calls. *)
Finished ==
  /\ \A t \in Sides : pc[t] = "idle" /\ ~MayCall(t)
  /\ UNCHANGED vars

Access(t) == IF t = "writer" THEN WriteAccess ELSE ReadAccess

Step(t) ==
  \/ Poll(t) \/ TakeMutex(t) \/ Wait(t) \/ EndWait(t) \/ Lock(t)
  \/ Access(t)
  \/ StoreFlag(t) \/ ReleaseMutex(t) \/ Notify(t) \/ Unlock(t)

Next ==
  \/ \E t \in Sides : Step(t)
  \/ \E t \in Sides : SpuriousWakeup(t)
  \/ Finished

Spec == Init /\ [][Next]_vars

(* Each side is a thread that runs when it can, and the runtime does not   *)
(* produce spurious wake-ups for ever: a sleeper woken again and again     *)
(* could keep m_ from the other side.                                      *)
Spurious == \E t \in Sides : SpuriousWakeup(t)
FairSpec ==
  /\ Spec
  /\ \A t \in Sides : WF_vars(Step(t))
  /\ <>[][~Spurious]_vars

-----------------------------------------------------------------------------
TypeOK ==
  /\ kind \in Kinds
  /\ rt \in Promise!Transitions
  /\ k \in Ratios
  /\ n \in 0..k
  /\ v \in Nat \cup {-1}
  /\ isProduced \in BOOLEAN
  /\ owner \in Sides \cup {"none"}
  /\ unlocked \subseteq Sides
  /\ pc \in [Sides -> Places]
  /\ tmp \in Nat \cup {-1}
  /\ written \in Nat
  /\ reads \in Nat
  /\ last \in Nat \cup {-1}

InSlot(t) == pc[t] \in {"inside", "accessed"}

(* The plain fields v_ and n_ are never accessed by both sides at once,    *)
(* although in A only the polled flag, and in M only the other side's      *)
(* mutex, keeps a call out of the other's section.                         *)
NoDataRace == ~(InSlot("writer") /\ InSlot("reader"))

(* M: the turn is never lost or doubled.  Of the two mutexes and the two   *)
(* calls exactly one holds it, so no mutex is unlocked twice.              *)
OneTurn ==
  kind = "M" =>
    \E t \in Sides :
      \/ unlocked = {t} /\ ~InSlot("writer") /\ ~InSlot("reader")
      \/ unlocked = {} /\ InSlot(t) /\ ~InSlot(Other(t))

(* CV: a side sleeps although it could go on only while the other is about *)
(* to notify it.  The notification comes after m_ is released, goes to one *)
(* waiter only and is lost when nobody waits; still no wake-up is lost.    *)
NoLostWakeup ==
  \A t \in Sides : pc[t] = "waiting" /\ Ready(t) => pc[Other(t)] = "notifying"

(* Every read returns the value its rate transition calls for: no sample   *)
(* is lost, repeated or taken a step too early, in whatever order the two  *)
(* threads run.                                                            *)
SampleIsDue == reads > 0 => Promise!IsDue(reads - 1, last)

(* The channel implements the rate transition it is built for.             *)
ImplementsPromise == Promise!Spec

(* Neither side waits for ever: all the calls of a simulation return.      *)
AllCallsReturn == <>[](written = Promise!WriteLimit /\ reads = Promise!ReadLimit)

-----------------------------------------------------------------------------
(* The inductive invariant: who may be where, and what the counter n_ says *)
(* about the numbers of calls.                                             *)

Accessed(t) == pc[t] = "accessed"

(* It is the reader's turn, or a read is under way. *)
ReaderTurn ==
  IF kind = "M" THEN unlocked = {"reader"} \/ InSlot("reader") ELSE isProduced

ControlInv ==
  /\ kind = "CV" => \A t \in Sides : owner = t <=> pc[t] = "testing" \/ InSlot(t)
  /\ kind # "CV" => \A t \in Sides : pc[t] = "idle" \/ InSlot(t)
  /\ kind # "M" => \A t \in Sides : InSlot(t) => Ready(t)
  /\ OneTurn
  /\ NoLostWakeup

(* The number of writes before the first one that is sampled. *)
Phase == IF kind = "M" THEN k - 1 ELSE 0

FastToSlowInv ==
  rt = "FASTTOSLOW" =>
    /\ ~Accessed("writer") /\ ~Accessed("reader") =>
         written = reads * k + n - (k - 1) + Phase /\ (ReaderTurn <=> n = k)
    /\ Accessed("writer") => written + 1 = reads * k + n - (k - 1) + Phase
    /\ Accessed("reader") => n = 0 /\ written = reads * k + 1 + Phase

SlowToFastInv ==
  rt = "SLOWTOFAST" =>
    /\ ReaderTurn /\ ~Accessed("reader") => n < k /\ reads = (written - 1) * k + n
    /\ Accessed("reader") => n > 0 /\ reads + 1 = (written - 1) * k + n
    /\ ~ReaderTurn => reads = written * k
    /\ Accessed("writer") => n = 0

SameInv ==
  rt = "SAME" => written = IF ReaderTurn THEN reads + 1 ELSE reads

SlotInv ==
  /\ v = IF Accessed("writer") THEN written ELSE written - 1
  /\ Accessed("reader") => tmp = v
  /\ ReaderTurn => written > 0

CountInv == FastToSlowInv /\ SlowToFastInv /\ SameInv /\ SlotInv

IInv == TypeOK /\ ControlInv /\ CountInv /\ SampleIsDue
=============================================================================
