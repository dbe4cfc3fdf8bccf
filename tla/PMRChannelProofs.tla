-------------------------- MODULE PMRChannelProofs --------------------------
(***************************************************************************)
(* Proofs about PMRChannel for every set of activation ratios and every    *)
(* length of the simulation, for the three classes at once.                *)
(***************************************************************************)
EXTENDS PMRChannel, TLAPS

(* The facts about the constructor arguments and counters that arithmetic needs. *)
LEMMA Ranges ==
  ASSUME TypeOK
  PROVE  /\ kind \in {"A", "CV", "M"}
         /\ rt \in {"FASTTOSLOW", "SLOWTOFAST", "SAME"}
         /\ k \in Nat /\ k > 0
         /\ n \in Nat /\ n <= k
         /\ written \in Nat /\ reads \in Nat
BY KindsAssumption, RatiosAssumption DEF TypeOK, Promise!Transitions

(* The invariant holds when the constructor returns. *)
LEMMA InitInv == Init => IInv
<1> SUFFICES ASSUME Init PROVE IInv
  OBVIOUS
<1> USE DEF Init, Promise!Init
<1>k. k \in Nat /\ k > 0
  BY RatiosAssumption
<1>n. n \in 0..k
  BY <1>k
<1>1. TypeOK
  BY <1>n DEF TypeOK, Sides, Places
<1>2. ControlInv
  BY DEF ControlInv, OneTurn, NoLostWakeup, InSlot, Sides, Other
<1>3. CountInv
  <2>1. ~Accessed("writer") /\ ~Accessed("reader")
    BY DEF Accessed, Sides
  <2>2. ~ReaderTurn
    BY DEF ReaderTurn, InSlot, Sides
  <2> QED
    BY <1>k, <2>1, <2>2 DEF CountInv, FastToSlowInv, SlowToFastInv, SameInv, SlotInv, Phase
<1>4. SampleIsDue
  BY DEF SampleIsDue
<1> QED
  BY <1>1, <1>2, <1>3, <1>4 DEF IInv

-----------------------------------------------------------------------------
(* A step that moves only the control state of a side. *)
Quiet(t) ==
  \/ Poll(t) \/ TakeMutex(t) \/ Wait(t) \/ EndWait(t) \/ SpuriousWakeup(t)
  \/ Lock(t) \/ Notify(t)

(* Every variable keeps its type in a quiet step. *)
LEMMA QuietType ==
  ASSUME IInv, NEW t \in Sides, Quiet(t)
  PROVE  TypeOK'
<1> USE DEF IInv, TypeOK, Sides, Places, Go, sync, slot, history, MayCall
<1>1. CASE Poll(t)
  BY <1>1 DEF Poll
<1>2. CASE TakeMutex(t)
  BY <1>2 DEF TakeMutex
<1>3. CASE Wait(t)
  BY <1>3 DEF Wait
<1>4. CASE EndWait(t)
  BY <1>4 DEF EndWait
<1>5. CASE SpuriousWakeup(t)
  BY <1>5 DEF SpuriousWakeup
<1>6. CASE Lock(t)
  BY <1>6 DEF Lock
<1>7. CASE Notify(t)
  BY <1>7 DEF Notify
<1> QED
  BY <1>1, <1>2, <1>3, <1>4, <1>5, <1>6, <1>7 DEF Quiet

(* A quiet step leaves the slot, the counter and the turn alone. *)
LEMMA QuietFrame ==
  ASSUME IInv, NEW t \in Sides, Quiet(t)
  PROVE  /\ UNCHANGED <<kind, rt, k, n, v, tmp, written, reads, last>>
         /\ \A s \in Sides : Accessed(s)' = Accessed(s)
         /\ ReaderTurn' = ReaderTurn
<1> USE DEF IInv, TypeOK, Sides, Go, sync, slot, history, Accessed, InSlot, ReaderTurn
<1>1. CASE Poll(t)
  BY <1>1 DEF Poll, MayCall
<1>2. CASE TakeMutex(t)
  BY <1>2 DEF TakeMutex, MayCall
<1>3. CASE Wait(t)
  BY <1>3 DEF Wait, ControlInv
<1>4. CASE EndWait(t)
  BY <1>4 DEF EndWait, ControlInv
<1>5. CASE SpuriousWakeup(t)
  BY <1>5 DEF SpuriousWakeup, ControlInv
<1>6. CASE Lock(t)
  BY <1>6 DEF Lock, MayCall, ControlInv, OneTurn, Other
<1>7. CASE Notify(t)
  BY <1>7 DEF Notify, ControlInv
<1> QED
  BY <1>1, <1>2, <1>3, <1>4, <1>5, <1>6, <1>7 DEF Quiet

(* A quiet step preserves what the counter says, and the last sample. *)
LEMMA QuietCount ==
  ASSUME IInv, NEW t \in Sides, Quiet(t)
  PROVE  CountInv' /\ SampleIsDue'
<1> USE QuietFrame
<1>1. CountInv'
  BY DEF IInv, CountInv, FastToSlowInv, SlowToFastInv, SameInv, SlotInv, Phase, Sides
<1>2. SampleIsDue'
  BY DEF IInv, SampleIsDue, Promise!IsDue
<1> QED
  BY <1>1, <1>2

(* A quiet step lets a side in only when it has the turn, and puts it to   *)
(* sleep only when it has not.                                             *)
LEMMA QuietControl ==
  ASSUME IInv, NEW t \in Sides, Quiet(t)
  PROVE  ControlInv'
<1> USE DEF IInv, TypeOK, ControlInv, OneTurn, NoLostWakeup, Sides, Other, Ready, InSlot,
            Go, sync, slot, history
<1>1. CASE Poll(t)
  BY <1>1 DEF Poll, MayCall
<1>2. CASE TakeMutex(t)
  BY <1>2 DEF TakeMutex, MayCall
<1>3. CASE Wait(t)
  BY <1>3 DEF Wait
<1>4. CASE EndWait(t)
  BY <1>4 DEF EndWait
<1>5. CASE SpuriousWakeup(t)
  BY <1>5 DEF SpuriousWakeup
<1>6. CASE Lock(t)
  BY <1>6 DEF Lock, MayCall
<1>7. CASE Notify(t)
  BY <1>7 DEF Notify
<1> QED
  BY <1>1, <1>2, <1>3, <1>4, <1>5, <1>6, <1>7 DEF Quiet

-----------------------------------------------------------------------------
(* In the section between taking and handing over the turn. *)
LEMMA TurnWhileWriting ==
  ASSUME IInv, InSlot("writer")
  PROVE  ~InSlot("reader") /\ ~Accessed("reader") /\ ~ReaderTurn
BY DEF IInv, TypeOK, ControlInv, OneTurn, InSlot, Accessed, ReaderTurn, Ready, Sides, Other

LEMMA TurnWhileReading ==
  ASSUME IInv, InSlot("reader")
  PROVE  ~InSlot("writer") /\ ~Accessed("writer") /\ ReaderTurn
BY DEF IInv, TypeOK, ControlInv, OneTurn, InSlot, Accessed, ReaderTurn, Ready, Sides, Other

(* An access moves no turn: the control invariant sees no difference. *)
LEMMA AccessControl ==
  ASSUME IInv, WriteAccess \/ ReadAccess
  PROVE  ControlInv' /\ ReaderTurn' = ReaderTurn
BY DEF IInv, TypeOK, ControlInv, OneTurn, NoLostWakeup, Sides, Other, Ready, InSlot, Go,
       sync, history, WriteAccess, ReadAccess, ReaderTurn

(* The write of the slot: a fast writer never counts past k. *)
LEMMA WriteAccessInv == IInv /\ WriteAccess => IInv'
<1> SUFFICES ASSUME IInv, WriteAccess PROVE IInv'
  OBVIOUS
<1>r. TypeOK /\ pc \in [Sides -> Places] /\ InSlot("writer") /\ ~Accessed("writer")
  BY DEF IInv, TypeOK, WriteAccess, InSlot, Accessed
<1>t. ~Accessed("reader") /\ ~ReaderTurn /\ ~ReaderTurn'
  BY <1>r, TurnWhileWriting, AccessControl
<1>a. Accessed("writer")' /\ ~Accessed("reader")'
  BY <1>r, <1>t DEF WriteAccess, Go, Accessed, Sides
<1>n. /\ n' = WriteCount /\ v' = written
      /\ UNCHANGED <<kind, rt, k, tmp, written, reads, last, isProduced, owner, unlocked>>
  BY DEF WriteAccess, sync, history
<1>k. rt = "FASTTOSLOW" => n < k
  BY <1>r, <1>t, Ranges DEF IInv, CountInv, FastToSlowInv
<1>1. TypeOK'
  <2>1. n' \in 0..k
    BY <1>n, <1>k, <1>r, Ranges DEF WriteCount
  <2>2. pc' \in [Sides -> Places]
    BY <1>r DEF WriteAccess, Go, Places
  <2> QED
    BY <1>n, <2>1, <2>2 DEF IInv, TypeOK
<1>2. CountInv'
  BY <1>r, <1>t, <1>a, <1>n, <1>k, Ranges
  DEF IInv, CountInv, FastToSlowInv, SlowToFastInv, SameInv, SlotInv, WriteCount, Phase
<1>3. SampleIsDue'
  BY <1>n DEF IInv, SampleIsDue, Promise!IsDue
<1> QED
  BY <1>1, <1>2, <1>3, AccessControl DEF IInv

(* The read of the slot: a slow value is read at most k times. *)
LEMMA ReadAccessInv == IInv /\ ReadAccess => IInv'
<1> SUFFICES ASSUME IInv, ReadAccess PROVE IInv'
  OBVIOUS
<1>r. TypeOK /\ pc \in [Sides -> Places] /\ InSlot("reader") /\ ~Accessed("reader")
  BY DEF IInv, TypeOK, ReadAccess, InSlot, Accessed
<1>t. ~Accessed("writer") /\ ReaderTurn /\ ReaderTurn'
  BY <1>r, TurnWhileReading, AccessControl
<1>a. Accessed("reader")' /\ ~Accessed("writer")'
  BY <1>r, <1>t DEF ReadAccess, Go, Accessed, Sides
<1>n. /\ n' = ReadCount /\ tmp' = v
      /\ UNCHANGED <<kind, rt, k, v, written, reads, last, isProduced, owner, unlocked>>
  BY DEF ReadAccess, sync, history
<1>k. rt = "SLOWTOFAST" => n < k
  BY <1>r, <1>t DEF IInv, CountInv, SlowToFastInv
<1>1. TypeOK'
  <2>1. n' \in 0..k
    BY <1>n, <1>k, <1>r, Ranges DEF ReadCount
  <2>2. pc' \in [Sides -> Places]
    BY <1>r DEF ReadAccess, Go, Places
  <2> QED
    BY <1>n, <2>1, <2>2 DEF IInv, TypeOK
<1>2. CountInv'
  BY <1>r, <1>t, <1>a, <1>n, <1>k, Ranges
  DEF IInv, CountInv, FastToSlowInv, SlowToFastInv, SameInv, SlotInv, ReadCount, Phase
<1>3. SampleIsDue'
  BY <1>n DEF IInv, SampleIsDue, Promise!IsDue
<1> QED
  BY <1>1, <1>2, <1>3, AccessControl DEF IInv

-----------------------------------------------------------------------------
(* The three ways to end a call. *)
Handover(t) == StoreFlag(t) \/ ReleaseMutex(t) \/ Unlock(t)

(* What they have in common: the turn goes where NextTurn says. *)
LEMMA HandoverFrame ==
  ASSUME IInv, NEW t \in Sides, Handover(t)
  PROVE  /\ UNCHANGED <<kind, rt, k, n, v, tmp>>
         /\ Return(t)
         /\ Accessed(t)
         /\ \A s \in Sides : ~Accessed(s)'
         /\ ReaderTurn' <=> NextTurn(t) = "reader"
         /\ pc' \in [Sides -> Places]
<1>a. Accessed(t) /\ InSlot(t) /\ pc \in [Sides -> Places]
  BY DEF IInv, TypeOK, Handover, StoreFlag, ReleaseMutex, Unlock, Accessed, InSlot
<1>o. ~Accessed(Other(t)) /\ ~InSlot(Other(t))
  BY <1>a, TurnWhileWriting, TurnWhileReading DEF Sides, Other
<1>1. CASE StoreFlag(t)
  BY <1>1, <1>a, <1>o DEF StoreFlag, Go, slot, Accessed, ReaderTurn, Sides, Other, Places
<1>2. CASE ReleaseMutex(t)
  BY <1>2, <1>a, <1>o DEF ReleaseMutex, Go, slot, Accessed, ReaderTurn, Sides, Other, Places
<1>3. CASE Unlock(t)
  <2>1. kind = "M" /\ unlocked = {}
    BY <1>3, <1>a DEF Unlock, IInv, ControlInv, OneTurn, Sides, Other
  <2>2. unlocked' = {NextTurn(t)} /\ NextTurn(t) \in Sides
    BY <1>3, <2>1 DEF Unlock, NextTurn, Sides, Other
  <2>3. pc' = [pc EXCEPT ![t] = "idle"] /\ UNCHANGED <<kind, rt, k, n, v, tmp>> /\ Return(t)
    BY <1>3 DEF Unlock, Go, slot
  <2>4. ~InSlot("reader")'
    BY <1>a, <1>o, <2>3 DEF InSlot, Sides, Other
  <2>5. ReaderTurn' <=> NextTurn(t) = "reader"
    BY <2>1, <2>2, <2>3, <2>4 DEF ReaderTurn, Sides
  <2> QED
    BY <1>a, <1>o, <2>3, <2>5 DEF Accessed, Sides, Other, Places
<1> QED
  BY <1>1, <1>2, <1>3 DEF Handover

(* Types after a call has ended: the value of the read becomes the last one. *)
LEMMA HandoverType ==
  ASSUME IInv, NEW t \in Sides, Handover(t)
  PROVE  TypeOK'
<1>1. /\ UNCHANGED <<kind, rt, k, n, v, tmp>>
      /\ pc' \in [Sides -> Places] /\ Return(t)
  BY HandoverFrame
<1>2. Accessed(t) /\ TypeOK
  BY HandoverFrame DEF IInv
<1>3. t = "reader" => tmp \in Nat \cup {-1}
  BY <1>2 DEF TypeOK
<1>4. written' \in Nat /\ reads' \in Nat /\ last' \in Nat \cup {-1}
  BY <1>1, <1>2, <1>3 DEF Return, TypeOK
<1>5. isProduced' \in BOOLEAN /\ owner' \in Sides \cup {"none"} /\ unlocked' \subseteq Sides
  BY <1>2 DEF Handover, StoreFlag, ReleaseMutex, Unlock, TypeOK, NextTurn, Sides, Other
<1> QED
  BY <1>1, <1>2, <1>4, <1>5 DEF TypeOK

(* Handing over leaves at most one side with the turn, and a sleeping side *)
(* that becomes ready has a notification coming.                           *)
LEMMA HandoverControl ==
  ASSUME IInv, NEW t \in Sides, Handover(t)
  PROVE  ControlInv'
<1>a. Accessed(t) /\ InSlot(t) /\ pc \in [Sides -> Places]
  BY DEF IInv, TypeOK, Handover, StoreFlag, ReleaseMutex, Unlock, Accessed, InSlot
<1>o. ~InSlot(Other(t)) /\ pc[t] = "accessed"
  BY <1>a, TurnWhileWriting, TurnWhileReading DEF Sides, Other, Accessed
<1> USE DEF IInv, TypeOK, ControlInv, OneTurn, NoLostWakeup, Sides, Other, Ready, InSlot, Go, slot
<1>1. CASE StoreFlag(t)
  BY <1>1, <1>a, <1>o DEF StoreFlag
<1>2. CASE ReleaseMutex(t)
  BY <1>2, <1>a, <1>o DEF ReleaseMutex
<1>3. CASE Unlock(t)
  <2>1. kind = "M" /\ unlocked = {} /\ NextTurn(t) \in Sides
    BY <1>3, <1>a DEF Unlock, NextTurn
  <2>2. unlocked' = {NextTurn(t)} /\ kind' = "M" /\ pc' = [pc EXCEPT ![t] = "idle"]
    BY <1>3, <2>1 DEF Unlock
  <2> QED
    BY <1>a, <1>o, <2>1, <2>2
<1> QED
  BY <1>1, <1>2, <1>3 DEF Handover

(* Publishing a value makes it the reader's turn exactly when a read of it *)
(* is due.                                                                 *)
LEMMA WriteReturnCount ==
  ASSUME IInv, Handover("writer")
  PROVE  CountInv'
<1>1. /\ UNCHANGED <<kind, rt, k, n, v, tmp>>
      /\ Accessed("writer") /\ ~Accessed("writer")' /\ ~Accessed("reader")'
      /\ ReaderTurn' <=> NextTurn("writer") = "reader"
      /\ Return("writer")
  BY HandoverFrame DEF Sides
<1>2. written' = written + 1 /\ reads' = reads
  BY <1>1 DEF Return
<1>3. ReaderTurn' <=> (rt = "FASTTOSLOW" => n = k)
  BY <1>1 DEF NextTurn, KeepsTurn, Other
<1>4. TypeOK /\ ~Accessed("reader") /\ ~ReaderTurn
  BY <1>1, TurnWhileWriting DEF IInv, Accessed, InSlot
<1> QED
  BY <1>1, <1>2, <1>3, <1>4, Ranges
  DEF IInv, CountInv, FastToSlowInv, SlowToFastInv, SameInv, SlotInv, Phase

(* The returned value is the due one, for each of the three transitions:   *)
(* this is where the counter and the numbers of calls meet.                *)
LEMMA ReadIsDue ==
  ASSUME IInv, Accessed("reader")
  PROVE  Promise!IsDue(reads, tmp) /\ tmp \in 0..(written - 1)
<1>k. TypeOK /\ ReaderTurn /\ ~Accessed("writer")
  BY TurnWhileReading DEF IInv, Accessed, InSlot
<1>t. tmp = written - 1 /\ written > 0
  BY <1>k DEF IInv, CountInv, SlotInv
<1>m. tmp \in Nat /\ tmp \in 0..(written - 1)
  BY <1>k, <1>t, Ranges
<1>1. CASE rt = "FASTTOSLOW"
  <2>1. tmp = reads * k + Phase
    BY <1>1, <1>k, <1>t, Ranges DEF IInv, CountInv, FastToSlowInv, Phase
  <2> QED
    BY <1>1, <1>m, <2>1 DEF Promise!IsDue, Phase
<1>2. CASE rt = "SLOWTOFAST"
  <2>1. reads + 1 = tmp * k + n /\ n > 0
    BY <1>2, <1>t DEF IInv, CountInv, SlowToFastInv
  <2>2. (tmp + 1) * k = tmp * k + k /\ tmp * k \in Int
    BY <1>k, <1>m, Ranges
  <2>3. tmp * k <= reads /\ reads < (tmp + 1) * k
    BY <1>k, <2>1, <2>2, Ranges
  <2> QED
    BY <1>2, <1>m, <2>3 DEF Promise!IsDue
<1>3. CASE rt = "SAME"
  <2>1. tmp = reads
    BY <1>3, <1>k, <1>t, Ranges DEF IInv, CountInv, SameInv
  <2> QED
    BY <1>3, <1>m, <2>1 DEF Promise!IsDue
<1> QED
  BY <1>k, <1>1, <1>2, <1>3, Ranges

(* Releasing the slot: the reader keeps the turn only for a slow value     *)
(* that is still to be read again.                                         *)
LEMMA ReadReturnCount ==
  ASSUME IInv, Handover("reader")
  PROVE  CountInv' /\ SampleIsDue'
<1>1. /\ UNCHANGED <<kind, rt, k, n, v, tmp>>
      /\ Accessed("reader") /\ ~Accessed("writer")' /\ ~Accessed("reader")'
      /\ ReaderTurn' <=> NextTurn("reader") = "reader"
      /\ Return("reader")
  BY HandoverFrame DEF Sides
<1>2. written' = written /\ reads' = reads + 1 /\ last' = tmp
  BY <1>1 DEF Return
<1>3. ReaderTurn' <=> rt = "SLOWTOFAST" /\ n # k
  BY <1>1 DEF NextTurn, KeepsTurn, Other
<1>4. TypeOK /\ ~Accessed("writer") /\ ReaderTurn
  BY <1>1, TurnWhileReading DEF IInv, Accessed, InSlot
<1>5. (written - 1) * k + k = written * k
  BY <1>4, Ranges
<1>6. FastToSlowInv'
  <2>1. (reads + 1) * k = reads * k + k
    BY <1>4, Ranges
  <2> QED
    BY <1>1, <1>2, <1>3, <1>4, <2>1, Ranges DEF IInv, CountInv, FastToSlowInv, Phase
<1>7. SlowToFastInv'
  BY <1>1, <1>2, <1>3, <1>4, <1>5, Ranges DEF IInv, CountInv, SlowToFastInv
<1>8. SameInv' /\ SlotInv'
  BY <1>1, <1>2, <1>3, <1>4, Ranges DEF IInv, CountInv, SameInv, SlotInv
<1>9. SampleIsDue'
  <2>1. Promise!IsDue(reads, tmp) /\ reads \in Nat
    BY <1>1, <1>4, ReadIsDue, Ranges
  <2>2. reads' - 1 = reads
    BY <1>2, <2>1
  <2> QED
    BY <1>1, <1>2, <2>1, <2>2 DEF SampleIsDue, Promise!IsDue
<1> QED
  BY <1>6, <1>7, <1>8, <1>9 DEF CountInv

-----------------------------------------------------------------------------
(* IInv is inductive. *)
LEMMA NextInv == IInv /\ [Next]_vars => IInv'
<1> SUFFICES ASSUME IInv, [Next]_vars PROVE IInv'
  OBVIOUS
<1>1. ASSUME NEW t \in Sides, Quiet(t) PROVE IInv'
  BY <1>1, QuietType, QuietControl, QuietCount DEF IInv
<1>2. CASE WriteAccess \/ ReadAccess
  BY <1>2, WriteAccessInv, ReadAccessInv
<1>3. CASE Handover("writer")
  <2>1. SampleIsDue'
    BY <1>3, HandoverFrame DEF Sides, IInv, SampleIsDue, Promise!IsDue, Return
  <2> QED
    BY <1>3, <2>1, HandoverType, HandoverControl, WriteReturnCount DEF IInv, Sides
<1>4. CASE Handover("reader")
  BY <1>4, HandoverType, HandoverControl, ReadReturnCount DEF IInv, Sides
<1>5. CASE UNCHANGED vars
  BY <1>5 DEF vars, IInv, TypeOK, ControlInv, OneTurn, NoLostWakeup, Ready, InSlot, CountInv,
     FastToSlowInv, SlowToFastInv, SameInv, SlotInv, Accessed, ReaderTurn, Phase,
     SampleIsDue, Promise!IsDue, Promise!Transitions
<1>6. CASE Finished
  BY <1>5, <1>6 DEF Finished
<1>7. ASSUME NEW t \in Sides, Step(t) PROVE IInv'
  BY <1>1, <1>2, <1>3, <1>4, <1>7 DEF Step, Quiet, Handover, Access, Sides
<1>8. ASSUME NEW t \in Sides, SpuriousWakeup(t) PROVE IInv'
  BY <1>1, <1>8 DEF Quiet
<1> QED
  BY <1>5, <1>6, <1>7, <1>8 DEF Next

(* In every reachable state the inductive invariant holds. *)
THEOREM Invariance == Spec => []IInv
BY InitInv, NextInv, PTL DEF Spec

(* Types, for any set of ratios. *)
THEOREM TypeCorrect == Spec => []TypeOK
<1>1. IInv => TypeOK
  BY DEF IInv
<1> QED
  BY <1>1, Invariance, PTL

(* The unprotected fields v_ and n_ of PMRChannelA, PMRChannelCV and        *)
(* PMRChannelM are never accessed by both threads at once.                  *)
THEOREM RaceFree == Spec => []NoDataRace
<1>1. IInv => NoDataRace
  BY TurnWhileWriting DEF NoDataRace
<1> QED
  BY <1>1, Invariance, PTL

(* The two mutexes of PMRChannelM pass exactly one turn back and forth:     *)
(* neither is unlocked twice, and they are never both locked by nobody.     *)
THEOREM TurnUnique == Spec => []OneTurn
<1>1. IInv => OneTurn
  BY DEF IInv, ControlInv
<1> QED
  BY <1>1, Invariance, PTL

(* PMRChannelCV notifies after it has released m_, once and to one waiter;  *)
(* a side that sleeps although it could go on always has that notification  *)
(* coming.                                                                  *)
THEOREM NoWakeupLost == Spec => []NoLostWakeup
<1>1. IInv => NoLostWakeup
  BY DEF IInv, ControlInv
<1> QED
  BY <1>1, Invariance, PTL

(* Every read of every class returns the sample its rate transition calls   *)
(* for, whatever the ratio and however the two threads interleave.          *)
THEOREM SamplesAreDue == Spec => []SampleIsDue
<1>1. IInv => SampleIsDue
  BY DEF IInv
<1> QED
  BY <1>1, Invariance, PTL

-----------------------------------------------------------------------------
(* When a write is about to return, no earlier value is still to be read.   *)
LEMMA WriteOverwritesNothing ==
  ASSUME IInv, Accessed("writer")
  PROVE  ~Promise!Pending
<1> SUFFICES ASSUME NEW q \in 0..(written - 1), Promise!IsDue(reads, q) PROVE FALSE
  BY DEF Promise!Pending
<1>k. TypeOK /\ ~ReaderTurn
  BY TurnWhileWriting DEF IInv, Accessed, InSlot
<1>q. q \in Nat /\ q <= written - 1
  BY <1>k, Ranges
<1>1. CASE rt = "FASTTOSLOW"
  <2>1. q = reads * k + Phase
    BY <1>1 DEF Promise!IsDue, Phase
  <2>2. written + 1 = reads * k + n - (k - 1) + Phase
    BY <1>1 DEF IInv, CountInv, FastToSlowInv
  <2>3. reads * k \in Int /\ Phase \in Int
    BY <1>k, Ranges DEF Phase
  <2> QED
    BY <1>k, <1>q, <2>1, <2>2, <2>3, Ranges
<1>2. CASE rt = "SLOWTOFAST"
  <2>1. reads < (q + 1) * k
    BY <1>2 DEF Promise!IsDue
  <2>2. reads = written * k
    BY <1>2, <1>k DEF IInv, CountInv, SlowToFastInv
  <2>3. (q + 1) * k <= written * k
    <3>1. PICK d \in Nat : written = q + 1 + d
      <4>1. written - (q + 1) \in Nat /\ written = q + 1 + (written - (q + 1))
        BY <1>k, <1>q, Ranges
      <4> QED
        BY <4>1
    <3>2. written * k = (q + 1) * k + d * k
      BY <1>k, <1>q, <3>1, Ranges
    <3>3. d * k >= 0
      BY <1>k, Ranges
    <3>4. (q + 1) * k \in Int /\ d * k \in Int
      BY <1>k, <1>q, Ranges
    <3> QED
      BY <3>2, <3>3, <3>4
  <2> QED
    BY <1>k, <1>q, <2>1, <2>2, <2>3, Ranges
<1>3. CASE rt = "SAME"
  BY <1>3, <1>k, <1>q, Ranges DEF Promise!IsDue, IInv, CountInv, SameInv
<1> QED
  BY <1>k, <1>1, <1>2, <1>3, Ranges

(* Every step of a channel is a write or a read of its rate transition, or  *)
(* leaves the history unchanged.                                            *)
LEMMA StepSimulation == IInv /\ [Next]_vars => [Promise!Next]_Promise!vars
<1> SUFFICES ASSUME IInv, [Next]_vars PROVE [Promise!Next]_Promise!vars
  OBVIOUS
<1>1. ASSUME NEW t \in Sides, Quiet(t) PROVE UNCHANGED Promise!vars
  BY <1>1, QuietFrame DEF Promise!vars
<1>2. CASE WriteAccess \/ ReadAccess
  BY <1>2 DEF WriteAccess, ReadAccess, history, Promise!vars
<1>3. CASE Handover("writer")
  <2>1. Accessed("writer") /\ Return("writer") /\ UNCHANGED <<kind, rt, k>>
    BY <1>3, HandoverFrame DEF Sides
  <2> QED
    BY <2>1, WriteOverwritesNothing DEF Return, Promise!Next, Promise!Write
<1>4. CASE Handover("reader")
  <2>1. Accessed("reader") /\ Return("reader") /\ UNCHANGED <<kind, rt, k>>
    BY <1>4, HandoverFrame DEF Sides
  <2> QED
    BY <2>1, ReadIsDue DEF Return, Promise!Next, Promise!Read
<1>5. CASE Finished \/ UNCHANGED vars
  BY <1>5 DEF Finished, vars, Promise!vars
<1>6. ASSUME NEW t \in Sides, Step(t) PROVE [Promise!Next]_Promise!vars
  BY <1>1, <1>2, <1>3, <1>4, <1>6 DEF Step, Quiet, Handover, Access, Sides
<1>7. ASSUME NEW t \in Sides, SpuriousWakeup(t) PROVE UNCHANGED Promise!vars
  BY <1>1, <1>7 DEF Quiet
<1> QED
  BY <1>5, <1>6, <1>7 DEF Next

(* All three classes implement the promised rate transition, for every      *)
(* activation ratio and every length of the simulation.                     *)
THEOREM Refinement == Spec => ImplementsPromise
<1>1. Init => Promise!Init
  <2> SUFFICES ASSUME Init PROVE Promise!Init
    OBVIOUS
  <2> QED
    BY DEF Init
<1> QED
  BY <1>1, Invariance, StepSimulation, PTL DEF Spec, ImplementsPromise, Promise!Spec
=============================================================================
