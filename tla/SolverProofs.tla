----------------------------- MODULE SolverProofs -----------------------------
(***************************************************************************)
(* Proofs about Solver for any number of FMUs, any events, intervals and   *)
(* methods, and any number of resets.                                      *)
(***************************************************************************)
EXTENDS Solver, FiniteSetsExt, SequenceTheorems, WellFoundedInduction, TLAPS

-----------------------------------------------------------------------------
(* Natural numbers. *)

(* Every set of natural numbers with an element has a least one. *)
LEMMA LeastNatural ==
  ASSUME NEW T, T \subseteq Nat, T # {}
  PROVE  \E x \in T : \A y \in T : x <= y
<1> DEFINE R == OpToRel(<, Nat)
<1>1. IsWellFoundedOn(R, Nat)
  BY NatLessThanWellFounded
<1>2. \A x, y \in Nat : x < y => <<x, y>> \in R
  BY DEF OpToRel
<1> HIDE DEF R
<1>3. PICK x \in T : \A y \in T : <<y, x>> \notin R
  BY <1>1, WFMin
<1>4. ASSUME NEW y \in T PROVE x <= y
  <2>1. x \in Nat /\ y \in Nat /\ ~ (y < x)
    BY <1>2, <1>3
  <2> QED
    BY <2>1
<1> QED
  BY <1>4

(* Min of a set of natural numbers is its least element. *)
LEMMA MinOfNaturals ==
  ASSUME NEW T, T \subseteq Nat, T # {}
  PROVE  /\ Min(T) \in T
         /\ \A y \in T : Min(T) <= y
BY LeastNatural DEF Min

-----------------------------------------------------------------------------
FmiModes == {"instantiated", "initialization", "event", "continuous", "step"}

(* What is assumed of the setup at hand.                                   *)
LEMMA SetupFacts ==
  ASSUME TypeOK
  PROVE  /\ DOMAIN setup.order = DOMAIN setup.fmus /\ Positions = DOMAIN setup.order
         /\ Len(setup.order) \in Nat /\ DOMAIN setup.order = 1..Len(setup.order)
         /\ Len(setup.fmus) = Len(setup.order)
         /\ \A n \in DOMAIN setup.order : setup.order[n] \in Fmus /\ setup.fmus[n] \in Fmus
         /\ \A f \in Fmus : \E n \in DOMAIN setup.order : setup.order[n] = f
         /\ \A m, n \in DOMAIN setup.order :
              setup.fmus[m] = setup.fmus[n] \/ setup.order[m] = setup.order[n] => m = n
         /\ setup.method \in {"internal", "euler", "cvode"}
         /\ setup.stateful \subseteq Fmus
         /\ \A f \in Fmus : setup.events[f] \subseteq Nat
         /\ setup.interval \in Nat /\ setup.interval # 0
         /\ EndTime \in Nat /\ None \in Nat /\ None > EndTime
<1>1. /\ setup.fmus \in Seq(Fmus) /\ setup.order \in Seq(Fmus)
      /\ DOMAIN setup.order = DOMAIN setup.fmus
      /\ \A f \in Fmus : \E n \in DOMAIN setup.order : setup.order[n] = f
      /\ \A m, n \in DOMAIN setup.order :
           setup.fmus[m] = setup.fmus[n] \/ setup.order[m] = setup.order[n] => m = n
      /\ setup.method \in {"internal", "euler", "cvode"}
      /\ setup.stateful \subseteq Fmus
      /\ setup.events \in [Fmus -> SUBSET Nat]
      /\ setup.interval \in Nat \ {0}
  BY SetupsAssumption DEF TypeOK, Fmus
<1>2. /\ Len(setup.order) \in Nat /\ DOMAIN setup.order = 1..Len(setup.order)
      /\ Len(setup.fmus) \in Nat /\ DOMAIN setup.fmus = 1..Len(setup.fmus)
  BY <1>1, LenProperties
<1>3. Len(setup.fmus) = Len(setup.order)
  <2>1. \A n : n \in 1..Len(setup.order) <=> n \in 1..Len(setup.fmus)
    BY <1>1, <1>2
  <2> QED
    BY <1>2, <2>1
<1>4. \A n \in DOMAIN setup.order : setup.order[n] \in Fmus /\ setup.fmus[n] \in Fmus
  BY <1>1, ElementOfSeq
<1>5. EndTime \in Nat /\ None \in Nat /\ None > EndTime
  BY <1>1, BoundsAssumption DEF None
<1>6. \A f \in Fmus : setup.events[f] \subseteq Nat
  BY <1>1
<1>7. setup.interval \in Nat /\ setup.interval # 0
  BY <1>1
<1> QED
  BY <1>1, <1>2, <1>3, <1>4, <1>5, <1>6, <1>7 DEF Positions

(* Every FMU has a position in fmus.                                       *)
LEMMA OwnPosition ==
  ASSUME TypeOK, NEW f \in Fmus
  PROVE  \E n \in Positions : setup.fmus[n] = f
<1>1. setup.fmus \in Seq(Fmus) /\ Fmus = ToSet(setup.fmus)
  BY SetupsAssumption DEF TypeOK, Fmus
<1> QED
  BY <1>1 DEF ToSet, Positions

(* The event an FMU announces is its first one after the time.             *)
LEMMA NextEventIsFirst ==
  ASSUME TypeOK, NEW f \in Fmus, NEW t \in Nat
  PROVE  /\ NextEvent(f, t) \in Nat
         /\ t < None => t < NextEvent(f, t)
         /\ \A e \in setup.events[f] : e > t => e >= NextEvent(f, t)
<1> DEFINE Q == {e \in setup.events[f] : e > t} \cup {None}
<1>1. Q \subseteq Nat /\ Q # {}
  BY SetupFacts
<1>2. Min(Q) \in Q /\ \A y \in Q : Min(Q) <= y
  BY <1>1, MinOfNaturals
<1>3. NextEvent(f, t) = Min(Q)
  BY DEF NextEvent
<1>4. Min(Q) \in Nat
  BY <1>1, <1>2
<1>5. t < None => t < Min(Q)
  BY <1>2
<1>6. ASSUME NEW e \in setup.events[f], e > t PROVE e >= Min(Q)
  <2>1. e \in Q
    BY <1>6
  <2>2. Min(Q) <= e /\ e \in Nat
    BY <1>1, <1>2, <2>1
  <2> QED
    BY <1>4, <2>2
<1> QED
  BY <1>3, <1>4, <1>5, <1>6

-----------------------------------------------------------------------------
(* The initialisation. *)

(* The invariant holds of a new model.                                     *)
LEMMA InitInv == Init => IInv
<1> SUFFICES ASSUME Init PROVE IInv
  OBVIOUS
<1> USE DEF Init
<1>1. TypeOK
  <2>1. slots \in Seq(Nat) /\ states \in Seq(Fmus \X Int)
    BY EmptySeq
  <2>2. /\ time \in Nat /\ stop \in Nat /\ hdef \in Nat /\ tnext \in Nat
        /\ cvode \in Nat /\ resets \in Nat
    BY DEF Start
  <2>3. local \in [Fmus -> Nat] /\ advanced \in [Fmus -> Fmus \X Int]
    BY DEF Start
  <2>4. /\ mode \in [Fmus -> FmiModes] /\ handled \in [Fmus -> SUBSET Nat]
        /\ illegal \in SUBSET (Fmus \X FmiModes)
    BY DEF FmiModes
  <2> QED
    BY <2>1, <2>2, <2>3, <2>4 DEF TypeOK, FmiModes
<1>2. PositionsInv /\ StopInv
  BY DEF PositionsInv, StopInv
<1>3. illegal = {} /\ SlotsInv
  BY DEF SlotsInv
<1>4. StatesInv
  <2>1. \A f \in setup.stateful : At(f)
    BY <1>1, SetupFacts DEF At
  <2> QED
    BY <2>1 DEF StatesInv
<1> QED
  BY <1>1, <1>2, <1>3, <1>4 DEF IInv

LEMMA EnterInv ==
  ASSUME IInv, EnterInitialization
  PROVE  IInv'
<1> USE DEF EnterInitialization
<1>0. TypeOK /\ PositionsInv /\ phase = "entering" /\ phase' = "exiting"
  BY DEF IInv
<1>1. Fmus' = Fmus /\ setup' = setup /\ UNCHANGED vectors
  BY DEF Fmus, vectors
<1>2. TypeOK'
  <2>1. local' \in [Fmus -> Nat] /\ mode' \in [Fmus -> FmiModes]
    BY <1>0 DEF TypeOK, FmiModes
  <2> QED
    BY <1>0, <1>1, <2>1 DEF TypeOK, FmiModes, vectors
<1>3. PositionsInv'
  <2>1. time' = Start /\ \A f \in Fmus : local'[f] = Start
    BY <1>0 DEF PositionsInv
  <2>2. ASSUME ModelExchange
        PROVE  /\ Len(slots') <= Len(setup.order)
               /\ \A n \in DOMAIN setup.order :
                    mode'[setup.order[n]] =
                      IF n <= Len(slots') THEN "continuous" ELSE "initialization"
    <3>1. Len(slots') = 0
      BY <1>0, <1>1, <2>2 DEF PositionsInv, vectors
    <3>2. Len(setup.order) \in Nat /\ \A n \in DOMAIN setup.order : n >= 1 /\ setup.order[n] \in Fmus
      BY <1>0, SetupFacts
    <3> QED
      BY <3>1, <3>2
  <2> QED
    BY <1>0, <1>1, <2>1, <2>2 DEF PositionsInv, ModelExchange, vectors
<1>4. StopInv'
  BY <1>0 DEF StopInv
<1>5. SameOrder' => illegal' = {} /\ SlotsInv' /\ StatesInv'
  <2>1. ModelExchange => slots' = << >>
    BY <1>0, <1>1 DEF PositionsInv, vectors
  <2>2. SameOrder' => illegal' = {} /\ SlotsInv'
    BY <1>0, <1>1, <2>1 DEF IInv, SameOrder, SlotsInv, ModelExchange
  <2>3. StatesInv => StatesInv'
    BY <1>0, <1>1 DEF StatesInv, At, ModelExchange, vectors
  <2> QED
    BY <1>1, <2>2, <2>3 DEF IInv, SameOrder
<1> QED
  BY <1>2, <1>3, <1>4, <1>5 DEF IInv

(* The FMU whose turn it is has the position after those in use. *)
LEMMA Turn ==
  ASSUME TypeOK, PositionsInv, ModelExchange, phase = "exiting", NEW f, Initializing(f)
  PROVE  /\ Len(slots) \in Nat
         /\ Len(slots) + 1 \in DOMAIN setup.order
         /\ f = setup.order[Len(slots) + 1]
<1>1. Len(slots) \in Nat
  BY LenProperties DEF TypeOK
<1>2. \A n \in DOMAIN setup.order :
        mode[setup.order[n]] = IF n <= Len(slots) THEN "continuous" ELSE "initialization"
  BY DEF PositionsInv
<1>3. PICK n \in DOMAIN setup.order :
        /\ f = setup.order[n] /\ mode[f] = "initialization"
        /\ \A m \in 1..(n - 1) : mode[setup.order[m]] # "initialization"
  BY DEF Initializing
<1>4. n \in Nat /\ DOMAIN setup.order = 1..Len(setup.order) /\ Len(setup.order) \in Nat
  BY SetupFacts
<1>5. n > Len(slots)
  BY <1>1, <1>2, <1>3, <1>4
<1>6. Len(slots) + 1 \in DOMAIN setup.order
  BY <1>1, <1>4, <1>5
<1>7. mode[setup.order[Len(slots) + 1]] = "initialization"
  BY <1>1, <1>2, <1>6
<1>8. ~(Len(slots) + 1 \in 1..(n - 1))
  BY <1>3, <1>7
<1>9. n = Len(slots) + 1
  BY <1>1, <1>4, <1>5, <1>8
<1> QED
  BY <1>1, <1>3, <1>6, <1>9

(* The slot of the FMU that is initialised at a position.                  *)
Slot(f) ==
  LET position == Len(slots) + 1
      iterated == {g \in Fmus : position \in Positions /\ setup.fmus[position] = g}
  IN  Min({None} \cup {NextEvent(g, local[g]) : g \in {h \in iterated : Left(f)[h] = "event"}})

LEMMA SlotIsFirst ==
  ASSUME TypeOK, PositionsInv, ModelExchange, phase = "exiting", NEW f, Initializing(f)
  PROVE  /\ Slot(f) \in Nat
         /\ SameOrder => Slot(f) <= NextEvent(f, Start)
<1> DEFINE position == Len(slots) + 1
           iterated == {g \in Fmus : position \in Positions /\ setup.fmus[position] = g}
           legal == {g \in iterated : Left(f)[g] = "event"}
           Q == {None} \cup {NextEvent(g, local[g]) : g \in legal}
<1>1. \A g \in Fmus : NextEvent(g, local[g]) \in Nat
  BY NextEventIsFirst DEF TypeOK
<1>2. Q \subseteq Nat /\ Q # {}
  BY <1>1, SetupFacts
<1>3. Min(Q) \in Q /\ \A y \in Q : Min(Q) <= y
  BY <1>2, MinOfNaturals
<1>4. Slot(f) = Min(Q)
  BY DEF Slot
<1>5. ASSUME SameOrder PROVE NextEvent(f, Start) \in Q
  <2>1. position \in DOMAIN setup.order /\ f = setup.order[position]
    BY Turn
  <2>2. f \in Fmus /\ position \in Positions /\ setup.fmus[position] = f
    BY <1>5, <2>1, SetupFacts DEF SameOrder
  <2>3. Left(f)[f] = "event" /\ local[f] = Start
    BY <2>2 DEF Left, TypeOK, PositionsInv
  <2> QED
    BY <2>2, <2>3
<1> QED
  BY <1>2, <1>3, <1>4, <1>5

(* The FMU that leaves the initialisation mode is the one whose events are *)
(* iterated, if the two orders are the same.                               *)
LEMMA ExitSame ==
  ASSUME TypeOK, PositionsInv, SameOrder, NEW f, ExitInitialization(f)
  PROVE  /\ illegal' = illegal
         /\ f \in Fmus /\ f = setup.fmus[Len(slots) + 1]
         /\ \A g \in Fmus : handled[g] \subseteq handled'[g]
         /\ Due(f, Start) \subseteq handled'[f]
<1> DEFINE position == Len(slots) + 1
           iterated == {g \in Fmus : position \in Positions /\ setup.fmus[position] = g}
           legal == {g \in iterated : Left(f)[g] = "event"}
<1>1. ModelExchange /\ phase = "exiting" /\ Initializing(f)
  BY DEF ExitInitialization
<1>2. position \in DOMAIN setup.order /\ f = setup.order[position]
  BY <1>1, Turn
<1>3. f \in Fmus /\ position \in Positions /\ setup.fmus[position] = f
  BY <1>2, SetupFacts DEF SameOrder
<1>4. Left(f)[f] = "event" /\ local[f] = Start
  BY <1>1, <1>3 DEF Left, TypeOK, PositionsInv
<1>5. iterated = {f} /\ legal = {f}
  BY <1>3, <1>4
<1>6. /\ handled' = [g \in Fmus |-> handled[g] \cup IF g \in legal THEN Due(g, local[g]) ELSE {}]
      /\ illegal' = illegal \cup {<<g, Left(f)[g]>> : g \in iterated \ legal}
  BY DEF ExitInitialization
<1>7. illegal' = illegal
  BY <1>5, <1>6
<1>8. (\A g \in Fmus : handled[g] \subseteq handled'[g]) /\ Due(f, Start) \subseteq handled'[f]
  BY <1>3, <1>4, <1>5, <1>6
<1> QED
  BY <1>3, <1>7, <1>8

LEMMA ExitType ==
  ASSUME TypeOK, PositionsInv, NEW f, ExitInitialization(f)
  PROVE  /\ TypeOK' /\ Fmus' = Fmus
         /\ slots' = Append(slots, Slot(f)) /\ Slot(f) \in Nat
         /\ states' = Append(states, advanced[f])
<1> DEFINE position == Len(slots) + 1
           iterated == {g \in Fmus : position \in Positions /\ setup.fmus[position] = g}
           legal == {g \in iterated : Left(f)[g] = "event"}
<1>1. ModelExchange /\ phase = "exiting" /\ Initializing(f)
  BY DEF ExitInitialization
<1>2. slots' = Append(slots, Slot(f)) /\ Slot(f) \in Nat
  BY <1>1, SlotIsFirst DEF ExitInitialization, Slot
<1>3. slots' \in Seq(Nat) /\ states' = Append(states, advanced[f]) /\ states' \in Seq(Fmus \X Int)
  <2>1. f \in Fmus
    BY <1>1, SetupFacts, Turn
  <2>2. advanced[f] \in Fmus \X Int
    BY <2>1 DEF TypeOK
  <2> QED
    BY <1>2, <2>2, AppendProperties DEF ExitInitialization, TypeOK
<1>4. /\ handled' = [g \in Fmus |-> handled[g] \cup IF g \in legal THEN Due(g, local[g]) ELSE {}]
      /\ illegal' = illegal \cup {<<g, Left(f)[g]>> : g \in iterated \ legal}
  BY DEF ExitInitialization
<1>5. handled' \in [Fmus -> SUBSET Nat]
  <2>1. \A g \in Fmus : Due(g, local[g]) \subseteq Nat
    BY SetupFacts DEF Due
  <2> QED
    BY <1>4, <2>1 DEF TypeOK
<1>6. illegal' \in SUBSET (Fmus \X FmiModes)
  <2>1. \A g \in Fmus : Left(f)[g] \in FmiModes
    BY DEF Left, TypeOK, FmiModes
  <2> QED
    BY <1>4, <2>1 DEF TypeOK, FmiModes
<1>7. mode' \in [Fmus -> FmiModes]
  BY DEF ExitInitialization, TypeOK, FmiModes
<1>8. Fmus' = Fmus
  BY DEF ExitInitialization, Fmus
<1>9. TypeOK'
  BY <1>3, <1>5, <1>6, <1>7, <1>8 DEF ExitInitialization, TypeOK, FmiModes
<1> QED
  BY <1>2, <1>3, <1>8, <1>9

LEMMA ExitInv ==
  ASSUME IInv, NEW f, ExitInitialization(f)
  PROVE  IInv'
<1>0. TypeOK /\ PositionsInv
  BY DEF IInv
<1>1. /\ ModelExchange /\ phase = "exiting" /\ phase' = "exiting" /\ Initializing(f)
      /\ mode' = [mode EXCEPT ![f] = "continuous"]
      /\ UNCHANGED <<setup, time, local, advanced>>
  BY DEF ExitInitialization
<1>2. /\ TypeOK' /\ Fmus' = Fmus /\ slots' = Append(slots, Slot(f)) /\ Slot(f) \in Nat
      /\ states' = Append(states, advanced[f])
  BY <1>0, ExitType
<1>3. /\ Len(slots) \in Nat /\ Len(slots) + 1 \in DOMAIN setup.order
      /\ f = setup.order[Len(slots) + 1]
  BY <1>0, <1>1, Turn
<1>9. f \in Fmus /\ advanced[f] \in Fmus \X Int
  BY <1>0, <1>3, SetupFacts DEF TypeOK
<1>10. /\ Len(states) = Len(slots) /\ Len(states') = Len(states) + 1
       /\ \A n \in 1..Len(states) : states'[n] = states[n]
       /\ states'[Len(states) + 1] = advanced[f]
  <2>1. Len(states) = Len(slots)
    BY <1>0, <1>1 DEF PositionsInv
  <2> QED
    BY <1>0, <1>2, <1>9, <2>1, AppendProperties DEF TypeOK
<1>4. /\ Len(slots') = Len(slots) + 1
      /\ \A n \in 1..Len(slots) : slots'[n] = slots[n]
      /\ slots'[Len(slots) + 1] = Slot(f)
  BY <1>0, <1>2, AppendProperties DEF TypeOK
<1>5. PositionsInv'
  <2>1. Len(slots') <= Len(setup.order)
    BY <1>0, <1>3, <1>4, SetupFacts
  <2>2. ASSUME NEW n \in DOMAIN setup.order
        PROVE  mode'[setup.order[n]] = IF n <= Len(slots') THEN "continuous" ELSE "initialization"
    <3>1. mode[setup.order[n]] = IF n <= Len(slots) THEN "continuous" ELSE "initialization"
      BY <1>0, <1>1 DEF PositionsInv
    <3>2. setup.order[n] \in Fmus /\ n \in Nat
      BY <1>0, SetupFacts
    <3>5. setup.order[n] = f => n = Len(slots) + 1
      <4>1. \A m, k \in DOMAIN setup.order : setup.order[m] = setup.order[k] => m = k
        BY <1>0, SetupFacts
      <4> QED
        BY <1>3, <4>1
    <3>3. CASE n = Len(slots) + 1
      BY <1>0, <1>1, <1>3, <1>4, <3>2, <3>3 DEF TypeOK
    <3>4. CASE n # Len(slots) + 1
      <4>1. mode'[setup.order[n]] = mode[setup.order[n]]
        BY <1>0, <1>1, <3>2, <3>4, <3>5 DEF TypeOK
      <4>2. n <= Len(slots') <=> n <= Len(slots)
        BY <1>3, <1>4, <3>2, <3>4
      <4> QED
        BY <3>1, <4>1, <4>2
    <3> QED
      BY <3>3, <3>4
  <2> QED
    BY <1>0, <1>1, <1>2, <1>4, <1>10, <2>1, <2>2 DEF PositionsInv
<1>6. StopInv'
  BY <1>1 DEF StopInv
<1>11. ASSUME SameOrder PROVE StatesInv'
  <2>1. /\ \A g \in setup.stateful : At(g)
        /\ \A g \in Fmus : advanced[g][1] = g
        /\ \A n \in DOMAIN states :
             /\ states[n][1] = setup.fmus[n]
             /\ setup.fmus[n] \in setup.stateful => states[n] = advanced[setup.fmus[n]]
    BY <1>1, <1>11 DEF IInv, StatesInv
  <2>2. \A g \in setup.stateful : At(g)'
    BY <1>1, <2>1 DEF At
  <2>3. f = setup.fmus[Len(states) + 1]
    BY <1>0, <1>10, <1>11, ExitSame
  <2>4. DOMAIN states = 1..Len(states) /\ DOMAIN states' = 1..(Len(states) + 1) /\ Len(states) \in Nat
    BY <1>0, <1>2, <1>10, LenProperties DEF TypeOK
  <2>5. ASSUME NEW n \in DOMAIN states'
        PROVE  /\ states'[n][1] = setup.fmus[n]
               /\ setup.fmus[n] \in setup.stateful => states'[n] = advanced[setup.fmus[n]]
    <3>1. CASE n \in DOMAIN states
      BY <1>10, <2>1, <2>4, <3>1
    <3>2. CASE n = Len(states) + 1
      BY <1>9, <1>10, <1>11, <2>1, <2>3, <3>2
    <3> QED
      BY <2>4, <3>1, <3>2
  <2> QED
    BY <1>1, <1>2, <2>1, <2>2, <2>5 DEF StatesInv
<1>7. ASSUME SameOrder PROVE illegal' = {} /\ SlotsInv'
  <2>1. /\ illegal' = illegal
        /\ f \in Fmus /\ f = setup.fmus[Len(slots) + 1]
        /\ \A g \in Fmus : handled[g] \subseteq handled'[g]
        /\ Due(f, Start) \subseteq handled'[f]
    BY <1>0, <1>7, ExitSame
  <2>2. illegal' = {}
    BY <1>7, <2>1 DEF IInv
  <2>3. time' = Start /\ time = Start
    BY <1>0, <1>1 DEF PositionsInv
  <2>0. \A n \in DOMAIN slots' : Start <= slots'[n]
    <3>1. slots' \in Seq(Nat)
      BY <1>2 DEF TypeOK
    <3>2. \A n \in DOMAIN slots' : slots'[n] \in Nat
      BY <3>1, ElementOfSeq, LenProperties
    <3> QED
      BY <3>2 DEF Start
  <2> SUFFICES ASSUME NEW n \in DOMAIN slots', NEW e \in setup.events[setup.fmus[n]]
               PROVE  /\ Start <= slots'[n]
                      /\ e \in handled'[setup.fmus[n]] \/ e >= slots'[n]
    BY <1>1, <2>0, <2>2, <2>3 DEF SlotsInv
  <2>4. Start <= slots'[n]
    BY <2>0
  <2>5. n \in 1..Len(slots) \/ n = Len(slots) + 1
    <3>1. DOMAIN slots' = 1..(Len(slots) + 1)
      BY <1>2, <1>4, LenProperties DEF TypeOK
    <3> QED
      BY <1>3, <3>1
  <2>6. CASE n \in 1..Len(slots)
    <3>1. n \in DOMAIN slots /\ n \in DOMAIN setup.order
      <4>1. DOMAIN slots = 1..Len(slots)
        BY <1>0, LenProperties DEF TypeOK
      <4>2. DOMAIN setup.order = 1..Len(setup.order) /\ Len(setup.order) \in Nat
        BY <1>0, SetupFacts
      <4> QED
        BY <1>3, <2>6, <4>1, <4>2
    <3>2. e \in handled[setup.fmus[n]] \/ e >= slots[n]
      BY <1>1, <1>7, <3>1 DEF IInv, SlotsInv
    <3>3. setup.fmus[n] \in Fmus
      BY <1>0, <3>1, SetupFacts
    <3> QED
      BY <1>4, <2>1, <2>4, <2>6, <3>2, <3>3
  <2>7. CASE n = Len(slots) + 1
    <3>1. setup.fmus[n] = f /\ slots'[n] = Slot(f)
      BY <1>4, <2>1, <2>7
    <3>2. e \in Nat
      BY <1>0, <2>1, <3>1, SetupFacts
    <3>3. e > Start => e >= NextEvent(f, Start) /\ NextEvent(f, Start) \in Nat
      BY <1>0, <2>1, <3>1, NextEventIsFirst DEF Start
    <3>4. Slot(f) <= NextEvent(f, Start)
      BY <1>0, <1>1, <1>7, SlotIsFirst
    <3>5. e = Start \/ e >= Slot(f)
      BY <1>2, <3>2, <3>3, <3>4 DEF Start
    <3>6. e = Start => e \in Due(f, Start)
      BY <3>1 DEF Due
    <3> QED
      BY <2>1, <2>4, <3>1, <3>5, <3>6
  <2> QED
    BY <2>5, <2>6, <2>7
<1>8. SameOrder' <=> SameOrder
  BY <1>1 DEF SameOrder
<1> QED
  BY <1>2, <1>5, <1>6, <1>7, <1>8, <1>11 DEF IInv

LEMMA ExitCSInv ==
  ASSUME IInv, NEW f, ExitInitializationCS(f)
  PROVE  IInv'
<1>0. TypeOK /\ PositionsInv
  BY DEF IInv
<1>1. /\ ~ModelExchange /\ phase = "exiting" /\ phase' = "exiting"
      /\ slots' = Append(slots, None)
      /\ mode' = [mode EXCEPT ![f] = "step"]
      /\ UNCHANGED <<setup, states, time, stop, hdef, tnext, cvode,
                     local, advanced, handled, illegal, resets>>
  BY DEF ExitInitializationCS
<1>2. Fmus' = Fmus /\ (ModelExchange' <=> ModelExchange) /\ (SameOrder' <=> SameOrder)
  BY <1>1 DEF Fmus, ModelExchange, SameOrder
<1>3. slots' \in Seq(Nat)
  BY <1>0, <1>1, SetupFacts, AppendProperties DEF TypeOK
<1>4. mode' \in [Fmus -> FmiModes]
  BY <1>0, <1>1 DEF TypeOK, FmiModes
<1>5. TypeOK'
  BY <1>0, <1>1, <1>2, <1>3, <1>4 DEF TypeOK, FmiModes
<1>6. PositionsInv' /\ StopInv'
  BY <1>0, <1>1, <1>2 DEF PositionsInv, StopInv
<1>7. SlotsInv'
  BY <1>1, <1>2 DEF SlotsInv
<1>8. StatesInv => StatesInv'
  BY <1>1, <1>2 DEF StatesInv, At
<1> QED
  BY <1>1, <1>2, <1>5, <1>6, <1>7, <1>8 DEF IInv

(* After the last FMU every position is in use, and the integrator starts. *)
LEMMA InitializeSolverInv ==
  ASSUME IInv, InitializeSolver
  PROVE  IInv'
<1>0. TypeOK /\ PositionsInv
  BY DEF IInv
<1>1. /\ phase = "exiting" /\ phase' = "ready"
      /\ \A f \in Fmus : mode[f] # "initialization"
      /\ time' = Start /\ cvode' = Start
      /\ UNCHANGED <<setup, slots, states, stop, hdef, tnext, mode, local, advanced,
                     handled, illegal, resets>>
  BY DEF InitializeSolver, fmuVars, vectors
<1>2. Fmus' = Fmus /\ (ModelExchange' <=> ModelExchange) /\ (SameOrder' <=> SameOrder)
  BY <1>1 DEF Fmus, ModelExchange, SameOrder
<1>3. TypeOK'
  <2>1. time' \in Nat /\ cvode' \in Nat
    BY <1>1 DEF Start
  <2> QED
    BY <1>0, <1>1, <1>2, <2>1 DEF TypeOK
<1>4. ASSUME ModelExchange
      PROVE  Len(slots) = Len(setup.order) /\ \A f \in Fmus : mode[f] = "continuous"
  <2>1. \A n \in DOMAIN setup.order : setup.order[n] \in Fmus /\ n <= Len(slots)
    BY <1>0, <1>1, <1>4, SetupFacts DEF PositionsInv
  <2>2. \A n \in DOMAIN setup.order : mode[setup.order[n]] = "continuous"
    BY <1>0, <1>1, <1>4, <2>1 DEF PositionsInv
  <2>3. Len(slots) \in Nat /\ Len(setup.order) \in Nat /\ Len(slots) <= Len(setup.order)
    BY <1>0, <1>1, <1>4, LenProperties, SetupFacts DEF PositionsInv, TypeOK
  <2>4. Len(slots) = Len(setup.order)
    <3>1. Len(setup.order) # 0 => Len(setup.order) <= Len(slots)
      BY <1>0, <2>1, <2>3, SetupFacts
    <3> QED
      BY <2>3, <3>1
  <2> QED
    BY <1>0, <2>2, <2>4, SetupFacts
<1>5. PositionsInv' /\ StopInv'
  BY <1>0, <1>1, <1>2, <1>4 DEF PositionsInv, StopInv
<1>6. StatesInv => StatesInv'
  <2>1. Start <= Start
    BY DEF Start
  <2> QED
    BY <1>1, <1>2, <2>1 DEF StatesInv, At
<1>7. SlotsInv => SlotsInv'
  <2>1. time' = time
    BY <1>0, <1>1 DEF PositionsInv
  <2> QED
    BY <1>1, <1>2, <2>1 DEF SlotsInv
<1> QED
  BY <1>1, <1>2, <1>3, <1>5, <1>6, <1>7 DEF IInv

-----------------------------------------------------------------------------
(* The steps of doStep. *)

LEMMA DoStepInv ==
  ASSUME IInv, DoStep
  PROVE  IInv'
<1>0. TypeOK /\ PositionsInv
  BY DEF IInv
<1>1. PICK h \in 1..setup.interval :
        /\ phase = "ready" /\ phase' = "looping"
        /\ time + h <= EndTime
        /\ stop' = time + h
        /\ hdef' = h
        /\ UNCHANGED <<setup, slots, states, time, tnext, cvode, mode, local, advanced,
                       handled, illegal, resets>>
  BY DEF DoStep, fmuVars, vectors
<1>2. Fmus' = Fmus /\ (ModelExchange' <=> ModelExchange) /\ (SameOrder' <=> SameOrder)
  BY <1>1 DEF Fmus, ModelExchange, SameOrder
<1>3. time \in Nat /\ h \in Nat
  BY <1>0, SetupFacts DEF TypeOK
<1>4. stop' \in Nat /\ hdef' \in Nat /\ stop' <= EndTime /\ time <= stop'
  BY <1>1, <1>3
<1>5. TypeOK'
  BY <1>0, <1>1, <1>2, <1>4 DEF TypeOK
<1>6. PositionsInv'
  BY <1>0, <1>1, <1>2 DEF PositionsInv
<1>7. StopInv'
  BY <1>1, <1>4 DEF StopInv
<1>8. (SlotsInv => SlotsInv') /\ (StatesInv => StatesInv')
  BY <1>1, <1>2 DEF SlotsInv, StatesInv, At
<1> QED
  BY <1>1, <1>2, <1>5, <1>6, <1>7, <1>8 DEF IInv

LEMMA StepInternallyInv ==
  ASSUME IInv, StepInternally
  PROVE  IInv'
<1>0. TypeOK /\ PositionsInv /\ StopInv
  BY DEF IInv
<1>1. /\ phase = "looping" /\ phase' = "looping" /\ ~ModelExchange
      /\ local' = [f \in Fmus |-> stop]
      /\ advanced' = [f \in Fmus |-> <<f, stop>>]
      /\ time' = stop
      /\ UNCHANGED <<setup, slots, states, stop, hdef, tnext, cvode, mode, handled, illegal, resets>>
  BY DEF StepInternally, vectors
<1>2. Fmus' = Fmus /\ (ModelExchange' <=> ModelExchange) /\ (SameOrder' <=> SameOrder)
  BY <1>1 DEF Fmus, ModelExchange, SameOrder
<1>3. TypeOK'
  <2>1. stop \in Nat /\ local' \in [Fmus -> Nat] /\ advanced' \in [Fmus -> Fmus \X Int]
    BY <1>0, <1>1 DEF TypeOK
  <2> QED
    BY <1>0, <1>1, <1>2, <2>1 DEF TypeOK
<1>4. PositionsInv'
  BY <1>0, <1>1, <1>2 DEF PositionsInv
<1>5. StopInv'
  BY <1>0, <1>1 DEF StopInv, TypeOK
<1>6. StatesInv'
  <2>1. setup.stateful \subseteq Fmus /\ setup.method = "internal"
    BY <1>0, <1>1, SetupFacts DEF ModelExchange
  <2>2. \A f \in Fmus : advanced'[f][1] = f /\ advanced'[f][2] = time'
    BY <1>1
  <2> QED
    BY <1>1, <1>2, <2>1, <2>2 DEF StatesInv, At
<1>7. SlotsInv'
  BY <1>1, <1>2 DEF SlotsInv
<1> QED
  BY <1>1, <1>2, <1>3, <1>4, <1>5, <1>6, <1>7 DEF IInv

(* The slots after the events, and the next time, which none of them is    *)
(* before.                                                                 *)
LEMMA NextTimeIsFirst ==
  ASSUME TypeOK, NEW asked, ModelExchange, phase = "looping", PositionsInv
  PROVE  /\ SlotsAfter(asked) \in [1..Len(setup.order) -> Nat]
         /\ NextTime(SlotsAfter(asked)) \in Nat
         /\ \A n \in DOMAIN setup.order : NextTime(SlotsAfter(asked)) <= SlotsAfter(asked)[n]
<1> DEFINE after == SlotsAfter(asked)
           Q == {time + hdef} \cup {after[n] : n \in Positions}
<1>1. Positions = DOMAIN setup.order /\ DOMAIN setup.order = 1..Len(setup.order)
  BY SetupFacts
<1>2. DOMAIN slots = 1..Len(setup.order) /\ \A n \in DOMAIN slots : slots[n] \in Nat
  BY LenProperties, ElementOfSeq DEF TypeOK, PositionsInv
<1>3. \A n \in Positions : NextEvent(setup.fmus[n], time) \in Nat
  BY <1>1, SetupFacts, NextEventIsFirst DEF TypeOK
<1>4. after \in [1..Len(setup.order) -> Nat]
  BY <1>1, <1>2, <1>3 DEF SlotsAfter
<1> HIDE DEF after
<1>5. Q \subseteq Nat /\ Q # {}
  BY <1>1, <1>4 DEF TypeOK
<1>6. Min(Q) \in Q /\ \A y \in Q : Min(Q) <= y
  BY <1>5, MinOfNaturals
<1>7. NextTime(after) = Min(Q)
  BY DEF NextTime
<1>8. NextTime(after) \in Nat /\ \A n \in DOMAIN setup.order : NextTime(after) <= after[n]
  BY <1>1, <1>5, <1>6, <1>7
<1> QED
  BY <1>4, <1>8 DEF after

(* A function on the positions is a sequence. *)
LEMMA ByPosition ==
  ASSUME NEW S, NEW k \in Nat, NEW q \in [1..k -> S]
  PROVE  q \in Seq(S) /\ Len(q) = k /\ DOMAIN q = 1..k
BY SeqDef, LenProperties

(* The events that lie before the slots are handled, and are in the right  *)
(* mode; no slot is before the next time.                                  *)
LEMMA EventsAreHandled ==
  ASSUME IInv, NEW asked, HandleEvents(asked)
  PROVE  /\ slots' \in Seq(Nat) /\ Len(slots') = Len(setup.order)
         /\ local' \in [Fmus -> Nat] /\ handled' \in [Fmus -> SUBSET Nat]
         /\ illegal' = illegal
         /\ tnext' \in Nat
         /\ SameOrder => SlotsInv'
<1>0. TypeOK /\ PositionsInv /\ StopInv
  BY DEF IInv
<1>1. /\ ModelExchange /\ phase = "looping" /\ time < stop
      /\ local' = [f \in Fmus |-> time]
      /\ slots' = SlotsAfter(asked)
      /\ handled' = [f \in Fmus |->
                       IF \E n \in Positions : setup.fmus[n] = f /\ EventAt(n, asked)
                       THEN handled[f] \cup Due(f, time) ELSE handled[f]]
      /\ illegal' = illegal \cup {<<f, mode[f]>> : f \in {g \in Fmus : mode[g] # "continuous"}}
      /\ tnext' = NextTime(SlotsAfter(asked))
      /\ phase' = "integrating"
      /\ UNCHANGED <<setup, time, mode>>
  BY DEF HandleEvents
<1>2. slots' \in [1..Len(setup.order) -> Nat]
  BY <1>0, <1>1, NextTimeIsFirst
<1>3. Len(setup.order) \in Nat /\ DOMAIN setup.order = 1..Len(setup.order)
      /\ Positions = DOMAIN setup.order
  BY <1>0, SetupFacts
<1>4. slots' \in Seq(Nat) /\ Len(slots') = Len(setup.order)
  <2> DEFINE k == Len(setup.order)
             q == slots'
  <2> HIDE DEF k, q
  <2>1. k \in Nat /\ q \in [1..k -> Nat]
    BY <1>2, <1>3 DEF k, q
  <2>2. q \in Seq(Nat) /\ Len(q) = k
    BY <2>1, ByPosition
  <2> QED
    BY <2>2 DEF k, q
<1>5. local' \in [Fmus -> Nat] /\ handled' \in [Fmus -> SUBSET Nat]
  <2>1. \A f \in Fmus : Due(f, time) \subseteq Nat
    BY <1>0, SetupFacts DEF Due
  <2> QED
    BY <1>0, <1>1, <2>1 DEF TypeOK
<1>6. illegal' = illegal
  BY <1>0, <1>1 DEF PositionsInv
<1>9. tnext' \in Nat
  BY <1>0, <1>1, NextTimeIsFirst
<1>7. ASSUME SameOrder, NEW n \in DOMAIN slots', NEW e \in setup.events[setup.fmus[n]]
      PROVE  e \in handled'[setup.fmus[n]] \/ e >= slots'[n]
  <2>1. n \in Positions /\ setup.fmus[n] \in Fmus
    BY <1>0, <1>2, <1>3, SetupFacts
  <2>2. n \in DOMAIN slots
    BY <1>0, <1>1, <1>3, <2>1, LenProperties DEF PositionsInv, TypeOK
  <2>3. /\ time <= slots[n] /\ slots[n] \in Nat
        /\ e \in handled[setup.fmus[n]] \/ e >= slots[n]
    BY <1>0, <1>1, <1>7, <2>2, ElementOfSeq DEF IInv, SlotsInv, TypeOK
  <2>4. e \in Nat /\ time \in Nat
    BY <1>0, <2>1, SetupFacts DEF TypeOK
  <2>5. handled[setup.fmus[n]] \subseteq handled'[setup.fmus[n]]
    BY <1>1, <2>1
  <2>6. CASE EventAt(n, asked)
    <3>1. e = time => e \in handled'[setup.fmus[n]]
      BY <1>1, <2>1, <2>6 DEF Due
    <3>2. slots'[n] = NextEvent(setup.fmus[n], time)
      BY <1>1, <2>1, <2>6 DEF SlotsAfter
    <3>3. e > time => e >= slots'[n]
      BY <1>0, <2>1, <2>4, <3>2, NextEventIsFirst
    <3>4. e = time \/ e > time \/ e < slots[n]
      BY <2>3, <2>4
    <3>5. e < slots[n] => e \in handled[setup.fmus[n]]
      BY <2>3, <2>4
    <3> QED
      BY <2>5, <3>1, <3>3, <3>4, <3>5
  <2>7. CASE ~EventAt(n, asked)
    <3>1. slots'[n] = slots[n]
      BY <1>1, <2>1, <2>7 DEF SlotsAfter
    <3> QED
      BY <2>3, <2>5, <3>1
  <2> QED
    BY <2>6, <2>7
<1>8. ASSUME SameOrder, NEW n \in DOMAIN slots' PROVE time <= slots'[n] /\ tnext' <= slots'[n]
  <2>1. n \in Positions /\ setup.fmus[n] \in Fmus
    BY <1>0, <1>2, <1>3, SetupFacts
  <2>2. n \in DOMAIN slots
    BY <1>0, <1>1, <1>3, <2>1, LenProperties DEF PositionsInv, TypeOK
  <2>3. time <= slots[n]
    BY <1>0, <1>1, <1>8, <2>2 DEF IInv, SlotsInv
  <2>4. time \in Nat /\ time < None
    BY <1>0, <1>1, SetupFacts DEF TypeOK, StopInv
  <2>5. NextEvent(setup.fmus[n], time) \in Nat /\ time < NextEvent(setup.fmus[n], time)
    BY <1>0, <2>1, <2>4, NextEventIsFirst
  <2>6. time <= NextEvent(setup.fmus[n], time)
    BY <2>4, <2>5
  <2>7. time <= slots'[n]
    BY <1>1, <2>1, <2>3, <2>6 DEF SlotsAfter
  <2>8. tnext' <= slots'[n]
    BY <1>0, <1>1, <1>3, <2>1, NextTimeIsFirst
  <2> QED
    BY <2>7, <2>8
<1>10. SameOrder => SlotsInv'
  BY <1>1, <1>7, <1>8 DEF SlotsInv
<1> QED
  BY <1>4, <1>5, <1>6, <1>9, <1>10

(* The first part of a pass: the states read again are those of the FMU    *)
(* that has the position.                                                  *)
LEMMA HandleEventsInv ==
  ASSUME IInv, NEW asked, HandleEvents(asked)
  PROVE  IInv'
<1>0. TypeOK /\ PositionsInv /\ StopInv
  BY DEF IInv
<1>1. /\ ModelExchange /\ phase = "looping" /\ time < stop
      /\ phase' = "integrating"
      /\ states' = StatesAfter(asked)
      /\ cvode' = IF setup.method = "cvode" /\ \E n \in Positions : EventAt(n, asked)
                  THEN time ELSE cvode
      /\ UNCHANGED <<setup, time, stop, hdef, mode, advanced, resets>>
  BY DEF HandleEvents
<1>2. /\ slots' \in Seq(Nat) /\ Len(slots') = Len(setup.order)
      /\ local' \in [Fmus -> Nat] /\ handled' \in [Fmus -> SUBSET Nat]
      /\ illegal' = illegal /\ tnext' \in Nat
      /\ SameOrder => SlotsInv'
  BY EventsAreHandled
<1>3. Fmus' = Fmus /\ (ModelExchange' <=> ModelExchange) /\ (SameOrder' <=> SameOrder)
  BY <1>1 DEF Fmus, ModelExchange, SameOrder
<1>4. /\ Positions = 1..Len(states) /\ DOMAIN states = Positions
      /\ Len(states) \in Nat /\ Len(states) = Len(setup.order)
  BY <1>0, <1>1, SetupFacts, LenProperties DEF PositionsInv, TypeOK
<1>5. \A n \in Positions : states[n] \in Fmus \X Int /\ advanced[setup.fmus[n]] \in Fmus \X Int
  <2>1. states \in Seq(Fmus \X Int) /\ advanced \in [Fmus -> Fmus \X Int]
    BY <1>0 DEF TypeOK
  <2>2. \A n \in Positions : states[n] \in Fmus \X Int
    BY <1>4, <2>1, ElementOfSeq
  <2>3. \A n \in Positions : setup.fmus[n] \in Fmus
    BY <1>0, SetupFacts
  <2> QED
    BY <2>1, <2>2, <2>3
<1>6. states' \in [1..Len(states) -> Fmus \X Int]
  BY <1>1, <1>4, <1>5 DEF StatesAfter
<1>7. states' \in Seq(Fmus \X Int) /\ Len(states') = Len(states) /\ DOMAIN states' = Positions
  <2> DEFINE k == Len(states)
             q == states'
  <2> HIDE DEF k, q
  <2>1. k \in Nat /\ q \in [1..k -> Fmus \X Int]
    BY <1>4, <1>6 DEF k, q
  <2>2. q \in Seq(Fmus \X Int) /\ Len(q) = k /\ DOMAIN q = 1..k
    BY <2>1, ByPosition
  <2> QED
    BY <1>4, <2>2 DEF k, q
<1>8. TypeOK'
  <2>1. cvode' \in Nat
    BY <1>0, <1>1 DEF TypeOK
  <2> QED
    BY <1>0, <1>1, <1>2, <1>3, <1>7, <2>1 DEF TypeOK
<1>9. PositionsInv' /\ StopInv'
  BY <1>0, <1>1, <1>2, <1>3, <1>4, <1>7 DEF PositionsInv, StopInv
<1>10. ASSUME StatesInv PROVE StatesInv'
  <2>1. \A f \in setup.stateful : At(f)'
    BY <1>1, <1>10 DEF StatesInv, At
  <2>2. ASSUME NEW n \in Positions
        PROVE  /\ states'[n][1] = setup.fmus[n]
               /\ setup.fmus[n] \in setup.stateful => states'[n] = advanced[setup.fmus[n]]
    <3>1. /\ states[n][1] = setup.fmus[n] /\ setup.fmus[n] \in Fmus
          /\ setup.fmus[n] \in setup.stateful => states[n] = advanced[setup.fmus[n]]
      BY <1>0, <1>1, <1>4, <1>10, SetupFacts DEF StatesInv
    <3>2. advanced[setup.fmus[n]][1] = setup.fmus[n]
      BY <1>10, <3>1 DEF StatesInv
    <3>3. states'[n] = states[n] \/ states'[n] = advanced[setup.fmus[n]]
      BY <1>1 DEF StatesAfter
    <3>4. states'[n] = IF EventAt(n, asked) /\ Exchanged(n) THEN advanced[setup.fmus[n]] ELSE states[n]
      BY <1>1 DEF StatesAfter
    <3> QED
      BY <3>1, <3>2, <3>4
  <2> QED
    BY <1>1, <1>3, <1>7, <1>10, <2>1, <2>2 DEF StatesInv
<1> QED
  BY <1>2, <1>3, <1>8, <1>9, <1>10 DEF IInv

(* The second part: every FMU gets the states of its own position, and     *)
(* they are longer by h.                                                   *)
LEMMA IntegratedStates ==
  ASSUME IInv, NEW h \in Int, Integrate(h)
  PROVE  /\ states' \in Seq(Fmus \X Int) /\ Len(states') = Len(states)
         /\ DOMAIN states' = DOMAIN states
         /\ advanced' \in [Fmus -> Fmus \X Int]
         /\ SameOrder =>
              /\ \A f \in Fmus : advanced'[f][1] = f
              /\ \A f \in setup.stateful : advanced'[f][2] = advanced[f][2] + h
              /\ \A n \in DOMAIN states' :
                   /\ states'[n][1] = setup.fmus[n]
                   /\ setup.fmus[n] \in setup.stateful => states'[n] = advanced'[setup.fmus[n]]
<1>0. TypeOK /\ PositionsInv /\ StopInv
  BY DEF IInv
<1>1. /\ phase = "integrating" /\ ModelExchange
      /\ states' = Longer(h) /\ advanced' = SetInto(Longer(h))
  BY <1>0 DEF Integrate, StopInv
<1>2. /\ Positions = 1..Len(states) /\ DOMAIN states = Positions
      /\ Len(states) \in Nat
  BY <1>0, <1>1, SetupFacts, LenProperties DEF PositionsInv, TypeOK
<1>3. \A n \in Positions : states[n] \in Fmus \X Int
  BY <1>0, <1>2, ElementOfSeq DEF TypeOK
<1>4. Longer(h) \in [1..Len(states) -> Fmus \X Int]
  <2>1. \A n \in Positions : <<states[n][1], states[n][2] + h>> \in Fmus \X Int
    BY <1>3
  <2> QED
    BY <1>2, <1>3, <2>1 DEF Longer
<1>5. states' \in Seq(Fmus \X Int) /\ Len(states') = Len(states) /\ DOMAIN states' = Positions
  <2> DEFINE k == Len(states)
             q == states'
  <2> HIDE DEF k, q
  <2>1. k \in Nat /\ q \in [1..k -> Fmus \X Int]
    BY <1>1, <1>2, <1>4 DEF k, q
  <2>2. q \in Seq(Fmus \X Int) /\ Len(q) = k /\ DOMAIN q = 1..k
    BY <2>1, ByPosition
  <2> QED
    BY <1>2, <2>2 DEF k, q
<1>6. ASSUME NEW f \in Fmus, NEW n \in Positions, setup.fmus[n] = f
      PROVE  /\ (CHOOSE m \in Positions : setup.fmus[m] = f) = n
             /\ advanced'[f] = IF Exchanged(n) THEN Longer(h)[n] ELSE advanced[f]
  <2>1. \A m \in Positions : setup.fmus[m] = f => m = n
    BY <1>0, <1>6, SetupFacts
  <2>2. (CHOOSE m \in Positions : setup.fmus[m] = f) = n
    BY <1>6, <2>1
  <2>3. (\E m \in Positions : setup.fmus[m] = f /\ Exchanged(m)) <=> Exchanged(n)
    BY <1>6, <2>1
  <2> QED
    BY <1>1, <2>2, <2>3 DEF SetInto
<1>7. \A f \in Fmus : \E n \in Positions : setup.fmus[n] = f
  BY <1>0, OwnPosition
<1>8. advanced' \in [Fmus -> Fmus \X Int]
  <2>1. ASSUME NEW f \in Fmus PROVE advanced'[f] \in Fmus \X Int
    <3>1. PICK n \in Positions : setup.fmus[n] = f
      BY <1>7
    <3>2. advanced'[f] = IF Exchanged(n) THEN Longer(h)[n] ELSE advanced[f]
      BY <1>6, <3>1
    <3>3. Longer(h)[n] \in Fmus \X Int
      BY <1>2, <1>4
    <3>4. advanced[f] \in Fmus \X Int
      BY <1>0 DEF TypeOK
    <3> QED
      BY <3>2, <3>3, <3>4
  <2>2. advanced' = [f \in Fmus |-> advanced'[f]]
    BY <1>1 DEF SetInto
  <2> QED
    BY <2>1, <2>2
<1>9. ASSUME SameOrder, NEW n \in Positions
      PROVE  LET f == setup.fmus[n]
             IN  /\ states'[n][1] = f
                 /\ advanced'[f][1] = f
                 /\ f \in setup.stateful =>
                      states'[n] = advanced'[f] /\ advanced'[f][2] = advanced[f][2] + h
  <2> DEFINE f == setup.fmus[n]
  <2>1. /\ f \in Fmus /\ states[n][1] = f /\ advanced[f][1] = f
        /\ f \in setup.stateful => states[n] = advanced[f]
    BY <1>0, <1>1, <1>2, <1>9, SetupFacts DEF IInv, StatesInv
  <2>2. advanced'[f] = IF Exchanged(n) THEN Longer(h)[n] ELSE advanced[f]
    BY <1>6, <2>1
  <2>3. Exchanged(n) <=> f \in setup.stateful
    BY <2>1 DEF Exchanged, HasStates
  <2>4. states'[n] = IF f \in setup.stateful THEN <<f, states[n][2] + h>> ELSE states[n]
    BY <1>1, <2>1 DEF Longer, HasStates
  <2> HIDE DEF f
  <2>5. CASE f \in setup.stateful
    BY <1>1, <2>1, <2>2, <2>3, <2>4, <2>5 DEF f
  <2>6. CASE f \notin setup.stateful
    BY <2>1, <2>2, <2>3, <2>4, <2>6 DEF f
  <2> QED
    BY <2>5, <2>6
<1>10. ASSUME SameOrder
       PROVE  /\ \A f \in Fmus : advanced'[f][1] = f
              /\ \A f \in setup.stateful : advanced'[f][2] = advanced[f][2] + h
  <2>1. setup.stateful \subseteq Fmus
    BY <1>0, SetupFacts
  <2> QED
    BY <1>7, <1>9, <1>10, <2>1
<1> QED
  BY <1>2, <1>5, <1>8, <1>9, <1>10

(* What is left to show of an integration: where the times and the states  *)
(* are.                                                                    *)
LEMMA IntegrateInv ==
  ASSUME IInv, NEW h \in Int, Integrate(h),
         time' \in Nat, cvode' \in Nat, time' <= tnext,
         setup.method # "cvode" => time' <= stop /\ time' = time + h,
         setup.method = "cvode" => \A a \in Int : a >= cvode => a + h >= time' /\ a + h >= cvode'
  PROVE  IInv'
<1>0. TypeOK /\ PositionsInv /\ StopInv
  BY DEF IInv
<1>1. /\ phase = "integrating" /\ phase' = "looping" /\ ModelExchange
      /\ tnext' = Start
      /\ UNCHANGED <<setup, slots, stop, hdef, mode, local, handled, illegal, resets>>
  BY <1>0 DEF Integrate, StopInv
<1>2. Fmus' = Fmus /\ (ModelExchange' <=> ModelExchange) /\ (SameOrder' <=> SameOrder)
  BY <1>1 DEF Fmus, ModelExchange, SameOrder
<1>3. /\ states' \in Seq(Fmus \X Int) /\ Len(states') = Len(states)
      /\ DOMAIN states' = DOMAIN states
      /\ advanced' \in [Fmus -> Fmus \X Int]
  BY IntegratedStates
<1>4. TypeOK'
  <2>1. tnext' \in Nat
    BY <1>1 DEF Start
  <2> QED
    BY <1>0, <1>1, <1>2, <1>3, <2>1 DEF TypeOK
<1>5. PositionsInv' /\ StopInv'
  BY <1>0, <1>1, <1>2, <1>3 DEF PositionsInv, StopInv
<1>6. ASSUME SameOrder PROVE SlotsInv'
  <2>1. ASSUME NEW n \in DOMAIN slots PROVE time' <= slots[n]
    <3>1. tnext <= slots[n] /\ tnext \in Nat /\ slots[n] \in Nat
      BY <1>0, <1>1, <1>6, <2>1, ElementOfSeq DEF IInv, SlotsInv, TypeOK
    <3> QED
      BY <3>1
  <2> QED
    BY <1>1, <1>2, <1>6, <2>1 DEF IInv, SlotsInv
<1>7. ASSUME SameOrder PROVE StatesInv'
  <2>1. \A f \in setup.stateful : f \in Fmus /\ At(f) /\ advanced[f] \in Fmus \X Int
    BY <1>0, <1>7, SetupFacts DEF IInv, StatesInv, TypeOK
  <2>2. ASSUME NEW f \in setup.stateful PROVE At(f)'
    <3>1. advanced'[f][2] = advanced[f][2] + h /\ advanced[f][2] \in Int
      BY <1>7, <2>1, IntegratedStates
    <3>2. CASE setup.method = "cvode"
      <4>1. advanced[f][2] >= cvode
        BY <1>1, <2>1, <3>2 DEF At
      <4>2. advanced'[f][2] >= time' /\ advanced'[f][2] >= cvode'
        BY <3>1, <3>2, <4>1
      <4> QED
        BY <1>1, <3>2, <4>2 DEF At
    <3>3. CASE setup.method # "cvode"
      <4>1. advanced[f][2] = time
        BY <1>1, <2>1, <3>3 DEF At
      <4> QED
        BY <1>1, <3>1, <3>3, <4>1 DEF At
    <3> QED
      BY <3>2, <3>3
  <2> QED
    BY <1>1, <1>2, <1>7, <2>2, IntegratedStates DEF StatesInv
<1> QED
  BY <1>1, <1>2, <1>4, <1>5, <1>6, <1>7 DEF IInv

(* euler: the states follow the time, which stops at the stop time.        *)
LEMMA EulerInv ==
  ASSUME IInv, Euler
  PROVE  IInv'
<1> DEFINE t == Min({tnext, stop})
<1>1. /\ setup.method = "euler" /\ Integrate(t - time) /\ time' = t /\ cvode' = cvode
  BY DEF Euler
<1>2. tnext \in Nat /\ stop \in Nat /\ time \in Nat /\ cvode \in Nat
  BY DEF IInv, TypeOK
<1>3. t \in Nat /\ t <= tnext /\ t <= stop
  <2> DEFINE Q == {tnext, stop}
  <2>1. Q \subseteq Nat /\ Q # {}
    BY <1>2
  <2>2. Min(Q) \in Q /\ \A y \in Q : Min(Q) <= y
    BY <2>1, MinOfNaturals
  <2> QED
    BY <1>2, <2>2
<1> HIDE DEF t
<1>4. t - time \in Int /\ time' = time + (t - time)
  BY <1>1, <1>2, <1>3
<1> QED
  BY <1>1, <1>2, <1>3, <1>4, IntegrateInv

(* cvode: the states are where the integrator has come, or further.        *)
LEMMA CvodeInv ==
  ASSUME IInv, Cvode
  PROVE  IInv'
<1>1. PICK t \in {tnext} \cup cvode..tnext :
        /\ setup.method = "cvode" /\ Integrate(t - cvode) /\ time' = t /\ cvode' = t
  BY DEF Cvode
<1>2. tnext \in Nat /\ cvode \in Nat
  BY DEF IInv, TypeOK
<1>3. t \in Nat /\ t <= tnext /\ t - cvode \in Int
  BY <1>2
<1>4. \A a \in Int : a >= cvode => a + (t - cvode) >= t
  BY <1>2, <1>3
<1> QED
  BY <1>1, <1>3, <1>4, IntegrateInv

(* The integrator refuses, and the states are further than the time.       *)
LEMMA CvodeRefusesInv ==
  ASSUME IInv, CvodeRefuses
  PROVE  IInv'
<1>1. /\ setup.method = "cvode" /\ tnext < cvode /\ Integrate(0)
      /\ time' = tnext /\ cvode' = cvode
  BY DEF CvodeRefuses
<1>2. tnext \in Nat /\ cvode \in Nat
  BY DEF IInv, TypeOK
<1>3. \A a \in Int : a >= cvode => a + 0 >= tnext /\ a + 0 >= cvode
  BY <1>1, <1>2
<1>4. tnext <= tnext
  BY <1>2
<1> QED
  BY <1>1, <1>2, <1>3, <1>4, IntegrateInv

(* The member time is set back to the stop time. *)
LEMMA EndDoStepInv ==
  ASSUME IInv, EndDoStep
  PROVE  IInv'
<1>0. TypeOK /\ PositionsInv /\ StopInv
  BY DEF IInv
<1>1. /\ phase = "looping" /\ phase' = "ready" /\ time >= stop
      /\ time' = stop /\ stop' = Start /\ hdef' = Start
      /\ UNCHANGED <<setup, slots, states, tnext, cvode, mode, local, advanced,
                     handled, illegal, resets>>
  BY DEF EndDoStep, fmuVars, vectors
<1>2. Fmus' = Fmus /\ (ModelExchange' <=> ModelExchange) /\ (SameOrder' <=> SameOrder)
  BY <1>1 DEF Fmus, ModelExchange, SameOrder
<1>3. time \in Nat /\ stop \in Nat
  BY <1>0 DEF TypeOK
<1>4. TypeOK'
  <2>1. stop' \in Nat /\ hdef' \in Nat
    BY <1>1 DEF Start
  <2> QED
    BY <1>0, <1>1, <1>2, <1>3, <2>1 DEF TypeOK
<1>5. PositionsInv' /\ StopInv'
  BY <1>0, <1>1, <1>2 DEF PositionsInv, StopInv
<1>6. ASSUME StatesInv PROVE StatesInv'
  <2>1. ASSUME NEW f \in setup.stateful PROVE At(f)'
    <3>1. At(f) /\ advanced[f][2] \in Int
      BY <1>0, <1>6, <2>1, SetupFacts DEF StatesInv, TypeOK
    <3>2. CASE setup.method = "cvode"
      <4>1. advanced[f][2] >= time /\ advanced[f][2] >= cvode
        BY <1>1, <3>1, <3>2 DEF At
      <4>2. advanced[f][2] >= stop
        BY <1>1, <1>3, <3>1, <4>1
      <4> QED
        BY <1>1, <3>2, <4>1, <4>2 DEF At
    <3>3. CASE setup.method # "cvode"
      <4>1. time = stop
        BY <1>0, <1>1, <1>3, <3>3 DEF StopInv
      <4> QED
        BY <1>1, <3>1, <3>3, <4>1 DEF At
    <3> QED
      BY <3>2, <3>3
  <2> QED
    BY <1>1, <1>2, <1>6, <2>1 DEF StatesInv
<1>7. ASSUME SlotsInv PROVE SlotsInv'
  <2>1. ASSUME ModelExchange, NEW n \in DOMAIN slots
        PROVE  stop <= slots[n]
    <3>1. time <= slots[n] /\ slots[n] \in Nat
      BY <1>0, <1>1, <1>7, <2>1, ElementOfSeq DEF SlotsInv, TypeOK
    <3> QED
      BY <1>1, <1>3, <3>1
  <2> QED
    BY <1>1, <1>2, <1>7, <2>1 DEF SlotsInv
<1> QED
  BY <1>1, <1>2, <1>4, <1>5, <1>6, <1>7 DEF IInv

(* A reset leaves the vectors of an FMU with a solver of its own behind.   *)
LEMMA ResetInv ==
  ASSUME IInv, Reset
  PROVE  IInv'
<1>0. TypeOK
  BY DEF IInv
<1>1. /\ phase' = "entering"
      /\ slots' = Freed(slots) /\ states' = Freed(states)
      /\ mode' = [f \in Fmus |-> "instantiated"]
      /\ local' = [f \in Fmus |-> Start]
      /\ advanced' = [f \in Fmus |-> <<f, Start>>]
      /\ handled' = [f \in Fmus |-> {}]
      /\ time' = Start /\ cvode' = Start
      /\ resets' = resets + 1
      /\ UNCHANGED <<setup, stop, hdef, tnext, illegal>>
  BY DEF Reset
<1>2. Fmus' = Fmus /\ (ModelExchange' <=> ModelExchange) /\ (SameOrder' <=> SameOrder)
  BY <1>1 DEF Fmus, ModelExchange, SameOrder
<1>3. TypeOK'
  <2>1. slots' \in Seq(Nat) /\ states' \in Seq(Fmus \X Int)
    BY <1>0, <1>1, EmptySeq DEF Freed, TypeOK
  <2>2. time' \in Nat /\ cvode' \in Nat /\ resets' \in Nat
    BY <1>0, <1>1 DEF Start, TypeOK
  <2>3. local' \in [Fmus -> Nat] /\ advanced' \in [Fmus -> Fmus \X Int]
    BY <1>1 DEF Start
  <2>4. mode' \in [Fmus -> FmiModes] /\ handled' \in [Fmus -> SUBSET Nat]
    BY <1>1 DEF FmiModes
  <2> QED
    BY <1>0, <1>1, <1>2, <2>1, <2>2, <2>3, <2>4 DEF TypeOK, FmiModes
<1>4. PositionsInv' /\ StopInv'
  BY <1>1, <1>2 DEF PositionsInv, StopInv, Freed
<1>5. StatesInv'
  <2>1. \A f \in Fmus : advanced'[f][1] = f /\ advanced'[f][2] = Start
    BY <1>1
  <2>2. setup.stateful \subseteq Fmus
    BY <1>0, SetupFacts
  <2>3. ModelExchange => states' = << >>
    BY <1>1 DEF Freed
  <2> QED
    BY <1>1, <1>2, <2>1, <2>2, <2>3 DEF StatesInv, At
<1>6. SlotsInv'
  BY <1>1 DEF SlotsInv
<1> QED
  BY <1>1, <1>2, <1>3, <1>4, <1>5, <1>6 DEF IInv

LEMMA UnchangedInv ==
  ASSUME IInv, UNCHANGED vars
  PROVE  IInv'
<1> USE DEF vars, vectors
<1>1. TypeOK' = TypeOK
  BY DEF TypeOK, Fmus
<1>2. PositionsInv' = PositionsInv
  BY DEF PositionsInv, Fmus, ModelExchange
<1>3. StopInv' = StopInv /\ SameOrder' = SameOrder /\ illegal' = illegal
  BY DEF StopInv, SameOrder, ModelExchange
<1>4. StatesInv' = StatesInv
  BY DEF StatesInv, At, ModelExchange, Fmus
<1>5. SlotsInv' = SlotsInv
  BY DEF SlotsInv, ModelExchange
<1> QED
  BY <1>1, <1>2, <1>3, <1>4, <1>5 DEF IInv

-----------------------------------------------------------------------------
(* Every step keeps the invariant.                                         *)
LEMMA NextInv == IInv /\ [Next]_vars => IInv'
<1> SUFFICES ASSUME IInv, [Next]_vars PROVE IInv'
  OBVIOUS
<1>1. CASE EnterInitialization
  BY <1>1, EnterInv
<1>2. ASSUME NEW f \in Fmus, ExitInitialization(f) \/ ExitInitializationCS(f) PROVE IInv'
  BY <1>2, ExitInv, ExitCSInv
<1>3. CASE InitializeSolver \/ DoStep \/ StepInternally \/ EndDoStep \/ Reset
  BY <1>3, InitializeSolverInv, DoStepInv, StepInternallyInv, EndDoStepInv, ResetInv
<1>4. ASSUME NEW asked \in SUBSET Fmus, HandleEvents(asked) PROVE IInv'
  BY <1>4, HandleEventsInv
<1>5. CASE Euler \/ Cvode \/ CvodeRefuses
  BY <1>5, EulerInv, CvodeInv, CvodeRefusesInv
<1>6. CASE UNCHANGED vars
  BY <1>6, UnchangedInv
<1> QED
  BY <1>1, <1>2, <1>3, <1>4, <1>5, <1>6 DEF Next, Loop, Rest

(* The inductive invariant holds in every state.                           *)
THEOREM Invariance == Spec => []IInv
<1>1. IInv /\ [Next]_vars => IInv'
  BY NextInv
<1> QED
  BY <1>1, InitInv, PTL DEF Spec

(* When doStep returns, every FMU holds its own states, integrated to the  *)
(* communication time, if the FMUs were connected to the solver in the     *)
(* order of the sub-models' names: Solver::doStep, which sets the states   *)
(* of a position into the FMU that has it in fmus, and                     *)
(* Solver::initializeFMU, which filled the position.                       *)
THEOREM StatesAreIntegrated == Spec => []StatesReachStop
<1>1. IInv => StatesReachStop
  <2> SUFFICES ASSUME IInv, SameOrder, phase = "ready", NEW f \in setup.stateful
               PROVE  Reaches(f)
    BY DEF StatesReachStop
  <2>1. f \in Fmus
    BY SetupFacts DEF IInv
  <2>2. advanced[f][1] = f /\ At(f)
    BY <2>1 DEF IInv, StatesInv
  <2> QED
    BY <2>2 DEF At, Reaches
<1> QED
  BY <1>1, Invariance, PTL

(* If the FMUs were connected to the solver in the order of the sub-models' *)
(* names, the events of an FMU are iterated only in its event mode:        *)
(* Solver::initializeFMU, which goes by position, and Solver::doStep.      *)
THEOREM EventsAreLegal == Spec => []EventsInEventMode
<1>1. IInv => EventsInEventMode
  BY DEF IInv, EventsInEventMode
<1> QED
  BY <1>1, Invariance, PTL

(* Under the same condition no time event is passed over, also by the      *)
(* integrator that goes beyond the stop time: the event times kept by      *)
(* position in Solver::doStep.                                             *)
THEOREM EventsAreNotMissed == Spec => []NoEventMissed
<1>1. IInv => NoEventMissed
  <2> SUFFICES ASSUME IInv, SameOrder, phase = "ready", ModelExchange,
                      NEW f \in Fmus, NEW e \in setup.events[f], e < time
               PROVE  e \in handled[f]
    BY DEF NoEventMissed
  <2>1. TypeOK /\ PositionsInv /\ SlotsInv
    BY DEF IInv
  <2>2. PICK n \in DOMAIN setup.order : setup.order[n] = f
    BY <2>1, SetupFacts
  <2>3. n \in DOMAIN slots
    <3>1. DOMAIN slots = 1..Len(slots) /\ Len(slots) = Len(setup.order)
      BY <2>1, LenProperties DEF TypeOK, PositionsInv
    <3> QED
      BY <2>1, <2>2, <3>1, SetupFacts
  <2>4. setup.fmus[n] = f
    BY <2>2 DEF SameOrder
  <2>5. time <= slots[n] /\ (e \in handled[f] \/ e >= slots[n])
    BY <2>1, <2>3, <2>4 DEF SlotsInv
  <2>6. e \in Nat /\ time \in Nat /\ slots[n] \in Nat
    <3>1. setup.events[f] \subseteq Nat
      BY <2>1, SetupFacts
    <3>2. time \in Nat /\ slots \in Seq(Nat)
      BY <2>1 DEF TypeOK
    <3>3. n \in 1..Len(slots)
      BY <2>3, <3>2, LenProperties
    <3>4. slots[n] \in Nat
      BY <3>2, <3>3, ElementOfSeq
    <3>5. e \in Nat
      BY <3>1
    <3> QED
      BY <3>2, <3>4, <3>5
  <2> QED
    BY <2>5, <2>6
<1> QED
  BY <1>1, Invariance, PTL
=============================================================================
