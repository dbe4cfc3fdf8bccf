----------------------- MODULE FMICompositeModelProofs ------------------------
(***************************************************************************)
(* Proofs about FMICompositeModel for any number of sub-models, jobs,      *)
(* threads and connections, and about Lockstep's operators.                *)
(***************************************************************************)
EXTENDS FMICompositeModel, FiniteSetsExt, SequenceTheorems, WellFoundedInduction, TLAPS

-----------------------------------------------------------------------------
(* Natural numbers. *)

(* Every set of natural numbers with an element has a least one. *)
LEMMA LeastNatural ==
  ASSUME NEW T, T \subseteq Nat, T # {}
  PROVE  \E x \in T : \A y \in T : x <= y
<1> DEFINE R == OpToRel(<, Nat)
<1>1. IsWellFoundedOn(R, Nat)
  BY NatLessThanWellFounded
<1>2. \A x, y \in Nat : x < y => <<x, y>> \in R
  BY DEF OpToRel
<1> HIDE DEF R
<1>3. PICK x \in T : \A y \in T : <<y, x>> \notin R
  BY <1>1, WFMin
<1>4. ASSUME NEW y \in T PROVE x <= y
  <2>1. x \in Nat /\ y \in Nat /\ ~ (y < x)
    BY <1>2, <1>3
  <2> QED
    BY <2>1
<1> QED
  BY <1>4

(* Min of a set of natural numbers is its least element. *)
LEMMA MinOfNaturals ==
  ASSUME NEW T, T \subseteq Nat, T # {}
  PROVE  /\ Min(T) \in T
         /\ \A y \in T : Min(T) <= y
BY LeastNatural DEF Min

(* Induction: a set of natural numbers that has 0 and, with every number,  *)
(* the next one has them all.                                              *)
LEMMA SetInduction ==
  ASSUME NEW T, 0 \in T, \A n \in Nat : n \in T => n + 1 \in T
  PROVE  Nat \subseteq T
<1> SUFFICES ASSUME Nat \ T # {} PROVE FALSE
  OBVIOUS
<1>1. PICK x \in Nat \ T : \A y \in Nat \ T : x <= y
  BY LeastNatural
<1>2. x # 0 /\ x - 1 \in Nat /\ x - 1 \in T
  BY <1>1
<1> QED
  BY <1>1, <1>2

-----------------------------------------------------------------------------
(* Passing the outputs on. *)

(* The function updateInputs is defined by exists and satisfies its own    *)
(* equation: induction over the number of connections.                     *)
PassedOn(in, a, n) ==
  CHOOSE after : after = [m \in 0..n |-> IF m = 0 THEN in
                                         ELSE Update(setup.connections[m], after[m - 1], a)]

LEMMA PassedOnExists ==
  ASSUME NEW in, NEW a, NEW n \in Nat
  PROVE  PassedOn(in, a, n) =
           [m \in 0..n |-> IF m = 0 THEN in
                           ELSE Update(setup.connections[m], PassedOn(in, a, n)[m - 1], a)]
<1> DEFINE Body(k, f) == [m \in 0..k |-> IF m = 0 THEN in
                                         ELSE Update(setup.connections[m], f[m - 1], a)]
           T == {k \in Nat : \E f : f = Body(k, f)}
<1>1. 0 \in T
  <2>1. [m \in 0..0 |-> in] = Body(0, [m \in 0..0 |-> in])
    OBVIOUS
  <2> QED
    BY <2>1
<1>2. ASSUME NEW k \in Nat, k \in T PROVE k + 1 \in T
  <2>1. PICK f : f = Body(k, f)
    BY <1>2
  <2> DEFINE g == [m \in 0..(k + 1) |->
                     IF m = k + 1 THEN Update(setup.connections[m], f[k], a) ELSE f[m]]
  <2>2. \A m \in 0..k : g[m] = f[m]
    OBVIOUS
  <2>3. ASSUME NEW m \in 0..(k + 1) PROVE g[m] = Body(k + 1, g)[m]
    <3>1. CASE m = k + 1
      <4>1. g[m] = Update(setup.connections[m], f[k], a) /\ g[k] = f[k] /\ m # 0 /\ m - 1 = k
        BY <2>2, <3>1
      <4> QED
        BY <4>1
    <3>2. CASE m # k + 1
      <4>1. m \in 0..k /\ g[m] = f[m]
        BY <3>2
      <4>2. f[m] = IF m = 0 THEN in ELSE Update(setup.connections[m], f[m - 1], a)
        BY <2>1, <4>1
      <4>3. m # 0 => g[m - 1] = f[m - 1]
        BY <2>2, <4>1
      <4> QED
        BY <4>1, <4>2, <4>3
    <3> QED
      BY <3>1, <3>2
  <2>4. g = Body(k + 1, g)
    BY <2>3
  <2> HIDE DEF g
  <2>5. \E h : h = Body(k + 1, h)
    BY <2>4
  <2> QED
    BY <2>5
<1> HIDE DEF T
<1>3. Nat \subseteq T
  BY <1>1, <1>2, SetInduction
<1>4. \E f : f = Body(n, f)
  BY <1>3 DEF T
<1> QED
  BY <1>4 DEF PassedOn

LEMMA UpdateInputsIsPassedOn ==
  ASSUME NEW in, NEW a
  PROVE  UpdateInputs(in, a) = PassedOn(in, a, Len(setup.connections))[Len(setup.connections)]
BY DEF UpdateInputs, PassedOn

(* The inputs before and after every connection.                           *)
LEMMA PassedOnSteps ==
  ASSUME NEW in, NEW a, NEW n \in Nat
  PROVE  /\ PassedOn(in, a, n)[0] = in
         /\ \A m \in 1..n :
              PassedOn(in, a, n)[m] = Update(setup.connections[m], PassedOn(in, a, n)[m - 1], a)
<1> DEFINE after == PassedOn(in, a, n)
<1>1. after = [m \in 0..n |-> IF m = 0 THEN in ELSE Update(setup.connections[m], after[m - 1], a)]
  BY PassedOnExists
<1> HIDE DEF after
<1>2. after[0] = in
  BY <1>1
<1>3. \A m \in 1..n : after[m] = Update(setup.connections[m], after[m - 1], a)
  BY <1>1
<1> QED
  BY <1>2, <1>3 DEF after

(* The same for the rounds over an algebraic loop.                         *)
Rounds(scc, in, a, n) ==
  CHOOSE after : after = [r \in 0..n |-> IF r = 0 THEN in ELSE Round(scc, after[r - 1], a)]

LEMMA RoundsExist ==
  ASSUME NEW scc, NEW in, NEW a, NEW n \in Nat
  PROVE  Rounds(scc, in, a, n) =
           [r \in 0..n |-> IF r = 0 THEN in ELSE Round(scc, Rounds(scc, in, a, n)[r - 1], a)]
<1> DEFINE Body(k, f) == [r \in 0..k |-> IF r = 0 THEN in ELSE Round(scc, f[r - 1], a)]
           T == {k \in Nat : \E f : f = Body(k, f)}
<1>1. 0 \in T
  <2>1. [r \in 0..0 |-> in] = Body(0, [r \in 0..0 |-> in])
    OBVIOUS
  <2> QED
    BY <2>1
<1>2. ASSUME NEW k \in Nat, k \in T PROVE k + 1 \in T
  <2>1. PICK f : f = Body(k, f)
    BY <1>2
  <2> DEFINE g == [r \in 0..(k + 1) |-> IF r = k + 1 THEN Round(scc, f[k], a) ELSE f[r]]
  <2>2. \A r \in 0..k : g[r] = f[r]
    OBVIOUS
  <2>3. ASSUME NEW r \in 0..(k + 1) PROVE g[r] = Body(k + 1, g)[r]
    <3>1. CASE r = k + 1
      <4>1. g[r] = Round(scc, f[k], a) /\ g[k] = f[k] /\ r # 0 /\ r - 1 = k
        BY <2>2, <3>1
      <4> QED
        BY <4>1
    <3>2. CASE r # k + 1
      <4>1. r \in 0..k /\ g[r] = f[r]
        BY <3>2
      <4>2. f[r] = IF r = 0 THEN in ELSE Round(scc, f[r - 1], a)
        BY <2>1, <4>1
      <4>3. r # 0 => g[r - 1] = f[r - 1]
        BY <2>2, <4>1
      <4> QED
        BY <4>1, <4>2, <4>3
    <3> QED
      BY <3>1, <3>2
  <2>4. g = Body(k + 1, g)
    BY <2>3
  <2> HIDE DEF g
  <2>5. \E h : h = Body(k + 1, h)
    BY <2>4
  <2> QED
    BY <2>5
<1> HIDE DEF T
<1>3. Nat \subseteq T
  BY <1>1, <1>2, SetInduction
<1>4. \E f : f = Body(n, f)
  BY <1>3 DEF T
<1> QED
  BY <1>4 DEF Rounds

(* What solveAlgLoop leaves is what some round has left. *)
LEMMA SolveAlgLoopIsARound ==
  ASSUME NEW scc, NEW in, NEW a
  PROVE  \E r \in 1..MaxIterations :
           SolveAlgLoop(scc, in, a) = Rounds(scc, in, a, MaxIterations)[r]
<1> DEFINE after == Rounds(scc, in, a, MaxIterations)
           Settled(r) == \A c \in ToSet(scc) :
                           OutputAge(c[1], after[r], a) = OutputAge(c[1], after[r - 1], a)
           Q == {r \in 1..MaxIterations : Settled(r)} \cup {MaxIterations}
<1>1. Q \subseteq 1..MaxIterations /\ Q # {} /\ Q \subseteq Nat
  BY DEF MaxIterations
<1>2. Min(Q) \in Q
  BY <1>1, MinOfNaturals
<1>3. SolveAlgLoop(scc, in, a) = after[Min(Q)]
  BY DEF SolveAlgLoop, Rounds
<1> QED
  BY <1>1, <1>2, <1>3

(* Inputs that the connections of a component do not set stay as they are. *)
LEMMA UpdateFrame ==
  ASSUME NEW scc, scc \in Seq(ToSet(scc)), NEW in, NEW a, in = [i \in DOMAIN in |-> in[i]]
  PROVE  /\ Update(scc, in, a) = [i \in DOMAIN in |-> Update(scc, in, a)[i]]
         /\ \A i \in DOMAIN in :
              (\A c \in ToSet(scc) : c[2] # i) => Update(scc, in, a)[i] = in[i]
<1>1. CASE Len(scc) = 1
  <2>1. scc[1] \in ToSet(scc)
    BY <1>1, ElementOfSeq
  <2>2. Update(scc, in, a) = [in EXCEPT ![scc[1][2]] = OutputAge(scc[1][1], in, a)]
    BY <1>1 DEF Update, Pass
  <2> QED
    BY <2>1, <2>2
<1>2. CASE Len(scc) # 1
  <2> DEFINE after == Rounds(scc, in, a, MaxIterations)
             Keeps(r) == /\ after[r] = [i \in DOMAIN in |-> after[r][i]]
                         /\ \A i \in DOMAIN in :
                              (\A c \in ToSet(scc) : c[2] # i) => after[r][i] = in[i]
             T == {r \in Nat : r <= MaxIterations => Keeps(r)}
  <2>1. after = [r \in 0..MaxIterations |-> IF r = 0 THEN in ELSE Round(scc, after[r - 1], a)]
    BY RoundsExist DEF MaxIterations
  <2> HIDE DEF after
  <2>2. 0 \in T
    <3>1. after[0] = in
      BY <2>1 DEF MaxIterations
    <3> QED
      BY <3>1
  <2>3. ASSUME NEW r \in Nat, r \in T PROVE r + 1 \in T
    <3> SUFFICES ASSUME r + 1 <= MaxIterations PROVE Keeps(r + 1)
      OBVIOUS
    <3>1. Keeps(r)
      BY <2>3 DEF MaxIterations
    <3>2. after[r + 1] = Round(scc, after[r], a)
      BY <2>1 DEF MaxIterations
    <3>3. DOMAIN after[r] = DOMAIN in
      BY <3>1
    <3>4. after[r + 1] = [i \in DOMAIN in |->
                            IF \E c \in ToSet(scc) : c[2] = i
                            THEN OutputAge((CHOOSE c \in ToSet(scc) : c[2] = i)[1], after[r], a)
                            ELSE after[r][i]]
      BY <3>2, <3>3 DEF Round
    <3> QED
      BY <3>1, <3>4
  <2>4. Nat \subseteq T
    <3> HIDE DEF T
    <3> QED
      BY <2>2, <2>3, SetInduction
  <2>5. \A r \in 1..MaxIterations : Keeps(r)
    BY <2>4 DEF MaxIterations
  <2>6. PICK r \in 1..MaxIterations : SolveAlgLoop(scc, in, a) = after[r]
    BY SolveAlgLoopIsARound DEF after
  <2>7. Update(scc, in, a) = after[r]
    BY <1>2, <2>6 DEF Update
  <2> QED
    BY <2>5, <2>7
<1> QED
  BY <1>1, <1>2

(* What is assumed of the setup at hand.                                   *)
LEMMA SetupFacts ==
  ASSUME TypeOK
  PROVE  /\ Len(setup.connections) \in Nat
         /\ DOMAIN setup.connections = 1..Len(setup.connections)
         /\ \A n \in 1..Len(setup.connections) :
              /\ setup.connections[n] \in ToSet(setup.connections)
              /\ setup.connections[n] \in Seq(ToSet(setup.connections[n]))
         /\ Len(setup.jobs) \in Nat /\ Jobs = 1..Len(setup.jobs)
         /\ \A j \in Jobs : setup.jobs[j] \subseteq setup.subModels
         /\ \A s \in setup.subModels : \E j \in Jobs : s \in setup.jobs[j]
         /\ setup.interval \in Nat /\ setup.interval > 0
<1>1. /\ setup.connections \in Seq(ToSet(setup.connections))
      /\ \A scc \in ToSet(setup.connections) : scc \in Seq(ToSet(scc))
  BY ConnectionsAssumption DEF TypeOK
<1>2. /\ setup.jobs \in Seq(SUBSET setup.subModels)
      /\ setup.subModels = UNION {setup.jobs[j] : j \in Jobs}
  BY JobsAssumption DEF TypeOK, Jobs
<1>3. setup.interval \in Nat \ {0}
  BY JobsAssumption DEF TypeOK
<1>4. /\ Len(setup.connections) \in Nat
      /\ DOMAIN setup.connections = 1..Len(setup.connections)
      /\ Len(setup.jobs) \in Nat /\ Jobs = 1..Len(setup.jobs)
  BY <1>1, <1>2, LenProperties DEF Jobs
<1>5. \A n \in 1..Len(setup.connections) : setup.connections[n] \in ToSet(setup.connections)
  BY <1>1, ElementOfSeq
<1>6. \A j \in Jobs : setup.jobs[j] \subseteq setup.subModels
  BY <1>2
<1>7. \A s \in setup.subModels : \E j \in Jobs : s \in setup.jobs[j]
  BY <1>2
<1>8. setup.interval \in Nat /\ setup.interval > 0
  BY <1>3
<1> QED
  BY <1>1, <1>4, <1>5, <1>6, <1>7, <1>8

(* updateInputs changes no input that no connection sets, and leaves every *)
(* input of a single connection with what its output is worth then: the    *)
(* producers come first.                                                   *)
LEMMA InputsAreOutputs ==
  ASSUME TypeOK, NEW in, NEW a, in = [i \in DOMAIN in |-> in[i]],
         NEW n \in 1..Len(setup.connections), Len(setup.connections[n]) = 1,
         setup.connections[n][1][2] \in DOMAIN in,
         setup.depends[setup.connections[n][1][1]] \subseteq DOMAIN in
  PROVE  UpdateInputs(in, a)[setup.connections[n][1][2]] =
           OutputAge(setup.connections[n][1][1], UpdateInputs(in, a), a)
<1> DEFINE N == Len(setup.connections)
           after == PassedOn(in, a, N)
           out == setup.connections[n][1][1]
           inp == setup.connections[n][1][2]
           Sets(m) == {c[2] : c \in ToSet(setup.connections[m])}
           Shape(m) == after[m] = [i \in DOMAIN in |-> after[m][i]]
           Good(m) == /\ after[m][inp] = OutputAge(out, after[n - 1], a)
                      /\ \A i \in setup.depends[out] : after[m][i] = after[n - 1][i]
<1>1. N \in Nat /\ n \in 1..N /\ DOMAIN setup.connections = 1..N
  BY SetupFacts
<1>2. after[0] = in
  BY <1>1, PassedOnSteps
<1>3. \A m \in 1..N : after[m] = Update(setup.connections[m], after[m - 1], a)
  BY <1>1, PassedOnSteps
<1>4. /\ \A m \in 1..N : m > n => inp \notin Sets(m)
      /\ \A m \in 1..N : m >= n => Sets(m) \cap setup.depends[out] = {}
  BY <1>1, ConnectionsAssumption DEF TypeOK
<1> HIDE DEF after
<1>5. ASSUME NEW m \in 1..N, Shape(m - 1)
      PROVE  /\ Shape(m)
             /\ \A i \in DOMAIN in \ Sets(m) : after[m][i] = after[m - 1][i]
  <2> DEFINE scc == setup.connections[m]
             before == after[m - 1]
  <2>1. scc \in Seq(ToSet(scc))
    BY SetupFacts
  <2>2. DOMAIN before = DOMAIN in /\ before = [i \in DOMAIN before |-> before[i]]
    BY <1>5
  <2>3. after[m] = Update(scc, before, a)
    BY <1>3
  <2> HIDE DEF scc, before
  <2>4. /\ Update(scc, before, a) = [i \in DOMAIN before |-> Update(scc, before, a)[i]]
        /\ \A i \in DOMAIN before :
             (\A c \in ToSet(scc) : c[2] # i) => Update(scc, before, a)[i] = before[i]
    BY <2>1, <2>2, UpdateFrame
  <2>5. Shape(m)
    BY <2>2, <2>3, <2>4
  <2>6. \A i \in DOMAIN in \ Sets(m) : after[m][i] = before[i]
    BY <2>2, <2>3, <2>4 DEF scc
  <2> QED
    BY <2>5, <2>6 DEF before
<1>6. \A m \in 0..N : Shape(m)
  <2> DEFINE T == {m \in Nat : m <= N => Shape(m)}
  <2>1. 0 \in T
    BY <1>2
  <2>2. ASSUME NEW m \in Nat, m \in T PROVE m + 1 \in T
    <3> SUFFICES ASSUME m + 1 <= N PROVE Shape(m + 1)
      OBVIOUS
    <3>1. m + 1 \in 1..N /\ (m + 1) - 1 = m /\ Shape(m)
      BY <1>1, <2>2
    <3> HIDE DEF Shape
    <3>2. Shape((m + 1) - 1)
      BY <3>1
    <3> QED
      BY <1>5, <3>1, <3>2
  <2> HIDE DEF T
  <2>3. Nat \subseteq T
    BY <2>1, <2>2, SetInduction
  <2> QED
    BY <1>1, <2>3 DEF T
<1>7. Good(n)
  <2>1. Shape(n - 1)
    <3>1. n - 1 \in 0..N
      BY <1>1
    <3> HIDE DEF Shape
    <3> QED
      BY <1>6, <3>1
  <2>2. after[n] = Pass(setup.connections[n][1], after[n - 1], a)
    BY <1>3 DEF Update
  <2>3. after[n][inp] = OutputAge(out, after[n - 1], a)
    BY <2>1, <2>2 DEF Pass
  <2>4. \A i \in setup.depends[out] : i \in DOMAIN in \ Sets(n)
    BY <1>1, <1>4
  <2>5. \A i \in setup.depends[out] : after[n][i] = after[n - 1][i]
    BY <1>5, <2>1, <2>4
  <2> QED
    BY <2>3, <2>5
<1>8. \A m \in n..N : Good(m)
  <2> DEFINE T == {m \in Nat : m >= n /\ m <= N => Good(m)}
  <2>1. 0 \in T
    BY <1>1
  <2>2. ASSUME NEW m \in Nat, m \in T PROVE m + 1 \in T
    <3> SUFFICES ASSUME m + 1 >= n, m + 1 <= N PROVE Good(m + 1)
      OBVIOUS
    <3>1. CASE m + 1 = n
      BY <1>7, <3>1
    <3>2. CASE m + 1 # n
      <4>1. m + 1 \in 1..N /\ (m + 1) - 1 = m /\ m >= n /\ m + 1 > n /\ m \in 0..N
        BY <1>1, <3>2
      <4>2. Shape(m) /\ Good(m)
        <5>1. m <= N
          BY <1>1, <4>1
        <5> HIDE DEF Shape, Good
        <5> QED
          BY <1>6, <2>2, <4>1, <5>1
      <4>3. \A i \in DOMAIN in \ Sets(m + 1) : after[m + 1][i] = after[m][i]
        <5> HIDE DEF Shape, Sets
        <5>1. Shape((m + 1) - 1)
          BY <4>1, <4>2
        <5>2. \A i \in DOMAIN in \ Sets(m + 1) : after[m + 1][i] = after[(m + 1) - 1][i]
          BY <1>5, <4>1, <5>1
        <5> QED
          BY <4>1, <5>2
      <4>4. inp \in DOMAIN in \ Sets(m + 1)
        BY <1>4, <4>1
      <4>5. \A i \in setup.depends[out] : i \in DOMAIN in \ Sets(m + 1)
        BY <1>4, <4>1
      <4> QED
        BY <4>2, <4>3, <4>4, <4>5
    <3> QED
      BY <3>1, <3>2
  <2> HIDE DEF T
  <2>3. Nat \subseteq T
    BY <2>1, <2>2, SetInduction
  <2> QED
    BY <1>1, <2>3 DEF T
<1>9. Good(N)
  BY <1>1, <1>8
<1>10. UpdateInputs(in, a) = after[N]
  BY UpdateInputsIsPassedOn DEF after
<1>11. OutputAge(out, after[N], a) = OutputAge(out, after[n - 1], a)
  <2>1. {after[N][i] : i \in setup.depends[out]} = {after[n - 1][i] : i \in setup.depends[out]}
    BY <1>9
  <2> QED
    BY <2>1 DEF OutputAge
<1> QED
  BY <1>9, <1>10, <1>11

(* The inputs stay a function of the connected inputs. *)
LEMMA UpdateInputsShape ==
  ASSUME TypeOK, NEW in, NEW a, in = [i \in DOMAIN in |-> in[i]]
  PROVE  UpdateInputs(in, a) = [i \in DOMAIN in |-> UpdateInputs(in, a)[i]]
<1> DEFINE N == Len(setup.connections)
           after == PassedOn(in, a, N)
           Shape(m) == after[m] = [i \in DOMAIN in |-> after[m][i]]
           T == {m \in Nat : m <= N => Shape(m)}
<1>1. N \in Nat
  BY SetupFacts
<1>2. after[0] = in
  BY <1>1, PassedOnSteps
<1>3. \A m \in 1..N : after[m] = Update(setup.connections[m], after[m - 1], a)
  BY <1>1, PassedOnSteps
<1> HIDE DEF after
<1>4. 0 \in T
  BY <1>2
<1>5. ASSUME NEW m \in Nat, m \in T PROVE m + 1 \in T
  <2> SUFFICES ASSUME m + 1 <= N PROVE Shape(m + 1)
    OBVIOUS
  <2> DEFINE scc == setup.connections[m + 1]
             before == after[m]
  <2>1. m + 1 \in 1..N /\ (m + 1) - 1 = m
    BY <1>1
  <2>2. Shape(m)
    BY <1>1, <1>5
  <2>3. scc \in Seq(ToSet(scc))
    BY <2>1, SetupFacts
  <2>4. after[m + 1] = Update(scc, before, a)
    BY <1>3, <2>1
  <2>5. DOMAIN before = DOMAIN in /\ before = [i \in DOMAIN before |-> before[i]]
    BY <2>2
  <2> HIDE DEF scc, before
  <2>6. Update(scc, before, a) = [i \in DOMAIN before |-> Update(scc, before, a)[i]]
    BY <2>3, <2>5, UpdateFrame
  <2> QED
    BY <2>4, <2>5, <2>6
<1> HIDE DEF T
<1>6. Nat \subseteq T
  BY <1>4, <1>5, SetInduction
<1>7. Shape(N)
  BY <1>1, <1>6 DEF T
<1> QED
  BY <1>7, UpdateInputsIsPassedOn DEF after

-----------------------------------------------------------------------------
(* The inputs between two steps. *)

(* What InputsFollowOutputs says, wherever the master is.                  *)
Passed ==
  \A scc \in ToSet(setup.connections) :
    Len(scc) = 1 => inputs[scc[1][2]] = OutputAge(scc[1][1], inputs, at)

InputsShape == inputs = [i \in InputsOf(setup) |-> inputs[i]]

(* Steps that touch neither the inputs nor the sub-models keep both.       *)
LEMMA InputsUnchanged ==
  ASSUME UNCHANGED <<setup, inputs, at>>
  PROVE  (Passed => Passed') /\ (InputsShape => InputsShape')
BY DEF Passed, InputsShape, OutputAge

(* updateInputs leaves every input of a single connection as its output.   *)
LEMMA UpdatedInputsFollow ==
  ASSUME TypeOK, NEW in, NEW a, in = [i \in InputsOf(setup) |-> in[i]]
  PROVE  /\ UpdateInputs(in, a) = [i \in InputsOf(setup) |-> UpdateInputs(in, a)[i]]
         /\ \A scc \in ToSet(setup.connections) : Len(scc) = 1 =>
              UpdateInputs(in, a)[scc[1][2]] = OutputAge(scc[1][1], UpdateInputs(in, a), a)
<1>1. DOMAIN in = InputsOf(setup) /\ in = [i \in DOMAIN in |-> in[i]]
  OBVIOUS
<1>2. UpdateInputs(in, a) = [i \in InputsOf(setup) |-> UpdateInputs(in, a)[i]]
  BY <1>1, UpdateInputsShape
<1>3. ASSUME NEW scc \in ToSet(setup.connections), Len(scc) = 1
      PROVE  UpdateInputs(in, a)[scc[1][2]] = OutputAge(scc[1][1], UpdateInputs(in, a), a)
  <2>1. PICK n \in 1..Len(setup.connections) : setup.connections[n] = scc
    BY SetupFacts DEF ToSet
  <2>2. scc \in Seq(ToSet(scc))
    BY <2>1, SetupFacts
  <2>3. scc[1] \in ToSet(scc)
    <3>1. Len(scc) = 1 /\ 1 \in 1..Len(scc)
      BY <1>3
    <3> QED
      BY <2>2, <3>1, ElementOfSeq
  <2>4. scc[1][2] \in InputsOf(setup)
    BY <1>3, <2>3 DEF InputsOf
  <2>5. setup.depends[scc[1][1]] \subseteq InputsOf(setup)
    BY <1>3, <2>1, SetupFacts, ConnectionsAssumption DEF TypeOK
  <2> QED
    BY <1>1, <1>3, <2>1, <2>4, <2>5, InputsAreOutputs
<1> QED
  BY <1>2, <1>3

-----------------------------------------------------------------------------
(* The inductive invariant, with the shape of the inputs.                  *)
Inv == IInv /\ InputsShape

Masters == {"none", "standard", "pctpl", "doSteps"}
Calls == [master : Masters, from : Int, stop : Int, steps : Int, left : Int]
Places == {"idle", "loop", "stepping", "pushing", "waiting", "undefined"}

LEMMA InitInv == Init => Inv
<1> SUFFICES ASSUME Init PROVE Inv
  OBVIOUS
<1>1. /\ setup \in Setups /\ now = 0 /\ time = 0 /\ calls = 0 /\ pc = "idle" /\ next = 1
      /\ at = [s \in setup.subModels |-> 0] /\ call = NoCall
      /\ queue = << >> /\ busy = << >> /\ results = {}
      /\ inputs = UpdateInputs([i \in InputsOf(setup) |-> 0], AllAt(0))
  BY DEF Init, Initialized
<1>2. TypeOK
  <2>1. queue \in Seq(Jobs)
    BY <1>1, EmptySeq
  <2>2. call \in Calls
    BY <1>1 DEF NoCall, Calls, Masters
  <2>3. DOMAIN busy = {}
    BY <1>1
  <2>4. busy \in [DOMAIN busy -> Jobs \cup {0}]
    BY <1>1, <2>3
  <2>5. next \in Nat \ {0} /\ calls \in Nat /\ now \in Int /\ time \in Int
    BY <1>1
  <2>6. at \in [setup.subModels -> Int]
    BY <1>1
  <2> QED
    BY <1>1, <2>1, <2>2, <2>4, <2>5, <2>6 DEF TypeOK, Calls, Masters
<1>3. TimeInv
  BY <1>1 DEF TimeInv
<1>4. PoolInv
  <2>1. DOMAIN busy = {} /\ DOMAIN queue = {}
    BY <1>1
  <2> QED
    BY <1>1, <2>1 DEF PoolInv
<1>5. ReachedInv
  BY <1>1 DEF ReachedInv, AllAt
<1>6. InputsFollowOutputs /\ InputsShape
  <2> DEFINE in == [i \in InputsOf(setup) |-> 0]
  <2>1. in = [i \in InputsOf(setup) |-> in[i]]
    OBVIOUS
  <2>2. inputs = UpdateInputs(in, at)
    BY <1>1 DEF AllAt
  <2> HIDE DEF in
  <2> QED
    BY <1>2, <2>1, <2>2, UpdatedInputsFollow DEF InputsFollowOutputs, InputsShape
<1> QED
  BY <1>2, <1>3, <1>4, <1>5, <1>6 DEF Inv, IInv

(* The client calls when no step is under way.                             *)
LEMMA EnterInv ==
  ASSUME Inv, NEW c \in Calls, Enter(c)
  PROVE  Inv'
<1>0. TypeOK /\ TimeInv /\ PoolInv /\ ReachedInv /\ InputsFollowOutputs /\ InputsShape
  BY DEF Inv, IInv
<1>1. /\ pc = "idle" /\ pc' = "loop" /\ call' = c /\ calls' = calls + 1
      /\ busy' = IF c.master = "pctpl" THEN [w \in 1..NumThreads |-> 0] ELSE << >>
      /\ UNCHANGED <<setup, time, inputs, now, at, next, queue, results>>
  BY DEF Enter
<1>2. \A w \in DOMAIN busy' : busy'[w] = 0
  BY <1>1
<1>3. busy' \in [DOMAIN busy' -> Jobs' \cup {0}]
  BY <1>1 DEF Jobs
<1>4. TypeOK'
  BY <1>0, <1>1, <1>3 DEF TypeOK, Calls, Masters, Jobs
<1>5. TimeInv' /\ ReachedInv'
  BY <1>0, <1>1 DEF TimeInv, ReachedInv, AllAt
<1>6. PoolInv'
  <2>1. queue = << >> /\ DOMAIN queue' = {}
    BY <1>0, <1>1 DEF PoolInv
  <2> QED
    BY <1>1, <1>2, <2>1 DEF PoolInv
<1>7. InputsFollowOutputs' /\ InputsShape'
  <2>1. Passed /\ pc \in {"idle", "loop"} /\ UNCHANGED <<setup, inputs, at>>
    BY <1>0, <1>1 DEF InputsFollowOutputs, Passed
  <2>2. Passed' /\ InputsShape'
    BY <1>0, <2>1, InputsUnchanged
  <2> QED
    BY <2>2 DEF InputsFollowOutputs, Passed
<1> QED
  BY <1>4, <1>5, <1>6, <1>7 DEF Inv, IInv

(* The time of the next step is after this one, by one interval at most.   *)
LEMMA NextTimeIsLater ==
  ASSUME TypeOK, MoreSteps
  PROVE  NextTime \in Int /\ now < NextTime /\ NextTime <= now + setup.interval
<1>1. /\ now \in Int /\ call.stop \in Int /\ setup.interval \in Nat /\ setup.interval > 0
  BY SetupFacts DEF TypeOK
<1>2. CASE call.master = "doSteps"
  BY <1>1, <1>2 DEF NextTime
<1>3. CASE call.master # "doSteps"
  BY <1>1, <1>3 DEF NextTime, MoreSteps, Smaller
<1> QED
  BY <1>2, <1>3

LEMMA BeginStepInv ==
  ASSUME Inv, BeginStep
  PROVE  Inv'
<1>0. TypeOK /\ TimeInv /\ PoolInv /\ ReachedInv /\ InputsFollowOutputs /\ InputsShape
  BY DEF Inv, IInv
<1>1. /\ pc = "loop" /\ MoreSteps /\ now' = NextTime
      /\ call' = [call EXCEPT !.left = IF call.master = "doSteps" THEN @ - 1 ELSE @]
      /\ pc' = IF call.master = "pctpl" THEN "pushing" ELSE "stepping"
      /\ next' = 1 /\ results' = {}
      /\ UNCHANGED <<setup, time, inputs, at, calls, queue, busy>>
  BY DEF BeginStep
<1>2. NextTime \in Int /\ now < NextTime /\ NextTime <= now + setup.interval
  BY <1>0, <1>1, NextTimeIsLater
<1>3. TypeOK'
  <2>1. call' \in Calls
    BY <1>0, <1>1 DEF TypeOK, Calls, Masters
  <2>2. next' \in Nat \ {0} /\ now' \in Int /\ results' \subseteq Jobs'
    BY <1>1, <1>2
  <2> QED
    BY <1>0, <1>1, <2>1, <2>2 DEF TypeOK, Calls, Masters, Jobs
<1>4. TimeInv'
  BY <1>0, <1>1, <1>2 DEF TimeInv
<1>5. PoolInv'
  <2>1. queue = << >> /\ DOMAIN queue' = {} /\ \A w \in DOMAIN busy : busy[w] = 0
    BY <1>0, <1>1 DEF PoolInv
  <2>2. pc' # "waiting" /\ \A w \in DOMAIN busy' : busy'[w] = 0
    BY <1>1, <2>1
  <2> QED
    BY <1>1, <2>1, <2>2 DEF PoolInv
<1>6. ReachedInv'
  <2>1. Done' = {}
    BY <1>1 DEF Done
  <2>2. pc' \notin {"idle", "loop"}
    BY <1>1
  <2> QED
    BY <2>1, <2>2 DEF ReachedInv
<1>7. InputsFollowOutputs' /\ InputsShape'
  BY <1>0, <1>1 DEF InputsFollowOutputs, InputsShape
<1> QED
  BY <1>3, <1>4, <1>5, <1>6, <1>7 DEF Inv, IInv

LEMMA EndCallInv ==
  ASSUME Inv, EndCall
  PROVE  Inv'
<1>0. TypeOK /\ TimeInv /\ PoolInv /\ ReachedInv /\ InputsFollowOutputs /\ InputsShape
  BY DEF Inv, IInv
<1>1. /\ pc = "loop" /\ pc' = "idle" /\ busy' = << >>
      /\ UNCHANGED <<setup, time, inputs, now, at, call, calls, next, queue, results>>
  BY DEF EndCall
<1>2. DOMAIN busy' = {} /\ busy' \in [DOMAIN busy' -> Jobs' \cup {0}]
  BY <1>1
<1>4. TypeOK'
  BY <1>0, <1>1, <1>2 DEF TypeOK, Jobs
<1>5. TimeInv' /\ ReachedInv'
  BY <1>0, <1>1 DEF TimeInv, ReachedInv, AllAt
<1>6. PoolInv'
  <2>1. queue = << >> /\ DOMAIN queue' = {}
    BY <1>0, <1>1 DEF PoolInv
  <2> QED
    BY <1>1, <1>2, <2>1 DEF PoolInv
<1>7. InputsFollowOutputs' /\ InputsShape'
  BY <1>0, <1>1 DEF InputsFollowOutputs, InputsShape, OutputAge
<1> QED
  BY <1>4, <1>5, <1>6, <1>7 DEF Inv, IInv
-----------------------------------------------------------------------------
(* The steps of the master and of the threads while jobs run.              *)

(* The standard master and doSteps run a job. *)
LEMMA RunJobInv ==
  ASSUME Inv, RunJob
  PROVE  Inv'
<1>0. TypeOK /\ TimeInv /\ PoolInv /\ ReachedInv /\ InputsFollowOutputs /\ InputsShape
  BY DEF Inv, IInv
<1>1. /\ pc = "stepping" /\ pc' = "stepping" /\ next \in Jobs
      /\ at' = Stepped(next) /\ next' = next + 1
      /\ UNCHANGED <<setup, time, inputs, now, call, calls, queue, busy, results>>
  BY DEF RunJob, pool
<1>2. next \in Nat \ {0} /\ now \in Int
  BY <1>0 DEF TypeOK
<1>3. at' \in [setup'.subModels -> Int]
  BY <1>0, <1>1, <1>2 DEF TypeOK, Stepped
<1>4. TypeOK'
  <2>1. next' \in Nat \ {0}
    BY <1>1, <1>2
  <2> QED
    BY <1>0, <1>1, <1>3, <2>1 DEF TypeOK, Jobs
<1>5. TimeInv'
  BY <1>0, <1>1 DEF TimeInv
<1>6. PoolInv'
  <2>1. queue = << >> /\ DOMAIN queue' = {} /\ \A w \in DOMAIN busy : busy[w] = 0
    BY <1>0, <1>1 DEF PoolInv
  <2> QED
    BY <1>1, <2>1 DEF PoolInv
<1>7. ReachedInv'
  <2>1. \A j \in Done' \cap Jobs' : j = next \/ j \in Done \cap Jobs
    BY <1>1, <1>2, SetupFacts DEF Done, Jobs
  <2>2. \A j \in Done \cap Jobs : \A s \in setup.jobs[j] : at[s] = now
    BY <1>0, <1>1 DEF ReachedInv
  <2>3. ASSUME NEW j \in Done' \cap Jobs', NEW s \in setup.jobs[j] PROVE at'[s] = now
    <3>1. s \in setup.subModels
      BY <1>0, <1>1, SetupFacts DEF Jobs
    <3>2. at'[s] = IF s \in setup.jobs[next] THEN now ELSE at[s]
      BY <1>1, <3>1 DEF Stepped
    <3> QED
      BY <2>1, <2>2, <2>3, <3>2
  <2> QED
    BY <1>1, <2>3 DEF ReachedInv
<1>8. InputsFollowOutputs' /\ InputsShape'
  BY <1>0, <1>1 DEF InputsFollowOutputs, InputsShape
<1> QED
  BY <1>4, <1>5, <1>6, <1>7, <1>8 DEF Inv, IInv

(* pctpl pushes a job that is in no other place. *)
LEMMA PushInv ==
  ASSUME Inv, Push
  PROVE  Inv'
<1>0. TypeOK /\ TimeInv /\ PoolInv /\ ReachedInv /\ InputsFollowOutputs /\ InputsShape
  BY DEF Inv, IInv
<1>1. /\ pc = "pushing" /\ pc' = "pushing" /\ next \in Jobs
      /\ queue' = Append(queue, next) /\ next' = next + 1
      /\ UNCHANGED <<setup, time, inputs, now, at, call, calls, busy, results>>
  BY DEF Push
<1>2. next \in Nat \ {0} /\ queue \in Seq(Jobs)
  BY <1>0 DEF TypeOK
<1>3. /\ Append(queue, next) \in Seq(Jobs)
      /\ Len(Append(queue, next)) = Len(queue) + 1
      /\ \A i \in 1..Len(queue) : Append(queue, next)[i] = queue[i]
      /\ Append(queue, next)[Len(queue) + 1] = next
  BY <1>1, <1>2, AppendProperties
<1>4. /\ Len(queue) \in Nat /\ DOMAIN queue = 1..Len(queue)
      /\ DOMAIN queue' = 1..(Len(queue) + 1)
  BY <1>1, <1>2, <1>3, LenProperties
<1>5. TypeOK'
  <2>1. next' \in Nat \ {0} /\ queue' \in Seq(Jobs')
    BY <1>1, <1>2, <1>3 DEF Jobs
  <2> QED
    BY <1>0, <1>1, <2>1 DEF TypeOK, Jobs
<1>6. TimeInv'
  BY <1>0, <1>1 DEF TimeInv
<1>7. PoolInv'
  <2>1. \A i \in DOMAIN queue' : \/ i \in DOMAIN queue /\ queue'[i] = queue[i]
                                 \/ i = Len(queue) + 1 /\ queue'[i] = next
    BY <1>1, <1>3, <1>4
  <2>2. \A i \in DOMAIN queue : queue[i] \in Jobs /\ queue[i] < next
    BY <1>0, <1>1, <1>2, <1>4, ElementOfSeq DEF PoolInv
  <2>3. \A j \in results : j < next
    BY <1>0, <1>1 DEF PoolInv
  <2>4. \A w \in DOMAIN busy : busy[w] # 0 => busy[w] < next
    BY <1>0, <1>1 DEF PoolInv
  <2>5. \A j \in Jobs \cup {0} : j < next => j # next /\ j < next'
    BY <1>0, <1>1, <1>2, SetupFacts
  <2>6. results \subseteq Jobs /\ \A w \in DOMAIN busy : busy[w] \in Jobs \cup {0}
    BY <1>0 DEF TypeOK
  <2>7. next < next' /\ next # 0
    BY <1>1, <1>2
  <2>8. ASSUME NEW i \in DOMAIN queue'
        PROVE  /\ queue'[i] \notin results
               /\ \A j \in DOMAIN queue' : queue'[j] = queue'[i] => j = i
               /\ \A w \in DOMAIN busy : busy[w] # queue'[i]
               /\ queue'[i] < next'
    <3>1. CASE i \in DOMAIN queue /\ queue'[i] = queue[i]
      <4>1. /\ queue[i] \notin results /\ \A w \in DOMAIN busy : busy[w] # queue[i]
            /\ \A j \in DOMAIN queue : queue[j] = queue[i] => j = i
        BY <1>0, <3>1 DEF PoolInv
      <4>2. queue[i] # next /\ queue[i] < next'
        BY <2>2, <2>5, <3>1
      <4>3. \A j \in DOMAIN queue' : queue'[j] = queue'[i] => j = i
        BY <2>1, <3>1, <4>1, <4>2
      <4> QED
        BY <3>1, <4>1, <4>2, <4>3
    <3>2. CASE i = Len(queue) + 1 /\ queue'[i] = next
      <4>1. next \notin results
        BY <2>3, <2>5, <2>6
      <4>2. \A w \in DOMAIN busy : busy[w] # next
        BY <2>4, <2>5, <2>6, <2>7
      <4>3. \A j \in DOMAIN queue : queue[j] # next
        BY <2>2, <2>5
      <4>4. \A j \in DOMAIN queue' : queue'[j] = queue'[i] => j = i
        BY <2>1, <3>2, <4>3
      <4> QED
        BY <2>7, <3>2, <4>1, <4>2, <4>4
    <3> QED
      BY <2>1, <3>1, <3>2
  <2>9. ASSUME NEW w \in DOMAIN busy, busy[w] # 0
        PROVE  /\ busy[w] \notin results
               /\ \A v \in DOMAIN busy : busy[v] = busy[w] => v = w
               /\ busy[w] < next'
    <3>1. busy[w] < next'
      BY <2>4, <2>5, <2>6, <2>9
    <3> QED
      BY <1>0, <2>9, <3>1 DEF PoolInv
  <2>10. \A j \in results : j < next'
    BY <2>3, <2>5, <2>6
  <2> QED
    BY <1>1, <2>8, <2>9, <2>10 DEF PoolInv
<1>8. ReachedInv'
  BY <1>0, <1>1 DEF ReachedInv, Done, Jobs
<1>9. InputsFollowOutputs' /\ InputsShape'
  BY <1>0, <1>1 DEF InputsFollowOutputs, InputsShape
<1> QED
  BY <1>5, <1>6, <1>7, <1>8, <1>9 DEF Inv, IInv

(* The master leaves the loop that pushes, by its end or outside of the    *)
(* vector of results.                                                      *)
LEMMA PushedInv ==
  ASSUME Inv, PushOutside \/ AllPushed
  PROVE  Inv'
<1>0. TypeOK /\ TimeInv /\ PoolInv /\ ReachedInv /\ InputsFollowOutputs /\ InputsShape
  BY DEF Inv, IInv
<1>1. /\ pc = "pushing" /\ pc' \in {"undefined", "waiting"}
      /\ pc' = "waiting" => next' = 1
      /\ next' \in {next, 1}
      /\ UNCHANGED <<setup, time, inputs, now, at, call, calls, queue, busy, results>>
  BY DEF PushOutside, AllPushed, pool
<1>2. TypeOK'
  <2>1. next' \in Nat \ {0}
    BY <1>0, <1>1 DEF TypeOK
  <2> QED
    BY <1>0, <1>1, <2>1 DEF TypeOK, Jobs
<1>3. TimeInv'
  BY <1>0, <1>1 DEF TimeInv
<1>4. PoolInv'
  <2>1. pc' = "waiting" => 1..(next' - 1) = {}
    BY <1>1
  <2> QED
    BY <1>0, <1>1, <2>1 DEF PoolInv
<1>5. ReachedInv'
  BY <1>0, <1>1 DEF ReachedInv, Done, Jobs
<1>6. InputsFollowOutputs' /\ InputsShape'
  BY <1>0, <1>1 DEF InputsFollowOutputs, InputsShape
<1> QED
  BY <1>2, <1>3, <1>4, <1>5, <1>6 DEF Inv, IInv

(* A thread takes the first job of the queue. *)
LEMMA TakeJobInv ==
  ASSUME Inv, NEW w \in DOMAIN busy, TakeJob(w)
  PROVE  Inv'
<1>0. TypeOK /\ TimeInv /\ PoolInv /\ ReachedInv /\ InputsFollowOutputs /\ InputsShape
  BY DEF Inv, IInv
<1>1. /\ pc # "undefined" /\ busy[w] = 0 /\ queue # << >>
      /\ busy' = [busy EXCEPT ![w] = Head(queue)] /\ queue' = Tail(queue)
      /\ UNCHANGED <<setup, time, inputs, now, at, call, calls, pc, next, results>>
  BY DEF TakeJob
<1>2. pc \in {"pushing", "waiting"}
  BY <1>0, <1>1 DEF TypeOK, PoolInv
<1>3. queue \in Seq(Jobs) /\ busy \in [DOMAIN busy -> Jobs \cup {0}]
  BY <1>0 DEF TypeOK
<1>4. /\ Head(queue) \in Jobs /\ Tail(queue) \in Seq(Jobs)
      /\ Len(Tail(queue)) = Len(queue) - 1
      /\ \A i \in 1..Len(Tail(queue)) : Tail(queue)[i] = queue[i + 1]
      /\ Head(queue) = queue[1]
  BY <1>1, <1>3, HeadTailProperties
<1>5. /\ Len(queue) \in Nat /\ DOMAIN queue = 1..Len(queue) /\ Len(queue) > 0
      /\ DOMAIN Tail(queue) = 1..(Len(queue) - 1)
  <2>1. Len(queue) \in Nat /\ DOMAIN queue = 1..Len(queue) /\ Len(queue) # 0
    BY <1>1, <1>3, LenProperties, EmptySeq
  <2>2. DOMAIN Tail(queue) = 1..Len(Tail(queue))
    BY <1>4, LenProperties
  <2> QED
    BY <1>4, <2>1, <2>2
<1>6. /\ DOMAIN busy' = DOMAIN busy /\ busy'[w] = queue[1]
      /\ \A v \in DOMAIN busy : v # w => busy'[v] = busy[v]
  BY <1>1, <1>4
<1>7. \A i \in DOMAIN queue' : queue'[i] = queue[i + 1] /\ i + 1 \in DOMAIN queue /\ i + 1 # 1
  BY <1>1, <1>4, <1>5
<1>8. 1 \in DOMAIN queue
  BY <1>5
<1>9. TypeOK'
  <2>1. busy' \in [DOMAIN busy' -> Jobs' \cup {0}]
    BY <1>1, <1>3, <1>4 DEF Jobs
  <2>2. queue' \in Seq(Jobs')
    BY <1>1, <1>4 DEF Jobs
  <2> QED
    BY <1>0, <1>1, <2>1, <2>2 DEF TypeOK, Jobs
<1>10. TimeInv'
  BY <1>0, <1>1 DEF TimeInv
<1>11. PoolInv'
  <2>1. \A i \in DOMAIN queue :
          /\ queue[i] \notin results
          /\ \A j \in DOMAIN queue : queue[j] = queue[i] => j = i
          /\ \A v \in DOMAIN busy : busy[v] # queue[i]
          /\ pc = "pushing" => queue[i] < next
    BY <1>0 DEF PoolInv
  <2>2. ASSUME NEW i \in DOMAIN queue'
        PROVE  /\ queue'[i] \notin results
               /\ \A j \in DOMAIN queue' : queue'[j] = queue'[i] => j = i
               /\ \A v \in DOMAIN busy : busy'[v] # queue'[i]
               /\ pc = "pushing" => queue'[i] < next
    <3>1. queue'[i] = queue[i + 1] /\ i + 1 \in DOMAIN queue /\ queue[i + 1] # queue[1]
      BY <1>7, <1>8, <2>1
    <3>2. ASSUME NEW j \in DOMAIN queue', queue'[j] = queue'[i] PROVE j = i
      <4>1. j + 1 = i + 1
        BY <1>7, <2>1, <3>1, <3>2
      <4>2. i \in Int /\ j \in Int
        BY <1>1, <1>5
      <4> QED
        BY <4>1, <4>2
    <3>3. \A v \in DOMAIN busy : busy'[v] # queue'[i]
      BY <1>6, <2>1, <3>1
    <3> QED
      BY <2>1, <3>1, <3>2, <3>3
  <2>3. ASSUME NEW v \in DOMAIN busy, busy'[v] # 0
        PROVE  /\ busy'[v] \notin results
               /\ \A u \in DOMAIN busy : busy'[u] = busy'[v] => u = v
               /\ pc = "pushing" => busy'[v] < next
    <3>1. CASE v = w
      BY <1>6, <1>8, <2>1, <3>1
    <3>2. CASE v # w
      <4>1. busy'[v] = busy[v] /\ busy[v] # 0
        BY <1>6, <2>3, <3>2
      <4>2. busy[v] # queue[1]
        BY <1>8, <2>1
      <4>3. /\ busy[v] \notin results
            /\ \A u \in DOMAIN busy : busy[u] = busy[v] => u = v
            /\ pc = "pushing" => busy[v] < next
        BY <1>0, <4>1 DEF PoolInv
      <4> QED
        BY <1>6, <4>1, <4>2, <4>3
    <3> QED
      BY <3>1, <3>2
  <2> QED
    BY <1>0, <1>1, <1>2, <1>6, <2>2, <2>3 DEF PoolInv
<1>12. ReachedInv'
  BY <1>0, <1>1, <1>2 DEF ReachedInv, Done, Jobs
<1>13. InputsFollowOutputs' /\ InputsShape'
  BY <1>0, <1>1, <1>2 DEF InputsFollowOutputs, InputsShape
<1> QED
  BY <1>9, <1>10, <1>11, <1>12, <1>13 DEF Inv, IInv
(* A thread has stepped the sub-models of its job. *)
LEMMA FinishJobInv ==
  ASSUME Inv, NEW w \in DOMAIN busy, FinishJob(w)
  PROVE  Inv'
<1>0. TypeOK /\ TimeInv /\ PoolInv /\ ReachedInv /\ InputsFollowOutputs /\ InputsShape
  BY DEF Inv, IInv
<1>1. /\ pc # "undefined" /\ busy[w] # 0
      /\ at' = Stepped(busy[w]) /\ results' = results \cup {busy[w]}
      /\ busy' = [busy EXCEPT ![w] = 0]
      /\ UNCHANGED <<setup, time, inputs, now, call, calls, pc, next, queue>>
  BY DEF FinishJob
<1>2. pc \in {"pushing", "waiting"}
  BY <1>0, <1>1 DEF TypeOK, PoolInv
<1>3. busy \in [DOMAIN busy -> Jobs \cup {0}] /\ busy[w] \in Jobs /\ now \in Int
  BY <1>0, <1>1 DEF TypeOK
<1>4. /\ DOMAIN busy' = DOMAIN busy /\ busy'[w] = 0
      /\ \A v \in DOMAIN busy : v # w => busy'[v] = busy[v]
  BY <1>1
<1>5. TypeOK'
  <2>1. busy' \in [DOMAIN busy' -> Jobs' \cup {0}]
    BY <1>1, <1>3 DEF Jobs
  <2>2. results' \subseteq Jobs'
    BY <1>0, <1>1, <1>3 DEF TypeOK, Jobs
  <2>3. at' \in [setup'.subModels -> Int]
    BY <1>0, <1>1, <1>3 DEF TypeOK, Stepped
  <2> QED
    BY <1>0, <1>1, <2>1, <2>2, <2>3 DEF TypeOK, Jobs
<1>6. TimeInv'
  BY <1>0, <1>1 DEF TimeInv
<1>7. PoolInv'
  <2>1. ASSUME NEW i \in DOMAIN queue
        PROVE  /\ queue[i] \notin results'
               /\ \A j \in DOMAIN queue : queue[j] = queue[i] => j = i
               /\ \A v \in DOMAIN busy : busy'[v] # queue[i]
               /\ pc = "pushing" => queue[i] < next
    <3>1. /\ queue[i] \notin results
          /\ \A j \in DOMAIN queue : queue[j] = queue[i] => j = i
          /\ \A v \in DOMAIN busy : busy[v] # queue[i]
          /\ pc = "pushing" => queue[i] < next
      BY <1>0 DEF PoolInv
    <3>2. queue[i] # 0
      <4>1. queue \in Seq(Jobs) /\ Jobs = 1..Len(setup.jobs) /\ Len(setup.jobs) \in Nat
        BY <1>0, SetupFacts DEF TypeOK
      <4>2. i \in 1..Len(queue)
        BY <4>1, LenProperties
      <4>3. queue[i] \in Jobs
        BY <4>1, <4>2, ElementOfSeq
      <4> QED
        BY <4>1, <4>3
    <3>3. \A v \in DOMAIN busy : busy'[v] # queue[i]
      BY <1>4, <3>1, <3>2
    <3> QED
      BY <1>1, <3>1, <3>3
  <2>2. ASSUME NEW v \in DOMAIN busy, busy'[v] # 0
        PROVE  /\ busy'[v] \notin results'
               /\ \A u \in DOMAIN busy : busy'[u] = busy'[v] => u = v
               /\ pc = "pushing" => busy'[v] < next
    <3>1. v # w /\ busy'[v] = busy[v] /\ busy[v] # 0
      BY <1>4, <2>2
    <3>2. /\ busy[v] \notin results
          /\ \A u \in DOMAIN busy : busy[u] = busy[v] => u = v
          /\ pc = "pushing" => busy[v] < next
      BY <1>0, <3>1 DEF PoolInv
    <3>3. busy[v] # busy[w]
      BY <3>1, <3>2
    <3>4. busy'[v] \notin results'
      BY <1>1, <3>1, <3>2, <3>3
    <3> QED
      BY <1>4, <3>1, <3>2, <3>4
  <2>3. pc = "pushing" => \A j \in results' : j < next
    BY <1>0, <1>1 DEF PoolInv
  <2>4. pc = "waiting" => \A j \in 1..(next - 1) : j \in results'
    BY <1>0, <1>1 DEF PoolInv
  <2> QED
    BY <1>1, <1>2, <1>4, <2>1, <2>2, <2>3, <2>4 DEF PoolInv
<1>8. ReachedInv'
  <2>1. \A j \in results : \A s \in setup.jobs[j] : at[s] = now
    BY <1>0, <1>2 DEF ReachedInv, Done, TypeOK
  <2>2. ASSUME NEW j \in results', NEW s \in setup.jobs[j] PROVE at'[s] = now
    <3>1. j \in Jobs
      BY <1>0, <1>1, <1>3, <2>2 DEF TypeOK
    <3>2. s \in setup.subModels
      BY <1>0, <3>1, SetupFacts
    <3>3. at'[s] = IF s \in setup.jobs[busy[w]] THEN now ELSE at[s]
      BY <1>1, <3>2 DEF Stepped
    <3>4. j \in results \/ j = busy[w]
      BY <1>1, <2>2
    <3> QED
      BY <2>1, <2>2, <3>3, <3>4
  <2> QED
    BY <1>1, <1>2, <2>2 DEF ReachedInv, Done
<1>9. InputsFollowOutputs' /\ InputsShape'
  BY <1>0, <1>1, <1>2 DEF InputsFollowOutputs, InputsShape
<1> QED
  BY <1>5, <1>6, <1>7, <1>8, <1>9 DEF Inv, IInv

(* The master has the result of the next job. *)
LEMMA GetResultInv ==
  ASSUME Inv, GetResult
  PROVE  Inv'
<1>0. TypeOK /\ TimeInv /\ PoolInv /\ ReachedInv /\ InputsFollowOutputs /\ InputsShape
  BY DEF Inv, IInv
<1>1. /\ pc = "waiting" /\ pc' = "waiting" /\ next \in results /\ next' = next + 1
      /\ UNCHANGED <<setup, time, inputs, now, at, call, calls, queue, busy, results>>
  BY DEF GetResult, pool
<1>2. next \in Nat \ {0}
  BY <1>0 DEF TypeOK
<1>3. TypeOK'
  <2>1. next' \in Nat \ {0}
    BY <1>1, <1>2
  <2> QED
    BY <1>0, <1>1, <2>1 DEF TypeOK, Jobs
<1>4. TimeInv'
  BY <1>0, <1>1 DEF TimeInv
<1>5. PoolInv'
  <2>1. \A j \in 1..(next - 1) : j \in results
    BY <1>0, <1>1 DEF PoolInv
  <2>2. \A j \in 1..(next' - 1) : j \in 1..(next - 1) \/ j = next
    BY <1>1, <1>2
  <2>3. \A j \in 1..(next' - 1) : j \in results'
    BY <1>1, <2>1, <2>2
  <2> QED
    BY <1>0, <1>1, <2>3 DEF PoolInv
<1>6. ReachedInv'
  BY <1>0, <1>1 DEF ReachedInv, Done, Jobs
<1>7. InputsFollowOutputs' /\ InputsShape'
  BY <1>0, <1>1 DEF InputsFollowOutputs, InputsShape
<1> QED
  BY <1>3, <1>4, <1>5, <1>6, <1>7 DEF Inv, IInv

(* When the master exchanges the values every sub-model is at the member   *)
(* time, whatever the order or the threads, and no job is left anywhere.   *)
LEMMA AllJobsDone ==
  ASSUME Inv, pc \in {"stepping", "waiting"}, next \notin Jobs
  PROVE  /\ at = AllAt(now)
         /\ queue = << >> /\ \A w \in DOMAIN busy : busy[w] = 0
<1>0. TypeOK /\ PoolInv /\ ReachedInv
  BY DEF Inv, IInv
<1>1. next \in Nat \ {0} /\ Jobs = 1..Len(setup.jobs) /\ Len(setup.jobs) \in Nat
  BY <1>0, SetupFacts DEF TypeOK
<1>2. \A j \in Jobs : j \in 1..(next - 1)
  BY <1>1
<1>3. \A j \in Jobs : j \in Done
  BY <1>0, <1>2 DEF Done, PoolInv
<1>4. at = AllAt(now)
  <2>1. \A s \in setup.subModels : at[s] = now
    <3>1. \A j \in Jobs : \A s \in setup.jobs[j] : at[s] = now
      BY <1>0, <1>3 DEF ReachedInv
    <3> QED
      BY <1>0, <3>1, SetupFacts
  <2>2. at = [s \in setup.subModels |-> at[s]]
    BY <1>0 DEF TypeOK
  <2> QED
    BY <2>1, <2>2 DEF AllAt
<1>5. CASE pc = "stepping"
  BY <1>0, <1>4, <1>5 DEF PoolInv
<1>6. CASE pc = "waiting"
  <2>1. \A j \in Jobs : j \in results
    BY <1>3, <1>6 DEF Done
  <2>2. \A w \in DOMAIN busy : busy[w] = 0
    BY <1>0, <2>1 DEF PoolInv, TypeOK
  <2>3. queue = << >>
    <3> SUFFICES ASSUME queue # << >> PROVE FALSE
      OBVIOUS
    <3>1. queue \in Seq(Jobs)
      BY <1>0 DEF TypeOK
    <3>2. Head(queue) \in Jobs /\ Head(queue) = queue[1] /\ 1 \in DOMAIN queue
      <4>1. Len(queue) \in Nat /\ DOMAIN queue = 1..Len(queue) /\ Len(queue) # 0
        BY <3>1, LenProperties, EmptySeq
      <4> QED
        BY <3>1, <4>1, HeadTailProperties
    <3> QED
      BY <1>0, <2>1, <3>2 DEF PoolInv
  <2> QED
    BY <1>4, <2>2, <2>3
<1> QED
  BY <1>5, <1>6

LEMMA ExchangeAllInv ==
  ASSUME Inv, ExchangeAll
  PROVE  Inv'
<1>0. TypeOK /\ TimeInv /\ PoolInv /\ ReachedInv /\ InputsFollowOutputs /\ InputsShape
  BY DEF Inv, IInv
<1>1. /\ pc \in {"stepping", "waiting"} /\ next \notin Jobs /\ pc' = "loop" /\ time' = now
      /\ inputs' = UpdateInputs(inputs, at)
      /\ UNCHANGED <<setup, now, at, call, calls, next, queue, busy, results>>
  BY DEF ExchangeAll, Exchange, pool
<1>2. at = AllAt(now) /\ queue = << >> /\ \A w \in DOMAIN busy : busy[w] = 0
  BY <1>1, AllJobsDone
<1>3. TypeOK'
  <2>1. time' \in Int
    BY <1>0, <1>1 DEF TypeOK
  <2> QED
    BY <1>0, <1>1, <2>1 DEF TypeOK, Jobs
<1>4. TimeInv'
  BY <1>1 DEF TimeInv
<1>5. PoolInv'
  <2>1. DOMAIN queue' = {}
    BY <1>1, <1>2
  <2> QED
    BY <1>1, <1>2, <2>1 DEF PoolInv
<1>6. ReachedInv'
  BY <1>1, <1>2 DEF ReachedInv, AllAt
<1>7. InputsFollowOutputs' /\ InputsShape'
  <2>1. /\ inputs' = [i \in InputsOf(setup) |-> inputs'[i]]
        /\ \A scc \in ToSet(setup.connections) : Len(scc) = 1 =>
             inputs'[scc[1][2]] = OutputAge(scc[1][1], inputs', at)
    BY <1>0, <1>1, UpdatedInputsFollow DEF InputsShape
  <2>2. InputsShape' /\ Passed'
    BY <1>1, <2>1 DEF InputsShape, Passed, OutputAge
  <2> QED
    BY <2>2 DEF InputsFollowOutputs, Passed
<1> QED
  BY <1>3, <1>4, <1>5, <1>6, <1>7 DEF Inv, IInv

(* A step that changes nothing. *)
LEMMA StutterInv ==
  ASSUME Inv, UNCHANGED allVars
  PROVE  Inv'
<1>0. TypeOK /\ TimeInv /\ PoolInv /\ ReachedInv /\ InputsFollowOutputs /\ InputsShape
  BY DEF Inv, IInv
<1>1. UNCHANGED <<setup, time, inputs, now, at, call, calls, pc, next, queue, busy, results>>
  BY DEF allVars
<1>2. TypeOK'
  BY <1>0, <1>1 DEF TypeOK, Jobs
<1>3. TimeInv'
  BY <1>0, <1>1 DEF TimeInv
<1>4. PoolInv'
  BY <1>0, <1>1 DEF PoolInv
<1>5. ReachedInv'
  BY <1>0, <1>1 DEF ReachedInv, Done, Jobs, AllAt
<1>6. Passed => Passed'
  BY <1>1, InputsUnchanged
<1>7. InputsFollowOutputs' /\ InputsShape'
  BY <1>0, <1>1, <1>6 DEF InputsFollowOutputs, InputsShape, Passed
<1> QED
  BY <1>2, <1>3, <1>4, <1>5, <1>7 DEF Inv, IInv

(* Every step of the client, of the master and of a thread. *)
LEMMA NextInv ==
  ASSUME Inv, [Next]_allVars
  PROVE  Inv'
<1>0. /\ now \in Int /\ setup.interval \in Nat
  BY SetupFacts DEF Inv, IInv, TypeOK
<1>1. ASSUME NEW m \in {"standard", "pctpl"}, NEW t \in 0..MaxTime, StepUntil(m, t)
      PROVE  Inv'
  <2> DEFINE c == [master |-> m, from |-> now, stop |-> t, steps |-> 0, left |-> 0]
  <2>1. c \in Calls
    BY <1>0 DEF Calls, Masters
  <2>2. Enter(c)
    BY <1>1 DEF StepUntil
  <2> QED
    BY <2>1, <2>2, EnterInv
<1>2. ASSUME NEW n \in 1..2, DoSteps(n)
      PROVE  Inv'
  <2> DEFINE c == [master |-> "doSteps", from |-> now, stop |-> 0, steps |-> n, left |-> n]
  <2>1. c \in Calls
    BY <1>0 DEF Calls, Masters
  <2>2. Enter(c)
    BY <1>2 DEF DoSteps
  <2> QED
    BY <2>1, <2>2, EnterInv
<1>3. CASE Client
  BY <1>1, <1>2, <1>3 DEF Client
<1>4. CASE Master
  BY <1>4, BeginStepInv, EndCallInv, RunJobInv, PushInv, PushedInv, GetResultInv, ExchangeAllInv
     DEF Master
<1>5. CASE \E w \in DOMAIN busy : Thread(w)
  BY <1>5, TakeJobInv, FinishJobInv DEF Thread
<1>6. CASE Over
  BY <1>6, StutterInv DEF Over
<1>7. CASE UNCHANGED allVars
  BY <1>7, StutterInv
<1> QED
  BY <1>3, <1>4, <1>5, <1>6, <1>7 DEF Next

(* The inductive invariant holds of every run of both masters.             *)
THEOREM Invariance == Spec => []Inv
<1>1. Init => Inv
  BY InitInv
<1>2. Inv /\ [Next]_allVars => Inv'
  BY NextInv
<1> QED
  BY <1>1, <1>2, PTL DEF Spec

(* Between two steps every input that a connection sets by itself has the  *)
(* value its output has now, also along a chain of outputs that depend on  *)
(* inputs: updateInputs passes the outputs on in the sorted order.         *)
THEOREM InputsAreCurrent == Spec => []InputsFollowOutputs
<1>1. Inv => InputsFollowOutputs
  BY DEF Inv, IInv
<1> QED
  BY <1>1, Invariance, PTL

-----------------------------------------------------------------------------
(* The time at which a call returns. *)

(* What a call has reached, and what it has left, add up to what it was    *)
(* asked for.                                                              *)
LEMMA CallStepInv ==
  ASSUME Inv, CallInv, [Next]_allVars
  PROVE  CallInv'
<1>0. TypeOK /\ TimeInv
  BY DEF Inv, IInv
<1>1. /\ now \in Int /\ setup.interval \in Nat /\ setup.interval > 0
      /\ call \in Calls
  BY <1>0, SetupFacts DEF TypeOK, Calls, Masters
<1>2. ASSUME NEW m \in {"standard", "pctpl"}, NEW t \in 0..MaxTime, StepUntil(m, t)
      PROVE  CallInv'
  <2>1. /\ call' = [master |-> m, from |-> now, stop |-> t, steps |-> 0, left |-> 0]
        /\ pc' = "loop" /\ now' = now
    BY <1>2 DEF StepUntil, Enter
  <2> QED
    BY <1>1, <2>1 DEF CallInv
<1>3. ASSUME NEW n \in 1..2, DoSteps(n)
      PROVE  CallInv'
  <2>1. /\ call' = [master |-> "doSteps", from |-> now, stop |-> 0, steps |-> n, left |-> n]
        /\ pc' = "loop" /\ UNCHANGED <<now, setup>>
    BY <1>3 DEF DoSteps, Enter
  <2> QED
    BY <1>1, <2>1 DEF CallInv
<1>4. CASE BeginStep
  <2>1. /\ pc = "loop" /\ MoreSteps /\ now' = NextTime /\ setup' = setup
        /\ call' = [call EXCEPT !.left = IF call.master = "doSteps" THEN @ - 1 ELSE @]
        /\ pc' \in {"pushing", "stepping"}
    BY <1>4 DEF BeginStep
  <2>2. call.master \in Masters
    BY <1>1 DEF Calls
  <2>3. CASE call.master = "doSteps"
    <3>1. /\ now' = now + setup.interval /\ call.left > 0
          /\ call' = [call EXCEPT !.left = call.left - 1]
      BY <2>1, <2>3 DEF NextTime, MoreSteps
    <3>2. /\ call'.master = "doSteps" /\ call'.left = call.left - 1
          /\ call'.from = call.from /\ call'.steps = call.steps
      BY <1>1, <2>3, <3>1 DEF Calls
    <3>3. /\ call.left \in Int /\ call.from \in Int /\ call.steps \in Int
      BY <1>1 DEF Calls
    <3>4. (call.left - 1) * setup.interval = call.left * setup.interval - setup.interval
      BY <1>1, <3>3
    <3>5. now + call.left * setup.interval = call.from + call.steps * setup.interval
      BY <2>3 DEF CallInv
    <3> DEFINE gone == call.left * setup.interval
               all == call.steps * setup.interval
    <3>6. gone \in Int /\ all \in Int
      BY <1>1, <3>3
    <3>7. (now + setup.interval) + (gone - setup.interval) = call.from + all
      <4> HIDE DEF gone, all
      <4>1. now + gone = call.from + all
        BY <3>5 DEF gone, all
      <4> QED
        BY <1>1, <3>3, <3>6, <4>1
    <3>8. now' + call'.left * setup'.interval = call'.from + call'.steps * setup'.interval
      BY <2>1, <3>1, <3>2, <3>4, <3>7
    <3>9. call'.left >= 0
      BY <3>1, <3>2, <3>3
    <3> QED
      BY <2>1, <3>2, <3>8, <3>9 DEF CallInv
  <2>4. CASE call.master \in {"standard", "pctpl"}
    <3>1. /\ now < call.stop /\ now' = Smaller(now + setup.interval, call.stop)
          /\ call' = call
      BY <1>1, <2>1, <2>4 DEF NextTime, MoreSteps, Calls
    <3>2. call.from <= now /\ call.from \in Int /\ call.stop \in Int
      BY <1>1, <2>4 DEF CallInv, Calls
    <3>3. now < now' /\ now' <= call.stop /\ now' \in Int
      BY <1>1, <3>1, <3>2 DEF Smaller
    <3>4. call.from <= now'
      BY <1>1, <3>2, <3>3
    <3>5. call'.master \in {"standard", "pctpl"} /\ call'.master # "doSteps" /\ call'.master # "none"
      BY <2>4, <3>1
    <3> QED
      BY <2>1, <3>1, <3>3, <3>4, <3>5 DEF CallInv
  <2>5. call.master # "none"
    BY <2>1 DEF CallInv
  <2> QED
    BY <2>2, <2>3, <2>4, <2>5 DEF Masters
<1>5. CASE EndCall
  <2>1. pc = "loop" /\ ~ MoreSteps /\ pc' = "idle" /\ UNCHANGED <<setup, now, call>>
    BY <1>5 DEF EndCall
  <2>2. call.left \in Int /\ call.stop \in Int
    BY <1>1 DEF Calls
  <2> QED
    BY <1>1, <2>1, <2>2 DEF CallInv, MoreSteps
<1>6. CASE \/ RunJob \/ Push \/ PushOutside \/ AllPushed \/ GetResult \/ ExchangeAll
           \/ (\E w \in DOMAIN busy : Thread(w)) \/ Over \/ UNCHANGED allVars
  <2>1. UNCHANGED <<setup, now, call>>
    BY <1>6 DEF RunJob, Push, PushOutside, AllPushed, GetResult, ExchangeAll, Exchange, Thread,
                TakeJob, FinishJob, Over, allVars
  <2>2. pc' = "idle" => pc = "idle"
    BY <1>6 DEF RunJob, Push, PushOutside, AllPushed, GetResult, ExchangeAll, Thread,
                TakeJob, FinishJob, Over, allVars
  <2>3. pc = "idle" => pc' = "idle"
    BY <1>6 DEF RunJob, Push, PushOutside, AllPushed, GetResult, ExchangeAll, Thread,
                TakeJob, FinishJob, Over, allVars
  <2> QED
    BY <2>1, <2>2, <2>3 DEF CallInv
<1> QED
  BY <1>2, <1>3, <1>4, <1>5, <1>6 DEF Next, Client, Master

(* A call that has returned has brought the model to the time it was asked *)
(* for, with either master and with doSteps: the last step is cut off at   *)
(* the stop time, and no call stops short of it.                           *)
THEOREM CallsReturnInTime == Spec => [](pc = "idle" => ReturnedInTime)
<1>1. Init => CallInv
  BY DEF Init, NoCall, CallInv
<1>2. Inv /\ CallInv /\ [Next]_allVars => CallInv'
  BY CallStepInv
<1>3. Inv /\ CallInv => (pc = "idle" => ReturnedInTime)
  <2> SUFFICES ASSUME Inv, CallInv, pc = "idle" PROVE ReturnedInTime
    OBVIOUS
  <2>1. /\ now \in Int /\ call \in Calls /\ setup.interval \in Nat
    BY SetupFacts DEF Inv, IInv, TypeOK, Calls, Masters
  <2>2. call.from \in Int /\ call.stop \in Int /\ call.steps \in Int /\ call.left \in Int
    BY <2>1 DEF Calls
  <2>3. CASE call.master \in {"standard", "pctpl"}
    <3>1. call.from <= now /\ (now <= call.from \/ now <= call.stop) /\ now >= call.stop
      BY <2>3 DEF CallInv
    <3>2. now \in {call.from, call.stop} /\ \A t \in {call.from, call.stop} : now >= t
      BY <2>1, <2>2, <3>1
    <3>3. Max({call.from, call.stop}) = now
      <4>1. \A x \in {call.from, call.stop} :
              (\A t \in {call.from, call.stop} : x >= t) => x = now
        BY <2>1, <2>2, <3>2
      <4> QED
        BY <3>2, <4>1 DEF Max
    <3> QED
      BY <2>3, <3>3 DEF ReturnedInTime
  <2>4. CASE call.master = "doSteps"
    <3>1. now + 0 * setup.interval = call.from + call.steps * setup.interval
      BY <2>4 DEF CallInv
    <3>2. 0 * setup.interval = 0
      BY <2>1
    <3>3. now = call.from + call.steps * setup.interval
      BY <2>1, <3>1, <3>2
    <3> QED
      BY <2>4, <3>3 DEF ReturnedInTime
  <2>5. CASE call.master \notin {"standard", "pctpl", "doSteps"}
    BY <2>5 DEF ReturnedInTime
  <2> QED
    BY <2>3, <2>4, <2>5
<1> QED
  BY <1>1, <1>2, <1>3, Invariance, PTL DEF Spec

-----------------------------------------------------------------------------
(* The masters implement Lockstep. *)

(* Passing the outputs on is a step of Lockstep, and no other step changes *)
(* anything that Lockstep speaks of.                                       *)
LEMMA StepSimulation ==
  ASSUME Inv, [Next]_allVars
  PROVE  [Step]_vars
<1>0. TypeOK /\ TimeInv
  BY DEF Inv, IInv
<1>1. CASE ExchangeAll
  <2>1. at = AllAt(now)
    BY <1>1, AllJobsDone DEF ExchangeAll
  <2>2. now \in (time + 1)..(time + setup.interval)
    <3>1. time < now /\ now <= time + setup.interval
      BY <1>0, <1>1 DEF TimeInv, ExchangeAll
    <3>2. time \in Int /\ now \in Int /\ setup.interval \in Nat
      BY <1>0, SetupFacts DEF TypeOK
    <3> QED
      BY <3>1, <3>2
  <2>3. time' = now /\ Exchange(now, AllAt(now)) /\ UNCHANGED setup
    BY <1>1, <2>1 DEF ExchangeAll
  <2> QED
    BY <2>2, <2>3 DEF Step
<1>2. CASE Master /\ ~ ExchangeAll
  BY <1>2 DEF Master, BeginStep, EndCall, RunJob, Push, PushOutside, AllPushed, GetResult, rows, vars
<1>3. CASE Client
  BY <1>3 DEF Client, StepUntil, DoSteps, Enter, rows, vars
<1>4. CASE \E w \in DOMAIN busy : Thread(w)
  BY <1>4 DEF Thread, TakeJob, FinishJob, rows, vars
<1>5. CASE Over \/ UNCHANGED allVars
  BY <1>5 DEF Over, allVars, vars
<1> QED
  BY <1>1, <1>2, <1>3, <1>4, <1>5 DEF Next

(* Whatever the master, the number of jobs and of threads: what a client   *)
(* sees of time, inputs and rows is a sequence of communication steps.     *)
THEOREM Refinement == Spec => ImplementsLockstep
<1>1. Init => Initialized(0)
  BY DEF Init
<1>2. Inv /\ [Next]_allVars => [Step]_vars
  BY StepSimulation
<1> QED
  BY <1>1, <1>2, Invariance, PTL DEF Spec, ImplementsLockstep, LockstepSpec
=============================================================================
