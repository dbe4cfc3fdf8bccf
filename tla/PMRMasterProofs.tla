--------------------------- MODULE PMRMasterProofs ----------------------------
(***************************************************************************)
(* Proofs about PMRMaster for any number of sub-models, connections and    *)
(* steps, and any activation ratios.                                       *)
(***************************************************************************)
EXTENDS PMRMaster, FiniteSetsExt, SequenceTheorems, WellFoundedInduction, TLAPS

-----------------------------------------------------------------------------
(* Natural numbers. *)

(* Every set of natural numbers with an element has a least one. *)
LEMMA LeastNatural ==
  ASSUME NEW T, T \subseteq Nat, T # {}
  PROVE  \E x \in T : \A y \in T : x <= y
<1> DEFINE R == OpToRel(<, Nat)
<1>1. IsWellFoundedOn(R, Nat)
  BY NatLessThanWellFounded
<1>2. \A x, y \in Nat : x < y => <<x, y>> \in R
  BY DEF OpToRel
<1> HIDE DEF R
<1>3. PICK x \in T : \A y \in T : <<y, x>> \notin R
  BY <1>1, WFMin
<1>4. ASSUME NEW y \in T PROVE x <= y
  <2>1. x \in Nat /\ y \in Nat /\ ~ (y < x)
    BY <1>2, <1>3
  <2> QED
    BY <2>1
<1> QED
  BY <1>4

(* Induction: a set of natural numbers that has 0 and, with every number,  *)
(* the next one has them all.                                              *)
LEMMA SetInduction ==
  ASSUME NEW T, 0 \in T, \A n \in Nat : n \in T => n + 1 \in T
  PROVE  Nat \subseteq T
<1> SUFFICES ASSUME Nat \ T # {} PROVE FALSE
  OBVIOUS
<1>1. PICK x \in Nat \ T : \A y \in Nat \ T : x <= y
  BY LeastNatural
<1>2. x # 0 /\ x - 1 \in Nat /\ x - 1 \in T
  BY <1>1
<1> QED
  BY <1>1, <1>2

-----------------------------------------------------------------------------
(* Sequences that are joined. *)

(* The function FlattenSeq is defined by.                                  *)
Flat(seqs, n) ==
  CHOOSE f : f = [i \in 1..n |-> IF i = 1 THEN seqs[i] ELSE f[i - 1] \o seqs[i]]

(* It exists: induction over the number of sequences.                      *)
LEMMA FlatExists ==
  ASSUME NEW seqs, NEW n \in Nat
  PROVE  Flat(seqs, n) =
           [i \in 1..n |-> IF i = 1 THEN seqs[i] ELSE Flat(seqs, n)[i - 1] \o seqs[i]]
<1> DEFINE Body(k, f) == [i \in 1..k |-> IF i = 1 THEN seqs[i] ELSE f[i - 1] \o seqs[i]]
           T == {k \in Nat : \E f : f = Body(k, f)}
<1>1. 0 \in T
  <2>1. [i \in 1..0 |-> seqs] = Body(0, [i \in 1..0 |-> seqs])
    OBVIOUS
  <2> QED
    BY <2>1
<1>2. ASSUME NEW k \in Nat, k \in T PROVE k + 1 \in T
  <2>1. PICK f : f = Body(k, f)
    BY <1>2
  <2> DEFINE g == [i \in 1..(k + 1) |->
                     IF i = k + 1 THEN (IF i = 1 THEN seqs[i] ELSE f[k] \o seqs[i]) ELSE f[i]]
  <2>2. ASSUME NEW i \in 1..(k + 1) PROVE g[i] = Body(k + 1, g)[i]
    <3>1. CASE i = k + 1
      <4>1. g[i] = IF i = 1 THEN seqs[i] ELSE f[k] \o seqs[i]
        BY <3>1
      <4>2. i # 1 => g[i - 1] = f[k]
        BY <3>1
      <4> QED
        BY <3>1, <4>1, <4>2
    <3>2. CASE i # k + 1
      <4>1. i \in 1..k /\ g[i] = f[i]
        BY <3>2
      <4>2. f[i] = IF i = 1 THEN seqs[i] ELSE f[i - 1] \o seqs[i]
        BY <2>1, <4>1
      <4>3. i # 1 => g[i - 1] = f[i - 1]
        BY <4>1
      <4> QED
        BY <4>1, <4>2, <4>3
    <3> QED
      BY <3>1, <3>2
  <2>3. g = Body(k + 1, g)
    BY <2>2
  <2> HIDE DEF g
  <2>4. \E h : h = Body(k + 1, h)
    BY <2>3
  <2> HIDE DEF Body
  <2> QED
    BY <2>4
<1> HIDE DEF T
<1>3. Nat \subseteq T
  BY <1>1, <1>2, SetInduction
<1>4. \E f : f = Body(n, f)
  BY <1>3 DEF T
<1> QED
  BY <1>4 DEF Flat

(* Elements of the joined sequence are those of its parts; if these are    *)
(* all different, it has each of them once.                                *)
IsIn(x, seqs, n) == \E i \in 1..n : \E m \in DOMAIN seqs[i] : x = seqs[i][m]
Injects(s) == \A m, n \in DOMAIN s : s[m] = s[n] => m = n
AllDifferent(seqs) ==
  \A i, j \in DOMAIN seqs : \A m \in DOMAIN seqs[i] : \A n \in DOMAIN seqs[j] :
    seqs[i][m] = seqs[j][n] => i = j /\ m = n

Joined(s, seqs, n) ==
  /\ \A m \in DOMAIN s : IsIn(s[m], seqs, n)
  /\ \A i \in 1..n : \A m \in DOMAIN seqs[i] : \E l \in DOMAIN s : s[l] = seqs[i][m]
  /\ AllDifferent(seqs) => Injects(s)

LEMMA JoinedWithNext ==
  ASSUME NEW S, NEW seqs \in Seq(Seq(S)), NEW n \in Nat, n + 1 \in DOMAIN seqs,
         NEW s \in Seq(S), Joined(s, seqs, n)
  PROVE  s \o seqs[n + 1] \in Seq(S) /\ Joined(s \o seqs[n + 1], seqs, n + 1)
<1> DEFINE t == seqs[n + 1]
           u == s \o t
<1>1. t \in Seq(S) /\ DOMAIN seqs = 1..Len(seqs) /\ Len(seqs) \in Nat
  BY LenProperties, ElementOfSeq
<1>2. /\ DOMAIN s = 1..Len(s) /\ Len(s) \in Nat
      /\ DOMAIN t = 1..Len(t) /\ Len(t) \in Nat
  BY <1>1, LenProperties
<1>3. /\ u \in Seq(S) /\ DOMAIN u = 1..(Len(s) + Len(t))
      /\ \A m \in 1..(Len(s) + Len(t)) : u[m] = IF m <= Len(s) THEN s[m] ELSE t[m - Len(s)]
  BY <1>1, ConcatProperties, LenProperties
<1> HIDE DEF u, t
<1>4. \A m \in DOMAIN s : m \in DOMAIN u /\ u[m] = s[m]
  BY <1>2, <1>3
<1>5. ASSUME NEW m \in DOMAIN t PROVE m + Len(s) \in DOMAIN u /\ u[m + Len(s)] = t[m]
  <2>1. m + Len(s) \in 1..(Len(s) + Len(t)) /\ ~(m + Len(s) <= Len(s)) /\ (m + Len(s)) - Len(s) = m
    BY <1>2
  <2> QED
    BY <1>3, <2>1
<1>6. \A m \in DOMAIN u : \/ m \in DOMAIN s /\ u[m] = s[m]
                          \/ m - Len(s) \in DOMAIN t /\ u[m] = t[m - Len(s)]
  BY <1>2, <1>3
<1>7. ASSUME NEW m \in DOMAIN u PROVE IsIn(u[m], seqs, n + 1)
  <2>1. CASE m \in DOMAIN s /\ u[m] = s[m]
    <3>1. PICK i \in 1..n : \E k \in DOMAIN seqs[i] : s[m] = seqs[i][k]
      BY <2>1 DEF Joined, IsIn
    <3>2. i \in 1..(n + 1)
      OBVIOUS
    <3> QED
      BY <2>1, <3>1, <3>2 DEF IsIn
  <2>2. CASE m - Len(s) \in DOMAIN t /\ u[m] = t[m - Len(s)]
    <3>1. n + 1 \in 1..(n + 1)
      OBVIOUS
    <3> QED
      BY <2>2, <3>1 DEF IsIn, t
  <2> QED
    BY <1>6, <2>1, <2>2
<1>8. ASSUME NEW i \in 1..(n + 1), NEW m \in DOMAIN seqs[i]
      PROVE  \E l \in DOMAIN u : u[l] = seqs[i][m]
  <2>1. CASE i = n + 1
    BY <2>1, <1>5 DEF t
  <2>2. CASE i # n + 1
    <3>1. i \in 1..n
      BY <2>2
    <3> QED
      BY <3>1, <1>4 DEF Joined
  <2> QED
    BY <2>1, <2>2
<1>9. ASSUME AllDifferent(seqs) PROVE Injects(u)
  <2>1. \A m \in DOMAIN s, l \in DOMAIN t : s[m] # t[l]
    <3> SUFFICES ASSUME NEW m \in DOMAIN s, NEW l \in DOMAIN t, s[m] = t[l] PROVE FALSE
      OBVIOUS
    <3>1. PICK i \in 1..n : \E k \in DOMAIN seqs[i] : s[m] = seqs[i][k]
      BY DEF Joined, IsIn
    <3>2. i \in DOMAIN seqs /\ i # n + 1
      BY <1>1
    <3> QED
      BY <1>9, <3>1, <3>2 DEF AllDifferent, t
  <2>2. Injects(s)
    BY <1>9 DEF Joined
  <2>3. Injects(t)
    BY <1>9 DEF AllDifferent, Injects, t
  <2> SUFFICES ASSUME NEW m \in DOMAIN u, NEW l \in DOMAIN u, u[m] = u[l] PROVE m = l
    BY DEF Injects
  <2>4. m \in Int /\ l \in Int
    BY <1>3
  <2>5. CASE m \in DOMAIN s /\ u[m] = s[m] /\ l \in DOMAIN s /\ u[l] = s[l]
    BY <2>5, <2>2 DEF Injects
  <2>6. CASE m - Len(s) \in DOMAIN t /\ u[m] = t[m - Len(s)] /\ l - Len(s) \in DOMAIN t /\ u[l] = t[l - Len(s)]
    <3>1. m - Len(s) = l - Len(s)
      BY <2>3, <2>6 DEF Injects
    <3> QED
      BY <1>2, <2>4, <3>1
  <2> QED
    BY <1>6, <2>1, <2>5, <2>6
<1> QED
  BY <1>3, <1>7, <1>8, <1>9 DEF Joined, u, t

(* FlattenSeq joins the sequences, by induction over their number.         *)
LEMMA FlattenSeqJoins ==
  ASSUME NEW S, NEW seqs \in Seq(Seq(S))
  PROVE  FlattenSeq(seqs) \in Seq(S) /\ Joined(FlattenSeq(seqs), seqs, Len(seqs))
<1> DEFINE N == Len(seqs)
           f == Flat(seqs, N)
           Good(s, i) == s \in Seq(S) /\ Joined(s, seqs, i)
           T == {i \in Nat : i \in 1..N => Good(f[i], i)}
<1>1. N \in Nat /\ DOMAIN seqs = 1..N /\ seqs \in [1..N -> Seq(S)]
  BY LenProperties
<1>2. \A i \in 1..N : f[i] = IF i = 1 THEN seqs[i] ELSE f[i - 1] \o seqs[i]
  <2>1. f = [i \in 1..N |-> IF i = 1 THEN seqs[i] ELSE f[i - 1] \o seqs[i]]
    BY <1>1, FlatExists
  <2> HIDE DEF f, N
  <2> QED
    BY <2>1
<1> HIDE DEF f
<1>3. Good(<< >>, 0)
  BY DEF Joined, IsIn, Injects
<1>4. 0 \in T
  OBVIOUS
<1>5. ASSUME NEW i \in Nat, i \in T PROVE i + 1 \in T
  <2> SUFFICES ASSUME i + 1 \in 1..N PROVE Good(f[i + 1], i + 1)
    OBVIOUS
  <2>1. CASE i = 0
    <3>1. f[i + 1] = seqs[i + 1] /\ seqs[i + 1] \in Seq(S)
      BY <1>1, <1>2, <2>1
    <3>2. << >> \o seqs[i + 1] = seqs[i + 1]
      BY <3>1, ConcatEmptySeq
    <3>3. Good(<< >> \o seqs[i + 1], i + 1)
      BY <1>1, <1>3, <2>1, JoinedWithNext
    <3> QED
      BY <3>1, <3>2, <3>3
  <2>2. CASE i # 0
    <3>1. (i + 1) - 1 = i /\ i + 1 # 1 /\ i \in 1..N
      BY <1>1, <2>2
    <3>2. f[i + 1] = f[i] \o seqs[i + 1]
      BY <1>2, <3>1
    <3>3. Good(f[i], i)
      BY <1>5, <3>1
    <3>4. Good(f[i] \o seqs[i + 1], i + 1)
      BY <1>1, <3>3, JoinedWithNext
    <3> QED
      BY <3>2, <3>4
  <2> QED
    BY <2>1, <2>2
<1> HIDE DEF T
<1>6. Nat \subseteq T
  BY <1>4, <1>5, SetInduction
<1>7. CASE N = 0
  <2>1. FlattenSeq(seqs) = seqs
    BY <1>7 DEF FlattenSeq
  <2>2. seqs = << >>
    BY <1>1, <1>7, EmptySeq
  <2> QED
    BY <1>3, <1>7, <2>1, <2>2
<1>8. CASE N # 0
  <2>1. FlattenSeq(seqs) = f[N]
    BY <1>8 DEF FlattenSeq, f, Flat
  <2>2. Good(f[N], N)
    BY <1>1, <1>6, <1>8 DEF T
  <2> QED
    BY <2>1, <2>2
<1> QED
  BY <1>7, <1>8
-----------------------------------------------------------------------------
(* The channel map. *)

LEMMA ConnectionsFacts ==
  ASSUME setup \in Setups
  PROVE  /\ Connections \in Seq(ToSet(Connections))
         /\ \A n \in DOMAIN Connections :
              /\ Output(Connections[n])[1] \in setup.subModels
              /\ Input(Connections[n])[1] \in setup.subModels
<1> DEFINE conn == setup.connections
           S == UNION {ToSet(scc) : scc \in ToSet(conn)}
           seqs == [n \in DOMAIN conn |-> IF Len(conn[n]) = 1 THEN conn[n] ELSE << >>]
<1>1. /\ conn \in Seq(ToSet(conn))
      /\ \A scc \in ToSet(conn) :
           /\ scc \in Seq(ToSet(scc))
           /\ \A c \in ToSet(scc) : c[1][1] \in setup.subModels /\ c[2][1] \in setup.subModels
  BY SetupsAssumption
<1>2. DOMAIN conn = 1..Len(conn) /\ Len(conn) \in Nat
  BY <1>1, LenProperties
<1>3. ASSUME NEW n \in DOMAIN conn PROVE seqs[n] \in Seq(S)
  <2>1. conn[n] \in ToSet(conn)
    BY DEF ToSet
  <2>2. conn[n] \in Seq(ToSet(conn[n])) /\ ToSet(conn[n]) \subseteq S
    BY <1>1, <2>1
  <2>3. conn[n] \in Seq(S)
    BY <2>2, SeqMonotonic
  <2>4. << >> \in Seq(S)
    BY EmptySeq
  <2> QED
    BY <2>3, <2>4
<1>4. seqs \in Seq(Seq(S)) /\ Connections = FlattenSeq(seqs)
  <2>1. \A n \in 1..Len(conn) : seqs[n] \in Seq(S)
    BY <1>2, <1>3
  <2>2. DOMAIN seqs = 1..Len(conn) /\ seqs = [n \in 1..Len(conn) |-> seqs[n]]
    BY <1>2
  <2>3. Connections = FlattenSeq(seqs)
    BY DEF Connections
  <2> HIDE DEF seqs, S
  <2>4. seqs \in Seq(Seq(S))
    BY <1>2, <2>1, <2>2
  <2> QED
    BY <2>3, <2>4
<1> HIDE DEF seqs
<1>5. Connections \in Seq(S) /\ Joined(Connections, seqs, Len(seqs))
  BY <1>4, FlattenSeqJoins
<1>6. DOMAIN Connections = 1..Len(Connections) /\ Len(Connections) \in Nat
      /\ \A n \in DOMAIN Connections : Connections[n] \in S
  BY <1>5, LenProperties, ElementOfSeq
<1>7. Connections \in Seq(ToSet(Connections))
  <2>1. \A n \in 1..Len(Connections) : Connections[n] \in ToSet(Connections)
    BY <1>6 DEF ToSet
  <2> HIDE DEF S
  <2>2. Connections = [n \in 1..Len(Connections) |-> Connections[n]]
    BY <1>5, LenProperties
  <2> QED
    BY <1>6, <2>1, <2>2
<1> QED
  BY <1>1, <1>6, <1>7 DEF Output, Input

(* An input belongs to one connection, from its source.                    *)
LEMMA InputFacts ==
  ASSUME setup \in Setups, NEW i \in Inputs
  PROVE  /\ i[1] \in setup.subModels /\ Source(i)[1] \in setup.subModels
         /\ \E n \in DOMAIN Connections : Input(Connections[n]) = i /\ Output(Connections[n]) = Source(i)
<1>1. PICK c \in ToSet(Connections) : Input(c) = i
  BY DEF Inputs
<1> DEFINE d == CHOOSE x \in ToSet(Connections) : Input(x) = i
<1>2. d \in ToSet(Connections) /\ Input(d) = i
  BY <1>1
<1>3. Source(i) = Output(d)
  BY DEF Source
<1> HIDE DEF d
<1>4. PICK n \in DOMAIN Connections : Connections[n] = d
  BY <1>2 DEF ToSet
<1> QED
  BY <1>2, <1>3, <1>4, ConnectionsFacts

LEMMA ConnectionSource ==
  ASSUME setup \in Setups, OneToOne, NEW n \in DOMAIN Connections
  PROVE  Input(Connections[n]) \in Inputs /\ Source(Input(Connections[n])) = Output(Connections[n])
<1>1. Input(Connections[n]) \in Inputs
  BY DEF Inputs, ToSet
<1>2. PICK m \in DOMAIN Connections : /\ Input(Connections[m]) = Input(Connections[n])
                                     /\ Output(Connections[m]) = Source(Input(Connections[n]))
  BY <1>1, InputFacts
<1> QED
  BY <1>1, <1>2 DEF OneToOne

(* With one connection an output is written to its input only.             *)
LEMMA ConnectedInput ==
  ASSUME setup \in Setups, OneToOne, NEW n \in DOMAIN Connections
  PROVE  LET CI == ConnectedInputs(Output(Connections[n])) IN
         /\ CI \in Seq(Inputs) /\ Len(CI) = 1 /\ CI[1] = Input(Connections[n])
<1> DEFINE output == Output(Connections[n])
           input(m) == Input(Connections[m])
           seqs == [m \in DOMAIN Connections |->
                      IF Output(Connections[m]) = output THEN <<input(m)>> ELSE << >>]
           CI == ConnectedInputs(output)
<1>1. DOMAIN Connections = 1..Len(Connections) /\ Len(Connections) \in Nat
  BY ConnectionsFacts, LenProperties
<1>2. \A m \in DOMAIN Connections : input(m) \in Inputs
  BY ConnectionSource
<1>3. seqs \in Seq(Seq(Inputs)) /\ DOMAIN seqs = DOMAIN Connections /\ Len(seqs) = Len(Connections)
  <2>1. \A m \in 1..Len(Connections) : seqs[m] \in Seq(Inputs)
    BY <1>1, <1>2
  <2> QED
    BY <1>1, <2>1
<1>4. seqs[n] = <<input(n)>> /\ \A m \in DOMAIN Connections : m # n => seqs[m] = << >>
  BY DEF OneToOne
<1>5. CI = FlattenSeq(seqs)
  BY DEF ConnectedInputs
<1> HIDE DEF seqs, input, CI
<1>6. CI \in Seq(Inputs) /\ Joined(CI, seqs, Len(seqs))
  BY <1>3, <1>5, FlattenSeqJoins
<1>7. DOMAIN seqs[n] = {1} /\ seqs[n][1] = input(n) /\ \A m \in DOMAIN seqs : m # n => DOMAIN seqs[m] = {}
  BY <1>3, <1>4
<1>8. AllDifferent(seqs)
  BY <1>7 DEF AllDifferent
<1>9. Injects(CI) /\ \A m \in DOMAIN CI : CI[m] = input(n)
  <2>1. Injects(CI)
    BY <1>6, <1>8 DEF Joined
  <2>2. ASSUME NEW m \in DOMAIN CI PROVE CI[m] = input(n)
    <3>1. PICK i \in 1..Len(seqs) : \E l \in DOMAIN seqs[i] : CI[m] = seqs[i][l]
      BY <1>6 DEF Joined, IsIn
    <3>2. i \in DOMAIN seqs
      BY <1>1, <1>3
    <3> QED
      BY <1>7, <3>1, <3>2
  <2> QED
    BY <2>1, <2>2
<1>10. \E m \in DOMAIN CI : CI[m] = input(n)
  BY <1>1, <1>3, <1>6, <1>7 DEF Joined
<1>11. DOMAIN CI = 1..Len(CI) /\ Len(CI) \in Nat
  BY <1>6, LenProperties
<1>12. Len(CI) = 1
  <2>1. \A m, l \in DOMAIN CI : m = l
    BY <1>9 DEF Injects
  <2>2. 1 \in DOMAIN CI
    BY <1>10, <1>11
  <2>3. Len(CI) \in DOMAIN CI
    BY <1>11, <2>2
  <2> QED
    BY <2>1, <2>2, <2>3
<1>13. CI[1] = input(n)
  BY <1>9, <1>11, <1>12
<1> QED
  BY <1>6, <1>12, <1>13 DEF CI, input
-----------------------------------------------------------------------------
(* The accesses of a thread. *)

Calls == [op : {"write", "read"}, input : Inputs]

LEMMA CallsDiffer ==
  \A i, j : /\ WriteTo(i) # ReadFrom(j)
            /\ WriteTo(i) = WriteTo(j) => i = j
            /\ ReadFrom(i) = ReadFrom(j) => i = j
            /\ WriteTo(i).op = "write" /\ WriteTo(i).input = i
            /\ ReadFrom(i).op = "read" /\ ReadFrom(i).input = i
BY DEF WriteTo, ReadFrom

(* What the thread of s does for one connection.                           *)
LEMMA AccessesForFacts ==
  ASSUME setup \in Setups, OneToOne, NEW s, NEW n \in DOMAIN Connections
  PROVE  LET A == AccessesFor(s, Connections[n])
             i == Input(Connections[n])
         IN  /\ A \in Seq(Calls)
             /\ \A m \in DOMAIN A : \/ A[m] = WriteTo(i) /\ Source(i)[1] = s
                                    \/ A[m] = ReadFrom(i) /\ i[1] = s
             /\ Source(i)[1] = s => \E m \in DOMAIN A : A[m] = WriteTo(i)
             /\ i[1] = s => \E m \in DOMAIN A : A[m] = ReadFrom(i)
             /\ Injects(A)
<1> DEFINE c == Connections[n]
           i == Input(c)
           CI == ConnectedInputs(Output(c))
           A == AccessesFor(s, c)
           W == IF Output(c)[1] = s THEN [m \in DOMAIN CI |-> WriteTo(CI[m])] ELSE << >>
           R == IF Input(c)[1] = s THEN <<ReadFrom(Input(c))>> ELSE << >>
<1>1. A = W \o R
  BY DEF AccessesFor
<1>2. i \in Inputs /\ Source(i) = Output(c)
  BY ConnectionSource
<1>3. WriteTo(i) \in Calls /\ ReadFrom(i) \in Calls
  BY <1>2 DEF Calls, WriteTo, ReadFrom
<1>4. W = IF Source(i)[1] = s THEN <<WriteTo(i)>> ELSE << >>
  <2>1. CI \in Seq(Inputs) /\ Len(CI) = 1 /\ CI[1] = i
    BY ConnectedInput
  <2>2. DOMAIN CI = 1..1
    BY <2>1, LenProperties
  <2> HIDE DEF CI, i
  <2>3. [m \in DOMAIN CI |-> WriteTo(CI[m])] = <<WriteTo(i)>>
    BY <2>1, <2>2
  <2> QED
    BY <1>2, <2>3
<1>5. R = IF i[1] = s THEN <<ReadFrom(i)>> ELSE << >>
  OBVIOUS
<1> HIDE DEF A, W, R, i
<1>6. CASE Source(i)[1] = s /\ i[1] = s
  <2>1. <<WriteTo(i)>> \in Seq(Calls) /\ <<ReadFrom(i)>> \in Seq(Calls)
    BY <1>3
  <2>2. A = <<WriteTo(i)>> \o <<ReadFrom(i)>>
    BY <1>1, <1>4, <1>5, <1>6
  <2>3. /\ A \in Seq(Calls) /\ DOMAIN A = {1, 2}
        /\ A[1] = WriteTo(i) /\ A[2] = ReadFrom(i)
    BY <2>1, <2>2, ConcatProperties, LenProperties
  <2> QED
    BY <1>3, <1>6, <2>3, CallsDiffer DEF Injects, A, i
<1>7. CASE Source(i)[1] = s /\ i[1] # s
  <2>1. A = <<WriteTo(i)>>
    BY <1>1, <1>4, <1>5, <1>7
  <2> QED
    BY <1>3, <1>7, <2>1 DEF Injects, A, i
<1>8. CASE Source(i)[1] # s /\ i[1] = s
  <2>1. A = <<ReadFrom(i)>>
    BY <1>1, <1>4, <1>5, <1>8
  <2> QED
    BY <1>3, <1>8, <2>1 DEF Injects, A, i
<1>9. CASE Source(i)[1] # s /\ i[1] # s
  <2>1. A = << >>
    BY <1>1, <1>4, <1>5, <1>9
  <2> QED
    BY <1>9, <2>1 DEF Injects, A, i
<1> QED
  BY <1>6, <1>7, <1>8, <1>9

(* Whatever the connections, the accesses are a sequence.                  *)
LEMMA AccessesAreASequence ==
  ASSUME setup \in Setups, NEW s
  PROVE  DOMAIN AccessesOf(s) = 1..Len(AccessesOf(s)) /\ Len(AccessesOf(s)) \in Nat
<1> DEFINE seqs == [n \in DOMAIN Connections |-> AccessesFor(s, Connections[n])]
           C == [op : {"write", "read"}, input : Inputs]
<1>1. DOMAIN Connections = 1..Len(Connections) /\ Len(Connections) \in Nat
  BY ConnectionsFacts, LenProperties
<1>2. \A n \in DOMAIN Connections : Input(Connections[n]) \in Inputs
  BY DEF Inputs, ToSet
<1>3. ASSUME NEW o PROVE ConnectedInputs(o) \in Seq(Inputs)
  <2> DEFINE part == [n \in DOMAIN Connections |->
                        IF Output(Connections[n]) = o THEN <<Input(Connections[n])>> ELSE << >>]
  <2>1. \A n \in 1..Len(Connections) : part[n] \in Seq(Inputs)
    BY <1>1, <1>2
  <2>2. part \in Seq(Seq(Inputs))
    BY <1>1, <2>1
  <2>3. ConnectedInputs(o) = FlattenSeq(part)
    BY DEF ConnectedInputs
  <2> HIDE DEF part
  <2> QED
    BY <2>2, <2>3, FlattenSeqJoins
<1>4. ASSUME NEW n \in DOMAIN Connections PROVE AccessesFor(s, Connections[n]) \in Seq(C)
  <2> DEFINE c == Connections[n]
             CI == ConnectedInputs(Output(c))
             W == IF Output(c)[1] = s THEN [m \in DOMAIN CI |-> WriteTo(CI[m])] ELSE << >>
             R == IF Input(c)[1] = s THEN <<ReadFrom(Input(c))>> ELSE << >>
  <2>1. CI \in Seq(Inputs)
    BY <1>3
  <2>2. R \in Seq(C)
    <3>1. ReadFrom(Input(c)) \in C
      BY <1>2 DEF ReadFrom
    <3> HIDE DEF C
    <3>2. <<ReadFrom(Input(c))>> \in Seq(C)
      BY <3>1
    <3> QED
      BY <3>2, EmptySeq
  <2>3. AccessesFor(s, c) = W \o R
    BY DEF AccessesFor
  <2>4. W \in Seq(C)
    <3> HIDE DEF CI
    <3>1. DOMAIN CI = 1..Len(CI) /\ Len(CI) \in Nat /\ \A m \in DOMAIN CI : CI[m] \in Inputs
      BY <2>1, LenProperties, ElementOfSeq
    <3>2. \A m \in 1..Len(CI) : WriteTo(CI[m]) \in C
      BY <3>1 DEF WriteTo
    <3> HIDE DEF C
    <3>3. [m \in DOMAIN CI |-> WriteTo(CI[m])] \in Seq(C)
      BY <3>1, <3>2
    <3> QED
      BY <3>3, EmptySeq
  <2> HIDE DEF W, R, C
  <2> QED
    BY <2>2, <2>3, <2>4, ConcatProperties
<1>5. AccessesOf(s) = FlattenSeq(seqs)
  BY DEF AccessesOf
<1> HIDE DEF C
<1>6. seqs \in Seq(Seq(C))
  BY <1>1, <1>4
<1> HIDE DEF seqs
<1> QED
  BY <1>5, <1>6, FlattenSeqJoins, LenProperties

(* In a step a thread writes each input it is the source of once and reads *)
(* each input of its own once.                                             *)
LEMMA AccessesOfFacts ==
  ASSUME setup \in Setups, OneToOne, NEW s
  PROVE  LET A == AccessesOf(s)
         IN  /\ DOMAIN A = 1..Len(A) /\ Len(A) \in Nat
             /\ \A m \in DOMAIN A : \E i \in Inputs :
                  \/ A[m] = WriteTo(i) /\ Source(i)[1] = s
                  \/ A[m] = ReadFrom(i) /\ i[1] = s
             /\ \A i \in Inputs : Source(i)[1] = s => \E m \in DOMAIN A : A[m] = WriteTo(i)
             /\ \A i \in Inputs : i[1] = s => \E m \in DOMAIN A : A[m] = ReadFrom(i)
             /\ Injects(A)
<1> DEFINE A == AccessesOf(s)
           seqs == [n \in DOMAIN Connections |-> AccessesFor(s, Connections[n])]
           input(n) == Input(Connections[n])
<1>1. DOMAIN Connections = 1..Len(Connections) /\ Len(Connections) \in Nat
  BY ConnectionsFacts, LenProperties
<1>2. A = FlattenSeq(seqs)
  BY DEF AccessesOf
<1>3. \A n \in DOMAIN Connections : seqs[n] \in Seq(Calls)
  BY AccessesForFacts
<1>4. DOMAIN seqs = DOMAIN Connections /\ seqs = [n \in 1..Len(Connections) |-> seqs[n]]
  BY <1>1
<1>5. \A n \in DOMAIN Connections :
        /\ \A m \in DOMAIN seqs[n] : \/ seqs[n][m] = WriteTo(input(n)) /\ Source(input(n))[1] = s
                                     \/ seqs[n][m] = ReadFrom(input(n)) /\ input(n)[1] = s
        /\ Source(input(n))[1] = s => \E m \in DOMAIN seqs[n] : seqs[n][m] = WriteTo(input(n))
        /\ input(n)[1] = s => \E m \in DOMAIN seqs[n] : seqs[n][m] = ReadFrom(input(n))
        /\ Injects(seqs[n])
  BY AccessesForFacts
<1> HIDE DEF seqs, A
<1>6. seqs \in Seq(Seq(Calls)) /\ Len(seqs) = Len(Connections)
  BY <1>1, <1>3, <1>4
<1>7. A \in Seq(Calls) /\ Joined(A, seqs, Len(Connections))
  BY <1>2, <1>6, FlattenSeqJoins
<1>8. \A m, n \in DOMAIN Connections : input(m) = input(n) => m = n
  BY DEF OneToOne
<1>9. \A n \in DOMAIN Connections : input(n) \in Inputs
  BY ConnectionSource
<1>10. \A i \in Inputs : \E n \in DOMAIN Connections : input(n) = i
  BY InputFacts
<1> HIDE DEF input
<1>11. AllDifferent(seqs)
  <2> SUFFICES ASSUME NEW i \in DOMAIN seqs, NEW j \in DOMAIN seqs,
                      NEW m \in DOMAIN seqs[i], NEW n \in DOMAIN seqs[j], seqs[i][m] = seqs[j][n]
               PROVE  i = j /\ m = n
    BY DEF AllDifferent
  <2>1. input(i) = input(j)
    <3>1. seqs[i][m] \in {WriteTo(input(i)), ReadFrom(input(i))}
      BY <1>4, <1>5
    <3>2. seqs[j][n] \in {WriteTo(input(j)), ReadFrom(input(j))}
      BY <1>4, <1>5
    <3> QED
      BY <3>1, <3>2, CallsDiffer
  <2>2. i = j
    BY <1>4, <1>8, <2>1
  <2> QED
    BY <1>4, <1>5, <2>2 DEF Injects
<1>12. ASSUME NEW m \in DOMAIN A
       PROVE  \E i \in Inputs : \/ A[m] = WriteTo(i) /\ Source(i)[1] = s
                                \/ A[m] = ReadFrom(i) /\ i[1] = s
  <2>1. PICK n \in 1..Len(Connections) : \E l \in DOMAIN seqs[n] : A[m] = seqs[n][l]
    BY <1>7 DEF Joined, IsIn
  <2> QED
    BY <1>1, <1>5, <1>9, <2>1
<1>13. ASSUME NEW i \in Inputs
       PROVE  /\ Source(i)[1] = s => \E m \in DOMAIN A : A[m] = WriteTo(i)
              /\ i[1] = s => \E m \in DOMAIN A : A[m] = ReadFrom(i)
  <2>1. PICK n \in DOMAIN Connections : input(n) = i
    BY <1>10
  <2>2. \A m \in DOMAIN seqs[n] : \E l \in DOMAIN A : A[l] = seqs[n][m]
    BY <1>1, <1>7, <2>1 DEF Joined
  <2> QED
    BY <1>5, <2>1, <2>2
<1>14. DOMAIN A = 1..Len(A) /\ Len(A) \in Nat
  BY <1>7, LenProperties
<1>15. Injects(A)
  BY <1>7, <1>11 DEF Joined
<1> QED
  BY <1>12, <1>13, <1>14, <1>15 DEF A
-----------------------------------------------------------------------------
(* The rates. *)

LEMMA QuotientIs ==
  ASSUME NEW p \in Nat \ {0}, NEW t \in Int, NEW q \in Int, q * p <= t, t < q * p + p
  PROVE  t \div p = q
OBVIOUS

LEMMA Multiple ==
  ASSUME NEW a \in Nat \ {0}, NEW b \in Nat \ {0}, a % b = 0
  PROVE  a \div b \in Nat \ {0} /\ a = (a \div b) * b
<1>1. a \div b \in Int /\ a = (a \div b) * b
  OBVIOUS
<1> QED
  BY <1>1

LEMMA StepFacts ==
  ASSUME setup \in Setups, NEW s \in setup.subModels
  PROVE  Step(s) \in Nat \ {0} /\ setup.interval \in Nat \ {0} /\ setup.ratio[s] \in Nat \ {0}
         /\ setup.stop \in Int
<1>1. setup.interval \in Nat \ {0} /\ setup.ratio[s] \in Nat \ {0} /\ setup.stop \in Int
  BY SetupsAssumption
<1> QED
  BY <1>1 DEF Step

(* The steps of the two sides of a channel are multiples of each other.    *)
LEMMA RatesFacts ==
  ASSUME setup \in Setups, NEW i \in Inputs, Divisible(i)
  PROVE  LET from == Step(Source(i)[1])
             to == Step(i[1])
         IN  /\ from \in Nat \ {0} /\ to \in Nat \ {0} /\ Factor(i) \in Nat \ {0}
             /\ Transition(i) \in {"FASTTOSLOW", "SLOWTOFAST", "SAME"}
             /\ Transition(i) = "FASTTOSLOW" => to = Factor(i) * from
             /\ Transition(i) = "SLOWTOFAST" => from = Factor(i) * to
             /\ Transition(i) = "SAME" => from = to
<1> DEFINE a == setup.ratio[Source(i)[1]]
           b == setup.ratio[i[1]]
           c == setup.interval
<1>1. a \in Nat \ {0} /\ b \in Nat \ {0} /\ c \in Nat \ {0}
  BY InputFacts, StepFacts
<1>2. Step(Source(i)[1]) = c * a /\ Step(i[1]) = c * b /\ OutRatio(i) = a /\ InRatio(i) = b
  BY DEF Step, OutRatio, InRatio
<1>3. Step(Source(i)[1]) \in Nat \ {0} /\ Step(i[1]) \in Nat \ {0}
  BY InputFacts, StepFacts
<1> HIDE DEF a, b, c
<1>4. CASE a < b
  <2>1. Transition(i) = "FASTTOSLOW" /\ Factor(i) = b \div a /\ b % a = 0
    BY <1>1, <1>2, <1>4 DEF Transition, Factor, Divisible, Larger, Smaller
  <2>2. Factor(i) \in Nat \ {0} /\ b = Factor(i) * a
    BY <1>1, <2>1, Multiple
  <2>3. c * b = Factor(i) * (c * a)
    BY <1>1, <2>2
  <2> QED
    BY <1>2, <1>3, <2>1, <2>2, <2>3
<1>5. CASE a > b
  <2>1. Transition(i) = "SLOWTOFAST" /\ Factor(i) = a \div b /\ a % b = 0
    BY <1>1, <1>2, <1>5 DEF Transition, Factor, Divisible, Larger, Smaller
  <2>2. Factor(i) \in Nat \ {0} /\ a = Factor(i) * b
    BY <1>1, <2>1, Multiple
  <2>3. c * a = Factor(i) * (c * b)
    BY <1>1, <2>2
  <2> QED
    BY <1>2, <1>3, <2>1, <2>2, <2>3
<1>6. CASE a = b
  <2>1. Transition(i) = "SAME" /\ Factor(i) = b \div b /\ b % b = 0
    BY <1>1, <1>2, <1>6 DEF Transition, Factor, Divisible, Larger, Smaller
  <2>2. Factor(i) \in Nat \ {0}
    BY <1>1, <2>1, Multiple
  <2> QED
    BY <1>2, <1>3, <1>6, <2>1, <2>2
<1> QED
  BY <1>1, <1>4, <1>5, <1>6

(* The value that is due for a read is the one its time calls for.         *)
LEMMA DueAtRead ==
  ASSUME setup \in Setups, NEW i \in Inputs, Divisible(i),
         NEW r \in Nat, NEW q \in Nat, Channel(i)!IsDue(r, q)
  PROVE  Due(i, r * Step(i[1])) = q * Step(Source(i)[1])
<1> DEFINE from == Step(Source(i)[1])
           to == Step(i[1])
           k == Factor(i)
           t == r * to
<1>1. /\ from \in Nat \ {0} /\ to \in Nat \ {0} /\ k \in Nat \ {0}
      /\ Transition(i) \in {"FASTTOSLOW", "SLOWTOFAST", "SAME"}
      /\ Transition(i) = "FASTTOSLOW" => to = k * from
      /\ Transition(i) = "SLOWTOFAST" => from = k * to
      /\ Transition(i) = "SAME" => from = to
  BY RatesFacts
<1>2. CASE Transition(i) = "FASTTOSLOW" /\ setup.late
  <2>1. q = r * k + (k - 1)
    BY <1>2 DEF Channel!IsDue
  <2>2. Due(i, t) = t + to - from
    BY <1>2 DEF Due
  <2> HIDE DEF from, to, k
  <2>3. r * (k * from) + k * from - from = (r * k + (k - 1)) * from
    BY <1>1
  <2> QED
    BY <1>1, <1>2, <2>1, <2>2, <2>3 DEF from, to
<1>3. CASE Transition(i) # "FASTTOSLOW" \/ ~setup.late
  <2>1. Due(i, t) = (t \div from) * from
    BY <1>3 DEF Due
  <2>2. q * from <= t /\ t < q * from + from
    <3>1. CASE Transition(i) = "FASTTOSLOW"
      <4>1. q = r * k + (IF setup.late THEN k - 1 ELSE 0) /\ ~setup.late
        BY <1>3, <3>1 DEF Channel!IsDue
      <4> HIDE DEF from, to, k
      <4>2. q = r * k /\ (r * k) * from = r * (k * from)
        BY <1>1, <4>1
      <4> QED
        BY <1>1, <3>1, <4>1, <4>2
    <3>2. CASE Transition(i) = "SLOWTOFAST"
      <4>1. q * k <= r /\ r < (q + 1) * k
        BY <3>2 DEF Channel!IsDue
      <4> HIDE DEF from, to, k
      <4>2. (q * k) * to <= r * to /\ r * to < ((q + 1) * k) * to
        BY <1>1, <4>1
      <4>3. (q * k) * to = q * (k * to) /\ ((q + 1) * k) * to = q * (k * to) + k * to
        BY <1>1
      <4> QED
        BY <1>1, <3>2, <4>2, <4>3
    <3>3. CASE Transition(i) = "SAME"
      <4>1. q = r
        BY <3>3 DEF Channel!IsDue
      <4> HIDE DEF from, to, k
      <4> QED
        BY <1>1, <3>3, <4>1
    <3> QED
      BY <1>1, <3>1, <3>2, <3>3
  <2> HIDE DEF from, to
  <2>3. t \in Int /\ q \in Int
    BY <1>1
  <2>4. t \div from = q
    BY <1>1, <2>2, <2>3, QuotientIs
  <2> QED
    BY <2>1, <2>4 DEF from, to
<1> QED
  BY <1>2, <1>3

(* A value that was due before is due no more after the next read.         *)
LEMMA DueOnce ==
  ASSUME setup \in Setups, NEW i \in Inputs, Divisible(i),
         NEW r \in Nat, NEW q \in Nat, NEW p \in Nat, p < q, Channel(i)!IsDue(r, q)
  PROVE  ~Channel(i)!IsDue(r + 1, p)
<1> DEFINE k == Factor(i)
<1>1. k \in Nat \ {0} /\ Transition(i) \in {"FASTTOSLOW", "SLOWTOFAST", "SAME"}
  BY RatesFacts
<1>2. CASE Transition(i) = "FASTTOSLOW"
  <2>1. /\ q = r * k + (IF setup.late THEN k - 1 ELSE 0)
        /\ Channel(i)!IsDue(r + 1, p) => p = (r + 1) * k + (IF setup.late THEN k - 1 ELSE 0)
    BY <1>2 DEF Channel!IsDue
  <2> HIDE DEF k
  <2>2. (r + 1) * k = r * k + k
    BY <1>1
  <2> QED
    BY <1>1, <2>1, <2>2
<1>3. CASE Transition(i) = "SLOWTOFAST"
  <2>1. q * k <= r /\ (Channel(i)!IsDue(r + 1, p) => r + 1 < (p + 1) * k)
    BY <1>3 DEF Channel!IsDue
  <2> HIDE DEF k
  <2>2. (p + 1) * k <= q * k
    BY <1>1
  <2> QED
    BY <1>1, <2>1, <2>2
<1>4. CASE Transition(i) = "SAME"
  BY <1>4 DEF Channel!IsDue
<1> QED
  BY <1>1, <1>2, <1>3, <1>4
-----------------------------------------------------------------------------
(* The inductive invariant. *)

(* What depends on the setup alone stays as it is.                         *)
LEMMA SetupFrame ==
  ASSUME setup' = setup
  PROVE  /\ Inputs' = Inputs
         /\ OneToOne' <=> OneToOne
         /\ \A s : Step(s)' = Step(s) /\ AccessesOf(s)' = AccessesOf(s)
         /\ \A i : /\ Source(i)' = Source(i)
                   /\ Transition(i)' = Transition(i) /\ Factor(i)' = Factor(i)
                   /\ Divisible(i)' <=> Divisible(i)
                   /\ \A t : Due(i, t)' = Due(i, t) /\ (Accepted(i, t)' <=> Accepted(i, t))
<1>1. Connections' = Connections
  BY DEF Connections
<1>2. Inputs' = Inputs /\ (OneToOne' <=> OneToOne)
  BY <1>1 DEF Inputs, OneToOne
<1>3. \A s : Step(s)' = Step(s)
  BY DEF Step
<1>4. \A o : ConnectedInputs(o)' = ConnectedInputs(o)
  BY <1>1 DEF ConnectedInputs
<1>5. \A s, c : AccessesFor(s, c)' = AccessesFor(s, c)
  BY <1>4 DEF AccessesFor
<1>6. \A s : AccessesOf(s)' = AccessesOf(s)
  BY <1>1, <1>5 DEF AccessesOf
<1>7. \A i : Source(i)' = Source(i)
  BY <1>1 DEF Source
<1>8. \A i : /\ Transition(i)' = Transition(i) /\ Factor(i)' = Factor(i)
             /\ Divisible(i)' <=> Divisible(i)
  BY <1>7 DEF Transition, Factor, Divisible, OutRatio, InRatio
<1>9. \A i, t : Due(i, t)' = Due(i, t) /\ (Accepted(i, t)' <=> Accepted(i, t))
  BY <1>3, <1>7, <1>8 DEF Due, Accepted
<1> QED
  BY <1>2, <1>3, <1>6, <1>7, <1>8, <1>9
LEMMA InitInv == Init => IInv
<1> SUFFICES ASSUME Init PROVE IInv
  OBVIOUS
<1>1. TypeOK
  BY DEF Init, TypeOK
<1>2. ThreadsInv
  BY DEF Init, ThreadsInv
<1>3. ASSUME NEW i \in Inputs PROVE InputInv(i)
  <2>1. i[1] \in setup.subModels /\ Source(i)[1] \in setup.subModels
    BY <1>1, InputFacts DEF TypeOK
  <2>2. /\ tcur[i[1]] = 0 /\ tcur[Source(i)[1]] = 0
        /\ channel[i].written = 0 /\ channel[i].reads = 0
        /\ \A call : ToCome(i[1], call) /\ ToCome(Source(i)[1], call)
    BY <2>1 DEF Init, ToCome
  <2>3. Step(i[1]) \in Nat /\ Step(Source(i)[1]) \in Nat
    BY <1>1, <2>1, StepFacts DEF TypeOK
  <2> QED
    BY <2>2, <2>3 DEF InputInv, WritesInv, ReadsInv, SlotInv, SignalInv
<1> QED
  BY <1>1, <1>2, <1>3 DEF IInv

(* The parts that a step leaves as they are.                               *)
LEMMA WritesStay ==
  ASSUME setup' = setup, NEW i \in Inputs, NEW s, s = Source(i)[1], WritesInv(i),
         channel'[i].written = channel[i].written, tcur'[s] = tcur[s],
         ToCome(s, WriteTo(i))' <=> ToCome(s, WriteTo(i))
  PROVE  WritesInv(i)'
BY SetupFrame DEF WritesInv, MoreSteps

LEMMA ReadsStay ==
  ASSUME setup' = setup, NEW i \in Inputs, ReadsInv(i),
         channel'[i].reads = channel[i].reads, tcur'[i[1]] = tcur[i[1]],
         ToCome(i[1], ReadFrom(i))' <=> ToCome(i[1], ReadFrom(i))
  PROVE  ReadsInv(i)'
BY SetupFrame DEF ReadsInv, MoreSteps

LEMMA SlotStays ==
  ASSUME setup' = setup, NEW i \in Inputs, SlotInv(i), channel'[i] = channel[i]
  PROVE  SlotInv(i)'
BY SetupFrame DEF SlotInv, Channel!IsDue

LEMMA SignalStays ==
  ASSUME setup' = setup, NEW i \in Inputs, SignalInv(i), signal'[i] = signal[i],
         tcur'[i[1]] = tcur[i[1]],
         ToCome(i[1], ReadFrom(i))' <=> ToCome(i[1], ReadFrom(i))
  PROVE  SignalInv(i)'
BY SetupFrame DEF SignalInv

(* The steps of which the invariant does not see more than the end.       *)
LEMMA QuietInv ==
  ASSUME IInv, UNCHANGED <<setup, accesses, tcur, pos, channel, signal>>,
         master' \in {master, "joined", "exited"},
         running' \subseteq running
  PROVE  IInv'
<1>1. /\ setup' = setup /\ accesses' = accesses /\ tcur' = tcur /\ pos' = pos
      /\ channel' = channel /\ signal' = signal
  OBVIOUS
<1>2. TypeOK'
  BY <1>1, SetupFrame DEF IInv, TypeOK
<1>3. ThreadsInv'
  BY <1>1, SetupFrame DEF IInv, ThreadsInv, MoreSteps
<1>4. ASSUME OneToOne', NEW i \in Inputs' PROVE InputInv(i)'
  <2>1. i \in Inputs /\ InputInv(i)
    BY <1>1, <1>4, SetupFrame DEF IInv
  <2>2. \A s, call : ToCome(s, call)' <=> ToCome(s, call)
    BY <1>1 DEF ToCome
  <2> QED
    BY <1>1, <2>1, <2>2, WritesStay, ReadsStay, SlotStays, SignalStays DEF InputInv
<1> QED
  BY <1>2, <1>3, <1>4 DEF IInv
LEMMA StartInv ==
  ASSUME IInv, Start
  PROVE  IInv'
<1>1. /\ setup' = setup /\ tcur' = tcur /\ pos' = pos /\ channel' = channel /\ signal' = signal
      /\ master = "starting" /\ master' = "waiting" /\ running' = setup.subModels
  BY DEF Start
<1>2. TypeOK'
  BY <1>1, SetupFrame DEF IInv, TypeOK
<1>3. \A s \in setup.subModels : pos[s] = 0
  BY <1>1 DEF IInv, ThreadsInv
<1>4. ThreadsInv'
  <2>1. \A i \in Inputs' : Divisible(i)'
    BY <1>1, SetupFrame DEF Start
  <2>2. \A s \in setup'.subModels : accesses'[s] = AccessesOf(s)'
    BY <1>1, SetupFrame DEF Start
  <2> QED
    BY <1>1, <1>3, <2>1, <2>2 DEF ThreadsInv
<1>5. ASSUME OneToOne', NEW i \in Inputs' PROVE InputInv(i)'
  <2>1. i \in Inputs /\ InputInv(i)
    BY <1>1, <1>5, SetupFrame DEF IInv
  <2>2. i[1] \in setup.subModels /\ Source(i)[1] \in setup.subModels
    BY <2>1, InputFacts DEF IInv, TypeOK
  <2>3. \A s \in setup.subModels : \A call : ToCome(s, call)' <=> ToCome(s, call)
    BY <1>1, <1>3 DEF ToCome
  <2> QED
    BY <1>1, <2>1, <2>2, <2>3, WritesStay, ReadsStay, SlotStays, SignalStays DEF InputInv
<1> QED
  BY <1>2, <1>4, <1>5 DEF IInv

(* The accesses a thread goes through.                                     *)
LEMMA ThreadFacts ==
  ASSUME IInv, OneToOne, NEW s \in setup.subModels, CanRun(s)
  PROVE  /\ setup \in Setups
         /\ \A i \in Inputs : Divisible(i)
         /\ DOMAIN accesses[s] = 1..Len(accesses[s]) /\ Len(accesses[s]) \in Nat
         /\ \A m \in DOMAIN accesses[s] : \E i \in Inputs :
              \/ accesses[s][m] = WriteTo(i) /\ Source(i)[1] = s
              \/ accesses[s][m] = ReadFrom(i) /\ i[1] = s
         /\ \A i \in Inputs : Source(i)[1] = s => \E m \in DOMAIN accesses[s] : accesses[s][m] = WriteTo(i)
         /\ \A i \in Inputs : i[1] = s => \E m \in DOMAIN accesses[s] : accesses[s][m] = ReadFrom(i)
         /\ Injects(accesses[s])
<1>1. setup \in Setups /\ accesses[s] = AccessesOf(s) /\ \A i \in Inputs : Divisible(i)
  BY DEF IInv, TypeOK, ThreadsInv, CanRun
<1> QED
  BY <1>1, AccessesOfFacts

LEMMA BeginStepInv ==
  ASSUME IInv, NEW s \in setup.subModels, BeginStep(s)
  PROVE  IInv'
<1>1. /\ setup' = setup /\ accesses' = accesses /\ tcur' = tcur /\ channel' = channel
      /\ signal' = signal /\ master' = master /\ running' = running
      /\ pos' = [pos EXCEPT ![s] = 1] /\ pos[s] = 0 /\ CanRun(s) /\ MoreSteps(s)
  BY DEF BeginStep
<1>2. TypeOK /\ TypeOK'
  BY <1>1, SetupFrame DEF IInv, TypeOK
<1>3. ThreadsInv'
  <2>1. \A t \in setup.subModels : MoreSteps(t)' <=> MoreSteps(t)
    BY <1>1, SetupFrame DEF MoreSteps
  <2>2. \A t \in setup.subModels : t # s => pos'[t] = pos[t]
    BY <1>1, <1>2 DEF TypeOK
  <2> QED
    BY <1>1, <2>1, <2>2, SetupFrame DEF IInv, ThreadsInv, CanRun
<1>4. ASSUME OneToOne', NEW i \in Inputs' PROVE InputInv(i)'
  <2>1. i \in Inputs /\ InputInv(i) /\ OneToOne
    BY <1>1, <1>4, SetupFrame DEF IInv
  <2>2. i[1] \in setup.subModels /\ Source(i)[1] \in setup.subModels
    BY <1>2, <2>1, InputFacts DEF TypeOK
  <2>3. \A t \in setup.subModels : t # s => \A call : ToCome(t, call)' <=> ToCome(t, call)
    BY <1>1, <1>2 DEF ToCome, TypeOK
  <2>4. ASSUME NEW call, NEW m \in DOMAIN accesses[s], accesses[s][m] = call
        PROVE  ToCome(s, call)' /\ ToCome(s, call)
    <3>1. pos'[s] = 1 /\ m >= 1
      BY <1>1, <1>2, <2>1, ThreadFacts DEF TypeOK
    <3> QED
      BY <1>1, <2>4, <3>1 DEF ToCome
  <2>5. /\ \A t : t = Source(i)[1] => (ToCome(t, WriteTo(i))' <=> ToCome(t, WriteTo(i)))
        /\ ToCome(i[1], ReadFrom(i))' <=> ToCome(i[1], ReadFrom(i))
    <3>1. Source(i)[1] = s => \E m \in DOMAIN accesses[s] : accesses[s][m] = WriteTo(i)
      BY <1>1, <2>1, ThreadFacts
    <3>2. i[1] = s => \E m \in DOMAIN accesses[s] : accesses[s][m] = ReadFrom(i)
      BY <1>1, <2>1, ThreadFacts
    <3> QED
      BY <2>2, <2>3, <2>4, <3>1, <3>2
  <2> QED
    BY <1>1, <2>1, <2>2, <2>5, WritesStay, ReadsStay, SlotStays, SignalStays DEF InputInv
<1> QED
  BY <1>2, <1>3, <1>4 DEF IInv
(* What is to come after a call: all but this call.                        *)
LEMMA CallPasses ==
  ASSUME IInv, OneToOne, NEW s \in setup.subModels, CanRun(s), Accessing(s),
         accesses' = accesses, pos' = [pos EXCEPT ![s] = @ + 1],
         NEW now, now = Call(s)
  PROVE  /\ ToCome(s, now) /\ ~ToCome(s, now)'
         /\ \A t \in setup.subModels : \A call :
              t # s \/ call # now => (ToCome(t, call)' <=> ToCome(t, call))
<1> DEFINE A == accesses[s]
           n == pos[s]
<1>1. /\ DOMAIN A = 1..Len(A) /\ Len(A) \in Nat /\ Injects(A)
  BY ThreadFacts
<1>2. pos \in [setup.subModels -> Nat]
  BY DEF IInv, TypeOK
<1>3. n \in Nat /\ n \in DOMAIN A /\ A[n] = now /\ n >= 1 /\ pos'[s] = n + 1
  BY <1>1, <1>2 DEF Accessing, Call
<1>4. \A t \in setup.subModels : t # s => pos'[t] = pos[t]
  BY <1>2
<1>5. \A t \in setup.subModels : t # s => \A call : ToCome(t, call)' <=> ToCome(t, call)
  BY <1>4 DEF ToCome
<1>6. ToCome(s, now)
  BY <1>3 DEF ToCome
<1>7. ~ToCome(s, now)'
  <2> SUFFICES ASSUME NEW m \in DOMAIN A, m >= n + 1, A[m] = now PROVE FALSE
    BY <1>3 DEF ToCome
  <2>1. m = n
    BY <1>1, <1>3 DEF Injects
  <2> QED
    BY <1>3, <2>1
<1>8. ASSUME NEW call, call # now PROVE ToCome(s, call)' <=> ToCome(s, call)
  <2>1. \A m \in DOMAIN A : A[m] = call => (m >= n <=> m >= n + 1)
    BY <1>1, <1>3, <1>8
  <2>2. n # 0 /\ n + 1 # 0
    BY <1>3
  <2>3. ToCome(s, call) <=> \E m \in DOMAIN A : m >= n /\ A[m] = call
    BY <2>2 DEF ToCome
  <2>4. ToCome(s, call)' <=> \E m \in DOMAIN A : m >= n + 1 /\ A[m] = call
    BY <1>3, <2>2 DEF ToCome
  <2> QED
    BY <2>1, <2>3, <2>4
<1> QED
  BY <1>5, <1>6, <1>7, <1>8

(* Types and places after a call of a channel.                             *)
LEMMA CallFrame ==
  ASSUME IInv, NEW s \in setup.subModels, CanRun(s), Accessing(s),
         setup' = setup, accesses' = accesses, master' = master, running' = running,
         tcur' = tcur, pos' = [pos EXCEPT ![s] = @ + 1],
         channel' \in [Inputs -> [written : Nat, reads : Nat, v : Int]],
         signal' \in [Inputs -> Int]
  PROVE  TypeOK' /\ ThreadsInv' /\ MoreSteps(s)
<1>1. TypeOK'
  BY SetupFrame DEF IInv, TypeOK
<1>2. \A t \in setup.subModels : MoreSteps(t)' <=> MoreSteps(t)
  BY SetupFrame DEF MoreSteps
<1>3. MoreSteps(s)
  <2>1. accesses[s] = AccessesOf(s) /\ pos[s] \in Nat /\ pos[s] \in DOMAIN accesses[s]
    BY DEF IInv, TypeOK, ThreadsInv, CanRun, Accessing
  <2>2. setup \in Setups
    BY DEF IInv, TypeOK
  <2>3. DOMAIN AccessesOf(s) = 1..Len(AccessesOf(s))
    BY <2>2, AccessesAreASequence
  <2>4. pos[s] # 0
    BY <2>1, <2>3
  <2> QED
    BY <2>4 DEF IInv, ThreadsInv
<1>4. \A t \in setup.subModels : t # s => pos'[t] = pos[t]
  BY DEF IInv, TypeOK
<1>5. ThreadsInv'
  BY <1>2, <1>3, <1>4, SetupFrame DEF IInv, ThreadsInv, CanRun
<1> QED
  BY <1>1, <1>3, <1>5
LEMMA WriteInv ==
  ASSUME IInv, NEW s \in setup.subModels, Write(s)
  PROVE  IInv'
<1> DEFINE j == Call(s).input
<1>1. /\ setup' = setup /\ accesses' = accesses /\ tcur' = tcur /\ signal' = signal
      /\ master' = master /\ running' = running /\ pos' = [pos EXCEPT ![s] = @ + 1]
      /\ channel' = [channel EXCEPT ![j].written = @ + 1, ![j].v = tcur[s]]
      /\ CanRun(s) /\ Accessing(s) /\ Call(s).op = "write" /\ ~Channel(j)!Pending
  BY DEF Write
<1>2. TypeOK /\ ThreadsInv
  BY DEF IInv
<1>3. channel' \in [Inputs -> [written : Nat, reads : Nat, v : Int]] /\ signal' \in [Inputs -> Int]
  <2> HIDE DEF j
  <2> DEFINE E == [written : Nat, reads : Nat, v : Int]
  <2>1. tcur[s] \in Int /\ channel \in [Inputs -> E] /\ signal \in [Inputs -> Int]
    BY <1>2 DEF TypeOK
  <2>2. channel' = [channel EXCEPT ![j] = [[channel[j] EXCEPT !.written = @ + 1] EXCEPT !.v = tcur[s]]]
    BY <1>1, <2>1
  <2>3. \A e \in E : [[e EXCEPT !.written = @ + 1] EXCEPT !.v = tcur[s]] \in E
    <3>1. \A e \in E : [e EXCEPT !.written = @ + 1] \in E
      OBVIOUS
    <3>2. \A e \in E : \A t \in Int : [e EXCEPT !.v = t] \in E
      OBVIOUS
    <3> HIDE DEF E
    <3> QED
      BY <2>1, <3>1, <3>2
  <2> HIDE DEF E
  <2>4. channel' \in [Inputs -> E]
    BY <2>1, <2>2, <2>3
  <2> QED
    BY <1>1, <2>1, <2>4 DEF E
<1>4. TypeOK' /\ ThreadsInv' /\ MoreSteps(s)
  BY <1>1, <1>3, CallFrame
<1>5. ASSUME OneToOne', NEW i \in Inputs' PROVE InputInv(i)'
  <2>1. i \in Inputs /\ InputInv(i) /\ OneToOne /\ setup \in Setups /\ Source(i)' = Source(i)
    BY <1>1, <1>2, <1>5, SetupFrame DEF IInv, TypeOK
  <2>2. i[1] \in setup.subModels /\ Source(i)[1] \in setup.subModels
    BY <2>1, InputFacts
  <2>3. PICK now : now = Call(s)
    OBVIOUS
  <2>4. j \in Inputs /\ now = WriteTo(j) /\ Source(j)[1] = s
    <3>1. Call(s) = accesses[s][pos[s]] /\ pos[s] \in DOMAIN accesses[s]
      BY <1>1 DEF Call, Accessing
    <3>2. PICK k \in Inputs : \/ Call(s) = WriteTo(k) /\ Source(k)[1] = s
                              \/ Call(s) = ReadFrom(k) /\ k[1] = s
      BY <1>1, <2>1, <3>1, ThreadFacts
    <3>3. Call(s) = WriteTo(k) /\ Source(k)[1] = s
      BY <1>1, <3>2, CallsDiffer
    <3> QED
      BY <2>3, <3>2, <3>3, CallsDiffer
  <2>5. /\ ToCome(s, now) /\ ~ToCome(s, now)'
        /\ \A t \in setup.subModels : \A call :
              t # s \/ call # now => (ToCome(t, call)' <=> ToCome(t, call))
    BY <1>1, <2>1, <2>3, CallPasses
  <2>6. ToCome(i[1], ReadFrom(i))' <=> ToCome(i[1], ReadFrom(i))
    BY <2>2, <2>4, <2>5, CallsDiffer
  <2> HIDE DEF j
  <2>7. channel'[i].reads = channel[i].reads
    BY <1>1, <1>2, <2>1, <2>4 DEF TypeOK
  <2>8. ReadsInv(i)' /\ SignalInv(i)'
    BY <1>1, <2>1, <2>6, <2>7, ReadsStay, SignalStays DEF InputInv
  <2>9. CASE i # j
    <3>1. channel'[i] = channel[i]
      BY <1>1, <1>2, <2>1, <2>4, <2>9 DEF TypeOK
    <3>2. WriteTo(i) # now
      BY <2>4, <2>9, CallsDiffer
    <3>3. \A t : t = Source(i)[1] => (ToCome(t, WriteTo(i))' <=> ToCome(t, WriteTo(i)))
      BY <2>2, <2>5, <3>2
    <3>4. WritesInv(i)' /\ SlotInv(i)'
      BY <1>1, <2>1, <3>1, <3>3, WritesStay, SlotStays DEF InputInv
    <3> QED
      BY <2>8, <3>4 DEF InputInv
  <2>10. CASE i = j
    <3> DEFINE w == channel[i].written
    <3>1. /\ channel'[i].written = w + 1 /\ channel'[i].v = tcur[s] /\ w \in Nat
          /\ channel[i].reads \in Nat
      BY <1>1, <1>2, <2>1, <2>10 DEF TypeOK
    <3>2. Source(i)[1] = s /\ now = WriteTo(i)
      BY <2>4, <2>10
    <3>3. w * Step(s) = tcur[s]
      BY <1>4, <2>1, <2>5, <3>1, <3>2, StepFacts, <1>2 DEF InputInv, WritesInv, TypeOK
    <3>4. Step(s) \in Nat /\ tcur[s] \in Int
      BY <1>2, <2>1, StepFacts DEF TypeOK
    <3> HIDE DEF w
    <3>5. (w + 1) * Step(s) = tcur[s] + Step(s) /\ (w + 1) - 1 = w
      BY <3>1, <3>3, <3>4
    <3>6. WritesInv(i)'
      <4>1. ~ToCome(s, WriteTo(i))'
        BY <2>5, <3>2
      <4> QED
        BY <1>1, <2>1, <3>1, <3>2, <3>5, <4>1, SetupFrame DEF WritesInv
    <3>7. \A q \in 0..(w - 1) : ~Channel(i)!IsDue(channel[i].reads, q)
      BY <1>1, <2>10 DEF Channel!Pending, w
    <3>8. \A q \in 0..((w + 1) - 2) : ~Channel(i)!IsDue(channel[i].reads, q)
      BY <3>1, <3>7
    <3>9. SlotInv(i)'
      <4>1. \A q \in 0..(channel'[i].written - 2) : ~(Channel(i)!IsDue(channel[i].reads, q))'
        BY <1>1, <2>7, <3>1, <3>8, SetupFrame DEF Channel!IsDue
      <4> QED
        BY <1>1, <2>1, <3>1, <3>2, <3>3, <3>5, <4>1, SetupFrame DEF SlotInv
    <3> QED
      BY <2>8, <3>6, <3>9 DEF InputInv
  <2> QED
    BY <2>9, <2>10
<1> QED
  BY <1>4, <1>5 DEF IInv
LEMMA ReadInv ==
  ASSUME IInv, NEW s \in setup.subModels, Read(s)
  PROVE  IInv'
<1> DEFINE j == Call(s).input
<1>1. /\ setup' = setup /\ accesses' = accesses /\ tcur' = tcur
      /\ master' = master /\ running' = running /\ pos' = [pos EXCEPT ![s] = @ + 1]
      /\ channel' = [channel EXCEPT ![j].reads = @ + 1]
      /\ signal' = IF Accepted(j, channel[j].v) THEN [signal EXCEPT ![j] = channel[j].v] ELSE signal
      /\ CanRun(s) /\ Accessing(s) /\ Call(s).op = "read" /\ Channel(j)!Pending
  BY DEF Read
<1>2. TypeOK /\ ThreadsInv
  BY DEF IInv
<1>3. channel' \in [Inputs -> [written : Nat, reads : Nat, v : Int]] /\ signal' \in [Inputs -> Int]
  <2> HIDE DEF j
  <2> DEFINE E == [written : Nat, reads : Nat, v : Int]
  <2>1. channel \in [Inputs -> E] /\ signal \in [Inputs -> Int]
    BY <1>2 DEF TypeOK
  <2>2. \A e \in E : [e EXCEPT !.reads = @ + 1] \in E /\ e.v \in Int
    OBVIOUS
  <2> HIDE DEF E
  <2>3. channel' = [channel EXCEPT ![j] = [channel[j] EXCEPT !.reads = @ + 1]]
    BY <1>1, <2>1
  <2>4. channel' \in [Inputs -> E]
    BY <2>1, <2>2, <2>3
  <2>5. j \in Inputs => channel[j].v \in Int
    BY <2>1, <2>2
  <2>6. signal' \in [Inputs -> Int]
    BY <1>1, <2>1, <2>5
  <2> QED
    BY <2>4, <2>6 DEF E
<1>4. TypeOK' /\ ThreadsInv' /\ MoreSteps(s)
  BY <1>1, <1>3, CallFrame
<1>5. ASSUME OneToOne', NEW i \in Inputs' PROVE InputInv(i)'
  <2>1. /\ i \in Inputs /\ InputInv(i) /\ OneToOne /\ setup \in Setups
        /\ Source(i)' = Source(i) /\ Divisible(i)
    BY <1>1, <1>2, <1>5, SetupFrame DEF IInv, TypeOK, ThreadsInv, CanRun
  <2>2. i[1] \in setup.subModels /\ Source(i)[1] \in setup.subModels
    BY <2>1, InputFacts
  <2>3. PICK now : now = Call(s)
    OBVIOUS
  <2>4. j \in Inputs /\ now = ReadFrom(j) /\ j[1] = s
    <3>1. Call(s) = accesses[s][pos[s]] /\ pos[s] \in DOMAIN accesses[s]
      BY <1>1 DEF Call, Accessing
    <3>2. PICK k \in Inputs : \/ Call(s) = WriteTo(k) /\ Source(k)[1] = s
                              \/ Call(s) = ReadFrom(k) /\ k[1] = s
      BY <1>1, <2>1, <3>1, ThreadFacts
    <3>3. Call(s) = ReadFrom(k) /\ k[1] = s
      BY <1>1, <3>2, CallsDiffer
    <3> QED
      BY <2>3, <3>2, <3>3, CallsDiffer
  <2>5. /\ ToCome(s, now) /\ ~ToCome(s, now)'
        /\ \A t \in setup.subModels : \A call :
              t # s \/ call # now => (ToCome(t, call)' <=> ToCome(t, call))
    BY <1>1, <2>1, <2>3, CallPasses
  <2>6. \A t : t = Source(i)[1] => (ToCome(t, WriteTo(i))' <=> ToCome(t, WriteTo(i)))
    BY <2>2, <2>4, <2>5, CallsDiffer
  <2> HIDE DEF j
  <2>7. channel'[i].written = channel[i].written /\ channel'[i].v = channel[i].v
    BY <1>1, <1>2, <2>1, <2>4 DEF TypeOK
  <2>8. WritesInv(i)'
    BY <1>1, <2>1, <2>2, <2>6, <2>7, WritesStay DEF InputInv
  <2>9. CASE i # j
    <3>1. channel'[i] = channel[i] /\ signal'[i] = signal[i]
      BY <1>1, <1>2, <2>1, <2>4, <2>9 DEF TypeOK
    <3>2. ToCome(i[1], ReadFrom(i))' <=> ToCome(i[1], ReadFrom(i))
      BY <2>2, <2>4, <2>5, <2>9, CallsDiffer
    <3>3. ReadsInv(i)' /\ SlotInv(i)' /\ SignalInv(i)'
      BY <1>1, <2>1, <3>1, <3>2, ReadsStay, SlotStays, SignalStays DEF InputInv
    <3> QED
      BY <2>8, <3>3 DEF InputInv
  <2>10. CASE i = j
    <3> DEFINE w == channel[i].written
               r == channel[i].reads
    <3>1. channel'[i].reads = r + 1 /\ w \in Nat /\ r \in Nat
      BY <1>1, <1>2, <2>1, <2>10 DEF TypeOK
    <3>2. i[1] = s /\ now = ReadFrom(i) /\ ToCome(s, ReadFrom(i)) /\ ~ToCome(s, ReadFrom(i))'
      BY <2>4, <2>5, <2>10
    <3>3. Step(s) \in Nat /\ tcur[s] \in Int
      BY <1>2, <2>1, StepFacts DEF TypeOK
    <3>4. r * Step(s) = tcur[s]
      BY <1>4, <2>1, <3>1, <3>2, <3>3 DEF InputInv, ReadsInv
    <3>5. /\ w > 0 => channel[i].v = (w - 1) * Step(Source(i)[1])
          /\ \A q \in 0..(w - 2) : ~Channel(i)!IsDue(r, q)
      BY <2>1 DEF InputInv, SlotInv
    <3>6. \E q \in 0..(w - 1) : Channel(i)!IsDue(r, q)
      BY <1>1, <2>10 DEF Channel!Pending
    <3> HIDE DEF w, r
    <3>7. w - 1 \in Nat /\ w > 0 /\ Channel(i)!IsDue(r, w - 1)
      <4>1. PICK q \in 0..(w - 1) : Channel(i)!IsDue(r, q)
        BY <3>6
      <4>2. q = w - 1 /\ w > 0
        BY <3>1, <3>5, <4>1
      <4> QED
        BY <3>1, <4>1, <4>2
    <3>8. channel[i].v = Due(i, tcur[s])
      <4>1. Due(i, r * Step(i[1])) = (w - 1) * Step(Source(i)[1])
        BY <2>1, <3>1, <3>7, DueAtRead
      <4> QED
        BY <3>2, <3>4, <3>5, <3>7, <4>1
    <3>9. ReadsInv(i)'
      <4>1. (r + 1) * Step(s) = tcur[s] + Step(s)
        BY <3>1, <3>3, <3>4
      <4> QED
        BY <1>1, <3>1, <3>2, <4>1, SetupFrame DEF ReadsInv
    <3>10. SlotInv(i)'
      <4>1. \A q \in 0..(w - 2) : ~Channel(i)!IsDue(r + 1, q)
        <5>1. \A q \in 0..(w - 2) : q \in Nat /\ q < w - 1
          BY <3>1
        <5> QED
          BY <2>1, <3>1, <3>7, <5>1, DueOnce
      <4>2. \A q \in 0..(channel'[i].written - 2) : ~(Channel(i)!IsDue(channel[i].reads, q))'
        BY <1>1, <2>7, <3>1, <4>1, SetupFrame DEF Channel!IsDue, w
      <4> QED
        BY <1>1, <2>1, <2>7, <3>5, <4>2, SetupFrame DEF SlotInv, w
    <3>11. SignalInv(i)'
      <4>1. Accepted(i, channel[i].v) => signal'[i] = channel[i].v
        BY <1>1, <1>2, <2>1, <2>10 DEF TypeOK
      <4> QED
        BY <1>1, <3>2, <3>8, <4>1, SetupFrame DEF SignalInv
    <3> QED
      BY <2>8, <3>9, <3>10, <3>11 DEF InputInv
  <2> QED
    BY <2>9, <2>10
<1> QED
  BY <1>4, <1>5 DEF IInv
LEMMA DoStepInv ==
  ASSUME IInv, NEW s \in setup.subModels, DoStep(s)
  PROVE  IInv'
<1>1. /\ setup' = setup /\ accesses' = accesses /\ channel' = channel /\ signal' = signal
      /\ master' = master /\ running' = running /\ pos' = [pos EXCEPT ![s] = 0]
      /\ tcur' = [tcur EXCEPT ![s] = Smaller(@ + Step(s), setup.stop)]
      /\ CanRun(s) /\ pos[s] = Len(accesses[s]) + 1
  BY DEF DoStep, AccessesDone
<1>2. TypeOK /\ ThreadsInv /\ setup \in Setups
  BY DEF IInv, TypeOK
<1>3. Step(s) \in Nat /\ tcur[s] \in Int /\ setup.stop \in Int
  BY <1>2, StepFacts DEF TypeOK
<1>4. tcur'[s] = Smaller(tcur[s] + Step(s), setup.stop) /\ pos'[s] = 0
  BY <1>1, <1>2 DEF TypeOK
<1>5. TypeOK'
  <2>1. Smaller(tcur[s] + Step(s), setup.stop) \in Int
    BY <1>3 DEF Smaller
  <2> QED
    BY <1>1, <1>2, <2>1, SetupFrame DEF TypeOK
<1>6. /\ \A t \in setup.subModels : t # s => pos'[t] = pos[t] /\ tcur'[t] = tcur[t]
      /\ \A t \in setup.subModels : t # s => (MoreSteps(t)' <=> MoreSteps(t))
  BY <1>1, <1>2, SetupFrame DEF TypeOK, MoreSteps
<1>7. ThreadsInv'
  BY <1>1, <1>2, <1>4, <1>6, SetupFrame DEF ThreadsInv, CanRun
<1>8. MoreSteps(s)' => tcur'[s] = tcur[s] + Step(s)
  <2>1. MoreSteps(s)' => 10 * tcur'[s] < 10 * setup.stop - Step(s)
    BY <1>1, SetupFrame DEF MoreSteps
  <2> QED
    BY <1>3, <1>4, <2>1 DEF Smaller
<1>9. ASSUME OneToOne', NEW i \in Inputs' PROVE InputInv(i)'
  <2>1. i \in Inputs /\ InputInv(i) /\ OneToOne /\ Source(i)' = Source(i)
    BY <1>1, <1>9, SetupFrame DEF IInv
  <2>2. i[1] \in setup.subModels /\ Source(i)[1] \in setup.subModels
    BY <1>2, <2>1, InputFacts
  <2>3. \A t \in setup.subModels : t # s => \A call : ToCome(t, call)' <=> ToCome(t, call)
    BY <1>1, <1>6 DEF ToCome
  <2>4. \A call : ToCome(s, call)'
    BY <1>4 DEF ToCome
  <2>5. MoreSteps(s) /\ \A call : ~ToCome(s, call)
    <3>1. DOMAIN accesses[s] = 1..Len(accesses[s]) /\ Len(accesses[s]) \in Nat
      BY <1>1, <2>1, ThreadFacts
    <3>2. pos[s] # 0 /\ \A n \in DOMAIN accesses[s] : ~(n >= pos[s])
      BY <1>1, <3>1
    <3> QED
      BY <1>2, <3>2 DEF ThreadsInv, ToCome
  <2>6. SlotInv(i)'
    BY <1>1, <2>1, SlotStays DEF InputInv
  <2>7. WritesInv(i)'
    <3>1. CASE Source(i)[1] = s
      <4>1. channel[i].written * Step(s) = tcur[s] + Step(s)
        BY <2>1, <2>5, <3>1 DEF InputInv, WritesInv
      <4>2. MoreSteps(s)' => channel[i].written * Step(s) = tcur'[s] + 0
        BY <1>3, <1>8, <4>1
      <4> QED
        BY <1>1, <2>1, <2>4, <3>1, <4>2, SetupFrame DEF WritesInv
    <3>2. CASE Source(i)[1] # s
      <4>1. \A t : t = Source(i)[1] => (ToCome(t, WriteTo(i))' <=> ToCome(t, WriteTo(i)))
        BY <2>2, <2>3, <3>2
      <4> QED
        BY <1>1, <1>6, <2>1, <2>2, <3>2, <4>1, WritesStay DEF InputInv
    <3> QED
      BY <3>1, <3>2
  <2>8. ReadsInv(i)'
    <3>1. CASE i[1] = s
      <4>1. channel[i].reads * Step(s) = tcur[s] + Step(s)
        BY <2>1, <2>5, <3>1 DEF InputInv, ReadsInv
      <4>2. MoreSteps(s)' => channel[i].reads * Step(s) = tcur'[s] + 0
        BY <1>3, <1>8, <4>1
      <4> QED
        BY <1>1, <2>4, <3>1, <4>2, SetupFrame DEF ReadsInv
    <3>2. CASE i[1] # s
      BY <1>1, <1>6, <2>1, <2>2, <2>3, <3>2, ReadsStay DEF InputInv
    <3> QED
      BY <3>1, <3>2
  <2>9. SignalInv(i)'
    <3>1. CASE i[1] = s
      BY <2>4, <3>1 DEF SignalInv
    <3>2. CASE i[1] # s
      BY <1>1, <1>6, <2>1, <2>2, <2>3, <3>2, SignalStays DEF InputInv
    <3> QED
      BY <3>1, <3>2
  <2> QED
    BY <2>6, <2>7, <2>8, <2>9 DEF InputInv
<1> QED
  BY <1>5, <1>7, <1>9 DEF IInv

LEMMA NextInv == IInv /\ [Next]_vars => IInv'
<1> SUFFICES ASSUME IInv, [Next]_vars PROVE IInv'
  OBVIOUS
<1>1. CASE Start
  BY <1>1, StartInv
<1>2. CASE ExitOnRatios \/ Join
  BY <1>2, QuietInv DEF ExitOnRatios, Join
<1>3. ASSUME NEW s \in setup.subModels, Thread(s) PROVE IInv'
  <2>1. CASE ExitOnUnconnected(s) \/ EndThread(s)
    BY <2>1, QuietInv DEF ExitOnUnconnected, EndThread, CanRun
  <2>2. CASE BeginStep(s) \/ Write(s) \/ Read(s) \/ DoStep(s)
    BY <2>2, BeginStepInv, WriteInv, ReadInv, DoStepInv
  <2> QED
    BY <1>3, <2>1, <2>2 DEF Thread
<1>4. CASE UNCHANGED vars
  BY <1>4, QuietInv DEF vars
<1> QED
  BY <1>1, <1>2, <1>3, <1>4 DEF Next, Over

(* The inductive invariant holds in every state.                           *)
THEOREM Invariance == Spec => []IInv
<1>1. IInv /\ [Next]_vars => IInv'
  BY NextInv
<1> QED
  BY <1>1, InitInv, PTL DEF Spec

(* With one connection at each output and input, every sub-model steps on  *)
(* exactly the samples that the rates prescribe, whatever the scheduling   *)
(* of the threads: threadPMRChannel, for any activation ratios.            *)
THEOREM SamplesAreDue == Spec => [](OneToOne => Coherent)
<1>1. IInv => (OneToOne => Coherent)
  <2> SUFFICES ASSUME IInv, OneToOne, NEW s \in setup.subModels, AccessesDone(s),
                      NEW i \in InputsOf(s), Accepted(i, Due(i, tcur[s]))
               PROVE  signal[i] = Due(i, tcur[s])
    BY DEF Coherent
  <2>1. i \in Inputs /\ i[1] = s /\ InputInv(i)
    BY DEF InputsOf, IInv
  <2>2. DOMAIN accesses[s] = 1..Len(accesses[s]) /\ Len(accesses[s]) \in Nat
    BY ThreadFacts DEF AccessesDone
  <2>3. ~ToCome(s, ReadFrom(i))
    <3>1. pos[s] # 0 /\ \A n \in DOMAIN accesses[s] : ~(n >= pos[s])
      BY <2>2 DEF AccessesDone
    <3> QED
      BY <3>1 DEF ToCome
  <2> QED
    BY <2>1, <2>3 DEF InputInv, SignalInv
<1> QED
  BY <1>1, Invariance, PTL
=============================================================================
