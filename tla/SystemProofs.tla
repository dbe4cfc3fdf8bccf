----------------------------- MODULE SystemProofs -----------------------------
(***************************************************************************)
(* Proofs about System for any number of models, systems, references and   *)
(* calls, whatever the trees the model of the client starts with.          *)
(***************************************************************************)
EXTENDS System, SequenceTheorems, FiniteSetTheorems, WellFoundedInduction, TLAPS

-----------------------------------------------------------------------------
(* Natural numbers. *)

(* Every set of natural numbers with an element has a least one. *)
LEMMA LeastNatural ==
  ASSUME NEW T, T \subseteq Nat, T # {}
  PROVE  \E x \in T : \A y \in T : x <= y
<1> DEFINE R == OpToRel(<, Nat)
<1>1. \A x, y \in Nat : x < y => <<x, y>> \in R
  BY DEF OpToRel
<1>2. IsWellFoundedOn(R, Nat)
  BY NatLessThanWellFounded
<1> HIDE DEF R
<1>3. PICK x \in T : \A y \in T : <<y, x>> \notin R
  BY <1>2, WFMin
<1>4. ASSUME NEW y \in T PROVE x <= y
  <2>1. x \in Nat /\ y \in Nat /\ ~(y < x)
    BY <1>1, <1>3
  <2> QED
    BY <2>1
<1> QED
  BY <1>4

(* Induction: a set of natural numbers that has 0 and, with every number,  *)
(* the next one has them all.                                              *)
LEMMA SetInduction ==
  ASSUME NEW T, 0 \in T, \A n \in Nat : n \in T => n + 1 \in T
  PROVE  Nat \subseteq T
<1> SUFFICES ASSUME Nat \ T # {} PROVE FALSE
  OBVIOUS
<1>1. PICK x \in Nat \ T : \A y \in Nat \ T : x <= y
  BY LeastNatural
<1>2. x # 0 /\ x - 1 \in Nat /\ x - 1 \in T
  BY <1>1
<1> QED
  BY <1>1, <1>2

(* Max of a set of natural numbers with a bound is its greatest element.   *)
LEMMA MaxOfNaturals ==
  ASSUME NEW n \in Nat, NEW T, T \subseteq 0..n, T # {}
  PROVE  Max(T) \in T /\ \A y \in T : y <= Max(T)
<1> DEFINE Below == {n - x : x \in T}
<1>1. \A x \in T : x \in Nat /\ n - x \in Nat
  OBVIOUS
<1>2. Below \subseteq Nat /\ Below # {}
  BY <1>1
<1>3. PICK z \in Below : \A y \in Below : z <= y
  BY <1>2, LeastNatural
<1>4. PICK m \in T : z = n - m
  OBVIOUS
<1>5. ASSUME NEW y \in T PROVE y <= m
  <2>1. n - m <= n - y
    BY <1>3, <1>4
  <2> QED
    BY <2>1, <1>1
<1> QED
  BY <1>5 DEF Max

-----------------------------------------------------------------------------
(* Lists and maps. *)

LEMMA ListIs ==
  ASSUME NEW s, IsList(s)
  PROVE  /\ Len(s) \in Nat /\ DOMAIN s = 1..Len(s)
         /\ s = [n \in 1..Len(s) |-> s[n]]
BY DEF IsList

LEMMA IsListIf ==
  ASSUME NEW n \in Nat, NEW s, s = [m \in 1..n |-> s[m]]
  PROVE  IsList(s) /\ Len(s) = n /\ DOMAIN s = 1..n
BY DEF IsList

LEMMA ListOf ==
  ASSUME NEW S, NEW s \in Seq(S)
  PROVE  /\ IsList(s) /\ Len(s) \in Nat /\ DOMAIN s = 1..Len(s)
         /\ \A n \in DOMAIN s : s[n] \in S
BY IsListIf

LEMMA AppendList ==
  ASSUME NEW s, IsList(s), NEW x
  PROVE  /\ IsList(Append(s, x)) /\ DOMAIN Append(s, x) = 1..(Len(s) + 1)
         /\ Len(s) \in Nat /\ DOMAIN s = 1..Len(s)
         /\ \A n \in 1..Len(s) : Append(s, x)[n] = s[n]
         /\ Append(s, x)[Len(s) + 1] = x
<1> DEFINE S == {s[n] : n \in DOMAIN s} \cup {x}
<1>1. s \in Seq(S) /\ Len(s) \in Nat /\ DOMAIN s = 1..Len(s)
  BY ListIs
<1>2. x \in S
  OBVIOUS
<1> HIDE DEF S
<1>3. /\ Append(s, x) \in Seq(S) /\ Len(Append(s, x)) = Len(s) + 1
      /\ \A n \in 1..Len(s) : Append(s, x)[n] = s[n]
      /\ Append(s, x)[Len(s) + 1] = x
  BY <1>1, <1>2, AppendProperties
<1> QED
  BY <1>1, <1>3, ListOf

LEMMA RemoveAtIs ==
  ASSUME NEW S, NEW s \in Seq(S), NEW i \in 1..Len(s)
  PROVE  RemoveAt(s, i) \in Seq(S)
<1> DEFINE front == SubSeq(s, 1, i - 1)
           back == SubSeq(s, i + 1, Len(s))
<1>1. Len(s) \in Nat /\ i \in Nat
  OBVIOUS
<1>2. front \in Seq(S)
  BY <1>1
<1>3. back \in Seq(S)
  BY <1>1
<1> HIDE DEF front, back
<1>4. front \o back \in Seq(S)
  BY <1>2, <1>3
<1> QED
  BY <1>4 DEF RemoveAt, front, back

LEMMA SwapRemoveIs ==
  ASSUME NEW s, IsList(s), NEW i
  PROVE  /\ IsList(SwapRemove(s, i))
         /\ DOMAIN SwapRemove(s, i) = 1..(Len(s) - 1)
         /\ \A j \in 1..(Len(s) - 1) : SwapRemove(s, i)[j] = IF j = i THEN s[Len(s)] ELSE s[j]
<1>1. Len(s) \in Nat /\ SwapRemove(s, i) = [j \in 1..(Len(s) - 1) |-> SwapRemove(s, i)[j]]
  BY ListIs DEF SwapRemove
<1>2. CASE Len(s) = 0
  <2>1. SwapRemove(s, i) = [j \in 1..0 |-> SwapRemove(s, i)[j]]
    BY <1>1, <1>2
  <2> QED
    BY <1>2, <2>1, IsListIf DEF SwapRemove
<1>3. CASE Len(s) # 0
  <2>1. Len(s) - 1 \in Nat
    BY <1>1, <1>3
  <2> QED
    BY <1>1, <2>1, IsListIf DEF SwapRemove
<1> QED
  BY <1>2, <1>3
-----------------------------------------------------------------------------
(* The registry. *)

(* Every model that is found is one of models, and its tree is sound.      *)
LEMMA FoundModel ==
  ASSUME IInv, NEW n \in DOMAIN index
  PROVE  /\ index[n] \in DOMAIN models /\ models[index[n]].cref = n
         /\ Sound(Tree(n), removed)
BY DEF IInv, Registered, Tree

(* What is sound stays so when more is lost. *)
LEMMA SoundLost ==
  ASSUME NEW t, NEW lost, Sound(t, lost), NEW lost2, lost => lost2
  PROVE  Sound(t, lost2)
BY DEF Sound

(* A model is added behind the other ones. *)
LEMMA AddModelKeeps ==
  ASSUME IInv, NEW n, NEW t, AddModel(n, t), Sound(t, removed),
         DocumentOK(file'.document), UNCHANGED <<clash, removed>>
  PROVE  IInv'
<1> DEFINE m == [cref |-> n, tree |-> t]
           last == Len(models) + 1
<1>1. n \notin DOMAIN index /\ models' = Append(models, m) /\ index' = Put(index, n, last)
  BY DEF AddModel
<1>2. /\ IsList(models') /\ DOMAIN models' = 1..last /\ last \in Nat
      /\ DOMAIN models = 1..(last - 1) /\ last \notin DOMAIN models
      /\ \A k \in DOMAIN models : k \in DOMAIN models' /\ models'[k] = models[k]
      /\ last \in DOMAIN models' /\ models'[last] = m
  BY <1>1, AppendList DEF IInv
<1>3. \A k \in DOMAIN models' : k \in DOMAIN models \/ k = last
  BY <1>2
<1>4. m.cref = n /\ m.tree = t
  OBVIOUS
<1>5. /\ DOMAIN index' = DOMAIN index \cup {n} /\ index'[n] = last
      /\ \A k \in DOMAIN index : index'[k] = index[k]
  BY <1>1 DEF Put
<1> HIDE DEF m, last
<1>6. \A k \in DOMAIN models' : /\ models'[k] = [cref |-> models'[k].cref, tree |-> models'[k].tree]
                                /\ Sound(models'[k].tree, removed')
  BY <1>2, <1>3, <1>4 DEF IInv, m
<1>7. \A k \in DOMAIN index' : index'[k] \in DOMAIN models' /\ models'[index'[k]].cref = k
  BY <1>2, <1>4, <1>5 DEF IInv, Registered
<1>8. ASSUME ~clash', NEW k \in DOMAIN models'
      PROVE  models'[k].cref \in DOMAIN index' /\ index'[models'[k].cref] = k
  BY <1>2, <1>3, <1>4, <1>5, <1>8 DEF IInv, Registered
<1>9. Registered'
  BY <1>7, <1>8 DEF Registered
<1> QED
  BY <1>2, <1>6, <1>9 DEF IInv

(* The trees of the models after a change of one of them. *)
LEMMA ChangeKeeps ==
  ASSUME IInv, NEW n \in DOMAIN index, NEW t, Change(n, t),
         removed' \in BOOLEAN, removed => removed', Sound(t, removed')
  PROVE  IInv'
<1> DEFINE i == index[n]
<1>1. /\ models' = [models EXCEPT ![i].tree = t] /\ UNCHANGED <<index, file, clash>>
      /\ i \in DOMAIN models
  BY FoundModel DEF Change
<1>2. /\ DOMAIN models' = DOMAIN models
      /\ models' = [k \in 1..Len(models) |-> models'[k]] /\ Len(models) \in Nat
  BY <1>1, ListIs DEF IInv
<1>3. IsList(models')
  BY <1>2, IsListIf
<1>4. \A k \in DOMAIN models : models[k] = [cref |-> models[k].cref, tree |-> models[k].tree]
  BY DEF IInv
<1>5. \A k \in DOMAIN models : k # i => models'[k] = models[k]
  BY <1>1
<1>6. models'[i] = [cref |-> models[i].cref, tree |-> t]
  <2>1. models'[i] = [models[i] EXCEPT !.tree = t]
    BY <1>1
  <2>2. models[i] = [cref |-> models[i].cref, tree |-> models[i].tree]
    BY <1>1, <1>4
  <2> QED
    BY <2>1, <2>2
<1> HIDE DEF i
<1>7. \A k \in DOMAIN models' : models'[k].cref = models[k].cref
  BY <1>2, <1>5, <1>6
<1>8. \A k \in DOMAIN models' : /\ models'[k] = [cref |-> models'[k].cref, tree |-> models'[k].tree]
                                /\ Sound(models'[k].tree, removed')
  <2> TAKE k \in DOMAIN models'
  <2>1. CASE k = i
    BY <1>6, <2>1
  <2>2. CASE k # i
    BY <1>2, <1>5, <2>2, SoundLost DEF IInv
  <2> QED
    BY <2>1, <2>2
<1>9. Registered'
  BY <1>1, <1>2, <1>7 DEF IInv, Registered
<1> QED
  BY <1>1, <1>3, <1>8, <1>9 DEF IInv

LEMMA RenameModelKeeps ==
  ASSUME IInv, RenameModel
  PROVE  IInv'
<1>1. PICK n \in DOMAIN index : \E m \in Names \ {n} :
        /\ models' = [models EXCEPT ![index[n]].cref = m]
        /\ index' = Put(Without(index, {n}), m, index[n])
        /\ clash' = (clash \/ m \in DOMAIN index)
  BY DEF RenameModel
<1>2. PICK m \in Names \ {n} :
        /\ models' = [models EXCEPT ![index[n]].cref = m]
        /\ index' = Put(Without(index, {n}), m, index[n])
        /\ clash' = (clash \/ m \in DOMAIN index)
  BY <1>1
<1>3. UNCHANGED <<file, removed>>
  BY DEF RenameModel
<1> DEFINE i == index[n]
<1>4. i \in DOMAIN models /\ models[i].cref = n
  BY FoundModel
<1>5. /\ DOMAIN models' = DOMAIN models
      /\ models' = [k \in 1..Len(models) |-> models'[k]] /\ Len(models) \in Nat
  BY <1>2, ListIs DEF IInv
<1>6. IsList(models')
  BY <1>5, IsListIf
<1>7. \A k \in DOMAIN models : k # i => models'[k] = models[k]
  BY <1>2
<1>8. models'[i] = [cref |-> m, tree |-> models[i].tree]
  <2>1. models'[i] = [models[i] EXCEPT !.cref = m]
    BY <1>2, <1>4
  <2>2. models[i] = [cref |-> models[i].cref, tree |-> models[i].tree]
    BY <1>4 DEF IInv
  <2> QED
    BY <2>1, <2>2
<1>9. /\ DOMAIN index' = (DOMAIN index \ {n}) \cup {m} /\ index'[m] = i
      /\ \A k \in DOMAIN index \ {n, m} : index'[k] = index[k]
  BY <1>2 DEF Put, Without, Restrict
<1> HIDE DEF i
<1>10. \A k \in DOMAIN models' : /\ models'[k] = [cref |-> models'[k].cref, tree |-> models'[k].tree]
                                 /\ Sound(models'[k].tree, removed')
  BY <1>3, <1>5, <1>7, <1>8 DEF IInv
<1>11. ASSUME NEW k \in DOMAIN index'
       PROVE  index'[k] \in DOMAIN models' /\ models'[index'[k]].cref = k
  <2>1. CASE k = m
    BY <1>4, <1>5, <1>8, <1>9, <2>1
  <2>2. CASE k # m
    <3>1. k \in DOMAIN index /\ k # n /\ index'[k] = index[k]
      BY <1>9, <2>2
    <3>2. index[k] \in DOMAIN models /\ models[index[k]].cref = k
      BY <3>1 DEF IInv, Registered
    <3> QED
      BY <1>4, <1>5, <1>7, <3>1, <3>2
  <2> QED
    BY <2>1, <2>2
<1>12. ASSUME ~clash', NEW k \in DOMAIN models'
       PROVE  models'[k].cref \in DOMAIN index' /\ index'[models'[k].cref] = k
  <2>1. ~clash /\ m \notin DOMAIN index
    BY <1>2, <1>12
  <2>2. models[k].cref \in DOMAIN index /\ index[models[k].cref] = k
    BY <1>5, <2>1 DEF IInv, Registered
  <2>3. CASE k = i
    BY <1>8, <1>9, <2>3
  <2>4. CASE k # i
    <3>1. models[k].cref # n /\ models[k].cref # m
      BY <2>1, <2>2, <2>4 DEF i
    <3> QED
      BY <1>5, <1>7, <1>9, <2>2, <2>4, <3>1
  <2> QED
    BY <2>3, <2>4
<1>13. Registered'
  BY <1>11, <1>12 DEF Registered
<1> QED
  BY <1>3, <1>6, <1>10, <1>13 DEF IInv

(* The last model takes the position of the one that is deleted. *)
LEMMA DeleteModelKeeps ==
  ASSUME IInv, DeleteModel
  PROVE  IInv'
<1>1. PICK n \in DOMAIN index :
        /\ models' = SwapRemove(models, index[n])
        /\ index' = Without(Reindexed(SwapRemove(models, index[n]), index[n]), {n})
  BY DEF DeleteModel
<1>2. UNCHANGED <<file, clash, removed>>
  BY DEF DeleteModel
<1> DEFINE i == index[n]
           last == Len(models)
<1>3. i \in DOMAIN models /\ models[i].cref = n
  BY FoundModel
<1>4. last \in Nat /\ DOMAIN models = 1..last
  BY ListIs DEF IInv
<1>5. /\ IsList(models') /\ DOMAIN models' = 1..(last - 1)
      /\ \A k \in 1..(last - 1) : models'[k] = IF k = i THEN models[last] ELSE models[k]
  BY <1>1, SwapRemoveIs DEF IInv
<1>6. \A k \in DOMAIN models' : k \in DOMAIN models /\ k # last /\ last \in DOMAIN models
  BY <1>4, <1>5
<1>7. \A k \in DOMAIN models : k \in DOMAIN models' \/ k = last
  BY <1>4, <1>5
<1> DEFINE moved == models'[i].cref
<1>8. /\ DOMAIN index' = (IF i \in DOMAIN models' THEN DOMAIN index \cup {moved} ELSE DOMAIN index) \ {n}
      /\ \A k \in DOMAIN index' :
           index'[k] = IF i \in DOMAIN models' /\ k = moved THEN i ELSE index[k]
  BY <1>1 DEF Reindexed, Put, Without, Restrict
<1> HIDE DEF i, last, moved
<1>9. i \in DOMAIN models' => models'[i] = models[last] /\ moved = models[last].cref /\ i # last
  BY <1>5, <1>6 DEF moved
<1>10. \A k \in DOMAIN models' : k # i => models'[k] = models[k]
  BY <1>5
<1>11. \A k \in DOMAIN models' : /\ models'[k] = [cref |-> models'[k].cref, tree |-> models'[k].tree]
                                 /\ Sound(models'[k].tree, removed')
  <2> TAKE k \in DOMAIN models'
  <2>1. models'[k] \in {models[j] : j \in DOMAIN models}
    BY <1>6, <1>9, <1>10
  <2> QED
    BY <1>2, <2>1 DEF IInv
<1>12. ASSUME NEW k \in DOMAIN index'
       PROVE  index'[k] \in DOMAIN models' /\ models'[index'[k]].cref = k
  <2>1. CASE i \in DOMAIN models' /\ k = moved
    BY <1>8, <1>9, <2>1
  <2>2. CASE ~(i \in DOMAIN models' /\ k = moved)
    <3>1. k \in DOMAIN index /\ k # n /\ index'[k] = index[k]
      BY <1>8, <2>2
    <3>2. index[k] \in DOMAIN models /\ models[index[k]].cref = k
      BY <3>1 DEF IInv, Registered
    <3>3. index[k] # i
      BY <1>3, <3>1, <3>2 DEF i
    <3>4. index[k] # last
      <4> SUFFICES ASSUME index[k] = last PROVE FALSE
        OBVIOUS
      <4>1. i \in DOMAIN models'
        BY <1>3, <1>7, <3>3 DEF i
      <4> QED
        BY <1>9, <2>2, <3>2, <4>1
    <3> QED
      BY <1>7, <1>10, <3>1, <3>2, <3>3, <3>4
  <2> QED
    BY <2>1, <2>2
<1>13. ASSUME ~clash', NEW k \in DOMAIN models'
       PROVE  models'[k].cref \in DOMAIN index' /\ index'[models'[k].cref] = k
  <2>1. \A j \in DOMAIN models : models[j].cref \in DOMAIN index /\ index[models[j].cref] = j
    BY <1>2, <1>13 DEF IInv, Registered
  <2>2. k \in DOMAIN models /\ last \in DOMAIN models /\ k # last
    BY <1>6
  <2>3. CASE k = i
    <3>1. models[last].cref # n
      BY <1>9, <2>1, <2>2, <2>3 DEF i
    <3> QED
      BY <1>8, <1>9, <2>1, <2>2, <2>3, <3>1
  <2>4. CASE k # i
    <3>1. models[k].cref # n /\ models[k].cref # models[last].cref
      BY <2>1, <2>2, <2>4 DEF i
    <3>2. models'[k].cref = models[k].cref /\ models[k].cref \in DOMAIN index /\ index[models[k].cref] = k
      BY <1>10, <2>1, <2>2, <2>4
    <3>3. ~(i \in DOMAIN models' /\ models[k].cref = moved)
      BY <1>9, <3>1
    <3> QED
      BY <1>8, <3>1, <3>2, <3>3
  <2> QED
    BY <2>3, <2>4
<1>14. Registered'
  BY <1>12, <1>13 DEF Registered
<1> QED
  BY <1>2, <1>5, <1>11, <1>14 DEF IInv
-----------------------------------------------------------------------------
(* Trees. *)

(* A system with another field.                                            *)
LEMMA WithField ==
  ASSUME NEW s, SystemOK(s), NEW v
  PROVE  /\ [s EXCEPT !.connectors = v] =
              [type |-> s.type, connectors |-> v, components |-> s.components,
               connections |-> s.connections, buses |-> s.buses, tlmbuses |-> s.tlmbuses]
         /\ [s EXCEPT !.components = v] =
              [type |-> s.type, connectors |-> s.connectors, components |-> v,
               connections |-> s.connections, buses |-> s.buses, tlmbuses |-> s.tlmbuses]
         /\ [s EXCEPT !.connections = v] =
              [type |-> s.type, connectors |-> s.connectors, components |-> s.components,
               connections |-> v, buses |-> s.buses, tlmbuses |-> s.tlmbuses]
         /\ [s EXCEPT !.buses = v] =
              [type |-> s.type, connectors |-> s.connectors, components |-> s.components,
               connections |-> s.connections, buses |-> v, tlmbuses |-> s.tlmbuses]
         /\ [s EXCEPT !.tlmbuses = v] =
              [type |-> s.type, connectors |-> s.connectors, components |-> s.components,
               connections |-> s.connections, buses |-> s.buses, tlmbuses |-> v]
<1>1. s = [type |-> s.type, connectors |-> s.connectors, components |-> s.components,
           connections |-> s.connections, buses |-> s.buses, tlmbuses |-> s.tlmbuses]
  BY DEF SystemOK
<1>2. DOMAIN s = {"type", "connectors", "components", "connections", "buses", "tlmbuses"}
  BY <1>1
<1> QED
  BY <1>1, <1>2

(* A tree with another system at a path that it has.                       *)
LEMMA WithSystem ==
  ASSUME NEW t, TreeOK(t), NEW q \in DOMAIN t, NEW s, SystemOK(s)
  PROVE  LET u == [t EXCEPT ![q] = s] IN
           /\ TreeOK(u) /\ DOMAIN u = DOMAIN t /\ u[q] = s
           /\ \A p \in DOMAIN t \ {q} : u[p] = t[p]
BY DEF TreeOK

(* How far a reference leads. *)
LEMMA ThroughIs ==
  ASSUME NEW t, TreeOK(t), NEW p \in DOMAIN t, NEW c \in Refs
  PROVE  /\ Through(t, p, c) \in 0..Len(c) /\ Len(c) \in Nat
         /\ Into(t, p, c) \in DOMAIN t
         /\ Rest(t, p, c) \in Refs
         /\ \A k \in 0..Len(c) : p \o SubSeq(c, 1, k) \in DOMAIN t => k <= Through(t, p, c)
<1> DEFINE T == {k \in 0..Len(c) : p \o SubSeq(c, 1, k) \in DOMAIN t}
<1>1. Len(c) \in Nat /\ p \in Refs
  BY DEF Refs, TreeOK
<1>2. SubSeq(c, 1, 0) = << >> /\ p \o << >> = p
  BY <1>1 DEF Refs
<1>3. 0 \in T
  <2>1. p \o SubSeq(c, 1, 0) \in DOMAIN t
    BY <1>2
  <2> QED
    BY <1>1, <2>1
<1>4. Max(T) \in T /\ \A k \in T : k <= Max(T)
  BY <1>1, <1>3, MaxOfNaturals
<1>5. Through(t, p, c) = Max(T)
  BY DEF Through
<1> HIDE DEF T
<1>6. Through(t, p, c) \in 0..Len(c) /\ Into(t, p, c) \in DOMAIN t
  BY <1>4, <1>5 DEF T, Into
<1>7. Rest(t, p, c) \in Refs
  BY <1>1, <1>6 DEF Refs, Rest
<1> QED
  BY <1>1, <1>4, <1>5, <1>6, <1>7 DEF T

(* How far two references lead together. *)
LEMMA CommonIs ==
  ASSUME NEW t, TreeOK(t), NEW p \in DOMAIN t, NEW a \in Refs, NEW b \in Refs
  PROVE  LET k == Common(t, p, a, b) IN
           /\ k \in Nat /\ k <= Len(a) /\ k <= Len(b)
           /\ p \o SubSeq(a, 1, k) \in DOMAIN t
           /\ SubSeq(a, k + 1, Len(a)) \in Refs /\ SubSeq(b, k + 1, Len(b)) \in Refs
<1> DEFINE least == Min({Len(a), Len(b)})
           T == {k \in 0..least : SubSeq(a, 1, k) = SubSeq(b, 1, k) /\ p \o SubSeq(a, 1, k) \in DOMAIN t}
<1>1. Len(a) \in Nat /\ Len(b) \in Nat /\ p \in Refs
  BY DEF Refs, TreeOK
<1>2. least \in Nat /\ least <= Len(a) /\ least <= Len(b)
  <2>1. \E x \in {Len(a), Len(b)} : \A y \in {Len(a), Len(b)} : x <= y
    BY <1>1, LeastNatural
  <2> QED
    BY <1>1, <2>1 DEF Min
<1> HIDE DEF least
<1>3. SubSeq(a, 1, 0) = << >> /\ SubSeq(b, 1, 0) = << >> /\ p \o << >> = p
  BY <1>1 DEF Refs
<1>4. 0 \in T
  <2>1. SubSeq(a, 1, 0) = SubSeq(b, 1, 0) /\ p \o SubSeq(a, 1, 0) \in DOMAIN t
    BY <1>3
  <2> QED
    BY <1>2, <2>1
<1>5. Max(T) \in T
  BY <1>2, <1>4, MaxOfNaturals
<1>6. Common(t, p, a, b) = Max(T)
  BY DEF Common, least
<1> DEFINE k == Common(t, p, a, b)
<1>7. k \in 0..least /\ p \o SubSeq(a, 1, k) \in DOMAIN t
  BY <1>5, <1>6
<1> HIDE DEF T, k
<1>8. k \in Nat /\ k <= Len(a) /\ k <= Len(b)
  BY <1>1, <1>2, <1>7
<1>9. SubSeq(a, k + 1, Len(a)) \in Refs /\ SubSeq(b, k + 1, Len(b)) \in Refs
  BY <1>1, <1>8 DEF Refs
<1> QED
  BY <1>7, <1>8, <1>9 DEF k

(* Two trees with the same names: the same references lead to the same     *)
(* connectors.                                                             *)
Similar(t, u) ==
  /\ DOMAIN u = DOMAIN t
  /\ \A p \in DOMAIN t : /\ u[p].connectors = t[p].connectors /\ u[p].components = t[p].components
                         /\ u[p].type = t[p].type

LEMMA SimilarNames ==
  ASSUME NEW t, TreeOK(t), NEW u, Similar(t, u)
  PROVE  /\ Hides(u) <=> Hides(t)
         /\ \A q \in DOMAIN t, c \in Refs : GetConnector(u, q, c) = GetConnector(t, q, c)
<1>1. Hides(u) <=> Hides(t)
  BY DEF Similar, Hides, HasSystem
<1>2. ASSUME NEW q \in DOMAIN t, NEW c \in Refs
      PROVE  GetConnector(u, q, c) = GetConnector(t, q, c)
  <2>1. Into(u, q, c) = Into(t, q, c) /\ Rest(u, q, c) = Rest(t, q, c)
    BY DEF Similar, Into, Rest, Through
  <2>2. Into(t, q, c) \in DOMAIN t
    BY ThroughIs
  <2> QED
    BY <2>1, <2>2 DEF Similar, GetConnector
<1> QED
  BY <1>1, <1>2

LEMMA SimilarAccepts ==
  ASSUME NEW t, TreeOK(t), NEW u, Similar(t, u), NEW q \in DOMAIN t, NEW e \in Connection
  PROVE  Joins(u, q, e) <=> Joins(t, q, e)
<1>1. e.a \in Refs /\ e.b \in Refs
  BY DEF Connection
<1>2. GetConnector(u, q, e.a) = GetConnector(t, q, e.a) /\ GetConnector(u, q, e.b) = GetConnector(t, q, e.b)
  BY <1>1, SimilarNames
<1> QED
  BY <1>2 DEF Joins

(* What changes neither a name nor a connection.                           *)
LEMMA SimilarSound ==
  ASSUME NEW t, NEW lost, Sound(t, lost), NEW u, TreeOK(u), Similar(t, u),
         \A p \in DOMAIN t : u[p].connections = t[p].connections
  PROVE  Sound(u, lost)
<1>1. TreeOK(t) /\ DOMAIN u = DOMAIN t
  BY DEF Sound, Similar
<1>2. \A p \in DOMAIN u : Driven(u[p].connections)
  BY <1>1 DEF Sound
<1>3. ASSUME ~lost, ~Hides(u), NEW p \in DOMAIN u PROVE AcceptedIn(u, p)
  <2>1. AcceptedIn(t, p)
    BY <1>1, <1>3, SimilarNames DEF Sound
  <2>2. \A n \in DOMAIN t[p].connections : t[p].connections[n] \in Connection
    BY <1>1, <1>3, ListOf DEF TreeOK, SystemOK
  <2> QED
    BY <1>1, <1>3, <2>1, <2>2, SimilarAccepts DEF AcceptedIn
<1> QED
  BY <1>2, <1>3 DEF Sound
-----------------------------------------------------------------------------
(* Buses. *)

LEMMA MappedList ==
  ASSUME NEW s, IsList(s), NEW v, v = [n \in DOMAIN s |-> v[n]]
  PROVE  IsList(v) /\ DOMAIN v = DOMAIN s /\ Len(v) = Len(s)
BY ListIs, IsListIf

LEMMA BusesSound ==
  ASSUME NEW t, NEW lost, Sound(t, lost), NEW q \in DOMAIN t, NEW v \in Seq(Bus)
  PROVE  Sound([t EXCEPT ![q].buses = v], lost) /\ Similar(t, [t EXCEPT ![q].buses = v])
<1> DEFINE s == [t[q] EXCEPT !.buses = v]
           u == [t EXCEPT ![q] = s]
<1>1. TreeOK(t) /\ SystemOK(t[q])
  BY DEF Sound, TreeOK
<1>2. s = [type |-> t[q].type, connectors |-> t[q].connectors, components |-> t[q].components,
           connections |-> t[q].connections, buses |-> v, tlmbuses |-> t[q].tlmbuses]
  BY <1>1, WithField
<1>3. SystemOK(s)
  BY <1>1, <1>2 DEF SystemOK
<1> HIDE DEF s
<1>4. TreeOK(u) /\ DOMAIN u = DOMAIN t /\ u[q] = s /\ \A p \in DOMAIN t \ {q} : u[p] = t[p]
  BY <1>1, <1>3, WithSystem
<1> HIDE DEF u
<1>5. Similar(t, u) /\ \A p \in DOMAIN t : u[p].connections = t[p].connections
  BY <1>2, <1>4 DEF Similar
<1>6. Sound(u, lost)
  BY <1>4, <1>5, SimilarSound
<1> QED
  BY <1>5, <1>6 DEF u, s

LEMMA TLMBusesSound ==
  ASSUME NEW t, NEW lost, Sound(t, lost), NEW q \in DOMAIN t, NEW v, IsList(v),
         \A n \in DOMAIN v : TLMBusOK(v[n])
  PROVE  /\ Sound([t EXCEPT ![q].tlmbuses = v], lost)
         /\ Similar(t, [t EXCEPT ![q].tlmbuses = v])
<1> DEFINE s == [t[q] EXCEPT !.tlmbuses = v]
           u == [t EXCEPT ![q] = s]
<1>1. TreeOK(t) /\ SystemOK(t[q])
  BY DEF Sound, TreeOK
<1>2. s = [type |-> t[q].type, connectors |-> t[q].connectors, components |-> t[q].components,
           connections |-> t[q].connections, buses |-> t[q].buses, tlmbuses |-> v]
  BY <1>1, WithField
<1>3. SystemOK(s)
  BY <1>1, <1>2 DEF SystemOK
<1> HIDE DEF s
<1>4. TreeOK(u) /\ DOMAIN u = DOMAIN t /\ u[q] = s /\ \A p \in DOMAIN t \ {q} : u[p] = t[p]
  BY <1>1, <1>3, WithSystem
<1> HIDE DEF u
<1>5. Similar(t, u) /\ \A p \in DOMAIN t : u[p].connections = t[p].connections
  BY <1>2, <1>4 DEF Similar
<1>6. Sound(u, lost)
  BY <1>4, <1>5, SimilarSound
<1> QED
  BY <1>5, <1>6 DEF u, s

(* The buses and TLM buses of the system at a path. *)
LEMMA BusesOf ==
  ASSUME NEW t, NEW lost, Sound(t, lost), NEW q \in DOMAIN t
  PROVE  /\ t[q].buses \in Seq(Bus) /\ IsList(t[q].tlmbuses)
         /\ \A n \in DOMAIN t[q].tlmbuses : TLMBusOK(t[q].tlmbuses[n])
         /\ t[q].connections \in Seq(Connection)
BY DEF Sound, TreeOK, SystemOK

LEMMA AddBusSound ==
  ASSUME NEW t, NEW lost, Sound(t, lost), NEW p \in DOMAIN t, NEW c \in Refs \ {<< >>}
  PROVE  Sound(AddBus(t, p, c), lost) /\ Similar(t, AddBus(t, p, c))
<1> DEFINE q == Into(t, p, c)
           bus == [name |-> Last(c), signals |-> << >>]
           v == Append(t[q].buses, bus)
<1>1. q \in DOMAIN t
  BY ThroughIs DEF Sound
<1>2. Last(c) \in STRING
  BY DEF Refs, Last
<1>3. bus \in Bus
  BY <1>2 DEF Bus, Refs
<1> HIDE DEF bus
<1>4. v \in Seq(Bus)
  BY <1>1, <1>3, BusesOf, AppendProperties
<1> HIDE DEF v
<1>5. Sound([t EXCEPT ![q].buses = v], lost) /\ Similar(t, [t EXCEPT ![q].buses = v])
  BY <1>1, <1>4, BusesSound
<1> QED
  BY <1>5 DEF AddBus, v, bus, Similar

LEMMA AddTLMBusSound ==
  ASSUME NEW t, NEW lost, Sound(t, lost), NEW p \in DOMAIN t, NEW c \in Refs \ {<< >>}
  PROVE  Sound(AddTLMBus(t, p, c), lost) /\ Similar(t, AddTLMBus(t, p, c))
<1> DEFINE q == Into(t, p, c)
           bus == [name |-> Last(c), signals |-> NoTree, sorted |-> << >>, delay |-> 0]
           v == Append(t[q].tlmbuses, bus)
<1>1. q \in DOMAIN t
  BY ThroughIs DEF Sound
<1>2. TLMBusOK(bus)
  BY DEF TLMBusOK, NamesRefs, NoTree, Refs, Last
<1> HIDE DEF bus
<1>3. IsList(v) /\ \A n \in DOMAIN v : TLMBusOK(v[n])
  <2>1. IsList(t[q].tlmbuses) /\ \A n \in DOMAIN t[q].tlmbuses : TLMBusOK(t[q].tlmbuses[n])
    BY <1>1, BusesOf
  <2> QED
    BY <1>2, <2>1, AppendList
<1> HIDE DEF v
<1>4. Sound([t EXCEPT ![q].tlmbuses = v], lost) /\ Similar(t, [t EXCEPT ![q].tlmbuses = v])
  BY <1>1, <1>3, TLMBusesSound
<1> QED
  BY <1>4 DEF AddTLMBus, v, bus, Similar

LEMMA AddConnectorToBusSound ==
  ASSUME NEW t, NEW lost, Sound(t, lost), NEW p \in DOMAIN t, NEW b \in Refs, NEW c \in Refs
  PROVE  Sound(AddConnectorToBus(t, p, b, c), lost) /\ Similar(t, AddConnectorToBus(t, p, b, c))
<1> DEFINE q == Together(t, p, b, c)
           r == Left(t, p, b, c, b)
           signal == Left(t, p, b, c, c)
           s == t[q].buses
           v == [n \in DOMAIN s |-> IF <<s[n].name>> = r
                                    THEN [s[n] EXCEPT !.signals = Append(@, signal)] ELSE s[n]]
<1>1. q \in DOMAIN t /\ signal \in Refs
  BY CommonIs DEF Sound, Together, Left
<1>2. s \in Seq(Bus)
  BY <1>1, BusesOf
<1>3. ASSUME NEW n \in DOMAIN s PROVE v[n] \in Bus
  <2>1. s[n] \in Bus
    BY <1>2, <1>3, ListOf
  <2>2. [s[n] EXCEPT !.signals = Append(@, signal)] \in Bus
    BY <1>1, <2>1 DEF Bus
  <2> QED
    BY <2>1, <2>2
<1>4. v \in Seq(Bus)
  <2>1. DOMAIN s = 1..Len(s) /\ Len(s) \in Nat
    BY <1>2
  <2>2. v \in [1..Len(s) -> Bus]
    BY <1>3, <2>1
  <2> QED
    BY <2>1, <2>2
<1> HIDE DEF v
<1>5. Sound([t EXCEPT ![q].buses = v], lost) /\ Similar(t, [t EXCEPT ![q].buses = v])
  BY <1>1, <1>4, BusesSound
<1> QED
  BY <1>5 DEF AddConnectorToBus, OnBuses, v, Similar

LEMMA DeleteConnectorFromBusSound ==
  ASSUME NEW t, NEW lost, Sound(t, lost), NEW p \in DOMAIN t, NEW b \in Refs, NEW c \in Refs
  PROVE  Sound(DeleteConnectorFromBus(t, p, b, c), lost) /\ Similar(t, DeleteConnectorFromBus(t, p, b, c))
<1> DEFINE q == Together(t, p, b, c)
           r == Left(t, p, b, c, b)
           at(bus) == {n \in DOMAIN bus.signals : bus.signals[n] = Left(t, p, b, c, c)}
           Drop(bus) == IF at(bus) = {} THEN bus
                        ELSE [bus EXCEPT !.signals = RemoveAt(@, Min(at(bus)))]
           s == t[q].buses
           v == [n \in DOMAIN s |-> IF <<s[n].name>> = r THEN Drop(s[n]) ELSE s[n]]
<1>1. q \in DOMAIN t
  BY CommonIs DEF Sound, Together
<1>2. s \in Seq(Bus)
  BY <1>1, BusesOf
<1>3. ASSUME NEW bus \in Bus PROVE Drop(bus) \in Bus
  <2>1. CASE at(bus) = {}
    BY <1>3, <2>1
  <2>2. CASE at(bus) # {}
    <3>1. bus.signals \in Seq(Refs)
      BY DEF Bus
    <3>2. at(bus) \subseteq Nat /\ at(bus) \subseteq 1..Len(bus.signals)
      BY <3>1
    <3>3. Min(at(bus)) \in 1..Len(bus.signals)
      BY <2>2, <3>2, LeastNatural DEF Min
    <3> HIDE DEF at
    <3>4. RemoveAt(bus.signals, Min(at(bus))) \in Seq(Refs)
      BY <3>1, <3>3, RemoveAtIs
    <3> QED
      BY <2>2, <3>4 DEF Bus
  <2> QED
    BY <2>1, <2>2
<1>4. ASSUME NEW n \in DOMAIN s PROVE v[n] \in Bus
  <2>1. s[n] \in Bus
    BY <1>2, <1>4, ListOf
  <2> HIDE DEF Drop
  <2> QED
    BY <1>3, <2>1
<1>5. v \in Seq(Bus)
  <2>1. DOMAIN s = 1..Len(s) /\ Len(s) \in Nat
    BY <1>2
  <2> HIDE DEF Drop
  <2>2. v \in [1..Len(s) -> Bus]
    BY <1>4, <2>1
  <2> HIDE DEF v
  <2> QED
    BY <2>1, <2>2
<1> HIDE DEF v
<1>6. Sound([t EXCEPT ![q].buses = v], lost) /\ Similar(t, [t EXCEPT ![q].buses = v])
  BY <1>1, <1>5, BusesSound
<1> QED
  BY <1>6 DEF DeleteConnectorFromBus, OnBuses, v, Similar

(* A TLM bus with other signals, also when they are sorted. *)
LEMMA TLMBusWith ==
  ASSUME NEW bus, TLMBusOK(bus), NEW signals, \A x \in DOMAIN signals : signals[x] \in Refs
  PROVE  TLMBusOK(Sorted([bus EXCEPT !.signals = signals]))
<1> DEFINE changed == [bus EXCEPT !.signals = signals]
<1>1. /\ bus = [name |-> bus.name, signals |-> bus.signals, sorted |-> bus.sorted, delay |-> bus.delay]
      /\ bus.name \in STRING
  BY DEF TLMBusOK, NamesRefs
<1>2. changed = [name |-> bus.name, signals |-> signals, sorted |-> bus.sorted, delay |-> bus.delay]
  BY <1>1
<1> HIDE DEF changed
<1>3. TLMBusOK(changed)
  BY <1>1, <1>2 DEF TLMBusOK, NamesRefs
<1>4. ASSUME NEW sorted PROVE TLMBusOK([changed EXCEPT !.sorted = sorted])
  BY <1>1, <1>2 DEF TLMBusOK, NamesRefs
<1> QED
  BY <1>3, <1>4 DEF Sorted, changed

LEMMA AddConnectorToTLMBusSound ==
  ASSUME NEW t, NEW lost, Sound(t, lost), NEW p \in DOMAIN t, NEW b \in Refs, NEW c \in Refs, NEW type
  PROVE  /\ Sound(AddConnectorToTLMBus(t, p, b, c, type), lost)
         /\ Similar(t, AddConnectorToTLMBus(t, p, b, c, type))
<1> DEFINE q == Together(t, p, b, c)
           r == Left(t, p, b, c, c)
           Add(bus) == Sorted([bus EXCEPT !.signals = IF type \in DOMAIN @ THEN @ ELSE Put(@, type, r)])
           s == t[q].tlmbuses
           v == [n \in DOMAIN s |-> IF <<s[n].name>> = Left(t, p, b, c, b) THEN Add(s[n]) ELSE s[n]]
<1>1. q \in DOMAIN t /\ r \in Refs
  BY CommonIs DEF Sound, Together, Left
<1>2. IsList(v) /\ DOMAIN v = DOMAIN s
  BY <1>1, BusesOf, MappedList
<1>3. ASSUME NEW n \in DOMAIN s PROVE TLMBusOK(v[n])
  <2>1. TLMBusOK(s[n])
    BY <1>1, <1>3, BusesOf
  <2>2. \A x \in DOMAIN s[n].signals : s[n].signals[x] \in Refs
    BY <2>1 DEF TLMBusOK, NamesRefs
  <2> DEFINE signals == IF type \in DOMAIN s[n].signals THEN s[n].signals ELSE Put(s[n].signals, type, r)
  <2>3. \A x \in DOMAIN signals : signals[x] \in Refs
    BY <1>1, <2>2 DEF Put
  <2> HIDE DEF signals
  <2>4. TLMBusOK(Sorted([s[n] EXCEPT !.signals = signals]))
    BY <2>1, <2>3, TLMBusWith
  <2>5. Add(s[n]) = Sorted([s[n] EXCEPT !.signals = signals])
    BY DEF signals
  <2> HIDE DEF Add
  <2> QED
    BY <2>1, <2>4, <2>5
<1> HIDE DEF v
<1>4. Sound([t EXCEPT ![q].tlmbuses = v], lost) /\ Similar(t, [t EXCEPT ![q].tlmbuses = v])
  BY <1>1, <1>2, <1>3, TLMBusesSound
<1> QED
  BY <1>4 DEF AddConnectorToTLMBus, OnBuses, v, Similar

LEMMA DeleteConnectorFromTLMBusSound ==
  ASSUME NEW t, NEW lost, Sound(t, lost), NEW p \in DOMAIN t, NEW b \in Refs, NEW c \in Refs
  PROVE  Sound(DeleteConnectorFromTLMBus(t, p, b, c), lost) /\ Similar(t, DeleteConnectorFromTLMBus(t, p, b, c))
<1> DEFINE q == Together(t, p, b, c)
           at(bus) == {x \in DOMAIN bus.signals : bus.signals[x] = Left(t, p, b, c, c)}
           Drop(bus) == Sorted([bus EXCEPT !.signals = Without(@, {CHOOSE x \in at(bus) : TRUE})])
           named(s) == {n \in DOMAIN s : <<s[n].name>> = Left(t, p, b, c, b)}
           s == t[q].tlmbuses
           v == [n \in DOMAIN s |->
                   IF n \in named(s) /\ \A m \in named(s) : m <= n => at(s[m]) # {}
                   THEN Drop(s[n]) ELSE s[n]]
<1>1. q \in DOMAIN t
  BY CommonIs DEF Sound, Together
<1>2. IsList(v) /\ DOMAIN v = DOMAIN s
  BY <1>1, BusesOf, MappedList
<1>3. ASSUME NEW n \in DOMAIN s PROVE TLMBusOK(v[n])
  <2>1. TLMBusOK(s[n])
    BY <1>1, <1>3, BusesOf
  <2>2. \A x \in DOMAIN s[n].signals : s[n].signals[x] \in Refs
    BY <2>1 DEF TLMBusOK, NamesRefs
  <2> DEFINE signals == Without(s[n].signals, {CHOOSE x \in at(s[n]) : TRUE})
  <2>3. \A x \in DOMAIN signals : signals[x] \in Refs
    BY <2>2 DEF Without, Restrict
  <2> HIDE DEF signals
  <2>4. TLMBusOK(Sorted([s[n] EXCEPT !.signals = signals]))
    BY <2>1, <2>3, TLMBusWith
  <2>5. Drop(s[n]) = Sorted([s[n] EXCEPT !.signals = signals])
    BY DEF signals
  <2> HIDE DEF Drop, named, at
  <2> QED
    BY <2>1, <2>4, <2>5
<1> HIDE DEF v
<1>4. Sound([t EXCEPT ![q].tlmbuses = v], lost) /\ Similar(t, [t EXCEPT ![q].tlmbuses = v])
  BY <1>1, <1>2, <1>3, TLMBusesSound
<1> QED
  BY <1>4 DEF DeleteConnectorFromTLMBus, v, Similar-----------------------------------------------------------------------------
(* Elements. *)

(* A tree that has more names, and no other connections, accepts what it   *)
(* accepted.                                                               *)
Richer(t, u) ==
  /\ DOMAIN t \subseteq DOMAIN u
  /\ \A p \in DOMAIN t : u[p].connections = t[p].connections
  /\ \A p \in DOMAIN u \ DOMAIN t : u[p].connections = << >>
  /\ Hides(t) => Hides(u)
  /\ ~Hides(u) => \A q \in DOMAIN t, c \in Refs : GetConnector(t, q, c) \subseteq GetConnector(u, q, c)

LEMMA RicherSound ==
  ASSUME NEW t, NEW lost, Sound(t, lost), NEW u, TreeOK(u), ~lost => Richer(t, u),
         DOMAIN t \subseteq DOMAIN u,
         \A p \in DOMAIN t : u[p].connections = t[p].connections,
         \A p \in DOMAIN u \ DOMAIN t : u[p].connections = << >>
  PROVE  Sound(u, lost)
<1>1. \A p \in DOMAIN u : Driven(u[p].connections)
  BY DEF Sound, Driven
<1>2. ASSUME ~lost, ~Hides(u), NEW p \in DOMAIN u PROVE AcceptedIn(u, p)
  <2>1. CASE p \notin DOMAIN t
    BY <1>2, <2>1 DEF AcceptedIn
  <2>2. CASE p \in DOMAIN t
    <3>1. AcceptedIn(t, p) /\ u[p].connections = t[p].connections
      BY <1>2, <2>2 DEF Sound, Richer
    <3>2. \A n \in DOMAIN t[p].connections :
            t[p].connections[n].a \in Refs /\ t[p].connections[n].b \in Refs
      <4>1. t[p].connections \in Seq(Connection)
        BY <2>2, BusesOf
      <4>2. \A n \in DOMAIN t[p].connections : t[p].connections[n] \in Connection
        BY <4>1, ListOf
      <4> QED
        BY <4>2 DEF Connection
    <3>3. \A c \in Refs : GetConnector(t, p, c) \subseteq GetConnector(u, p, c)
      BY <1>2, <2>2 DEF Richer
    <3>4. ASSUME NEW n \in DOMAIN t[p].connections, Joins(t, p, t[p].connections[n])
          PROVE  Joins(u, p, t[p].connections[n])
      BY <3>2, <3>3, <3>4 DEF Joins
    <3> QED
      BY <3>1, <3>4 DEF AcceptedIn
  <2> QED
    BY <2>1, <2>2
<1> QED
  BY <1>1, <1>2 DEF Sound

LEMMA SingletonSub ==
  ASSUME NEW x
  PROVE  SubSeq(<<x>>, 1, 1) = <<x>> /\ SubSeq(<<x>>, 1, 0) = << >>
<1> DEFINE one == SubSeq(<<x>>, 1, 1)
           none == SubSeq(<<x>>, 1, 0)
<1>1. <<x>> \in Seq({x}) /\ Len(<<x>>) = 1 /\ <<x>>[1] = x
  OBVIOUS
<1>2. /\ one \in Seq({x}) /\ Len(one) = 1 /\ one[1] = x
      /\ none \in Seq({x}) /\ Len(none) = 0
  BY <1>1, SubSeqProperties
<1> HIDE DEF one, none
<1>3. one = <<x>> /\ none = << >>
  BY <1>2
<1> QED
  BY <1>3 DEF one, none

(* A name that is valid is not in use.                                     *)
LEMMA ValidIs ==
  ASSUME NEW t, TreeOK(t), NEW q \in DOMAIN t, NEW c \in Refs, ValidCref(t, q, c)
  PROVE  /\ c = <<c[1]>> /\ c[1] \in STRING
         /\ Append(q, c[1]) \notin DOMAIN t
         /\ c[1] \notin DOMAIN t[q].components
         /\ c[1] \notin DOMAIN t[q].connectors
<1>1. /\ Len(c) = 1 /\ Append(q, c[1]) \notin DOMAIN t
      /\ c[1] \notin DOMAIN t[q].components /\ GetConnector(t, q, c) = {}
  BY DEF ValidCref, IsIdent, HasSystem, HasComponent
<1>2. c = <<c[1]>> /\ c[1] \in STRING
  BY <1>1 DEF Refs
<1>3. q \in Seq(STRING)
  BY DEF TreeOK, Refs
<1> DEFINE n == c[1]
<1>4. Into(t, q, c) = q /\ Rest(t, q, c) = c
  <2>1. q \o SubSeq(c, 1, 1) = Append(q, n)
    <3>1. SubSeq(c, 1, 1) = <<n>>
      BY <1>1, <1>2, SingletonSub
    <3> HIDE DEF n
    <3>2. q \o <<n>> = Append(q, n)
      BY <1>2, <1>3 DEF n
    <3> QED
      BY <3>1, <3>2
  <2>2. Through(t, q, c) \in 0..1
    BY <1>1, ThroughIs
  <2>3. Into(t, q, c) \in DOMAIN t
    BY ThroughIs
  <2>4. Through(t, q, c) = 0
    <3>1. Through(t, q, c) # 1
      BY <1>1, <2>1, <2>3 DEF Into
    <3> QED
      BY <2>2, <3>1
  <2>5. SubSeq(c, 1, 0) = << >> /\ SubSeq(c, 1, 1) = c
    BY <1>2, SingletonSub
  <2>6. q \o << >> = q
    BY <1>3
  <2>7. SubSeq(c, 0 + 1, Len(c)) = c
    BY <1>1, <2>5
  <2> QED
    BY <2>4, <2>5, <2>6, <2>7 DEF Into, Rest
<1>5. c # << >> /\ Head(c) = n /\ IsIdent(c)
  BY <1>1, <1>2 DEF IsIdent
<1> HIDE DEF n
<1>6. n \notin DOMAIN t[q].connectors
  BY <1>1, <1>4, <1>5 DEF GetConnector, n
<1> QED
  BY <1>1, <1>2, <1>6 DEF n
(* A system with more elements: none of a component is replaced, and none  *)
(* hides a connector.                                                      *)
LEMMA ElementsSound ==
  ASSUME NEW t, NEW lost, Sound(t, lost), NEW q \in DOMAIN t, NEW s, SystemOK(s),
         s.connections = t[q].connections,
         ~lost => /\ \A n \in DOMAIN t[q].connectors :
                       n \in DOMAIN s.connectors /\ s.connectors[n] = t[q].connectors[n]
                  /\ \A n \in DOMAIN t[q].components :
                       n \in DOMAIN s.components /\ s.components[n] = t[q].components[n]
                  /\ \A n \in DOMAIN s.components \ DOMAIN t[q].components : n \notin DOMAIN t[q].connectors
  PROVE  Sound([t EXCEPT ![q] = s], lost)
<1> DEFINE u == [t EXCEPT ![q] = s]
<1>1. TreeOK(t)
  BY DEF Sound
<1>2. TreeOK(u) /\ DOMAIN u = DOMAIN t /\ u[q] = s /\ \A p \in DOMAIN t \ {q} : u[p] = t[p]
  BY <1>1, WithSystem
<1> HIDE DEF u
<1>3. ASSUME ~lost PROVE Richer(t, u)
  <2>1. Hides(t) => Hides(u)
    BY <1>2, <1>3 DEF Hides, HasSystem
  <2>2. ASSUME NEW p \in DOMAIN t, NEW c \in Refs
        PROVE  GetConnector(t, p, c) \subseteq GetConnector(u, p, c)
    <3>1. Into(u, p, c) = Into(t, p, c) /\ Rest(u, p, c) = Rest(t, p, c)
      BY <1>2 DEF Into, Rest, Through
    <3>2. Into(t, p, c) \in DOMAIN t
      BY <1>1, ThroughIs
    <3> DEFINE w == Into(t, p, c)
               r == Rest(t, p, c)
    <3>3. CASE w # q
      BY <1>2, <3>1, <3>2, <3>3 DEF GetConnector
    <3>4. CASE w = q
      <4>1. u[w] = s
        BY <1>2, <3>4
      <4> HIDE DEF r
      <4>2. CASE r = << >>
        BY <3>1, <4>2 DEF GetConnector, r
      <4>3. CASE r # << >> /\ Head(r) \in DOMAIN t[q].components
        BY <1>3, <3>1, <3>4, <4>1, <4>3 DEF GetConnector, r
      <4>4. CASE r # << >> /\ Head(r) \notin DOMAIN t[q].components
        BY <1>3, <3>1, <3>4, <4>1, <4>4 DEF GetConnector, r
      <4> QED
        BY <4>2, <4>3, <4>4
    <3> QED
      BY <3>3, <3>4
  <2> QED
    BY <1>2, <2>1, <2>2 DEF Richer
<1>4. Sound(u, lost)
  BY <1>2, <1>3, RicherSound
<1> QED
  BY <1>4 DEF u

LEMMA AddSubModelSound ==
  ASSUME NEW t, NEW lost, Sound(t, lost), NEW p \in DOMAIN t, NEW c \in Refs \ {<< >>}, NEW kind
  PROVE  Sound(AddSubModel(t, p, c, kind), lost)
<1> DEFINE q == p \o Front(c)
           n == Last(c)
           s == [t[q] EXCEPT !.components = Put(@, n, Component(kind))]
<1> SUFFICES ASSUME q \in DOMAIN t, ValidCref(t, q, <<n>>)
             PROVE  Sound([t EXCEPT ![q].components = Put(@, n, Component(kind))], lost)
  BY DEF AddSubModel
<1>1. TreeOK(t) /\ SystemOK(t[q])
  BY DEF Sound, TreeOK
<1>2. n \in STRING /\ <<n>> \in Refs /\ <<n>>[1] = n
  BY DEF Refs, Last
<1> HIDE DEF q, n
<1>3. n \notin DOMAIN t[q].components /\ n \notin DOMAIN t[q].connectors
  BY <1>1, <1>2, ValidIs
<1>4. s = [type |-> t[q].type, connectors |-> t[q].connectors,
           components |-> Put(t[q].components, n, Component(kind)),
           connections |-> t[q].connections, buses |-> t[q].buses, tlmbuses |-> t[q].tlmbuses]
  BY <1>1, WithField
<1> HIDE DEF s
<1>5. SystemOK(s)
  BY <1>1, <1>4 DEF SystemOK
<1>6. Sound([t EXCEPT ![q] = s], lost)
  <2>1. /\ s.connections = t[q].connections /\ s.connectors = t[q].connectors
        /\ s.components = Put(t[q].components, n, Component(kind))
    BY <1>4
  <2> QED
    BY <1>3, <1>5, <2>1, ElementsSound DEF Put
<1> QED
  BY <1>6 DEF s, q, n

(* A component that is replaced may have had connections. *)
LEMMA AddExternalModelSound ==
  ASSUME NEW t, NEW lost \in BOOLEAN, Sound(t, lost), NEW p \in DOMAIN t, NEW c \in Refs \ {<< >>}
  PROVE  Sound(AddExternalModel(t, p, c), lost \/ HasComponent(t, p, Head(c)))
<1> DEFINE s == [t[p] EXCEPT !.components = Put(@, c[1], Component("external"))]
           gone == lost \/ HasComponent(t, p, Head(c))
<1>1. TreeOK(t) /\ SystemOK(t[p]) /\ Sound(t, gone)
  BY SoundLost DEF Sound, TreeOK
<1>2. s = [type |-> t[p].type, connectors |-> t[p].connectors,
           components |-> Put(t[p].components, c[1], Component("external")),
           connections |-> t[p].connections, buses |-> t[p].buses, tlmbuses |-> t[p].tlmbuses]
  BY <1>1, WithField
<1> HIDE DEF s
<1>3. SystemOK(s) /\ s.connections = t[p].connections /\ s.connectors = t[p].connectors
  BY <1>1, <1>2 DEF SystemOK
<1>4. Head(c) = c[1]
  BY DEF Refs
<1>5. ASSUME t[p].type = "tlm" PROVE Sound([t EXCEPT ![p] = s], gone)
  <2>1. DOMAIN t[p].connectors = {}
    BY <1>1, <1>5 DEF SystemOK
  <2>2. s.components = Put(t[p].components, c[1], Component("external"))
    BY <1>2
  <2>3. ~gone => c[1] \notin DOMAIN t[p].components
    BY <1>4 DEF HasComponent
  <2> HIDE DEF gone
  <2> QED
    BY <1>1, <1>3, <2>1, <2>2, <2>3, ElementsSound DEF Put
<1> QED
  BY <1>1, <1>5 DEF AddExternalModel, s

LEMMA AddConnectorSound ==
  ASSUME NEW t, NEW lost, Sound(t, lost), NEW p \in DOMAIN t, NEW c \in Refs, NEW connector
  PROVE  Sound(AddConnector(t, p, c, connector), lost)
<1> DEFINE q == Into(t, p, c)
           r == Rest(t, p, c)
           s == [t[q] EXCEPT !.connectors = Put(@, r[1], connector)]
<1> SUFFICES ASSUME t[q].type # "tlm", ValidCref(t, q, r)
             PROVE  Sound([t EXCEPT ![q].connectors = Put(@, r[1], connector)], lost)
  BY DEF AddConnector
<1>1. TreeOK(t)
  BY DEF Sound
<1>2. q \in DOMAIN t /\ r \in Refs
  BY <1>1, ThroughIs
<1> HIDE DEF q, r
<1>3. r[1] \notin DOMAIN t[q].components /\ r[1] \notin DOMAIN t[q].connectors
  BY <1>1, <1>2, ValidIs
<1>4. SystemOK(t[q])
  BY <1>1, <1>2 DEF TreeOK
<1>5. s = [type |-> t[q].type, connectors |-> Put(t[q].connectors, r[1], connector),
           components |-> t[q].components,
           connections |-> t[q].connections, buses |-> t[q].buses, tlmbuses |-> t[q].tlmbuses]
  BY <1>4, WithField
<1> HIDE DEF s
<1>6. SystemOK(s)
  BY <1>4, <1>5 DEF SystemOK
<1>7. Sound([t EXCEPT ![q] = s], lost)
  <2>1. /\ s.connections = t[q].connections /\ s.components = t[q].components
        /\ s.connectors = Put(t[q].connectors, r[1], connector)
    BY <1>5
  <2> QED
    BY <1>2, <1>3, <1>6, <2>1, ElementsSound DEF Put
<1> QED
  BY <1>7 DEF s, q, r
(* What a system starts with. *)
LEMMA EmptyOK ==
  ASSUME NEW type
  PROVE  SystemOK(Empty(type)) /\ Empty(type).connections = << >>
<1>1. << >> \in Seq(Connection) /\ << >> \in Seq(Bus) /\ IsList(<< >>) /\ DOMAIN << >> = {}
  BY DEF IsList
<1> QED
  BY <1>1 DEF Empty, SystemOK, NoTree

(* Names, and those before and behind the last of them. *)
LEMMA PathIs ==
  ASSUME NEW c \in Refs, c # << >>
  PROVE  Front(c) \in Refs /\ Last(c) \in STRING /\ c = Append(Front(c), Last(c))
<1>1. c \in Seq(STRING) /\ Len(c) \in Nat /\ Len(c) > 0
  BY DEF Refs
<1> DEFINE n == Len(c)
           f == SubSeq(c, 1, n - 1)
           l == c[n]
<1>2. f \in Seq(STRING) /\ l \in STRING
  BY <1>1
<1>3. SubSeq(c, 1, n) = f \o <<l>>
  BY <1>1, SubSeqRecursiveSecond
<1>4. SubSeq(c, 1, n) = c
  BY <1>1, SubSeqFull
<1>5. f = Front(c) /\ l = Last(c)
  BY DEF Front, Last
<1> HIDE DEF f, l, n
<1>6. f \o <<l>> = Append(f, l)
  BY <1>2, AppendIsConcat
<1> QED
  BY <1>2, <1>3, <1>4, <1>5, <1>6 DEF Refs

LEMMA AppendBehind ==
  ASSUME NEW S, NEW q \in Seq(S), NEW s \in Seq(S), NEW x \in S
  PROVE  q \o Append(s, x) = Append(q \o s, x) /\ q \o s \in Seq(S)
<1> DEFINE qs == q \o s
           one == <<x>>
<1>1. qs \in Seq(S) /\ one \in Seq(S)
  OBVIOUS
<1>2. Append(s, x) = s \o one
  BY AppendIsConcat
<1>3. (q \o s) \o one = q \o (s \o one)
  BY <1>1, ConcatAssociative
<1> HIDE DEF qs
<1>4. Append(qs, x) = qs \o one
  BY <1>1, AppendIsConcat
<1> QED
  BY <1>1, <1>2, <1>3, <1>4 DEF qs

(* A reference that leads a name further leads through the system it led   *)
(* to before.                                                              *)
LEMMA OneFurther ==
  ASSUME NEW q \in Refs, NEW c \in Refs, NEW k \in Nat, k < Len(c)
  PROVE  /\ q \o SubSeq(c, 1, k + 1) = Append(q \o SubSeq(c, 1, k), c[k + 1])
         /\ q \o SubSeq(c, 1, k) \in Refs
         /\ SubSeq(c, k + 1, Len(c)) # << >> /\ Head(SubSeq(c, k + 1, Len(c))) = c[k + 1]
<1>1. Len(c) \in Nat /\ c \in Seq(STRING) /\ q \in Seq(STRING)
  BY DEF Refs
<1> DEFINE longer == SubSeq(c, 1, k + 1)
           shorter == SubSeq(c, 1, k)
           x == c[k + 1]
<1>2. x \in STRING
  BY <1>1
<1>3. longer = Append(shorter, x) /\ shorter \in Seq(STRING)
  <2>1. longer = SubSeq(c, 1, k + 1 - 1) \o <<x>>
    BY <1>1, SubSeqRecursiveSecond
  <2>2. k + 1 - 1 = k /\ shorter \in Seq(STRING)
    BY <1>1
  <2>3. longer = shorter \o <<x>>
    BY <2>1, <2>2
  <2> HIDE DEF shorter, x, longer
  <2> QED
    BY <1>2, <2>2, <2>3, AppendIsConcat
<1>4. SubSeq(c, k + 1, Len(c)) # << >> /\ Head(SubSeq(c, k + 1, Len(c))) = x
  <2> DEFINE n == Len(c)
             m == k + 1
             rest == SubSeq(c, m, n)
  <2>1. m \in Int /\ n \in Int /\ m <= n /\ \A i \in m..n : c[i] \in STRING
    BY <1>1
  <2>2. rest \in Seq(STRING) /\ Len(rest) = n - m + 1
    BY <2>1, SubSeqProperties
  <2>3. Head(rest) = c[m]
    BY <1>1, HeadTailOfSubSeq
  <2> HIDE DEF rest
  <2>4. rest # << >>
    BY <2>1, <2>2
  <2> QED
    BY <2>3, <2>4 DEF rest
<1> HIDE DEF longer, shorter, x
<1>5. q \o Append(shorter, x) = Append(q \o shorter, x) /\ q \o shorter \in Seq(STRING)
  BY <1>1, <1>2, <1>3, AppendBehind
<1> QED
  BY <1>3, <1>4, <1>5 DEF Refs, longer, shorter, x
(* A system that is added is looked up only by references that met no      *)
(* component at its name; it may hide a connector.                         *)
LEMMA AddSystemSound ==
  ASSUME NEW t, NEW lost, Sound(t, lost), NEW c \in Refs \ {<< >>}, NEW type
  PROVE  Sound(AddSystem(t, c, type), lost)
<1> DEFINE parent == Front(c)
           e == Empty(type)
           u == Put(t, c, e)
<1> SUFFICES ASSUME IF IsIdent(c) THEN t = NoTree
                    ELSE parent \in DOMAIN t /\ ~HasComponent(t, parent, Last(c)),
                    c \notin DOMAIN t
             PROVE  Sound(Put(t, c, Empty(type)), lost)
  BY DEF AddSystem
<1>1. TreeOK(t) /\ SystemOK(e) /\ e.connections = << >>
  BY EmptyOK DEF Sound
<1> HIDE DEF e
<1>2. DOMAIN u = DOMAIN t \cup {c} /\ u[c] = e /\ \A p \in DOMAIN t : u[p] = t[p]
  BY DEF Put
<1>3. TreeOK(u)
  <2>1. u = [p \in DOMAIN u |-> u[p]]
    BY DEF Put
  <2>2. IsFiniteSet(DOMAIN u) /\ DOMAIN u \subseteq Refs
    BY <1>1, <1>2, FS_AddElement DEF TreeOK
  <2> QED
    BY <1>1, <1>2, <2>1, <2>2 DEF TreeOK
<1>4. c = Append(parent, Last(c)) /\ parent \in Refs /\ Last(c) \in STRING
  BY PathIs
<1> HIDE DEF u, parent
<1>5. Hides(t) => Hides(u)
  BY <1>2 DEF Hides, HasSystem
<1>6. ASSUME ~Hides(u), NEW q \in DOMAIN t, NEW d \in Refs
      PROVE  GetConnector(t, q, d) \subseteq GetConnector(u, q, d)
  <2> DEFINE j == Through(t, q, d)
             k == Through(u, q, d)
  <2>1. /\ j \in 0..Len(d) /\ Len(d) \in Nat /\ Into(t, q, d) \in DOMAIN t
        /\ \A i \in 0..Len(d) : q \o SubSeq(d, 1, i) \in DOMAIN t => i <= j
    BY <1>1, ThroughIs
  <2>2. /\ k \in 0..Len(d) /\ Into(u, q, d) \in DOMAIN u
        /\ \A i \in 0..Len(d) : q \o SubSeq(d, 1, i) \in DOMAIN u => i <= k
    BY <1>2, <1>3, ThroughIs
  <2>3. Into(t, q, d) = q \o SubSeq(d, 1, j) /\ Into(u, q, d) = q \o SubSeq(d, 1, k)
    BY DEF Into
  <2>4. Rest(t, q, d) = SubSeq(d, j + 1, Len(d)) /\ Rest(u, q, d) = SubSeq(d, k + 1, Len(d))
    BY DEF Rest
  <2> HIDE DEF j, k
  <2>5. j <= k
    BY <1>2, <2>1, <2>2, <2>3
  <2>6. CASE Into(u, q, d) \in DOMAIN t
    <3>1. k = j
      BY <2>1, <2>2, <2>3, <2>5, <2>6
    <3> QED
      BY <1>2, <2>1, <2>3, <2>4, <3>1 DEF GetConnector
  <2>7. CASE Into(u, q, d) = c
    <3>1. c = q \o SubSeq(d, 1, k) /\ k > j
      <4>1. k # j
        BY <2>1, <2>3, <2>7
      <4> QED
        BY <2>1, <2>2, <2>3, <2>5, <2>7, <4>1
    <3>2. parent \in DOMAIN t /\ ~HasComponent(t, parent, Last(c))
      BY DEF IsIdent, NoTree
    <3>3. q \in Refs
      BY <1>1 DEF TreeOK
    <3> DEFINE m == k - 1
    <3>4. m \in Nat /\ m < Len(d) /\ m + 1 = k /\ j <= m /\ m \in 0..Len(d)
      BY <2>1, <2>2, <3>1
    <3> HIDE DEF m
    <3>5. c = Append(q \o SubSeq(d, 1, m), d[k]) /\ q \o SubSeq(d, 1, m) \in Refs
      BY <3>1, <3>3, <3>4, OneFurther
    <3>6. d[k] \in STRING
      BY <2>1, <2>2, <3>1 DEF Refs
    <3>7. parent = q \o SubSeq(d, 1, m) /\ d[k] = Last(c)
      <4> DEFINE x == q \o SubSeq(d, 1, m)
      <4>1. Append(parent, Last(c)) = Append(x, d[k]) /\ x \in Seq(STRING) /\ parent \in Seq(STRING)
        BY <1>4, <3>5 DEF Refs
      <4> HIDE DEF x
      <4>2. parent = x /\ Last(c) = d[k]
        BY <1>4, <3>6, <4>1, AppendInjective
      <4> QED
        BY <4>2 DEF x
    <3>8. m = j
      BY <2>1, <3>2, <3>4, <3>7
    <3>9. parent = Into(t, q, d) /\ Rest(t, q, d) # << >> /\ Head(Rest(t, q, d)) = Last(c)
      BY <2>3, <2>4, <3>3, <3>4, <3>7, <3>8, OneFurther
    <3>10. Last(c) \notin DOMAIN t[parent].connectors
      <4>1. u[parent] = t[parent] /\ HasSystem(u, parent, Last(c)) /\ parent \in DOMAIN u
        BY <1>2, <1>4, <3>2 DEF HasSystem
      <4> QED
        BY <1>6, <4>1 DEF Hides
    <3>11. GetConnector(t, q, d) = {}
      BY <3>2, <3>9, <3>10 DEF GetConnector, HasComponent
    <3> QED
      BY <3>11
  <2> QED
    BY <1>2, <2>2, <2>6, <2>7
<1>7. Richer(t, u)
  BY <1>1, <1>2, <1>5, <1>6 DEF Richer
<1>8. Sound(u, lost)
  BY <1>1, <1>2, <1>3, <1>7, RicherSound
<1> QED
  BY <1>8 DEF u, e-----------------------------------------------------------------------------
(* Connections. *)

LEMMA ConnectionsSound ==
  ASSUME NEW t, NEW lost, Sound(t, lost), NEW q \in DOMAIN t, NEW v \in Seq(Connection), Driven(v),
         ~lost /\ ~Hides(t) => \A n \in DOMAIN v : v[n].kind = "single" => Joins(t, q, v[n])
  PROVE  Sound([t EXCEPT ![q].connections = v], lost) /\ Similar(t, [t EXCEPT ![q].connections = v])
<1> DEFINE s == [t[q] EXCEPT !.connections = v]
           u == [t EXCEPT ![q] = s]
<1>1. TreeOK(t) /\ SystemOK(t[q])
  BY DEF Sound, TreeOK
<1>2. s = [type |-> t[q].type, connectors |-> t[q].connectors, components |-> t[q].components,
           connections |-> v, buses |-> t[q].buses, tlmbuses |-> t[q].tlmbuses]
  BY <1>1, WithField
<1>3. SystemOK(s)
  BY <1>1, <1>2 DEF SystemOK
<1>4. s.connections = v
  BY <1>2
<1>5. /\ s.connectors = t[q].connectors /\ s.components = t[q].components
      /\ s.type = t[q].type
  BY <1>2
<1> HIDE DEF s
<1>6. TreeOK(u) /\ DOMAIN u = DOMAIN t /\ u[q] = s /\ \A p \in DOMAIN t \ {q} : u[p] = t[p]
  BY <1>1, <1>3, WithSystem
<1> HIDE DEF u
<1>7. Similar(t, u)
  BY <1>5, <1>6 DEF Similar
<1>8. \A p \in DOMAIN u : Driven(u[p].connections)
  BY <1>4, <1>6 DEF Sound
<1>9. ASSUME ~lost, ~Hides(u), NEW p \in DOMAIN u PROVE AcceptedIn(u, p)
  <2>1. p \in DOMAIN t /\ ~Hides(t) /\ AcceptedIn(t, p)
    BY <1>1, <1>6, <1>7, <1>9, SimilarNames DEF Sound
  <2>2. u[p].connections \in Seq(Connection)
    BY <1>6, <2>1 DEF TreeOK, SystemOK
  <2>3. ASSUME NEW n \in DOMAIN u[p].connections, u[p].connections[n].kind = "single"
        PROVE  Joins(t, p, u[p].connections[n])
    <3>1. CASE p = q
      BY <1>4, <1>6, <1>9, <2>1, <2>3, <3>1
    <3>2. CASE p # q
      BY <1>6, <2>1, <2>3, <3>2 DEF AcceptedIn
    <3> QED
      BY <3>1, <3>2
  <2>4. \A n \in DOMAIN u[p].connections : u[p].connections[n] \in Connection
    BY <2>2, ListOf
  <2> QED
    BY <1>1, <1>7, <2>1, <2>3, <2>4, SimilarAccepts DEF AcceptedIn
<1>10. Sound(u, lost)
  BY <1>6, <1>8, <1>9 DEF Sound
<1> QED
  BY <1>7, <1>10 DEF u, s

(* A connection that is added drives an input that had no driver, and is   *)
(* accepted.                                                               *)
LEMMA Append1Sound ==
  ASSUME NEW t, NEW lost, Sound(t, lost), NEW q \in DOMAIN t, NEW e \in Connection,
         e.kind = "single" => /\ Joins(t, q, e)
                              /\ Len(e.b) > 1 => \A n \in DOMAIN t[q].connections :
                                                   t[q].connections[n].b # e.b
  PROVE  Sound(Append1(t, q, e), lost) /\ Similar(t, Append1(t, q, e))
<1> DEFINE s == t[q].connections
           v == Append(s, e)
<1>1. s \in Seq(Connection) /\ Driven(s)
  BY BusesOf DEF Sound
<1>2. /\ v \in Seq(Connection) /\ DOMAIN v = 1..(Len(s) + 1) /\ DOMAIN s = 1..Len(s) /\ Len(s) \in Nat
      /\ \A n \in 1..Len(s) : v[n] = s[n]
      /\ v[Len(s) + 1] = e
  BY <1>1, ListOf, AppendList
<1> HIDE DEF v, s
<1>3. \A n \in DOMAIN v : n \in DOMAIN s \/ n = Len(s) + 1
  BY <1>2
<1>4. Driven(v)
  <2> SUFFICES ASSUME NEW m \in DOMAIN v, NEW n \in DOMAIN v,
                      v[m].kind = "single", v[n].kind = "single", v[m].b = v[n].b, Len(v[m].b) > 1
               PROVE  m = n
    BY DEF Driven
  <2>1. CASE m \in DOMAIN s /\ n \in DOMAIN s
    BY <1>1, <1>2, <2>1 DEF Driven
  <2>2. CASE m \notin DOMAIN s \/ n \notin DOMAIN s
    BY <1>2, <1>3, <2>2 DEF s
  <2> QED
    BY <2>1, <2>2
<1>5. ASSUME ~lost, ~Hides(t), NEW n \in DOMAIN v, v[n].kind = "single" PROVE Joins(t, q, v[n])
  <2>1. CASE n \in DOMAIN s
    BY <1>2, <1>5, <2>1 DEF Sound, AcceptedIn, s
  <2>2. CASE n = Len(s) + 1
    BY <1>2, <1>5, <2>2
  <2> QED
    BY <1>3, <2>1, <2>2
<1>6. Sound([t EXCEPT ![q].connections = v], lost) /\ Similar(t, [t EXCEPT ![q].connections = v])
  BY <1>2, <1>4, <1>5, ConnectionsSound
<1> QED
  BY <1>6 DEF Append1, v, s

LEMMA OneConnector ==
  ASSUME NEW t, NEW q, NEW c, NEW x \in GetConnector(t, q, c), NEW y \in GetConnector(t, q, c)
  PROVE  x = y
BY DEF GetConnector

LEMMA ConnectSound ==
  ASSUME NEW t, NEW lost, Sound(t, lost), NEW q \in DOMAIN t, NEW a \in Refs, NEW b \in Refs
  PROVE  Sound(Connect(t, q, a, b), lost) /\ Similar(t, Connect(t, q, a, b))
<1> DEFINE ends == GetConnector(t, q, a) \X GetConnector(t, q, b)
           given == \E e \in ends : Gives(e[1], a)
           fit == \E e \in ends : /\ e[1].type = e[2].type
                                  /\ Free(t[q], e[1], a, e[2], b) /\ Fits(e[1], a, e[2], b)
           bus == [a |-> a, b |-> b, kind |-> "bus", delay |-> 0]
           single == [a |-> IF given THEN a ELSE b, b |-> IF given THEN b ELSE a,
                      kind |-> "single", delay |-> 0]
<1>1. Similar(t, t)
  BY DEF Similar
<1>2. Sound(Append1(t, q, bus), lost) /\ Similar(t, Append1(t, q, bus))
  <2>1. bus \in Connection /\ bus.kind # "single"
    BY DEF Connection
  <2> HIDE DEF bus
  <2> QED
    BY <2>1, Append1Sound
<1>3. ASSUME fit PROVE Sound(Append1(t, q, single), lost) /\ Similar(t, Append1(t, q, single))
  <2>1. PICK e \in ends : Free(t[q], e[1], a, e[2], b) /\ Fits(e[1], a, e[2], b)
    BY <1>3
  <2> DEFINE conA == e[1]
             conB == e[2]
  <2>2. conA \in GetConnector(t, q, a) /\ conB \in GetConnector(t, q, b)
    BY <2>1
  <2> HIDE DEF ends
  <2>3. given <=> Gives(conA, a)
    BY <2>1, <2>2, OneConnector DEF ends
  <2>4. single \in Connection /\ single.a = (IF given THEN a ELSE b) /\ single.b = (IF given THEN b ELSE a)
    BY DEF Connection
  <2> HIDE DEF given, single, conA, conB
  <2>5. Joins(t, q, single) /\ (Len(single.b) > 1 => \A n \in DOMAIN t[q].connections : t[q].connections[n].b # single.b)
    <3>1. CASE given
      <4>1. Gives(conA, a) /\ Takes(conB, b)
        BY <2>1, <2>3, <3>1 DEF Fits, Gives, Takes, conA, conB
      <4>2. single.a = a /\ single.b = b
        BY <2>4, <3>1
      <4>3. Len(b) > 1 => conB.causality = "input"
        <5>1. Len(b) > 1 => ~IsIdent(b)
          <6> DEFINE n == Len(b)
          <6>1. n \in Nat
            BY DEF Refs
          <6>2. n = 1 <=> IsIdent(b)
            BY DEF IsIdent
          <6> HIDE DEF n
          <6>3. n > 1 => n # 1
            BY <6>1
          <6> QED
            BY <6>2, <6>3 DEF n
        <5> QED
          BY <4>1, <5>1 DEF Takes
      <4>4. Len(b) > 1 => \A n \in DOMAIN t[q].connections : t[q].connections[n].b # b
        BY <2>1, <4>3 DEF Free, ContainsSignal, conB
      <4> QED
        BY <2>2, <4>1, <4>2, <4>4 DEF Joins
    <3>2. CASE ~given
      <4>1. Gives(conB, b) /\ Takes(conA, a)
        BY <2>1, <2>3, <3>2 DEF Fits, Gives, Takes, conA, conB
      <4>2. single.a = b /\ single.b = a
        BY <2>4, <3>2
      <4>3. Len(a) > 1 => conA.causality = "input"
        <5>1. Len(a) > 1 => ~IsIdent(a)
          <6> DEFINE n == Len(a)
          <6>1. n \in Nat
            BY DEF Refs
          <6>2. n = 1 <=> IsIdent(a)
            BY DEF IsIdent
          <6> HIDE DEF n
          <6>3. n > 1 => n # 1
            BY <6>1
          <6> QED
            BY <6>2, <6>3 DEF n
        <5> QED
          BY <4>1, <5>1 DEF Takes
      <4>4. Len(a) > 1 => \A n \in DOMAIN t[q].connections : t[q].connections[n].b # a
        BY <2>1, <4>3 DEF Free, ContainsSignal, conA
      <4> QED
        BY <2>2, <4>1, <4>2, <4>4 DEF Joins
    <3> QED
      BY <3>1, <3>2
  <2> QED
    BY <2>4, <2>5, Append1Sound
<1> HIDE DEF fit, bus, single
<1>4. Connect(t, q, a, b) \in {t, Append1(t, q, bus)} \/ (fit /\ Connect(t, q, a, b) = Append1(t, q, single))
  <2>1. Connect(t, q, a, b) = IF Connected(t[q], a, b) THEN t
                              ELSE IF IsBusEnd(t, q, a) /\ IsBusEnd(t, q, b) THEN Append1(t, q, bus)
                              ELSE IF fit THEN Append1(t, q, single) ELSE t
    BY DEF Connect, fit, bus, single
  <2> QED
    BY <2>1
<1> QED
  BY <1>1, <1>2, <1>3, <1>4

LEMMA AddConnectionSound ==
  ASSUME NEW t, NEW lost, Sound(t, lost), NEW p \in DOMAIN t, NEW a \in Refs, NEW b \in Refs
  PROVE  Sound(AddConnection(t, p, a, b), lost) /\ Similar(t, AddConnection(t, p, a, b))
<1> DEFINE k == Common(t, p, a, b)
<1>1. /\ p \o SubSeq(a, 1, k) \in DOMAIN t
      /\ SubSeq(a, k + 1, Len(a)) \in Refs /\ SubSeq(b, k + 1, Len(b)) \in Refs
  BY CommonIs DEF Sound
<1> HIDE DEF k
<1>2. AddConnection(t, p, a, b) =
        Connect(t, p \o SubSeq(a, 1, k), SubSeq(a, k + 1, Len(a)), SubSeq(b, k + 1, Len(b)))
  BY DEF AddConnection, k
<1> QED
  BY <1>1, <1>2, ConnectSound
(* Taking a connection away: no position is read twice. *)
LEMMA SwapRemoveDriven ==
  ASSUME NEW s \in Seq(Connection), Driven(s), NEW i
  PROVE  /\ SwapRemove(s, i) \in Seq(Connection) /\ Driven(SwapRemove(s, i))
         /\ \A j \in DOMAIN SwapRemove(s, i) : \E n \in DOMAIN s : SwapRemove(s, i)[j] = s[n]
<1> DEFINE v == SwapRemove(s, i)
           last == Len(s)
           at(j) == IF j = i THEN last ELSE j
<1>1. last \in Nat /\ DOMAIN s = 1..last /\ IsList(s)
  BY ListOf
<1>2. IsList(v) /\ DOMAIN v = 1..(last - 1) /\ \A j \in 1..(last - 1) : v[j] = s[at(j)]
  BY <1>1, SwapRemoveIs
<1>3. \A j \in DOMAIN v : at(j) \in DOMAIN s
  BY <1>1, <1>2
<1>4. \A j, k \in DOMAIN v : at(j) = at(k) => j = k
  BY <1>1, <1>2
<1> HIDE DEF v, last, at
<1>5. v \in Seq(Connection)
  <2>1. \A j \in DOMAIN v : v[j] \in Connection
    BY <1>2, <1>3, ListOf
  <2>2. v \in Seq({v[j] : j \in DOMAIN v})
    BY <1>2 DEF IsList
  <2>3. v \in [1..Len(v) -> Connection] /\ Len(v) \in Nat
    BY <2>1, <2>2
  <2> QED
    BY <2>3
<1>6. Driven(v)
  BY <1>2, <1>3, <1>4 DEF Driven
<1> QED
  BY <1>2, <1>3, <1>5, <1>6 DEF v

(* A tree does not change at a path that it does not have. *)
LEMMA NotThere ==
  ASSUME NEW t, TreeOK(t), NEW q, q \notin DOMAIN t, NEW s
  PROVE  [t EXCEPT ![q] = s] = t
BY DEF TreeOK

LEMMA DeleteConnectionSound ==
  ASSUME NEW t, NEW lost, Sound(t, lost), NEW p \in DOMAIN t, NEW a \in Refs, NEW b \in Refs
  PROVE  Sound(DeleteConnection(t, p, a, b), lost)
<1>1. ASSUME NEW q, NEW i PROVE Sound([t EXCEPT ![q].connections = SwapRemove(@, i)], lost)
  <2> DEFINE s == t[q].connections
             v == SwapRemove(s, i)
  <2>1. CASE q \notin DOMAIN t
    <3>1. [t EXCEPT ![q] = [t[q] EXCEPT !.connections = v]] = t
      BY <2>1, NotThere DEF Sound
    <3> HIDE DEF v
    <3>2. [t EXCEPT ![q].connections = v] = t
      BY <3>1
    <3> QED
      BY <3>2 DEF v
  <2>2. CASE q \in DOMAIN t
    <3>1. s \in Seq(Connection) /\ Driven(s)
      BY <2>2, BusesOf DEF Sound
    <3>2. ~lost /\ ~Hides(t) => \A n \in DOMAIN s : s[n].kind = "single" => Joins(t, q, s[n])
      BY <2>2 DEF Sound, AcceptedIn
    <3>3. v \in Seq(Connection) /\ Driven(v) /\ \A j \in DOMAIN v : \E n \in DOMAIN s : v[j] = s[n]
      BY <3>1, SwapRemoveDriven
    <3> HIDE DEF v, s
    <3>4. Sound([t EXCEPT ![q].connections = v], lost)
      BY <2>2, <3>2, <3>3, ConnectionsSound
    <3> QED
      BY <3>4 DEF v, s
  <2> QED
    BY <2>1, <2>2
<1> QED
  BY <1>1 DEF DeleteConnection

(* Both buses are given the delay. *)
LEMMA AddTLMConnectionSound ==
  ASSUME NEW t, NEW lost, Sound(t, lost), NEW p \in DOMAIN t, NEW a \in Refs, NEW b \in Refs, NEW delay \in Nat
  PROVE  Sound(AddTLMConnection(t, p, a, b, delay), lost) /\ Similar(t, AddTLMConnection(t, p, a, b, delay))
<1> DEFINE Delayed(u, c) == [u EXCEPT ![Into(t, p, c)].tlmbuses =
             [n \in DOMAIN @ |-> IF n = Min(TLMBusesAt(t, p, c)) THEN [@[n] EXCEPT !.delay = delay]
                                ELSE @[n]]]
           e == [a |-> a, b |-> b, kind |-> "tlm", delay |-> delay]
<1>1. TreeOK(t) /\ e \in Connection /\ e.kind # "single"
  BY DEF Sound, Connection
<1> HIDE DEF e
<1>2. ASSUME NEW u, Sound(u, lost), Similar(t, u), NEW c \in Refs
      PROVE  Sound(Delayed(u, c), lost) /\ Similar(t, Delayed(u, c))
  <2> DEFINE q == Into(t, p, c)
             i == Min(TLMBusesAt(t, p, c))
             s == u[q].tlmbuses
             v == [n \in DOMAIN s |-> IF n = i THEN [s[n] EXCEPT !.delay = delay] ELSE s[n]]
  <2>1. q \in DOMAIN u
    BY <1>1, <1>2, ThroughIs DEF Similar
  <2> HIDE DEF q, i
  <2>2. IsList(s) /\ \A n \in DOMAIN s : TLMBusOK(s[n])
    BY <1>2, <2>1, BusesOf
  <2>3. IsList(v) /\ DOMAIN v = DOMAIN s
    BY <2>2, MappedList
  <2>4. \A n \in DOMAIN v : TLMBusOK(v[n])
    <3>1. \A bus : TLMBusOK(bus) => TLMBusOK([bus EXCEPT !.delay = delay])
      <4> SUFFICES ASSUME NEW bus, TLMBusOK(bus) PROVE TLMBusOK([bus EXCEPT !.delay = delay])
        OBVIOUS
      <4>1. bus = [name |-> bus.name, signals |-> bus.signals, sorted |-> bus.sorted, delay |-> bus.delay]
        BY DEF TLMBusOK
      <4>2. [bus EXCEPT !.delay = delay] =
              [name |-> bus.name, signals |-> bus.signals, sorted |-> bus.sorted, delay |-> delay]
        BY <4>1
      <4> QED
        BY <4>2 DEF TLMBusOK, NamesRefs
    <3> QED
      BY <2>2, <3>1
  <2> HIDE DEF v
  <2>5. Sound([u EXCEPT ![q].tlmbuses = v], lost) /\ Similar(u, [u EXCEPT ![q].tlmbuses = v])
    BY <1>2, <2>1, <2>3, <2>4, TLMBusesSound
  <2>6. Delayed(u, c) = [u EXCEPT ![q].tlmbuses = v]
    BY DEF v, q, i
  <2> HIDE DEF Delayed
  <2> QED
    BY <1>2, <2>5, <2>6 DEF Similar
<1> HIDE DEF Delayed
<1>3. Similar(t, t)
  BY DEF Similar
<1> DEFINE u == Delayed(Delayed(t, a), b)
<1>4. Sound(u, lost) /\ Similar(t, u)
  BY <1>2, <1>3
<1> HIDE DEF u
<1>5. Sound(Append1(u, p, e), lost) /\ Similar(u, Append1(u, p, e))
  BY <1>1, <1>4, Append1Sound DEF Similar
<1>6. AddTLMConnection(t, p, a, b, delay) \in {t, Append1(u, p, e)}
  BY DEF AddTLMConnection, u, Delayed, e
<1> QED
  BY <1>3, <1>4, <1>5, <1>6 DEF Similar-----------------------------------------------------------------------------
(* Deleting. *)

(* One look of deleteAllConectionsTo, and the function Sweep is defined by. *)
Look(x, n) ==
  IF ContainsSignal(x.left[x.i], <<n>>) THEN [x EXCEPT !.left = SwapRemove(@, x.i)] ELSE [x EXCEPT !.i = @ + 1]
Looks(s, n, k) ==
  CHOOSE f : f = [m \in 0..k |-> IF m = 0 THEN [left |-> s, i |-> 1] ELSE Look(f[m - 1], n)]

(* It exists: induction over the number of looks. *)
LEMMA LooksExist ==
  ASSUME NEW s, NEW n, NEW k \in Nat
  PROVE  Looks(s, n, k) =
           [m \in 0..k |-> IF m = 0 THEN [left |-> s, i |-> 1] ELSE Look(Looks(s, n, k)[m - 1], n)]
<1> DEFINE start == [left |-> s, i |-> 1]
           Body(j, f) == [m \in 0..j |-> IF m = 0 THEN start ELSE Look(f[m - 1], n)]
           T == {j \in Nat : \E f : f = Body(j, f)}
<1> HIDE DEF start
<1>1. 0 \in T
  <2> DEFINE f == [m \in 0..0 |-> start]
  <2>1. f = Body(0, f)
    OBVIOUS
  <2> QED
    BY <2>1
<1>2. ASSUME NEW j \in Nat, j \in T PROVE j + 1 \in T
  <2>1. PICK f : f = Body(j, f)
    BY <1>2
  <2> DEFINE g == [m \in 0..(j + 1) |-> IF m = j + 1 THEN Look(f[j], n) ELSE f[m]]
  <2>2. ASSUME NEW m \in 0..(j + 1) PROVE g[m] = Body(j + 1, g)[m]
    <3>1. CASE m = j + 1
      <4>1. g[m] = Look(f[j], n) /\ g[m - 1] = f[j] /\ m # 0
        BY <3>1
      <4> QED
        BY <4>1
    <3>2. CASE m # j + 1
      <4>1. m \in 0..j /\ g[m] = f[m]
        BY <3>2
      <4>2. f[m] = IF m = 0 THEN start ELSE Look(f[m - 1], n)
        BY <2>1, <4>1
      <4>3. m # 0 => g[m - 1] = f[m - 1]
        BY <4>1
      <4> QED
        BY <4>1, <4>2, <4>3
    <3> QED
      BY <3>1, <3>2
  <2>3. g = Body(j + 1, g)
    BY <2>2
  <2> HIDE DEF g
  <2>4. \E h : h = Body(j + 1, h)
    BY <2>3
  <2> HIDE DEF Body
  <2> QED
    BY <2>4
<1> HIDE DEF T
<1>3. Nat \subseteq T
  BY <1>1, <1>2, SetInduction
<1>4. \E f : f = Body(k, f)
  BY <1>3 DEF T
<1> QED
  BY <1>4 DEF Looks, start

(* What is swept away leaves no second driver. *)
LEMMA SweepDriven ==
  ASSUME NEW s \in Seq(Connection), Driven(s), NEW n
  PROVE  Sweep(s, n) \in Seq(Connection) /\ Driven(Sweep(s, n))
<1> DEFINE k == Len(s)
           f == Looks(s, n, k)
           Good(x) == x = [left |-> x.left, i |-> x.i] /\ x.left \in Seq(Connection) /\ Driven(x.left)
           T == {m \in Nat : m <= k => Good(f[m])}
<1>1. k \in Nat
  OBVIOUS
<1>2. f = [m \in 0..k |-> IF m = 0 THEN [left |-> s, i |-> 1] ELSE Look(f[m - 1], n)]
  BY <1>1, LooksExist
<1>3. Sweep(s, n) = f[k].left
  BY DEF Sweep, Looks, Look
<1> HIDE DEF f, k
<1>4. 0 \in T
  BY <1>1, <1>2
<1>5. ASSUME NEW m \in Nat, m \in T PROVE m + 1 \in T
  <2> SUFFICES ASSUME m + 1 <= k PROVE Good(f[m + 1])
    OBVIOUS
  <2>1. Good(f[m]) /\ f[m + 1] = Look(f[m], n)
    BY <1>1, <1>2, <1>5
  <2> DEFINE x == f[m]
  <2> HIDE DEF x
  <2>2. \A i : SwapRemove(x.left, i) \in Seq(Connection) /\ Driven(SwapRemove(x.left, i))
    BY <2>1, SwapRemoveDriven DEF x
  <2>3. /\ [x EXCEPT !.left = SwapRemove(@, x.i)] = [left |-> SwapRemove(x.left, x.i), i |-> x.i]
        /\ [x EXCEPT !.i = @ + 1] = [left |-> x.left, i |-> x.i + 1]
    BY <2>1 DEF x
  <2>4. Good(Look(x, n))
    BY <2>1, <2>2, <2>3 DEF Look, x
  <2> QED
    BY <2>1, <2>4 DEF x
<1> HIDE DEF T
<1>6. Nat \subseteq T
  BY <1>4, <1>5, SetInduction
<1>7. Good(f[k])
  <2>1. k <= k /\ k \in T
    BY <1>1, <1>6
  <2> HIDE DEF Good
  <2> QED
    BY <2>1 DEF T
<1> QED
  BY <1>3, <1>7

LEMMA LostSystemSound ==
  ASSUME NEW t, Sound(t, TRUE), NEW q \in DOMAIN t, NEW s, SystemOK(s), Driven(s.connections)
  PROVE  Sound([t EXCEPT ![q] = s], TRUE)
<1> DEFINE u == [t EXCEPT ![q] = s]
<1>1. TreeOK(u) /\ DOMAIN u = DOMAIN t /\ u[q] = s /\ \A p \in DOMAIN t \ {q} : u[p] = t[p]
  BY WithSystem DEF Sound
<1> HIDE DEF u
<1>2. Sound(u, TRUE)
  BY <1>1 DEF Sound
<1> QED
  BY <1>2 DEF u

LEMMA WithoutSound ==
  ASSUME NEW t, Sound(t, TRUE), NEW K
  PROVE  Sound(Without(t, K), TRUE)
<1> DEFINE u == Without(t, K)
<1>1. u = [p \in DOMAIN t \ K |-> t[p]]
  BY DEF Without, Restrict
<1> HIDE DEF u
<1>2. TreeOK(u)
  <2>1. DOMAIN u \subseteq DOMAIN t /\ IsFiniteSet(DOMAIN t)
    BY <1>1 DEF Sound, TreeOK
  <2>2. IsFiniteSet(DOMAIN u)
    BY <2>1, FS_Subset
  <2> QED
    BY <1>1, <2>1, <2>2 DEF Sound, TreeOK
<1>3. Sound(u, TRUE)
  BY <1>1, <1>2 DEF Sound
<1> QED
  BY <1>3 DEF u

LEMMA DeleteSound ==
  ASSUME NEW t, Sound(t, TRUE), NEW p, NEW c
  PROVE  Sound(Delete(t, p, c), TRUE)
<1> DEFINE q == p \o Front(c)
           n == Last(c)
           whole == Append(q, n)
           s == t[q]
           v == Sweep(s.connections, n)
           swept == [s EXCEPT !.connections = v]
<1> SUFFICES ASSUME q \in DOMAIN t PROVE Sound(Delete(t, p, c), TRUE)
  BY DEF Delete
<1> HIDE DEF q
<1>1. SystemOK(s) /\ Driven(s.connections) /\ s.connections \in Seq(Connection)
  BY BusesOf DEF Sound, TreeOK
<1>2. v \in Seq(Connection) /\ Driven(v)
  BY <1>1, SweepDriven
<1> HIDE DEF v, s, n
<1>3. swept = [type |-> s.type, connectors |-> s.connectors, components |-> s.components,
               connections |-> v, buses |-> s.buses, tlmbuses |-> s.tlmbuses]
  BY <1>1, WithField
<1>4. SystemOK(swept) /\ swept.connections = v
  BY <1>1, <1>2, <1>3 DEF SystemOK
<1> HIDE DEF swept
<1>5. Sound([t EXCEPT ![q] = swept], TRUE)
  BY <1>2, <1>4, LostSystemSound
<1>6. ASSUME NEW K PROVE Sound(Without([t EXCEPT ![q] = swept], K), TRUE)
  BY <1>5, WithoutSound
<1>7. ASSUME NEW components PROVE Sound([t EXCEPT ![q] = [swept EXCEPT !.components = components]], TRUE)
  <2> DEFINE x == [swept EXCEPT !.components = components]
  <2>1. x = [type |-> swept.type, connectors |-> swept.connectors, components |-> components,
             connections |-> swept.connections, buses |-> swept.buses, tlmbuses |-> swept.tlmbuses]
    BY <1>4, WithField
  <2> HIDE DEF x
  <2>2. SystemOK(x) /\ x.connections = v
    BY <1>4, <2>1 DEF SystemOK
  <2>3. Sound([t EXCEPT ![q] = x], TRUE)
    BY <1>2, <2>2, LostSystemSound
  <2> QED
    BY <2>3 DEF x
<1>8. Sound([t EXCEPT ![q] = [s EXCEPT !.connectors = Without(@, {n})]], TRUE)
  <2> DEFINE w == Without(s.connectors, {n})
             x == [s EXCEPT !.connectors = w]
  <2>1. DOMAIN w \subseteq DOMAIN s.connectors
    BY DEF Without, Restrict
  <2> HIDE DEF w
  <2>2. x = [type |-> s.type, connectors |-> w, components |-> s.components,
             connections |-> s.connections, buses |-> s.buses, tlmbuses |-> s.tlmbuses]
    BY <1>1, WithField
  <2> HIDE DEF x
  <2>3. SystemOK(x) /\ x.connections = s.connections
    BY <1>1, <2>1, <2>2 DEF SystemOK
  <2>4. Sound([t EXCEPT ![q] = x], TRUE)
    BY <1>1, <2>3, LostSystemSound
  <2> QED
    BY <2>4 DEF x, w
<1>9. DeleteAllConectionsTo(s, n) = swept
  BY DEF DeleteAllConectionsTo, swept, v
<1> QED
  BY <1>6, <1>7, <1>8, <1>9 DEF Delete, q, n, s-----------------------------------------------------------------------------
(* Export. *)

(* The function FlattenSeq is defined by; it exists. *)
Flat(seqs, n) ==
  CHOOSE f : f = [i \in 1..n |-> IF i = 1 THEN seqs[i] ELSE f[i - 1] \o seqs[i]]

LEMMA FlatExists ==
  ASSUME NEW seqs, NEW n \in Nat
  PROVE  Flat(seqs, n) =
           [i \in 1..n |-> IF i = 1 THEN seqs[i] ELSE Flat(seqs, n)[i - 1] \o seqs[i]]
<1> DEFINE Body(k, f) == [i \in 1..k |-> IF i = 1 THEN seqs[i] ELSE f[i - 1] \o seqs[i]]
           T == {k \in Nat : \E f : f = Body(k, f)}
<1>1. 0 \in T
  <2>1. [i \in 1..0 |-> seqs] = Body(0, [i \in 1..0 |-> seqs])
    OBVIOUS
  <2> QED
    BY <2>1
<1>2. ASSUME NEW k \in Nat, k \in T PROVE k + 1 \in T
  <2>1. PICK f : f = Body(k, f)
    BY <1>2
  <2> DEFINE last == IF k = 0 THEN seqs[1] ELSE f[k] \o seqs[k + 1]
             g == [i \in 1..(k + 1) |-> IF i = k + 1 THEN last ELSE f[i]]
  <2>2. ASSUME NEW i \in 1..(k + 1) PROVE g[i] = Body(k + 1, g)[i]
    <3>1. CASE i = k + 1
      <4>1. g[i] = last /\ (i # 1 => g[i - 1] = f[k])
        BY <3>1
      <4> QED
        BY <3>1, <4>1
    <3>2. CASE i # k + 1
      <4>1. i \in 1..k /\ g[i] = f[i] /\ (i # 1 => g[i - 1] = f[i - 1])
        BY <3>2
      <4>2. f[i] = IF i = 1 THEN seqs[i] ELSE f[i - 1] \o seqs[i]
        BY <2>1, <4>1
      <4> QED
        BY <4>1, <4>2
    <3> QED
      BY <3>1, <3>2
  <2>3. g = Body(k + 1, g)
    BY <2>2
  <2> HIDE DEF g
  <2>4. \E h : h = Body(k + 1, h)
    BY <2>3
  <2> HIDE DEF Body
  <2> QED
    BY <2>4
<1> HIDE DEF T
<1>3. Nat \subseteq T
  BY <1>1, <1>2, SetInduction
<1>4. \E f : f = Body(n, f)
  BY <1>3 DEF T
<1> QED
  BY <1>4 DEF Flat

LEMMA FlattenIs ==
  ASSUME NEW S, NEW seqs \in Seq(Seq(S))
  PROVE  FlattenSeq(seqs) \in Seq(S)
<1> DEFINE n == Len(seqs)
           f == Flat(seqs, n)
           T == {k \in Nat : k + 1 <= n => f[k + 1] \in Seq(S)}
<1>1. n \in Nat /\ \A i \in 1..n : seqs[i] \in Seq(S)
  OBVIOUS
<1>2. f = [i \in 1..n |-> IF i = 1 THEN seqs[i] ELSE f[i - 1] \o seqs[i]]
  BY <1>1, FlatExists
<1>3. FlattenSeq(seqs) = IF n = 0 THEN seqs ELSE f[n]
  BY DEF FlattenSeq, Flat
<1>4. n = 0 => seqs \in Seq(S)
  OBVIOUS
<1> HIDE DEF f, n
<1>5. 0 \in T
  BY <1>1, <1>2
<1>6. ASSUME NEW k \in Nat, k \in T PROVE k + 1 \in T
  <2> SUFFICES ASSUME k + 1 + 1 <= n PROVE f[k + 1 + 1] \in Seq(S)
    OBVIOUS
  <2>1. f[k + 1] \in Seq(S) /\ f[k + 1 + 1] = f[k + 1] \o seqs[k + 1 + 1] /\ seqs[k + 1 + 1] \in Seq(S)
    <3> DEFINE j == k + 1 + 1
    <3>1. j \in 1..n /\ j # 1 /\ j - 1 = k + 1 /\ k + 1 <= n
      BY <1>1
    <3> HIDE DEF j
    <3>2. f[j] = f[j - 1] \o seqs[j]
      BY <1>2, <3>1
    <3> QED
      BY <1>1, <1>6, <3>1, <3>2 DEF j
  <2> QED
    BY <2>1, ConcatProperties
<1> HIDE DEF T
<1>7. Nat \subseteq T
  BY <1>5, <1>6, SetInduction
<1>8. ASSUME n # 0 PROVE f[n] \in Seq(S)
  <2>1. n - 1 \in T /\ n - 1 + 1 = n
    BY <1>1, <1>7, <1>8
  <2> QED
    BY <1>1, <2>1 DEF T
<1> QED
  BY <1>3, <1>4, <1>8

LEMMA OfKindIs ==
  ASSUME NEW s \in Seq(Connection), NEW kinds
  PROVE  OfKind(s, kinds) \in Seq(Connection)
<1> DEFINE parts == [n \in DOMAIN s |-> IF s[n].kind \in kinds THEN <<s[n]>> ELSE << >>]
<1>1. Len(s) \in Nat /\ DOMAIN s = 1..Len(s) /\ \A n \in DOMAIN s : s[n] \in Connection
  OBVIOUS
<1>2. \A x \in Connection : <<x>> \in Seq(Connection)
  OBVIOUS
<1>3. parts \in [1..Len(s) -> Seq(Connection)]
  BY <1>1, <1>2
<1>4. parts \in Seq(Seq(Connection))
  BY <1>1, <1>3
<1> QED
  BY <1>4, FlattenIs DEF OfKind

(* A delay of six decimals is a delay.                                     *)
LEMMA WrittenIs ==
  ASSUME NEW delay \in Nat
  PROVE  Written(delay) \in Nat
<1>1. (delay + 5) \div 10 \in Nat
  OBVIOUS
<1> DEFINE m == (delay + 5) \div 10
<1> HIDE DEF m
<1>2. 10 * m \in Nat
  BY <1>1 DEF m
<1> QED
  BY <1>2 DEF Written, m

LEMMA ExportConnectionsOK ==
  ASSUME NEW s \in Seq(Connection)
  PROVE  [n \in DOMAIN s |-> ExportConnection(s[n])] \in Seq(Connection)
<1>1. ASSUME NEW x \in Connection PROVE ExportConnection(x) \in Connection
  <2>1. x.delay \in Nat
    BY DEF Connection
  <2>2. Written(x.delay) \in Nat
    BY <2>1, WrittenIs
  <2> QED
    BY <2>2 DEF ExportConnection, Connection
<1>2. Len(s) \in Nat /\ DOMAIN s = 1..Len(s) /\ \A n \in DOMAIN s : s[n] \in Connection
  OBVIOUS
<1>3. [n \in DOMAIN s |-> ExportConnection(s[n])] \in [1..Len(s) -> Connection]
  BY <1>1, <1>2
<1> QED
  BY <1>2, <1>3

LEMMA ExportOK ==
  ASSUME NEW t, NEW lost, Sound(t, lost)
  PROVE  DocumentOK(ExportToSSD(t))
<1> DEFINE document == ExportToSSD(t)
<1>1. DOMAIN document = DOMAIN t /\ DOMAIN t \subseteq Refs /\ IsFiniteSet(DOMAIN t)
  BY DEF ExportToSSD, Sound, TreeOK
<1>2. ASSUME NEW p \in DOMAIN t
      PROVE  /\ document[p].connections \in Seq(Connection)
             /\ document[p].busconnections \in Seq(Connection)
             /\ document[p].buses \in Seq(Bus)
             /\ IsList(document[p].tlmbuses)
             /\ \A n \in DOMAIN document[p].tlmbuses : NamesRefs(document[p].tlmbuses[n])
             /\ document[p].type = "tlm" => DOMAIN document[p].connectors = {}
  <2> DEFINE s == t[p]
             w == OfKind(s.connections, {"bus", "tlm"})
             written == [n \in DOMAIN w |-> ExportConnection(w[n])]
             v == [n \in DOMAIN s.tlmbuses |-> [name |-> s.tlmbuses[n].name, signals |-> s.tlmbuses[n].signals]]
  <2>1. SystemOK(s)
    BY DEF Sound, TreeOK
  <2>2. /\ document[p].connections = OfKind(s.connections, {"single"})
        /\ document[p].busconnections = written
        /\ document[p].buses = s.buses /\ document[p].tlmbuses = v
        /\ document[p].type = s.type /\ document[p].connectors = s.connectors
    BY DEF ExportToSSD
  <2>3. OfKind(s.connections, {"single"}) \in Seq(Connection) /\ w \in Seq(Connection)
    BY <2>1, OfKindIs DEF SystemOK
  <2>4. IsList(v) /\ DOMAIN v = DOMAIN s.tlmbuses
    BY <2>1, MappedList DEF SystemOK
  <2>5. \A n \in DOMAIN v : NamesRefs(v[n])
    BY <2>1 DEF SystemOK, TLMBusOK, NamesRefs
  <2> HIDE DEF w
  <2>6. written \in Seq(Connection)
    BY <2>3, ExportConnectionsOK
  <2> HIDE DEF v, s, document, written
  <2> QED
    BY <2>1, <2>2, <2>3, <2>4, <2>5, <2>6 DEF SystemOK
<1> HIDE DEF document
<1> QED
  BY <1>1, <1>2 DEF DocumentOK, document-----------------------------------------------------------------------------
(* Import: the calls it makes. *)

LEMMA FlattenFrom ==
  ASSUME NEW seqs, IsList(seqs), \A i \in DOMAIN seqs : IsList(seqs[i])
  PROVE  /\ IsList(FlattenSeq(seqs))
         /\ \A x \in DOMAIN FlattenSeq(seqs) : \E i \in DOMAIN seqs : \E m \in DOMAIN seqs[i] :
              FlattenSeq(seqs)[x] = seqs[i][m]
<1> DEFINE S == UNION {{seqs[i][m] : m \in DOMAIN seqs[i]} : i \in DOMAIN seqs}
<1>1. ASSUME NEW i \in DOMAIN seqs PROVE seqs[i] \in Seq(S)
  <2>1. \A m \in DOMAIN seqs[i] : seqs[i][m] \in S
    OBVIOUS
  <2> HIDE DEF S
  <2>2. Len(seqs[i]) \in Nat /\ seqs[i] = [m \in 1..Len(seqs[i]) |-> seqs[i][m]] /\ DOMAIN seqs[i] = 1..Len(seqs[i])
    BY ListIs
  <2>3. seqs[i] \in [1..Len(seqs[i]) -> S]
    BY <2>1, <2>2
  <2> QED
    BY <2>2, <2>3
<1>2. \A x \in S : \E i \in DOMAIN seqs : \E m \in DOMAIN seqs[i] : x = seqs[i][m]
  OBVIOUS
<1> HIDE DEF S
<1>3. seqs \in Seq(Seq(S))
  <2>1. Len(seqs) \in Nat /\ seqs = [i \in 1..Len(seqs) |-> seqs[i]] /\ DOMAIN seqs = 1..Len(seqs)
    BY ListIs
  <2>2. seqs \in [1..Len(seqs) -> Seq(S)]
    BY <1>1, <2>1
  <2> QED
    BY <2>1, <2>2
<1>4. FlattenSeq(seqs) \in Seq(S)
  BY <1>3, FlattenIs
<1> QED
  BY <1>2, <1>4, ListOf

(* The list j has the elements of s and of r. *)
HasBoth(j, s, r) ==
  /\ IsList(j)
  /\ \A x \in DOMAIN j : (\E m \in DOMAIN s : j[x] = s[m]) \/ (\E m \in DOMAIN r : j[x] = r[m])
  /\ \A m \in DOMAIN s : \E x \in DOMAIN j : j[x] = s[m]
  /\ \A m \in DOMAIN r : \E x \in DOMAIN j : j[x] = r[m]

LEMMA ConcatFrom ==
  ASSUME NEW s, IsList(s), NEW r, IsList(r)
  PROVE  HasBoth(s \o r, s, r)
<1> DEFINE S == {s[m] : m \in DOMAIN s} \cup {r[m] : m \in DOMAIN r}
           j == s \o r
<1>1. s \in Seq(S) /\ r \in Seq(S)
  BY ListIs
<1> HIDE DEF S
<1>2. /\ Len(s) \in Nat /\ DOMAIN s = 1..Len(s)
      /\ Len(r) \in Nat /\ DOMAIN r = 1..Len(r)
  BY ListIs
<1>3. /\ j \in Seq(S) /\ Len(j) = Len(s) + Len(r)
      /\ \A x \in 1..Len(s) + Len(r) : j[x] = IF x <= Len(s) THEN s[x] ELSE r[x - Len(s)]
  BY <1>1, ConcatProperties
<1> HIDE DEF j
<1>4. IsList(j) /\ DOMAIN j = 1..(Len(s) + Len(r))
  BY <1>3, ListOf
<1>5. ASSUME NEW x \in DOMAIN j
      PROVE  (\E m \in DOMAIN s : j[x] = s[m]) \/ (\E m \in DOMAIN r : j[x] = r[m])
  <2>1. CASE x <= Len(s)
    BY <1>2, <1>3, <1>4, <2>1
  <2>2. CASE ~(x <= Len(s))
    <3>1. x - Len(s) \in DOMAIN r /\ j[x] = r[x - Len(s)]
      BY <1>2, <1>3, <1>4, <2>2
    <3> QED
      BY <3>1
  <2> QED
    BY <2>1, <2>2
<1>6. ASSUME NEW m \in DOMAIN s PROVE \E x \in DOMAIN j : j[x] = s[m]
  <2>1. m \in DOMAIN j /\ j[m] = s[m]
    BY <1>2, <1>3, <1>4
  <2> QED
    BY <2>1
<1>7. ASSUME NEW m \in DOMAIN r PROVE \E x \in DOMAIN j : j[x] = r[m]
  <2>1. m + Len(s) \in DOMAIN j /\ j[m + Len(s)] = r[m]
    BY <1>2, <1>3, <1>4
  <2> QED
    BY <2>1
<1> QED
  BY <1>4, <1>5, <1>6, <1>7 DEF j, HasBoth

(* The steps that are made for the systems in D. *)
StepOK(document, D, step) ==
  /\ step.at \in D
  /\ \/ step.call = "contents" /\ step.of = document[step.at]
     \/ step.call = "connection" /\ step.of \in Connection
     \/ step.call \in {"bus", "tlmbus"} /\ step.of.name \in STRING
     \/ step.call = "signal" /\ step.of.bus.name \in STRING /\ step.of.signal \in Refs
     \/ step.call = "tlmsignal" /\ NamesRefs(step.of.bus)
StepsOK(document, D, steps) == IsList(steps) /\ \A n \in DOMAIN steps : StepOK(document, D, steps[n])

LEMMA JoinedSteps ==
  ASSUME NEW document, NEW D, NEW s, StepsOK(document, D, s), NEW r, StepsOK(document, D, r)
  PROVE  StepsOK(document, D, s \o r)
<1> DEFINE j == s \o r
<1>1. HasBoth(j, s, r)
  BY ConcatFrom DEF StepsOK
<1> HIDE DEF j
<1>2. StepsOK(document, D, j)
  BY <1>1 DEF StepsOK, HasBoth
<1> QED
  BY <1>2 DEF j

LEMMA FlattenedSteps ==
  ASSUME NEW document, NEW D, NEW seqs, IsList(seqs), \A i \in DOMAIN seqs : StepsOK(document, D, seqs[i])
  PROVE  StepsOK(document, D, FlattenSeq(seqs))
<1>1. /\ IsList(FlattenSeq(seqs))
      /\ \A x \in DOMAIN FlattenSeq(seqs) : \E i \in DOMAIN seqs : \E m \in DOMAIN seqs[i] :
           FlattenSeq(seqs)[x] = seqs[i][m]
  BY FlattenFrom DEF StepsOK
<1> QED
  BY <1>1 DEF StepsOK

LEMMA OneStep ==
  ASSUME NEW document, NEW D, NEW step, StepOK(document, D, step)
  PROVE  StepsOK(document, D, <<step>>)
<1>1. <<step>> = [n \in 1..1 |-> <<step>>[n]]
  OBVIOUS
<1>2. IsList(<<step>>) /\ DOMAIN <<step>> = 1..1
  BY <1>1, IsListIf
<1> QED
  BY <1>2 DEF StepsOK

LEMMA StepsAreOK ==
  ASSUME NEW document, DocumentOK(document), NEW D, NEW p \in D \cap DOMAIN document
  PROVE  StepsOK(document, D, Steps(document, p))
<1> DEFINE d == document[p]
           Step(call, of) == [call |-> call, at |-> p, of |-> of]
           signals(bus) == [m \in DOMAIN bus.signals |-> Step("signal", [bus |-> bus, signal |-> bus.signals[m]])]
           ABus(bus) == <<Step("bus", bus)>> \o signals(bus)
           tlmsignals(bus) == [m \in DOMAIN TLMTypes |-> Step("tlmsignal", [bus |-> bus, type |-> TLMTypes[m]])]
           TLMBus(bus) == <<Step("tlmbus", bus)>> \o tlmsignals(bus)
           s1 == <<Step("contents", d)>>
           s2 == [n \in DOMAIN d.connections |-> Step("connection", d.connections[n])]
           b3 == [n \in DOMAIN d.buses |-> ABus(d.buses[n])]
           b4 == [n \in DOMAIN d.tlmbuses |-> TLMBus(d.tlmbuses[n])]
           s5 == [n \in DOMAIN d.busconnections |-> Step("connection", d.busconnections[n])]
<1>1. /\ d.connections \in Seq(Connection) /\ d.busconnections \in Seq(Connection)
      /\ d.buses \in Seq(Bus)
      /\ IsList(d.tlmbuses) /\ \A n \in DOMAIN d.tlmbuses : NamesRefs(d.tlmbuses[n])
  BY DEF DocumentOK
<1>2. StepsOK(document, D, s1)
  <2>1. StepOK(document, D, Step("contents", d))
    BY DEF StepOK
  <2> HIDE DEF Step
  <2> QED
    BY <2>1, OneStep
<1>3. ASSUME NEW connections \in Seq(Connection)
      PROVE  StepsOK(document, D, [n \in DOMAIN connections |-> Step("connection", connections[n])])
  <2> DEFINE v == [n \in DOMAIN connections |-> Step("connection", connections[n])]
  <2>1. IsList(connections) /\ \A n \in DOMAIN connections : connections[n] \in Connection
    BY ListOf
  <2>2. IsList(v) /\ DOMAIN v = DOMAIN connections
    BY <2>1, MappedList
  <2>3. \A n \in DOMAIN v : StepOK(document, D, v[n])
    BY <2>1 DEF StepOK
  <2> HIDE DEF v
  <2>4. StepsOK(document, D, v)
    BY <2>2, <2>3 DEF StepsOK
  <2> QED
    BY <2>4 DEF v
<1>4. ASSUME NEW bus \in Bus PROVE StepsOK(document, D, ABus(bus))
  <2>1. bus.name \in STRING /\ bus.signals \in Seq(Refs)
    BY DEF Bus
  <2>2. StepOK(document, D, Step("bus", bus))
    BY <2>1 DEF StepOK
  <2> DEFINE v == signals(bus)
  <2>3. IsList(bus.signals) /\ \A n \in DOMAIN bus.signals : bus.signals[n] \in Refs
    BY <2>1, ListOf
  <2>4. IsList(v) /\ DOMAIN v = DOMAIN bus.signals
    BY <2>3, MappedList
  <2>5. \A n \in DOMAIN v : StepOK(document, D, v[n])
    BY <2>1, <2>3 DEF StepOK
  <2> HIDE DEF v, Step
  <2>6. StepsOK(document, D, v) /\ StepsOK(document, D, <<Step("bus", bus)>>)
    BY <2>2, <2>4, <2>5, OneStep DEF StepsOK
  <2> QED
    BY <2>6, JoinedSteps DEF v
<1>5. ASSUME NEW bus, NamesRefs(bus) PROVE StepsOK(document, D, TLMBus(bus))
  <2>1. StepOK(document, D, Step("tlmbus", bus))
    BY <1>5 DEF StepOK, NamesRefs
  <2> DEFINE v == tlmsignals(bus)
  <2>2. IsList(TLMTypes)
    BY ReferencesAssumption, ListOf
  <2>3. IsList(v) /\ DOMAIN v = DOMAIN TLMTypes
    BY <2>2, MappedList
  <2>4. \A n \in DOMAIN v : StepOK(document, D, v[n])
    BY <1>5 DEF StepOK
  <2> HIDE DEF v, Step
  <2>5. StepsOK(document, D, v) /\ StepsOK(document, D, <<Step("tlmbus", bus)>>)
    BY <2>1, <2>3, <2>4, OneStep DEF StepsOK
  <2> QED
    BY <2>5, JoinedSteps DEF v
<1>6. StepsOK(document, D, s2) /\ StepsOK(document, D, s5)
  BY <1>1, <1>3
<1> HIDE DEF ABus, TLMBus
<1>7. StepsOK(document, D, FlattenSeq(b3))
  <2>1. IsList(d.buses) /\ \A n \in DOMAIN d.buses : d.buses[n] \in Bus
    BY <1>1, ListOf
  <2>2. IsList(b3) /\ DOMAIN b3 = DOMAIN d.buses
    BY <2>1, MappedList
  <2>3. \A n \in DOMAIN b3 : StepsOK(document, D, b3[n])
    BY <1>4, <2>1
  <2> HIDE DEF b3
  <2> QED
    BY <2>2, <2>3, FlattenedSteps
<1>8. StepsOK(document, D, FlattenSeq(b4))
  <2>1. IsList(b4) /\ DOMAIN b4 = DOMAIN d.tlmbuses
    BY <1>1, MappedList
  <2>2. \A n \in DOMAIN b4 : StepsOK(document, D, b4[n])
    BY <1>1, <1>5
  <2> HIDE DEF b4
  <2> QED
    BY <2>1, <2>2, FlattenedSteps
<1> DEFINE s3 == FlattenSeq(b3)
           s4 == FlattenSeq(b4)
<1>9. Steps(document, p) = s1 \o s2 \o s3 \o s4 \o s5
  BY DEF Steps, ABus, TLMBus
<1> HIDE DEF s1, s2, s3, s4, s5
<1>10. StepsOK(document, D, s1 \o s2)
  BY <1>2, <1>6, JoinedSteps
<1>11. StepsOK(document, D, s1 \o s2 \o s3)
  BY <1>7, <1>10, JoinedSteps DEF s3
<1>12. StepsOK(document, D, s1 \o s2 \o s3 \o s4)
  BY <1>8, <1>11, JoinedSteps DEF s4
<1> QED
  BY <1>6, <1>9, <1>12, JoinedSteps-----------------------------------------------------------------------------
(* Import: what the calls do. *)

(* A tree that is built from a document: every system has its type, and    *)
(* the elements of the document or none yet.                               *)
Reads(t, document) ==
  /\ Sound(t, FALSE)
  /\ DOMAIN t \subseteq DOMAIN document
  /\ \A p \in DOMAIN t :
       /\ t[p].type = document[p].type
       /\ \/ t[p].connectors = NoTree /\ t[p].components = NoTree
          \/ /\ t[p].connectors = document[p].connectors
             /\ t[p].components = [n \in DOMAIN document[p].components |-> ReadComponent(document[p].components[n])]

LEMMA SimilarReads ==
  ASSUME NEW t, NEW document, Reads(t, document), NEW u, Sound(u, FALSE), Similar(t, u)
  PROVE  Reads(u, document)
BY DEF Reads, Similar

LEMMA ContentsRead ==
  ASSUME NEW document, DocumentOK(document), NEW t, Reads(t, document), NEW p \in DOMAIN t
  PROVE  Reads(Contents(t, p, document[p]), document) /\ DOMAIN Contents(t, p, document[p]) = DOMAIN t
<1> DEFINE d == document[p]
           components == [n \in DOMAIN d.components |-> ReadComponent(d.components[n])]
           x == [t[p] EXCEPT !.components = components]
           s == [x EXCEPT !.connectors = d.connectors]
           u == [t EXCEPT ![p] = s]
<1>1. Contents(t, p, d) = u
  BY DEF Contents
<1>2. TreeOK(t) /\ SystemOK(t[p]) /\ t[p].type = d.type /\ p \in DOMAIN document
  BY DEF Reads, Sound, TreeOK
<1>3. \/ t[p].connectors = NoTree /\ t[p].components = NoTree
      \/ t[p].connectors = d.connectors /\ t[p].components = components
  BY DEF Reads
<1>4. d.type = "tlm" => DOMAIN d.connectors = {}
  BY <1>2 DEF DocumentOK
<1> HIDE DEF d, components
<1>5. x = [type |-> t[p].type, connectors |-> t[p].connectors, components |-> components,
           connections |-> t[p].connections, buses |-> t[p].buses, tlmbuses |-> t[p].tlmbuses]
  BY <1>2, WithField
<1>6. SystemOK(x)
  BY <1>2, <1>5 DEF SystemOK
<1>7. s = [type |-> x.type, connectors |-> d.connectors, components |-> x.components,
           connections |-> x.connections, buses |-> x.buses, tlmbuses |-> x.tlmbuses]
  BY <1>6, WithField
<1> HIDE DEF x, s
<1>8. /\ s.type = t[p].type /\ s.connectors = d.connectors /\ s.components = components
      /\ s.connections = t[p].connections /\ s.buses = t[p].buses /\ s.tlmbuses = t[p].tlmbuses
      /\ s = [type |-> s.type, connectors |-> s.connectors, components |-> s.components,
              connections |-> s.connections, buses |-> s.buses, tlmbuses |-> s.tlmbuses]
  BY <1>5, <1>7
<1>9. SystemOK(s)
  BY <1>2, <1>4, <1>8 DEF SystemOK
<1>10. Sound(u, FALSE)
  <2>1. CASE t[p].connectors = NoTree /\ t[p].components = NoTree
    <3>1. DOMAIN t[p].connectors = {} /\ DOMAIN t[p].components = {} /\ Sound(t, FALSE)
      BY <2>1 DEF Reads, NoTree
    <3> QED
      BY <1>8, <1>9, <3>1, ElementsSound
  <2>2. CASE t[p].connectors = d.connectors /\ t[p].components = components
    <3>1. /\ s.connectors = t[p].connectors /\ s.components = t[p].components
          /\ s.connections = t[p].connections /\ Sound(t, FALSE)
      BY <1>8, <2>2 DEF Reads
    <3> QED
      BY <1>9, <3>1, ElementsSound
  <2> QED
    BY <1>3, <2>1, <2>2
<1>11. DOMAIN u = DOMAIN t /\ u[p] = s /\ \A q \in DOMAIN t \ {p} : u[q] = t[q]
  BY <1>2, <1>9, WithSystem
<1> HIDE DEF u
<1>12. u[p].components = [n \in DOMAIN d.components |-> ReadComponent(d.components[n])]
  BY <1>8, <1>11 DEF components
<1>13. Reads(u, document)
  <2> SUFFICES ASSUME NEW q \in DOMAIN u
               PROVE  /\ u[q].type = document[q].type
                      /\ \/ u[q].connectors = NoTree /\ u[q].components = NoTree
                         \/ /\ u[q].connectors = document[q].connectors
                            /\ u[q].components =
                                 [n \in DOMAIN document[q].components |-> ReadComponent(document[q].components[n])]
    BY <1>10, <1>11 DEF Reads
  <2>1. CASE q = p
    <3>1. /\ u[q].type = d.type /\ u[q].connectors = d.connectors /\ d = document[q]
          /\ u[q].components = [n \in DOMAIN d.components |-> ReadComponent(d.components[n])]
      BY <1>2, <1>8, <1>11, <1>12, <2>1 DEF d
    <3> QED
      BY <3>1
  <2>2. CASE q # p
    BY <1>11, <2>2 DEF Reads
  <2> QED
    BY <2>1, <2>2
<1> QED
  BY <1>1, <1>11, <1>13 DEF d

LEMMA Singleton ==
  ASSUME NEW S, NEW x \in S
  PROVE  <<x>> \in Seq(S) /\ <<x>> # << >>
OBVIOUS

LEMMA SingletonRef ==
  ASSUME NEW x \in STRING
  PROVE  <<x>> \in Refs \ {<< >>}
BY Singleton DEF Refs

LEMMA PerformReads ==
  ASSUME NEW document, DocumentOK(document), NEW t, Reads(t, document),
         NEW step, StepOK(document, DOMAIN t, step)
  PROVE  Reads(Perform(t, step).tree, document) /\ DOMAIN Perform(t, step).tree = DOMAIN t
<1> DEFINE p == step.at
           d == step.of
           u == Perform(t, step).tree
<1>1. p \in DOMAIN t /\ Sound(t, FALSE)
  BY DEF StepOK, Reads
<1>2. \A x \in STRING : <<x>> \in Refs \ {<< >>}
  BY SingletonRef
<1>3. ASSUME NEW w, Sound(w, FALSE), Similar(t, w) PROVE Reads(w, document) /\ DOMAIN w = DOMAIN t
  BY <1>3, SimilarReads DEF Similar
<1> HIDE DEF p, d
<1>4. CASE step.call = "contents" /\ step.of = document[step.at]
  <2>1. Perform(t, step).tree = Contents(t, p, document[p])
    BY <1>4 DEF Perform, p, d
  <2> QED
    BY <1>1, <2>1, ContentsRead
<1>5. CASE step.call = "connection" /\ step.of \in Connection
  <2>1. d.a \in Refs /\ d.b \in Refs /\ d.delay \in Nat
    BY <1>5 DEF Connection, d
  <2>2. Perform(t, step).tree = IF d.kind = "tlm" THEN AddTLMConnection(t, p, d.a, d.b, d.delay)
                                ELSE AddConnection(t, p, d.a, d.b)
    BY <1>5 DEF Perform, p, d
  <2> QED
    BY <1>1, <1>3, <2>1, <2>2, AddTLMConnectionSound, AddConnectionSound
<1>6. CASE step.call \in {"bus", "tlmbus"} /\ step.of.name \in STRING
  <2>1. <<d.name>> \in Refs \ {<< >>}
    BY <1>2, <1>6 DEF d
  <2>2. CASE step.call = "bus"
    <3>1. Perform(t, step).tree = AddBus(t, p, <<d.name>>)
      BY <2>2 DEF Perform, p, d
    <3> QED
      BY <1>1, <1>3, <2>1, <3>1, AddBusSound
  <2>3. CASE step.call = "tlmbus"
    <3>1. Perform(t, step).tree = AddTLMBus(t, p, <<d.name>>)
      BY <2>3 DEF Perform, p, d
    <3> QED
      BY <1>1, <1>3, <2>1, <3>1, AddTLMBusSound
  <2> QED
    BY <1>6, <2>2, <2>3
<1>7. CASE step.call = "signal" /\ step.of.bus.name \in STRING /\ step.of.signal \in Refs
  <2>1. <<d.bus.name>> \in Refs /\ d.signal \in Refs
    BY <1>2, <1>7 DEF d
  <2>2. Perform(t, step).tree = AddConnectorToBus(t, p, <<d.bus.name>>, d.signal)
    BY <1>7 DEF Perform, p, d
  <2> QED
    BY <1>1, <1>3, <2>1, <2>2, AddConnectorToBusSound
<1>8. CASE step.call = "tlmsignal" /\ NamesRefs(step.of.bus)
  <2>1. <<d.bus.name>> \in Refs /\ \A x \in DOMAIN d.bus.signals : d.bus.signals[x] \in Refs
    BY <1>2, <1>8 DEF d, NamesRefs
  <2>2. Perform(t, step).tree =
          IF d.type \in DOMAIN d.bus.signals
          THEN AddConnectorToTLMBus(t, p, <<d.bus.name>>, d.bus.signals[d.type], d.type) ELSE t
    BY <1>8 DEF Perform, p, d
  <2>3. CASE d.type \in DOMAIN d.bus.signals
    <3>1. d.bus.signals[d.type] \in Refs
      BY <2>1, <2>3
    <3> QED
      BY <1>1, <1>3, <2>1, <2>2, <2>3, <3>1, AddConnectorToTLMBusSound
  <2>4. CASE d.type \notin DOMAIN d.bus.signals
    BY <2>2, <2>4
  <2> QED
    BY <2>3, <2>4
<1> QED
  BY <1>4, <1>5, <1>6, <1>7, <1>8 DEF StepOK

(* The function Run is defined by; it exists. *)
After(steps, start, k) ==
  CHOOSE f : f = [n \in 0..k |-> IF n = 0 THEN start
                                 ELSE IF f[n - 1].ok THEN Perform(f[n - 1].tree, steps[n]) ELSE f[n - 1]]

LEMMA AfterExists ==
  ASSUME NEW steps, NEW start, NEW k \in Nat
  PROVE  After(steps, start, k) =
           [n \in 0..k |-> IF n = 0 THEN start
                           ELSE IF After(steps, start, k)[n - 1].ok
                                THEN Perform(After(steps, start, k)[n - 1].tree, steps[n])
                                ELSE After(steps, start, k)[n - 1]]
<1> DEFINE Then(x, n) == IF x.ok THEN Perform(x.tree, steps[n]) ELSE x
           Body(j, f) == [n \in 0..j |-> IF n = 0 THEN start ELSE Then(f[n - 1], n)]
           T == {j \in Nat : \E f : f = Body(j, f)}
<1> HIDE DEF Then
<1>1. 0 \in T
  <2> DEFINE f == [n \in 0..0 |-> start]
  <2>1. f = Body(0, f)
    OBVIOUS
  <2> QED
    BY <2>1
<1>2. ASSUME NEW j \in Nat, j \in T PROVE j + 1 \in T
  <2>1. PICK f : f = Body(j, f)
    BY <1>2
  <2> DEFINE g == [n \in 0..(j + 1) |-> IF n = j + 1 THEN Then(f[j], n) ELSE f[n]]
  <2>2. ASSUME NEW n \in 0..(j + 1) PROVE g[n] = Body(j + 1, g)[n]
    <3>1. CASE n = j + 1
      <4>1. g[n] = Then(f[j], n) /\ g[n - 1] = f[j] /\ n # 0
        BY <3>1
      <4> QED
        BY <4>1
    <3>2. CASE n # j + 1
      <4>1. n \in 0..j /\ g[n] = f[n]
        BY <3>2
      <4>2. f[n] = IF n = 0 THEN start ELSE Then(f[n - 1], n)
        BY <2>1, <4>1
      <4>3. n # 0 => g[n - 1] = f[n - 1]
        BY <4>1
      <4> QED
        BY <4>1, <4>2, <4>3
    <3> QED
      BY <3>1, <3>2
  <2>3. g = Body(j + 1, g)
    BY <2>2
  <2> HIDE DEF g
  <2>4. \E h : h = Body(j + 1, h)
    BY <2>3
  <2> HIDE DEF Body
  <2> QED
    BY <2>4
<1> HIDE DEF T
<1>3. Nat \subseteq T
  BY <1>1, <1>2, SetInduction
<1>4. \E f : f = Body(k, f)
  BY <1>3 DEF T
<1>5. /\ After(steps, start, k) = CHOOSE f : f = Body(k, f)
  BY DEF After, Then
<1> DEFINE a == After(steps, start, k)
<1>6. a = Body(k, a)
  BY <1>4, <1>5
<1> QED
  BY <1>6 DEF Then
(* The calls of the reading, as long as none fails. *)
LEMMA RunReads ==
  ASSUME NEW document, DocumentOK(document), NEW D, NEW steps, StepsOK(document, D, steps),
         NEW start, start.ok => Reads(start.tree, document) /\ DOMAIN start.tree = D,
         Run(steps, start).ok
  PROVE  Reads(Run(steps, start).tree, document)
<1> DEFINE k == Len(steps)
           f == After(steps, start, k)
           Good(x) == x.ok => Reads(x.tree, document) /\ DOMAIN x.tree = D
           T == {n \in Nat : n <= k => Good(f[n])}
<1>1. k \in Nat /\ DOMAIN steps = 1..k
  BY ListIs DEF StepsOK
<1>2. f = [n \in 0..k |-> IF n = 0 THEN start
                          ELSE IF f[n - 1].ok THEN Perform(f[n - 1].tree, steps[n]) ELSE f[n - 1]]
  BY <1>1, AfterExists
<1>3. Run(steps, start) = f[k]
  BY DEF Run, After
<1> HIDE DEF f, k
<1>4. 0 \in T
  BY <1>1, <1>2
<1>5. ASSUME NEW n \in Nat, n \in T PROVE n + 1 \in T
  <2> SUFFICES ASSUME n + 1 <= k PROVE Good(f[n + 1])
    OBVIOUS
  <2>1. /\ Good(f[n]) /\ n + 1 \in DOMAIN steps
        /\ f[n + 1] = IF f[n].ok THEN Perform(f[n].tree, steps[n + 1]) ELSE f[n]
    BY <1>1, <1>2, <1>5
  <2>2. StepOK(document, D, steps[n + 1])
    BY <2>1 DEF StepsOK
  <2>3. CASE f[n].ok
    BY <2>1, <2>2, <2>3, PerformReads
  <2>4. CASE ~f[n].ok
    BY <2>1, <2>4
  <2> QED
    BY <2>3, <2>4
<1> HIDE DEF T, Good
<1>6. Nat \subseteq T
  BY <1>4, <1>5, SetInduction
<1>7. Good(f[k])
  <2>1. k <= k /\ k \in T
    BY <1>1, <1>6
  <2> QED
    BY <2>1 DEF T
<1> QED
  BY <1>3, <1>7 DEF Good

LEMMA SetToSeqIs ==
  ASSUME NEW S, IsFiniteSet(S)
  PROVE  SetToSeq(S) \in Seq(S)
<1>1. Cardinality(S) \in Nat /\ ExistsBijection(1..Cardinality(S), S)
  BY FS_CardinalityType
<1>2. \E f \in [1..Cardinality(S) -> S] : IsInjective(f)
  BY <1>1 DEF ExistsBijection, Bijection, Injection, IsInjective
<1> QED
  BY <1>1, <1>2 DEF SetToSeq

(* Both orders list systems of the document, and the same ones. *)
LEMMA OrdersAre ==
  ASSUME NEW document, IsFiniteSet(DOMAIN document)
  PROVE  /\ IsList(CreationOrder(document)) /\ IsList(ReadingOrder(document))
         /\ \A n \in DOMAIN CreationOrder(document) : CreationOrder(document)[n] \in DOMAIN document
         /\ \A n \in DOMAIN ReadingOrder(document) : \E m \in DOMAIN CreationOrder(document) :
              ReadingOrder(document)[n] = CreationOrder(document)[m]
<1>1. ASSUME NEW k
      PROVE  /\ IsList(AtDepth(document, k))
             /\ \A n \in DOMAIN AtDepth(document, k) : AtDepth(document, k)[n] \in DOMAIN document
  <2> DEFINE S == {p \in DOMAIN document : Len(p) = k}
  <2>1. IsFiniteSet(S) /\ S \subseteq DOMAIN document
    BY FS_Subset
  <2> HIDE DEF S
  <2>2. SetToSeq(S) \in Seq(S)
    BY <2>1, SetToSeqIs
  <2>3. IsList(SetToSeq(S)) /\ \A n \in DOMAIN SetToSeq(S) : SetToSeq(S)[n] \in DOMAIN document
    BY <2>1, <2>2, ListOf
  <2> QED
    BY <2>3 DEF AtDepth, S
<1> DEFINE x == AtDepth(document, 1)
           y == AtDepth(document, 2)
           z == AtDepth(document, 3)
           xy == x \o y
           zy == z \o y
           c == xy \o z
           r == zy \o x
<1>2. IsList(x) /\ IsList(y) /\ IsList(z)
  BY <1>1
<1>3. c = CreationOrder(document) /\ r = ReadingOrder(document)
  BY DEF CreationOrder, ReadingOrder
<1>4. \A n \in DOMAIN x : x[n] \in DOMAIN document
  BY <1>1
<1>5. \A n \in DOMAIN y : y[n] \in DOMAIN document
  BY <1>1
<1>6. \A n \in DOMAIN z : z[n] \in DOMAIN document
  BY <1>1
<1> HIDE DEF x, y, z
<1>7. HasBoth(xy, x, y) /\ HasBoth(zy, z, y)
  BY <1>2, ConcatFrom
<1> HIDE DEF xy, zy
<1>8. IsList(xy) /\ IsList(zy)
  BY <1>7 DEF HasBoth
<1>9. HasBoth(c, xy, z) /\ HasBoth(r, zy, x)
  BY <1>2, <1>8, ConcatFrom
<1> HIDE DEF c, r
<1>10. IsList(c) /\ IsList(r)
  BY <1>9 DEF HasBoth
<1>11. \A n \in DOMAIN xy : xy[n] \in DOMAIN document
  BY <1>4, <1>5, <1>7 DEF HasBoth
<1>12. \A n \in DOMAIN c : c[n] \in DOMAIN document
  BY <1>6, <1>9, <1>11 DEF HasBoth
<1>13. \A n \in DOMAIN xy : \E m \in DOMAIN c : c[m] = xy[n]
  BY <1>9 DEF HasBoth
<1>14. ASSUME NEW n \in DOMAIN x PROVE \E m \in DOMAIN c : x[n] = c[m]
  BY <1>7, <1>13 DEF HasBoth
<1>15. ASSUME NEW n \in DOMAIN y PROVE \E m \in DOMAIN c : y[n] = c[m]
  BY <1>7, <1>13 DEF HasBoth
<1>16. ASSUME NEW n \in DOMAIN z PROVE \E m \in DOMAIN c : z[n] = c[m]
  BY <1>9 DEF HasBoth
<1>17. ASSUME NEW n \in DOMAIN zy PROVE \E m \in DOMAIN c : zy[n] = c[m]
  BY <1>7, <1>15, <1>16 DEF HasBoth
<1>18. ASSUME NEW n \in DOMAIN r PROVE \E m \in DOMAIN c : r[n] = c[m]
  BY <1>9, <1>14, <1>17 DEF HasBoth
<1> QED
  BY <1>3, <1>10, <1>12, <1>18

(* The systems are created before anything is read. *)
LEMMA CreationReads ==
  ASSUME NEW document, DocumentOK(document),
         Run(Creation(document), [ok |-> TRUE, tree |-> NoTree]).ok
  PROVE  LET t == Run(Creation(document), [ok |-> TRUE, tree |-> NoTree]).tree IN
           /\ Reads(t, document)
           /\ \A n \in DOMAIN ReadingOrder(document) : ReadingOrder(document)[n] \in DOMAIN t
<1> DEFINE order == CreationOrder(document)
           steps == Creation(document)
           start == [ok |-> TRUE, tree |-> NoTree]
           k == Len(steps)
           f == After(steps, start, k)
           Created(t, n) == /\ t = [p \in DOMAIN t |-> Empty(document[p].type)]
                            /\ DOMAIN t \subseteq DOMAIN document
                            /\ \A m \in 1..n : order[m] \in DOMAIN t
           T == {n \in Nat : n <= k /\ f[n].ok => Created(f[n].tree, n)}
<1>1. /\ IsList(order) /\ \A n \in DOMAIN order : order[n] \in DOMAIN document
      /\ \A n \in DOMAIN ReadingOrder(document) : \E m \in DOMAIN order : ReadingOrder(document)[n] = order[m]
  BY OrdersAre DEF DocumentOK
<1>2. IsList(steps) /\ DOMAIN steps = DOMAIN order /\ k = Len(order)
  BY <1>1, MappedList DEF Creation
<1>3. k \in Nat /\ DOMAIN order = 1..k
  BY <1>1, <1>2, ListIs
<1>4. \A n \in DOMAIN order : steps[n] = [call |-> "system", at |-> order[n], of |-> document[order[n]].type]
  BY DEF Creation
<1> HIDE DEF start, order, steps
<1>5. f = [n \in 0..k |-> IF n = 0 THEN start
                          ELSE IF f[n - 1].ok THEN Perform(f[n - 1].tree, steps[n]) ELSE f[n - 1]]
  BY <1>3, AfterExists
<1>6. Run(steps, start) = f[k]
  BY DEF Run, After
<1> HIDE DEF f, k
<1>7. 0 \in T
  <2>1. f[0].tree = NoTree
    BY <1>3, <1>5 DEF start
  <2>2. Created(NoTree, 0)
    BY DEF NoTree
  <2> HIDE DEF Created
  <2> QED
    BY <2>1, <2>2
<1>8. ASSUME NEW n \in Nat, n \in T PROVE n + 1 \in T
  <2> SUFFICES ASSUME n + 1 <= k, f[n + 1].ok PROVE Created(f[n + 1].tree, n + 1)
    OBVIOUS
  <2> DEFINE t == f[n].tree
             p == order[n + 1]
             type == document[p].type
             u == AddSystem(t, p, type)
  <2>1. n + 1 \in DOMAIN order /\ f[n + 1] = IF f[n].ok THEN Perform(t, steps[n + 1]) ELSE f[n]
    BY <1>3, <1>5
  <2>2. f[n].ok
    BY <2>1
  <2>3. Created(t, n) /\ p \in DOMAIN document
    BY <1>1, <1>3, <1>8, <2>1, <2>2
  <2> HIDE DEF t, p, type
  <2>4. Perform(t, steps[n + 1]) = [ok |-> u # t, tree |-> u]
    <3> DEFINE step == steps[n + 1]
    <3>1. step = [call |-> "system", at |-> p, of |-> type]
      BY <1>4, <2>1 DEF p, type
    <3> HIDE DEF step
    <3>2. step.call = "system" /\ step.at = p /\ step.of = type
      BY <3>1
    <3> QED
      BY <3>2 DEF Perform, step
  <2>5. f[n + 1].tree = u /\ u # t
    <3>1. f[n + 1] = [ok |-> u # t, tree |-> u]
      BY <2>1, <2>2, <2>4
    <3>2. u # t
      <4> SUFFICES ASSUME u = t PROVE FALSE
        OBVIOUS
      <4>1. f[n + 1] = [ok |-> FALSE, tree |-> u]
        BY <3>1
      <4> QED
        BY <4>1
    <3>3. f[n + 1].tree = u
      BY <3>1
    <3> QED
      BY <3>2, <3>3
  <2>6. u = Put(t, p, Empty(type))
    BY <2>5 DEF AddSystem
  <2>7. DOMAIN u = DOMAIN t \cup {p} /\ u = [x \in DOMAIN t \cup {p} |-> IF x = p THEN Empty(type) ELSE t[x]]
    BY <2>6 DEF Put
  <2> HIDE DEF u
  <2>8. u = [x \in DOMAIN u |-> Empty(document[x].type)]
    BY <2>3, <2>7 DEF type
  <2>9. \A m \in 1..(n + 1) : m \in 1..n \/ m = n + 1
    OBVIOUS
  <2>10. \A m \in 1..(n + 1) : order[m] \in DOMAIN u
    BY <2>3, <2>7, <2>9 DEF p
  <2> QED
    BY <2>3, <2>5, <2>7, <2>8, <2>10
<1> HIDE DEF T, Created
<1>9. Nat \subseteq T
  BY <1>7, <1>8, SetInduction
<1> DEFINE t == f[k].tree
<1>10. Created(t, k)
  <2>1. k <= k /\ k \in T /\ f[k].ok
    BY <1>3, <1>6, <1>9 DEF start, steps
  <2> QED
    BY <2>1 DEF T
<1> HIDE DEF t
<1>11. /\ t = [p \in DOMAIN t |-> Empty(document[p].type)] /\ DOMAIN t \subseteq DOMAIN document
       /\ \A m \in DOMAIN order : order[m] \in DOMAIN t
  BY <1>3, <1>10 DEF Created
<1>12. TreeOK(t)
  <2>1. IsFiniteSet(DOMAIN t) /\ DOMAIN t \subseteq Refs
    BY <1>11, FS_Subset DEF DocumentOK
  <2>2. \A p \in DOMAIN t : SystemOK(t[p])
    BY <1>11, EmptyOK
  <2> QED
    BY <1>11, <2>1, <2>2 DEF TreeOK
<1>13. \A p \in DOMAIN t : t[p].connections = << >>
  BY <1>11, EmptyOK
<1>14. Sound(t, FALSE)
  BY <1>12, <1>13 DEF Sound, Driven, AcceptedIn
<1>15. \A p \in DOMAIN t : t[p].type = document[p].type /\ t[p].connectors = NoTree /\ t[p].components = NoTree
  BY <1>11 DEF Empty
<1>16. Reads(t, document)
  BY <1>11, <1>14, <1>15 DEF Reads
<1>17. \A n \in DOMAIN ReadingOrder(document) : ReadingOrder(document)[n] \in DOMAIN t
  BY <1>1, <1>11
<1> QED
  BY <1>6, <1>16, <1>17 DEF t, start, steps

(* A document that can be imported becomes a sound tree. *)
LEMMA ImportSound ==
  ASSUME NEW document, DocumentOK(document), ImportFromSSD(document).ok
  PROVE  Sound(ImportFromSSD(document).tree, FALSE)
<1> DEFINE start == Run(Creation(document), [ok |-> TRUE, tree |-> NoTree])
           order == ReadingOrder(document)
           D == IF start.ok THEN DOMAIN start.tree ELSE DOMAIN document
           parts == [n \in DOMAIN order |-> Steps(document, order[n])]
           steps == Reading(document)
<1>1. ImportFromSSD(document) = Run(steps, start)
  BY DEF ImportFromSSD
<1>2. IsList(order) /\ \A n \in DOMAIN order : order[n] \in DOMAIN document
  BY OrdersAre DEF DocumentOK
<1>3. start.ok => Reads(start.tree, document) /\ \A n \in DOMAIN order : order[n] \in DOMAIN start.tree
  BY CreationReads
<1>4. steps = FlattenSeq(parts)
  BY DEF Reading
<1> HIDE DEF start, order
<1>5. \A n \in DOMAIN order : order[n] \in D \cap DOMAIN document
  BY <1>2, <1>3
<1>6. start.ok => Reads(start.tree, document) /\ DOMAIN start.tree = D
  BY <1>3
<1> HIDE DEF D, steps
<1>7. IsList(parts) /\ DOMAIN parts = DOMAIN order
  BY <1>2, MappedList
<1>8. \A n \in DOMAIN parts : StepsOK(document, D, parts[n])
  BY <1>5, StepsAreOK
<1> HIDE DEF parts
<1>9. StepsOK(document, D, steps)
  BY <1>4, <1>7, <1>8, FlattenedSteps
<1>10. Reads(Run(steps, start).tree, document)
  BY <1>1, <1>6, <1>9, RunReads
<1> QED
  BY <1>1, <1>10 DEF Reads-----------------------------------------------------------------------------
(* The calls of the client. *)

LEMMA ReferencesGiven ==
  /\ \A c \in Systems \cup Connectors \cup SubModels \cup Ends \cup Buses \cup Signals :
       c \in Refs /\ c \in Refs \ {<< >>}
  /\ 1 \in Nat /\ 2 \in Nat
BY ReferencesAssumption

(* A call that leaves the tree as sound as it was, and loses nothing. *)
LEMMA CallKeeps ==
  ASSUME IInv, NEW n \in DOMAIN index, NEW t, Change(n, t), UNCHANGED removed, Sound(t, removed)
  PROVE  IInv'
BY ChangeKeeps DEF IInv

LEMMA NoTreeSound == Sound(NoTree, FALSE) /\ Sound(NoTree, TRUE)
<1>1. DOMAIN NoTree = {} /\ NoTree = [p \in DOMAIN NoTree |-> NoTree[p]]
  BY DEF NoTree
<1>2. IsFiniteSet({})
  BY FS_EmptySet
<1> QED
  BY <1>1, <1>2 DEF Sound, TreeOK

(* What is sound when nothing is lost is sound in any case. *)
LEMMA SoundAnyway ==
  ASSUME NEW t, Sound(t, FALSE), NEW lost
  PROVE  Sound(t, lost)
BY DEF Sound

LEMMA NewModelKeeps ==
  ASSUME IInv, NewModel
  PROVE  IInv'
<1>1. PICK n \in Names : AddModel(n, NoTree)
  BY DEF NewModel
<1>2. UNCHANGED <<file, clash, removed>> /\ DocumentOK(file'.document)
  BY DEF NewModel, IInv
<1> QED
  BY <1>1, <1>2, AddModelKeeps, NoTreeSound, SoundAnyway

LEMMA ExportModelKeeps ==
  ASSUME IInv, ExportModel
  PROVE  IInv'
<1>1. PICK n \in DOMAIN index :
        file' = [cref |-> models[index[n]].cref, document |-> ExportToSSD(Tree(n))]
  BY DEF ExportModel
<1>2. UNCHANGED <<models, index, clash, removed>>
  BY DEF ExportModel
<1>3. DocumentOK(ExportToSSD(Tree(n)))
  BY FoundModel, ExportOK
<1>4. file'.document = ExportToSSD(Tree(n))
  BY <1>1
<1> QED
  BY <1>2, <1>3, <1>4 DEF IInv, Registered

LEMMA ImportModelKeeps ==
  ASSUME IInv, ImportModel
  PROVE  IInv'
<1> DEFINE r == ImportFromSSD(file.document)
<1>1. r.ok /\ AddModel(file.cref, r.tree) /\ UNCHANGED <<file, clash, removed>>
  BY DEF ImportModel
<1>2. DocumentOK(file.document) /\ DocumentOK(file'.document)
  BY <1>1 DEF IInv
<1>3. Sound(r.tree, FALSE)
  BY <1>1, <1>2, ImportSound
<1> HIDE DEF r
<1> QED
  BY <1>1, <1>2, <1>3, AddModelKeeps, SoundAnyway

LEMMA CallAddSystemKeeps ==
  ASSUME IInv, CallAddSystem
  PROVE  IInv'
<1>1. PICK n \in DOMAIN index, c \in Systems, type \in {"tlm", "wc", "sc"} :
        Change(n, AddSystem(Tree(n), c, type)) /\ UNCHANGED removed
  BY DEF CallAddSystem
<1>2. Sound(AddSystem(Tree(n), c, type), removed)
  BY FoundModel, ReferencesGiven, AddSystemSound
<1> QED
  BY <1>1, <1>2, CallKeeps

LEMMA CallAddSubModelKeeps ==
  ASSUME IInv, CallAddSubModel
  PROVE  IInv'
<1>1. PICK n \in DOMAIN index, c \in SubModels, kind \in {"cs", "me", "table"} : \E p \in Top(Tree(n)) :
        Change(n, AddSubModel(Tree(n), p, c, kind)) /\ UNCHANGED removed
  BY DEF CallAddSubModel
<1>2. PICK p \in Top(Tree(n)) : Change(n, AddSubModel(Tree(n), p, c, kind)) /\ UNCHANGED removed
  BY <1>1
<1>3. p \in DOMAIN Tree(n) /\ Sound(Tree(n), removed)
  BY FoundModel DEF Top
<1>4. Sound(AddSubModel(Tree(n), p, c, kind), removed)
  BY <1>3, ReferencesGiven, AddSubModelSound
<1> QED
  BY <1>2, <1>4, CallKeeps

LEMMA CallAddConnectorKeeps ==
  ASSUME IInv, CallAddConnector
  PROVE  IInv'
<1>1. PICK n \in DOMAIN index, c \in Connectors, causality \in {"input", "output"},
           type \in {"real", "enum"} : \E p \in Top(Tree(n)) :
        Change(n, AddConnector(Tree(n), p, c, [causality |-> causality, type |-> type])) /\ UNCHANGED removed
  BY DEF CallAddConnector
<1>2. PICK p \in Top(Tree(n)) : Change(n, AddConnector(Tree(n), p, c, [causality |-> causality, type |-> type])) /\ UNCHANGED removed
  BY <1>1
<1>3. p \in DOMAIN Tree(n) /\ Sound(Tree(n), removed)
  BY FoundModel DEF Top
<1>4. Sound(AddConnector(Tree(n), p, c, [causality |-> causality, type |-> type]), removed)
  BY <1>3, ReferencesGiven, AddConnectorSound
<1> QED
  BY <1>2, <1>4, CallKeeps

LEMMA CallAddConnectionKeeps ==
  ASSUME IInv, CallAddConnection
  PROVE  IInv'
<1>1. PICK n \in DOMAIN index, a \in Ends, b \in Ends : \E p \in Top(Tree(n)) :
        Change(n, AddConnection(Tree(n), p, a, b)) /\ UNCHANGED removed
  BY DEF CallAddConnection
<1>2. PICK p \in Top(Tree(n)) : Change(n, AddConnection(Tree(n), p, a, b)) /\ UNCHANGED removed
  BY <1>1
<1>3. p \in DOMAIN Tree(n) /\ Sound(Tree(n), removed)
  BY FoundModel DEF Top
<1>4. Sound(AddConnection(Tree(n), p, a, b), removed)
  BY <1>3, ReferencesGiven, AddConnectionSound
<1> QED
  BY <1>2, <1>4, CallKeeps

LEMMA CallDeleteConnectionKeeps ==
  ASSUME IInv, CallDeleteConnection
  PROVE  IInv'
<1>1. PICK n \in DOMAIN index, a \in Ends, b \in Ends : \E p \in Top(Tree(n)) :
        Change(n, DeleteConnection(Tree(n), p, a, b)) /\ UNCHANGED removed
  BY DEF CallDeleteConnection
<1>2. PICK p \in Top(Tree(n)) : Change(n, DeleteConnection(Tree(n), p, a, b)) /\ UNCHANGED removed
  BY <1>1
<1>3. p \in DOMAIN Tree(n) /\ Sound(Tree(n), removed)
  BY FoundModel DEF Top
<1>4. Sound(DeleteConnection(Tree(n), p, a, b), removed)
  BY <1>3, ReferencesGiven, DeleteConnectionSound
<1> QED
  BY <1>2, <1>4, CallKeeps

LEMMA CallAddTLMConnectionKeeps ==
  ASSUME IInv, CallAddTLMConnection
  PROVE  IInv'
<1>1. PICK n \in DOMAIN index, a \in Ends, b \in Ends, delay \in Delays : \E p \in Top(Tree(n)) :
        Change(n, AddTLMConnection(Tree(n), p, a, b, delay)) /\ UNCHANGED removed
  BY DEF CallAddTLMConnection
<1>2. PICK p \in Top(Tree(n)) : Change(n, AddTLMConnection(Tree(n), p, a, b, delay)) /\ UNCHANGED removed
  BY <1>1
<1>3. p \in DOMAIN Tree(n) /\ Sound(Tree(n), removed)
  BY FoundModel DEF Top
<1>4. Sound(AddTLMConnection(Tree(n), p, a, b, delay), removed)
  BY <1>3, ReferencesGiven, AddTLMConnectionSound DEF Delays
<1> QED
  BY <1>2, <1>4, CallKeeps

LEMMA CallAddBusKeeps ==
  ASSUME IInv, CallAddBus
  PROVE  IInv'
<1>1. PICK n \in DOMAIN index, c \in Buses : \E p \in Top(Tree(n)) :
        Change(n, AddBus(Tree(n), p, c)) /\ UNCHANGED removed
  BY DEF CallAddBus
<1>2. PICK p \in Top(Tree(n)) : Change(n, AddBus(Tree(n), p, c)) /\ UNCHANGED removed
  BY <1>1
<1>3. p \in DOMAIN Tree(n) /\ Sound(Tree(n), removed)
  BY FoundModel DEF Top
<1>4. Sound(AddBus(Tree(n), p, c), removed)
  BY <1>3, ReferencesGiven, AddBusSound
<1> QED
  BY <1>2, <1>4, CallKeeps

LEMMA CallAddTLMBusKeeps ==
  ASSUME IInv, CallAddTLMBus
  PROVE  IInv'
<1>1. PICK n \in DOMAIN index, c \in Buses : \E p \in Top(Tree(n)) :
        Change(n, AddTLMBus(Tree(n), p, c)) /\ UNCHANGED removed
  BY DEF CallAddTLMBus
<1>2. PICK p \in Top(Tree(n)) : Change(n, AddTLMBus(Tree(n), p, c)) /\ UNCHANGED removed
  BY <1>1
<1>3. p \in DOMAIN Tree(n) /\ Sound(Tree(n), removed)
  BY FoundModel DEF Top
<1>4. Sound(AddTLMBus(Tree(n), p, c), removed)
  BY <1>3, ReferencesGiven, AddTLMBusSound
<1> QED
  BY <1>2, <1>4, CallKeeps

LEMMA CallAddConnectorToBusKeeps ==
  ASSUME IInv, CallAddConnectorToBus
  PROVE  IInv'
<1>1. PICK n \in DOMAIN index, b \in Buses, c \in Signals : \E p \in Top(Tree(n)) :
        Change(n, AddConnectorToBus(Tree(n), p, b, c)) /\ UNCHANGED removed
  BY DEF CallAddConnectorToBus
<1>2. PICK p \in Top(Tree(n)) : Change(n, AddConnectorToBus(Tree(n), p, b, c)) /\ UNCHANGED removed
  BY <1>1
<1>3. p \in DOMAIN Tree(n) /\ Sound(Tree(n), removed)
  BY FoundModel DEF Top
<1>4. Sound(AddConnectorToBus(Tree(n), p, b, c), removed)
  BY <1>3, ReferencesGiven, AddConnectorToBusSound
<1> QED
  BY <1>2, <1>4, CallKeeps

LEMMA CallDeleteConnectorFromBusKeeps ==
  ASSUME IInv, CallDeleteConnectorFromBus
  PROVE  IInv'
<1>1. PICK n \in DOMAIN index, b \in Buses, c \in Signals : \E p \in Top(Tree(n)) :
        Change(n, DeleteConnectorFromBus(Tree(n), p, b, c)) /\ UNCHANGED removed
  BY DEF CallDeleteConnectorFromBus
<1>2. PICK p \in Top(Tree(n)) : Change(n, DeleteConnectorFromBus(Tree(n), p, b, c)) /\ UNCHANGED removed
  BY <1>1
<1>3. p \in DOMAIN Tree(n) /\ Sound(Tree(n), removed)
  BY FoundModel DEF Top
<1>4. Sound(DeleteConnectorFromBus(Tree(n), p, b, c), removed)
  BY <1>3, ReferencesGiven, DeleteConnectorFromBusSound
<1> QED
  BY <1>2, <1>4, CallKeeps

LEMMA CallAddConnectorToTLMBusKeeps ==
  ASSUME IInv, CallAddConnectorToTLMBus
  PROVE  IInv'
<1>1. PICK n \in DOMAIN index, b \in Buses, c \in Signals, v \in ToSet(TLMTypes) : \E p \in Top(Tree(n)) :
        Change(n, AddConnectorToTLMBus(Tree(n), p, b, c, v)) /\ UNCHANGED removed
  BY DEF CallAddConnectorToTLMBus
<1>2. PICK p \in Top(Tree(n)) : Change(n, AddConnectorToTLMBus(Tree(n), p, b, c, v)) /\ UNCHANGED removed
  BY <1>1
<1>3. p \in DOMAIN Tree(n) /\ Sound(Tree(n), removed)
  BY FoundModel DEF Top
<1>4. Sound(AddConnectorToTLMBus(Tree(n), p, b, c, v), removed)
  BY <1>3, ReferencesGiven, AddConnectorToTLMBusSound
<1> QED
  BY <1>2, <1>4, CallKeeps

LEMMA CallDeleteConnectorFromTLMBusKeeps ==
  ASSUME IInv, CallDeleteConnectorFromTLMBus
  PROVE  IInv'
<1>1. PICK n \in DOMAIN index, b \in Buses, c \in Signals : \E p \in Top(Tree(n)) :
        Change(n, DeleteConnectorFromTLMBus(Tree(n), p, b, c)) /\ UNCHANGED removed
  BY DEF CallDeleteConnectorFromTLMBus
<1>2. PICK p \in Top(Tree(n)) : Change(n, DeleteConnectorFromTLMBus(Tree(n), p, b, c)) /\ UNCHANGED removed
  BY <1>1
<1>3. p \in DOMAIN Tree(n) /\ Sound(Tree(n), removed)
  BY FoundModel DEF Top
<1>4. Sound(DeleteConnectorFromTLMBus(Tree(n), p, b, c), removed)
  BY <1>3, ReferencesGiven, DeleteConnectorFromTLMBusSound
<1> QED
  BY <1>2, <1>4, CallKeeps

LEMMA CallAddExternalModelKeeps ==
  ASSUME IInv, CallAddExternalModel
  PROVE  IInv'
<1>1. PICK n \in DOMAIN index, c \in SubModels : \E p \in Top(Tree(n)) :
        /\ Change(n, AddExternalModel(Tree(n), p, c))
        /\ removed' = (removed \/ HasComponent(Tree(n), p, Head(c)))
  BY DEF CallAddExternalModel
<1>2. PICK p \in Top(Tree(n)) :
        /\ Change(n, AddExternalModel(Tree(n), p, c))
        /\ removed' = (removed \/ HasComponent(Tree(n), p, Head(c)))
  BY <1>1
<1>3. p \in DOMAIN Tree(n) /\ Sound(Tree(n), removed) /\ removed \in BOOLEAN
  BY FoundModel DEF Top, IInv
<1>4. Sound(AddExternalModel(Tree(n), p, c), removed')
  BY <1>2, <1>3, ReferencesGiven, AddExternalModelSound
<1>5. removed' \in BOOLEAN /\ (removed => removed')
  BY <1>2, <1>3
<1> QED
  BY <1>2, <1>4, <1>5, ChangeKeeps

LEMMA CallDeleteKeeps ==
  ASSUME IInv, CallDelete
  PROVE  IInv'
<1>1. PICK n \in DOMAIN index : \E p \in Top(Tree(n)) :
        /\ \/ Change(n, NoTree)
           \/ \E c \in Connectors \cup SubModels \cup {Tail(x) : x \in Systems \ {p}} :
                Change(n, Delete(Tree(n), p, c))
        /\ removed' = TRUE
  BY DEF CallDelete
<1>2. PICK t : Change(n, t) /\ Sound(t, TRUE)
  <2>1. Sound(Tree(n), TRUE)
    BY FoundModel, SoundLost
  <2> QED
    BY <1>1, <2>1, NoTreeSound, DeleteSound
<1>3. removed' = TRUE
  BY <1>1
<1> QED
  BY <1>2, <1>3, ChangeKeeps

-----------------------------------------------------------------------------
(* The results. *)

LEMMA InitIInv ==
  ASSUME Init
  PROVE  IInv
<1>1. PICK n \in Names, t \in Bases : models = <<[cref |-> n, tree |-> t]>> /\ index = [x \in {n} |-> 1]
  BY DEF Init
<1>2. Sound(t, removed)
  BY BasesAssumption, SoundAnyway
<1> DEFINE m == [cref |-> n, tree |-> t]
<1>3. m = [cref |-> m.cref, tree |-> m.tree] /\ m.cref = n /\ m.tree = t
  OBVIOUS
<1>4. IsList(models) /\ DOMAIN models = {1} /\ models[1] = m
  <2> HIDE DEF m
  <2>1. models = [k \in 1..1 |-> models[k]] /\ models[1] = m
    BY <1>1 DEF m
  <2>2. IsList(models) /\ DOMAIN models = 1..1
    BY <2>1, IsListIf
  <2> QED
    BY <2>1, <2>2
<1>5. DOMAIN index = {n} /\ index[n] = 1
  BY <1>1
<1> HIDE DEF m
<1>6. Registered
  BY <1>3, <1>4, <1>5 DEF Registered
<1>7. DocumentOK(file.document) /\ removed \in BOOLEAN
  <2>1. file.document = NoTree /\ DOMAIN NoTree = {} /\ removed = FALSE
    BY DEF Init, NoFile, NoTree
  <2> QED
    BY <2>1, FS_EmptySet DEF DocumentOK
<1> QED
  BY <1>2, <1>3, <1>4, <1>6, <1>7 DEF IInv

LEMMA NextIInv ==
  ASSUME IInv, [Next]_vars
  PROVE  IInv'
<1>1. CASE UNCHANGED vars
  BY <1>1 DEF vars, IInv, Registered
<1>2. CASE Done
  BY <1>1, <1>2 DEF Done
<1>3. CASE NewModel
  BY <1>3, NewModelKeeps
<1>4. CASE RenameModel
  BY <1>4, RenameModelKeeps
<1>5. CASE DeleteModel
  BY <1>5, DeleteModelKeeps
<1>6. CASE ExportModel
  BY <1>6, ExportModelKeeps
<1>7. CASE ImportModel
  BY <1>7, ImportModelKeeps
<1>8. CASE CallAddSystem
  BY <1>8, CallAddSystemKeeps
<1>9. CASE CallDelete
  BY <1>9, CallDeleteKeeps
<1>10. CASE CallAddSubModel
  BY <1>10, CallAddSubModelKeeps
<1>11. CASE CallAddExternalModel
  BY <1>11, CallAddExternalModelKeeps
<1>12. CASE CallAddConnector
  BY <1>12, CallAddConnectorKeeps
<1>13. CASE CallAddConnection
  BY <1>13, CallAddConnectionKeeps
<1>14. CASE CallDeleteConnection
  BY <1>14, CallDeleteConnectionKeeps
<1>15. CASE CallAddTLMConnection
  BY <1>15, CallAddTLMConnectionKeeps
<1>16. CASE CallAddBus
  BY <1>16, CallAddBusKeeps
<1>17. CASE CallAddTLMBus
  BY <1>17, CallAddTLMBusKeeps
<1>18. CASE CallAddConnectorToBus
  BY <1>18, CallAddConnectorToBusKeeps
<1>19. CASE CallDeleteConnectorFromBus
  BY <1>19, CallDeleteConnectorFromBusKeeps
<1>20. CASE CallAddConnectorToTLMBus
  BY <1>20, CallAddConnectorToTLMBusKeeps
<1>21. CASE CallDeleteConnectorFromTLMBus
  BY <1>21, CallDeleteConnectorFromTLMBusKeeps
<1> QED
  BY <1>1, <1>2, <1>3, <1>4, <1>5, <1>6, <1>7, <1>8, <1>9, <1>10, <1>11, <1>12, <1>13, <1>14, <1>15, <1>16, <1>17, <1>18, <1>19, <1>20, <1>21 DEF Next

(* What is inductive holds of every reachable state: the registry, the     *)
(* trees and the document stay as IInv says (Scope.cpp, Model.cpp,         *)
(* System.cpp).                                                            *)
THEOREM Invariance == Spec => []IInv
<1>1. Init => IInv
  BY InitIInv
<1>2. IInv /\ [Next]_vars => IInv'
  BY NextIInv
<1> QED
  BY <1>1, <1>2, PTL DEF Spec

(* Scope.cpp: models_map leads to the model of every name, whatever models *)
(* are created, renamed, deleted and imported.                             *)
THEOREM RegisteredAlways == Spec => []Registered
<1>1. IInv => Registered
  BY DEF IInv
<1> QED
  BY <1>1, Invariance, PTL

(* System::addConnection: an input of an element has one driver, also      *)
(* after elements were deleted, replaced and added again under their name. *)
THEOREM OneDriverAlways == Spec => []OneDriver
<1>1. IInv => OneDriver
  BY DEF IInv, OneDriver, Trees, Sound
<1> QED
  BY <1>1, Invariance, PTL

(* What addConnection has accepted, updateDependencyGraphs accepts too,    *)
(* also when the model was imported (System.cpp).                          *)
THEOREM BuiltIsAcceptedAlways == Spec => []BuiltIsAccepted
<1>1. IInv => BuiltIsAccepted
  <2> SUFFICES ASSUME IInv, NEW n \in DOMAIN models, ~removed, ~Hides(models[n].tree),
                      NEW p \in DOMAIN models[n].tree
               PROVE  Accepted(models[n].tree, p)
    BY DEF BuiltIsAccepted, Trees
  <2>1. \A q \in DOMAIN models[n].tree : AcceptedIn(models[n].tree, q)
    BY DEF IInv, Sound
  <2> QED
    BY <2>1 DEF Accepted
<1> QED
  BY <1>1, Invariance, PTL
=============================================================================
