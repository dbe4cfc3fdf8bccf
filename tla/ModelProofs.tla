----------------------------- MODULE ModelProofs -----------------------------
(***************************************************************************)
(* Proofs about Model for any FMUs, files, sizes of the buffer and calls.  *)
(***************************************************************************)
EXTENDS Model, FiniteSetsExt, SequenceTheorems, WellFoundedInduction, TLAPS

-----------------------------------------------------------------------------
(* Natural numbers. *)

(* Every set of natural numbers with an element has a least one. *)
LEMMA LeastNatural ==
  ASSUME NEW T, T \subseteq Nat, T # {}
  PROVE  \E x \in T : \A y \in T : x <= y
<1> DEFINE R == OpToRel(<, Nat)
<1>1. IsWellFoundedOn(R, Nat)
  BY NatLessThanWellFounded
<1>2. \A x, y \in Nat : x < y => <<x, y>> \in R
  BY DEF OpToRel
<1> HIDE DEF R
<1>3. PICK x \in T : \A y \in T : <<y, x>> \notin R
  BY <1>1, WFMin
<1>4. ASSUME NEW y \in T PROVE x <= y
  <2>1. x \in Nat /\ y \in Nat /\ ~ (y < x)
    BY <1>2, <1>3
  <2> QED
    BY <2>1
<1> QED
  BY <1>4

(* Min of a set of natural numbers is its least element. *)
LEMMA MinOfNaturals ==
  ASSUME NEW T, T \subseteq Nat, T # {}
  PROVE  /\ Min(T) \in T
         /\ \A y \in T : Min(T) <= y
BY LeastNatural DEF Min

(* Induction: a set of natural numbers that has 0 and, with every number,  *)
(* the next one has them all.                                              *)
LEMMA SetInduction ==
  ASSUME NEW T, 0 \in T, \A n \in Nat : n \in T => n + 1 \in T
  PROVE  Nat \subseteq T
<1> SUFFICES ASSUME Nat \ T # {} PROVE FALSE
  OBVIOUS
<1>1. PICK x \in Nat \ T : \A y \in Nat \ T : x <= y
  BY LeastNatural
<1>2. x # 0 /\ x - 1 \in Nat /\ x - 1 \in T
  BY <1>1
<1> QED
  BY <1>1, <1>2

-----------------------------------------------------------------------------
(* Rows that go to a writer. *)

(* The function of Emitting, for the first n rows. *)
EmitRow(before, row) ==
  [w |-> Buffered(before.w, row, setup.bufferSize),
   d |-> before.d \o Flushed(before.w, row, setup.bufferSize)]
EmitSteps(writer, rows, n) ==
  CHOOSE step : step = [i \in 0..n |-> IF i = 0 THEN [w |-> writer, d |-> << >>]
                                       ELSE EmitRow(step[i - 1], rows[i])]

(* It exists: induction over the number of rows. *)
LEMMA EmitStepsExist ==
  ASSUME NEW writer, NEW rows, NEW n \in Nat
  PROVE  EmitSteps(writer, rows, n) =
           [i \in 0..n |-> IF i = 0 THEN [w |-> writer, d |-> << >>]
                           ELSE EmitRow(EmitSteps(writer, rows, n)[i - 1], rows[i])]
<1> DEFINE first == [w |-> writer, d |-> << >>]
           Body(k, f) == [i \in 0..k |-> IF i = 0 THEN first ELSE EmitRow(f[i - 1], rows[i])]
           T == {k \in Nat : \E f : f = Body(k, f)}
<1> HIDE DEF first
<1>1. 0 \in T
  <2>1. [i \in 0..0 |-> first] = Body(0, [i \in 0..0 |-> first])
    OBVIOUS
  <2> QED
    BY <2>1
<1>2. ASSUME NEW k \in Nat, k \in T PROVE k + 1 \in T
  <2>1. PICK f : f = Body(k, f)
    BY <1>2
  <2> DEFINE g == [i \in 0..(k + 1) |-> IF i = k + 1 THEN EmitRow(f[k], rows[i]) ELSE f[i]]
  <2>2. \A i \in 0..k : g[i] = f[i]
    OBVIOUS
  <2>3. ASSUME NEW i \in 0..(k + 1) PROVE g[i] = Body(k + 1, g)[i]
    <3>1. CASE i = k + 1
      <4>1. g[i] = EmitRow(f[k], rows[i]) /\ g[k] = f[k] /\ i # 0 /\ i - 1 = k
        BY <2>2, <3>1
      <4> QED
        BY <4>1
    <3>2. CASE i # k + 1
      <4>1. i \in 0..k /\ g[i] = f[i]
        BY <3>2
      <4>2. f[i] = IF i = 0 THEN first ELSE EmitRow(f[i - 1], rows[i])
        BY <2>1, <4>1
      <4>3. i # 0 => g[i - 1] = f[i - 1]
        BY <2>2, <4>1
      <4> QED
        BY <4>1, <4>2, <4>3
    <3> QED
      BY <3>1, <3>2
  <2>4. g = Body(k + 1, g)
    BY <2>3
  <2> HIDE DEF g
  <2>5. \E h : h = Body(k + 1, h)
    BY <2>4
  <2> QED
    BY <2>5
<1> HIDE DEF T
<1>3. Nat \subseteq T
  BY <1>1, <1>2, SetInduction
<1>4. \E f : f = Body(n, f)
  BY <1>3 DEF T
<1> QED
  BY <1>4 DEF EmitSteps, first

(* The order in which three sequences are put together does not matter. *)
LEMMA Associated ==
  \A s, t, u \in Seq(Int) : (s \o t) \o u = s \o (t \o u)
<1> TAKE s, t, u \in Seq(Int)
<1> QED
  BY ConcatAssociative

(* A row at the end of two sequences. *)
LEMMA AppendToConcat ==
  ASSUME NEW s \in Seq(Int), NEW t \in Seq(Int), NEW x \in Int
  PROVE  Append(s \o t, x) = s \o Append(t, x)
<1>1. <<x>> \in Seq(Int)
  OBVIOUS
<1>2. s \o t \in Seq(Int)
  BY ConcatProperties
<1>3. Append(t, x) = t \o <<x>>
  BY AppendIsConcat
<1>4. Append(s \o t, x) = (s \o t) \o <<x>>
  BY <1>2, AppendIsConcat
<1>5. (s \o t) \o <<x>> = s \o (t \o <<x>>)
  BY <1>1, ConcatAssociative
<1> QED
  BY <1>3, <1>4, <1>5

(* One row: it goes to the buffer, or to the file after the buffer.        *)
LEMMA EmitRowKeeps ==
  ASSUME NEW before, NEW row \in Int, before.w \in Writers, before.d \in Seq(Int),
         setup.bufferSize \in Int
  PROVE  LET after == EmitRow(before, row) IN
         /\ after.w \in Writers /\ after.d \in Seq(Int)
         /\ after.w.name = before.w.name /\ after.w.created = before.w.created
         /\ before.w.created =>
              after.d \o after.w.buffer = Append(before.d \o before.w.buffer, row)
<1> DEFINE b == before.w.buffer
           d == before.d
           after == EmitRow(before, row)
<1>1. b \in Seq(Int) /\ d \in Seq(Int) /\ << >> \in Seq(Int) /\ Append(b, row) \in Seq(Int)
  BY AppendProperties, EmptySeq DEF Writers
<1>2. CASE ~ before.w.created
  <2>1. after.w = before.w /\ after.d = d \o << >>
    BY <1>2 DEF EmitRow, Buffered, Flushed
  <2>2. after.d = d
    BY <1>1, <2>1, ConcatEmptySeq
  <2> QED
    BY <1>2, <2>1, <2>2
<1>3. CASE before.w.created /\ Full(before.w, setup.bufferSize)
  <2>1. after.w = [before.w EXCEPT !.buffer = << >>] /\ after.d = d \o Append(b, row)
    BY <1>3 DEF EmitRow, Buffered, Flushed
  <2>2. after.w \in Writers /\ after.w.buffer = << >>
        /\ after.w.name = before.w.name /\ after.w.created = before.w.created
    BY <1>1, <2>1 DEF Writers
  <2>3. after.d \in Seq(Int)
    BY <1>1, <2>1, ConcatProperties
  <2>4. after.d \o << >> = after.d
    BY <2>3, ConcatEmptySeq
  <2>5. d \o Append(b, row) = Append(d \o b, row)
    BY <1>1, AppendToConcat
  <2> QED
    BY <2>1, <2>2, <2>3, <2>4, <2>5
<1>4. CASE before.w.created /\ ~ Full(before.w, setup.bufferSize)
  <2>1. after.w = [before.w EXCEPT !.buffer = Append(b, row)] /\ after.d = d \o << >>
    BY <1>4 DEF EmitRow, Buffered, Flushed
  <2>2. after.w \in Writers /\ after.w.buffer = Append(b, row)
        /\ after.w.name = before.w.name /\ after.w.created = before.w.created
    BY <1>1, <2>1 DEF Writers
  <2>3. after.d = d
    BY <1>1, <2>1, ConcatEmptySeq
  <2>5. d \o Append(b, row) = Append(d \o b, row)
    BY <1>1, AppendToConcat
  <2> QED
    BY <1>1, <2>2, <2>3, <2>5
<1> QED
  BY <1>2, <1>3, <1>4

(* All rows: what has gone to the file and what is in the buffer is what   *)
(* was in the buffer and the rows, whatever the size of the buffer.        *)
LEMMA EmittingKeeps ==
  ASSUME NEW writer \in Writers, NEW rows \in Seq(Int), setup.bufferSize \in Int
  PROVE  LET after == Emitting(writer, rows) IN
         /\ after.w \in Writers /\ after.d \in Seq(Int)
         /\ after.w.name = writer.name /\ after.w.created = writer.created
         /\ writer.created => after.d \o after.w.buffer = writer.buffer \o rows
<1> DEFINE N == Len(rows)
           step == EmitSteps(writer, rows, N)
           Good(i) == /\ step[i].w \in Writers /\ step[i].d \in Seq(Int)
                      /\ step[i].w.name = writer.name /\ step[i].w.created = writer.created
                      /\ writer.created =>
                           step[i].d \o step[i].w.buffer = writer.buffer \o SubSeq(rows, 1, i)
           T == {i \in Nat : i <= N => Good(i)}
<1>1. N \in Nat /\ writer.buffer \in Seq(Int)
  BY LenProperties DEF Writers
<1>2. step = [i \in 0..N |-> IF i = 0 THEN [w |-> writer, d |-> << >>]
                             ELSE EmitRow(step[i - 1], rows[i])]
  BY <1>1, EmitStepsExist
<1> HIDE DEF step
<1>3. 0 \in T
  <2>1. step[0] = [w |-> writer, d |-> << >>]
    BY <1>1, <1>2
  <2>2. step[0].w = writer /\ step[0].d = << >>
    BY <2>1
  <2>3. SubSeq(rows, 1, 0) = << >> /\ << >> \in Seq(Int)
    BY SubSeqEmpty, EmptySeq
  <2>4. << >> \o writer.buffer = writer.buffer /\ writer.buffer \o << >> = writer.buffer
    BY <1>1, ConcatEmptySeq
  <2>5. Good(0)
    BY <2>2, <2>3, <2>4
  <2> QED
    BY <2>5
<1>4. ASSUME NEW i \in Nat, i \in T PROVE i + 1 \in T
  <2> SUFFICES ASSUME i + 1 <= N PROVE Good(i + 1)
    <3> HIDE DEF Good
    <3> QED
      OBVIOUS
  <2> DEFINE head == SubSeq(rows, 1, i)
  <2>1. Good(i)
    <3> HIDE DEF Good
    <3>1. i <= N
      BY <1>1
    <3> QED
      BY <1>4, <3>1
  <2>2. i + 1 \in 1..N /\ (i + 1) - 1 = i /\ i + 1 \in 0..N /\ i + 1 # 0
    BY <1>1
  <2>3. step[i + 1] = EmitRow(step[i], rows[i + 1])
    BY <1>2, <2>2
  <2>4. rows[i + 1] \in Int
    BY <2>2, ElementOfSeq
  <2>5. LET after == EmitRow(step[i], rows[i + 1]) IN
        /\ after.w \in Writers /\ after.d \in Seq(Int)
        /\ after.w.name = step[i].w.name /\ after.w.created = step[i].w.created
        /\ step[i].w.created =>
             after.d \o after.w.buffer = Append(step[i].d \o step[i].w.buffer, rows[i + 1])
    BY <2>1, <2>4, EmitRowKeeps
  <2>6. writer.created =>
          step[i + 1].d \o step[i + 1].w.buffer = Append(writer.buffer \o head, rows[i + 1])
    BY <2>1, <2>3, <2>5
  <2>7. head \in Seq(Int)
    <3>1. \A j \in 1..i : rows[j] \in Int
      BY <1>1, <2>2, ElementOfSeq
    <3>2. 1 \in Int /\ i \in Int
      OBVIOUS
    <3> QED
      BY <3>1, <3>2, SubSeqProperties
  <2>8. SubSeq(rows, 1, i + 1) = head \o <<rows[i + 1]>>
    <3>1. 1 \in 1..N /\ i + 1 \in 1..N
      BY <1>1, <2>2
    <3>2. SubSeq(rows, 1, i + 1) = SubSeq(rows, 1, (i + 1) - 1) \o <<rows[i + 1]>>
      BY <3>1, SubSeqRecursiveSecond
    <3> QED
      BY <2>2, <3>2
  <2>9. Append(writer.buffer \o head, rows[i + 1]) = writer.buffer \o SubSeq(rows, 1, i + 1)
    <3>1. Append(writer.buffer \o head, rows[i + 1]) = writer.buffer \o Append(head, rows[i + 1])
      BY <1>1, <2>4, <2>7, AppendToConcat
    <3>2. Append(head, rows[i + 1]) = head \o <<rows[i + 1]>>
      BY <2>4, <2>7, AppendIsConcat
    <3> QED
      BY <2>8, <3>1, <3>2
  <2> QED
    BY <2>1, <2>3, <2>5, <2>6, <2>9
<1> HIDE DEF T
<1>5. Nat \subseteq T
  BY <1>3, <1>4, SetInduction
<1>6. Good(N)
  <2> HIDE DEF Good
  <2>1. N \in T
    BY <1>1, <1>5
  <2> QED
    BY <1>1, <2>1 DEF T
<1>7. SubSeq(rows, 1, N) = rows
  BY SubSeqFull
<1>8. Emitting(writer, rows) = step[N]
  BY DEF Emitting, EmitSteps, EmitRow, step
<1> QED
  BY <1>6, <1>7, <1>8
-----------------------------------------------------------------------------
(* The files. *)

(* What is assumed of the setup at hand.                                   *)
LEMMA SetupFacts ==
  ASSUME TypeOK
  PROVE  /\ setup.bufferSize \in Int /\ setup.interval \in Nat /\ setup.logging \in Int
         /\ Len(setup.fmus) \in Nat /\ DOMAIN setup.fmus = 1..Len(setup.fmus)
         /\ \A m \in DOMAIN setup.fmus : setup.fmus[m] \in Fmus
<1>1. /\ setup.fmus \in Seq(ToSet(setup.fmus))
      /\ setup.bufferSize \in Int /\ setup.interval \in Nat /\ setup.logging \in Int
  BY SetupsAssumption DEF TypeOK
<1>2. Len(setup.fmus) \in Nat /\ DOMAIN setup.fmus = 1..Len(setup.fmus)
  BY <1>1, LenProperties
<1>3. \A m \in DOMAIN setup.fmus : setup.fmus[m] \in Fmus
  BY DEF Fmus, ToSet
<1> QED
  BY <1>1, <1>2, <1>3

LEMMA NoName == "NULL" \notin Names
BY NamesAssumption DEF Names, Unsupported, Locked, LockedCSV, Void

(* The rows at the beginning of rows in order are in order.                *)
LEMMA PrefixInOrder ==
  ASSUME NEW s \in Seq(Int), NEW t \in Seq(Int), InOrder(s \o t)
  PROVE  InOrder(s)
<1>1. /\ Len(s) \in Nat /\ Len(t) \in Nat /\ Len(s \o t) = Len(s) + Len(t)
      /\ \A i \in 1..(Len(s) + Len(t)) :
           (s \o t)[i] = IF i <= Len(s) THEN s[i] ELSE t[i - Len(s)]
  BY ConcatProperties, LenProperties
<1>2. ASSUME NEW i \in 1..(Len(s) - 1) PROVE s[i] <= s[i + 1]
  <2>1. /\ i \in 1..(Len(s) + Len(t)) /\ i + 1 \in 1..(Len(s) + Len(t))
        /\ i <= Len(s) /\ i + 1 <= Len(s) /\ i \in 1..(Len(s \o t) - 1)
    BY <1>1
  <2>2. (s \o t)[i] = s[i] /\ (s \o t)[i + 1] = s[i + 1]
    BY <1>1, <2>1
  <2> QED
    BY <2>1, <2>2 DEF InOrder
<1> QED
  BY <1>2 DEF InOrder

(* A row that is not earlier than the others keeps the order. *)
LEMMA AppendInOrder ==
  ASSUME NEW s \in Seq(Int), NEW x \in Int, InOrder(s), \A i \in DOMAIN s : s[i] <= x
  PROVE  /\ Append(s, x) \in Seq(Int) /\ InOrder(Append(s, x))
         /\ \A i \in DOMAIN Append(s, x) : Append(s, x)[i] <= x
<1> DEFINE q == Append(s, x)
<1>1. /\ q \in Seq(Int) /\ Len(q) = Len(s) + 1
      /\ \A i \in 1..Len(s) : q[i] = s[i]
      /\ q[Len(s) + 1] = x
  BY AppendProperties
<1>2. Len(s) \in Nat /\ DOMAIN s = 1..Len(s)
  BY LenProperties
<1>3. DOMAIN q = 1..(Len(s) + 1)
  BY <1>1, LenProperties
<1> HIDE DEF q
<1>4. \A i \in DOMAIN q : q[i] <= x
  <2> SUFFICES ASSUME NEW i \in 1..(Len(s) + 1) PROVE q[i] <= x
    BY <1>3
  <2>1. CASE i = Len(s) + 1
    BY <1>1, <2>1
  <2>2. CASE i # Len(s) + 1
    <3>1. i \in 1..Len(s)
      BY <1>2, <2>2
    <3> QED
      BY <1>1, <1>2, <3>1
  <2> QED
    BY <2>1, <2>2
<1>5. InOrder(q)
  <2> SUFFICES ASSUME NEW i \in 1..(Len(q) - 1) PROVE q[i] <= q[i + 1]
    BY DEF InOrder
  <2>1. i \in 1..Len(s)
    BY <1>1, <1>2
  <2>2. q[i] = s[i]
    BY <1>1, <2>1
  <2>3. CASE i = Len(s)
    <3>1. q[i + 1] = x
      BY <1>1, <2>3
    <3> QED
      BY <1>2, <2>1, <2>2, <3>1
  <2>4. CASE i # Len(s)
    <3>0. i \in Int /\ 1 <= i /\ i <= Len(s) /\ Len(s) \in Int
      BY <1>2, <2>1
    <3>1. i + 1 \in 1..Len(s) /\ i \in 1..(Len(s) - 1)
      BY <3>0, <2>4
    <3>2. q[i + 1] = s[i + 1] /\ s[i] <= s[i + 1]
      BY <1>1, <3>1 DEF InOrder
    <3> QED
      BY <2>2, <3>2
  <2> QED
    BY <2>3, <2>4
<1> QED
  BY <1>1, <1>4, <1>5 DEF q

(* So do the rows of a step. *)
LEMMA RowsInOrder ==
  ASSUME NEW s \in Seq(Int), NEW t \in Int, InOrder(s), \A i \in DOMAIN s : s[i] <= t
  PROVE  /\ Rows(t) \in Seq(Int) /\ s \o Rows(t) \in Seq(Int) /\ InOrder(s \o Rows(t))
         /\ \A i \in DOMAIN (s \o Rows(t)) : (s \o Rows(t))[i] <= t
<1> DEFINE once == Append(s, t)
           twice == Append(once, t)
<1>1. /\ once \in Seq(Int) /\ InOrder(once) /\ \A i \in DOMAIN once : once[i] <= t
  BY AppendInOrder
<1> HIDE DEF once
<1>2. /\ twice \in Seq(Int) /\ InOrder(twice) /\ \A i \in DOMAIN twice : twice[i] <= t
  BY <1>1, AppendInOrder
<1>3. <<t>> \in Seq(Int) /\ <<t, t>> \in Seq(Int) /\ << >> \in Seq(Int)
  OBVIOUS
<1>4. s \o <<t>> = once
  BY AppendIsConcat DEF once
<1>5. s \o <<t, t>> = twice
  <2>1. <<t, t>> = Append(<<t>>, t)
    OBVIOUS
  <2>2. s \o Append(<<t>>, t) = Append(s \o <<t>>, t)
    BY <1>3, AppendToConcat
  <2> QED
    BY <1>4, <2>1, <2>2
<1>6. s \o << >> = s
  BY ConcatEmptySeq
<1> HIDE DEF twice
<1>7. Rows(t) \in {<<t, t>>, <<t>>, << >>}
  BY DEF Rows
<1>8. CASE Rows(t) = <<t, t>>
  BY <1>2, <1>3, <1>5, <1>8
<1>9. CASE Rows(t) = <<t>>
  BY <1>1, <1>3, <1>4, <1>9
<1>10. CASE Rows(t) = << >>
  BY <1>3, <1>6, <1>10
<1> QED
  BY <1>7, <1>8, <1>9, <1>10

(* When the writer is deleted every row that was emitted is on the disk.   *)
LEMMA DeletedIsEmitted ==
  ASSUME IInv
  PROVE  DiskAfterDelete = emitted
<1>1. TypeOK /\ FileInv /\ RowsKept
  BY DEF IInv
<1>2. disk \in [Names -> Seq(Int)] /\ emitted \in [Names -> Seq(Int)] /\ resultFile \in Writers
  BY <1>1 DEF TypeOK
<1>3. ASSUME NEW n \in Names, ~ (resultFile.name = n /\ resultFile.created)
      PROVE  emitted[n] = disk[n]
  <2>1. emitted[n] = disk[n] \o << >>
    BY <1>1, <1>3 DEF RowsKept
  <2>2. disk[n] \in Seq(Int)
    BY <1>2
  <2> QED
    BY <2>1, <2>2, ConcatEmptySeq
<1>4. CASE ~ resultFile.created
  <2>1. DiskAfterDelete = disk /\ \A n \in Names : emitted[n] = disk[n]
    BY <1>3, <1>4 DEF DiskAfterDelete
  <2> QED
    BY <1>2, <2>1
<1>5. CASE resultFile.created
  <2> DEFINE name == resultFile.name
  <2>1. name \in Names
    BY <1>1, <1>2, <1>5 DEF FileInv, Writers
  <2>2. emitted[name] = disk[name] \o resultFile.buffer
    BY <1>1, <1>5, <2>1 DEF RowsKept
  <2>3. DiskAfterDelete = [disk EXCEPT ![name] = disk[name] \o resultFile.buffer]
    BY <1>5 DEF DiskAfterDelete, Rest
  <2>4. \A n \in Names : DiskAfterDelete[n] = emitted[n]
    BY <1>2, <1>3, <2>1, <2>2, <2>3
  <2>5. DiskAfterDelete = [n \in Names |-> DiskAfterDelete[n]]
    BY <1>2, <2>3
  <2> QED
    BY <1>2, <2>4, <2>5
<1> QED
  BY <1>4, <1>5

(* Without an open file. *)
LEMMA NoFile ==
  ASSUME TypeOK', disk' = emitted', ~ resultFile'.created, \A n \in Names : InOrder(emitted'[n])
  PROVE  FileInv' /\ RowsKept'
<1>1. FileInv'
  BY DEF FileInv
<1>2. ASSUME NEW n \in Names PROVE emitted'[n] = disk'[n] \o << >>
  <2>1. disk'[n] \in Seq(Int)
    BY DEF TypeOK
  <2> QED
    BY <2>1, ConcatEmptySeq
<1> QED
  BY <1>1, <1>2 DEF RowsKept, InOrder

(* With an open file: the rows on the disk are those that were emitted     *)
(* without those in the buffer.                                            *)
LEMMA OpenFile ==
  ASSUME TypeOK', resultFile'.created, resultFile'.name \in Names, modelState' = "simulation",
         \A n \in Names \ {resultFile'.name} : emitted'[n] = disk'[n],
         emitted'[resultFile'.name] = disk'[resultFile'.name] \o resultFile'.buffer,
         \A n \in Names : InOrder(emitted'[n]),
         \A i \in DOMAIN emitted'[resultFile'.name] : emitted'[resultFile'.name][i] <= time'
  PROVE  FileInv' /\ RowsKept'
<1>1. FileInv'
  BY NoName DEF FileInv
<1>2. ASSUME NEW n \in Names
      PROVE  /\ emitted'[n] = disk'[n] \o (IF resultFile'.name = n /\ resultFile'.created
                                           THEN resultFile'.buffer ELSE << >>)
             /\ InOrder(disk'[n])
  <2>1. disk'[n] \in Seq(Int) /\ resultFile'.buffer \in Seq(Int)
    BY DEF TypeOK, Writers
  <2>2. disk'[n] \o << >> = disk'[n]
    BY <2>1, ConcatEmptySeq
  <2>3. CASE n = resultFile'.name
    BY <2>1, <2>3, PrefixInOrder
  <2>4. CASE n # resultFile'.name
    BY <2>2, <2>4
  <2> QED
    BY <2>3, <2>4
<1> QED
  BY <1>1, <1>2 DEF RowsKept, InOrder
(* reset and unload: the last row is written and the file is closed.       *)
LEMMA ClosingFacts ==
  ASSUME IInv, Closing
  PROVE  /\ disk' = emitted' /\ emitted' \in [Names -> Seq(Int)]
         /\ \A n \in Names : InOrder(emitted'[n])
         /\ tLastEmit' \in Int
<1> DEFINE name == resultFile.name
           b == resultFile.buffer
           after == Emitting(resultFile, <<time>>)
<1>1. TypeOK /\ FileInv /\ RowsKept
  BY DEF IInv
<1>2. /\ disk \in [Names -> Seq(Int)] /\ emitted \in [Names -> Seq(Int)] /\ resultFile \in Writers
      /\ time \in Int /\ tLastEmit \in Int /\ b \in Seq(Int) /\ resultFile.created \in BOOLEAN
  BY <1>1 DEF TypeOK, Writers
<1>3. tLastEmit' \in Int
  BY <1>2 DEF Closing
<1>4. CASE ~ resultFile.created
  <2>1. disk' = disk /\ emitted' = emitted
    BY <1>4 DEF Closing
  <2>2. disk = emitted
    BY <1>4, DeletedIsEmitted DEF DiskAfterDelete
  <2> QED
    BY <1>1, <1>2, <1>3, <2>1, <2>2 DEF FileInv
<1>5. CASE resultFile.created
  <2>1. name \in Names
    BY <1>1, <1>2, <1>5 DEF FileInv, Writers
  <2>2. <<time>> \in Seq(Int) /\ setup.bufferSize \in Int
    BY <1>1, <1>2, SetupFacts
  <2>3. /\ after.w \in Writers /\ after.d \in Seq(Int) /\ after.w.created
        /\ after.d \o after.w.buffer = b \o <<time>>
    BY <1>2, <1>5, <2>2, EmittingKeeps
  <2>4. Rest(after.w) = after.w.buffer /\ after.w.buffer \in Seq(Int)
    BY <2>3 DEF Rest, Writers
  <2>5. /\ disk' = [disk EXCEPT ![name] = (disk[name] \o after.d) \o Rest(after.w)]
        /\ emitted' = [emitted EXCEPT ![name] = Append(emitted[name], time)]
    BY <1>5 DEF Closing
  <2> HIDE DEF after
  <2>6. disk[name] \in Seq(Int) /\ emitted[name] \in Seq(Int)
    BY <1>2, <2>1
  <2>7. (disk[name] \o after.d) \o after.w.buffer = disk[name] \o (b \o <<time>>)
    <3>1. (disk[name] \o after.d) \o after.w.buffer = disk[name] \o (after.d \o after.w.buffer)
      BY <2>3, <2>4, <2>6, Associated
    <3> QED
      BY <2>3, <3>1
  <2>8. disk[name] \o (b \o <<time>>) = Append(emitted[name], time)
    <3>1. b \o <<time>> = Append(b, time)
      BY <1>2, AppendIsConcat
    <3>2. disk[name] \o Append(b, time) = Append(disk[name] \o b, time)
      BY <1>2, <2>6, AppendToConcat
    <3>3. emitted[name] = disk[name] \o b
      BY <1>1, <1>5, <2>1 DEF RowsKept
    <3> QED
      BY <3>1, <3>2, <3>3
  <2>9. disk'[name] = Append(emitted[name], time) /\ emitted'[name] = Append(emitted[name], time)
    BY <1>2, <2>1, <2>4, <2>5, <2>7, <2>8
  <2>10. /\ Append(emitted[name], time) \in Seq(Int) /\ InOrder(Append(emitted[name], time))
    <3>1. InOrder(emitted[name]) /\ \A i \in DOMAIN emitted[name] : emitted[name][i] <= time
      BY <1>1, <1>5, <2>1 DEF FileInv
    <3> QED
      BY <1>2, <2>6, <3>1, AppendInOrder
  <2>11. ASSUME NEW n \in Names, n # name PROVE disk'[n] = emitted[n] /\ emitted'[n] = emitted[n]
    <3>1. emitted[n] = disk[n] \o << >> /\ disk[n] \in Seq(Int)
      BY <1>1, <1>2, <2>11 DEF RowsKept
    <3>2. emitted[n] = disk[n]
      BY <3>1, ConcatEmptySeq
    <3> QED
      BY <1>2, <2>5, <2>11, <3>2
  <2>12. DOMAIN disk' = Names /\ disk' = [n \in DOMAIN disk' |-> disk'[n]]
    BY <1>2, <2>5
  <2>13. emitted' \in [Names -> Seq(Int)]
    BY <1>2, <2>5, <2>10
  <2>14. \A n \in Names : disk'[n] = emitted'[n]
    BY <2>9, <2>11
  <2>15. disk' = emitted'
    BY <2>12, <2>13, <2>14
  <2>16. \A n \in Names : InOrder(emitted'[n])
    BY <1>1, <2>9, <2>10, <2>11 DEF FileInv
  <2> QED
    BY <1>3, <2>13, <2>15, <2>16
<1> QED
  BY <1>4, <1>5

(* A new file takes the place of one of its name.                          *)
LEMMA CreateFileFacts ==
  ASSUME IInv, NEW name \in Names, NEW first \in {<< >>, <<Start>>},
         CreateFile(name, DiskAfterDelete, first)
  PROVE  /\ resultFile' \in Writers /\ resultFile'.created /\ resultFile'.name = name
         /\ disk' \in [Names -> Seq(Int)] /\ emitted' \in [Names -> Seq(Int)]
         /\ \A n \in Names \ {name} : emitted'[n] = disk'[n] /\ emitted'[n] = emitted[n]
         /\ emitted'[name] = first /\ emitted'[name] = disk'[name] \o resultFile'.buffer
<1> DEFINE new == Created(NewWriter(name))
           after == Emitting(new, first)
<1>1. TypeOK /\ emitted \in [Names -> Seq(Int)] /\ setup.bufferSize \in Int
  BY SetupFacts DEF IInv, TypeOK
<1>2. first \in Seq(Int) /\ << >> \in Seq(Int)
  <2>1. <<0>> \in Seq(Int) /\ << >> \in Seq(Int)
    OBVIOUS
  <2>2. first = << >> \/ first = <<0>>
    BY DEF Start
  <2> QED
    BY <2>1, <2>2
<1>3. new \in Writers /\ new.name = name /\ new.created /\ new.buffer = << >>
  BY <1>2 DEF Created, NewWriter, Writers
<1> HIDE DEF new
<1>4. /\ after.w \in Writers /\ after.d \in Seq(Int)
      /\ after.w.name = name /\ after.w.created
      /\ after.d \o after.w.buffer = << >> \o first
  <2>1. /\ after.w \in Writers /\ after.d \in Seq(Int)
        /\ after.w.name = new.name /\ after.w.created = new.created
        /\ new.created => after.d \o after.w.buffer = new.buffer \o first
    BY <1>1, <1>2, <1>3, EmittingKeeps
  <2> HIDE DEF after
  <2> QED
    BY <1>3, <2>1
<1>5. << >> \o first = first
  BY <1>2, ConcatEmptySeq
<1>6. /\ resultFile' = after.w /\ disk' = [emitted EXCEPT ![name] = after.d]
      /\ emitted' = [emitted EXCEPT ![name] = first]
  BY DeletedIsEmitted DEF CreateFile, new
<1> HIDE DEF after
<1> QED
  BY <1>1, <1>2, <1>4, <1>5, <1>6

-----------------------------------------------------------------------------
(* The calls. *)

LEMMA InitInv == Init => IInv
<1> SUFFICES ASSUME Init PROVE IInv
  OBVIOUS
<1>1. /\ setup \in Setups /\ modelState = "instantiated" /\ resultFilename \in FileNames
      /\ resultFile = NoWriter /\ time = 0 /\ tLastEmit = 0 /\ initialized = {} /\ until = -1
      /\ calls = 0 /\ refused = {} /\ illegal = {} /\ fault = FALSE
      /\ mode = [f \in Fmus |-> "instantiated"]
      /\ disk = [n \in Names |-> << >>] /\ emitted = [n \in Names |-> << >>]
  BY DEF Init, Start
<1>2. << >> \in Seq(Int) /\ InOrder(<< >>)
  BY DEF InOrder
<1>3. TypeOK
  <2>1. resultFile \in Writers
    BY <1>1, <1>2 DEF NoWriter, Writers
  <2>2. resultFilename \in Names
    BY <1>1 DEF Names
  <2>3. mode \in [Fmus -> Modes] /\ initialized \subseteq Fmus
    BY <1>1 DEF Modes
  <2>4. disk \in [Names -> Seq(Int)] /\ emitted \in [Names -> Seq(Int)]
    BY <1>1, <1>2
  <2>5. time \in Nat /\ tLastEmit \in Int /\ until \in 0..MaxTime \cup {-1} /\ calls \in Nat
    BY <1>1
  <2> QED
    BY <1>1, <2>1, <2>2, <2>3, <2>4, <2>5 DEF TypeOK
<1>4. ModesInv /\ SimulationIsReady /\ CallsAreLegal
  BY <1>1 DEF ModesInv, SimulationIsReady, CallsAreLegal
<1>5. ~ resultFile.created
  BY <1>1 DEF NoWriter
<1>6. FileInv
  BY <1>1, <1>2, <1>5 DEF FileInv
<1>7. RowsKept
  <2>1. << >> \o << >> = << >>
    BY <1>2, ConcatEmptySeq
  <2> QED
    BY <1>1, <1>2, <1>5, <2>1 DEF RowsKept, InOrder
<1> QED
  BY <1>3, <1>4, <1>6, <1>7 DEF IInv

(* A call that leaves the model instantiated and without a file.           *)
LEMMA InitializeUnsupportedInv ==
  ASSUME IInv, InitializeUnsupported
  PROVE  IInv'
<1>0. TypeOK /\ FileInv /\ ModesInv /\ SimulationIsReady /\ CallsAreLegal
  BY DEF IInv
<1>1. /\ modelState = "instantiated" /\ resultFile' = NoWriter /\ disk' = emitted
      /\ calls' = calls + 1
      /\ UNCHANGED <<setup, modelState, resultFilename, time, tLastEmit, mode, initialized, refused,
                     illegal, until, emitted, fault>>
  BY DeletedIsEmitted DEF InitializeUnsupported, ClientCall, fmuVars
<1>2. TypeOK'
  <2>1. resultFile' \in Writers
    BY <1>1 DEF NoWriter, Writers
  <2> QED
    BY <1>0, <1>1, <2>1 DEF TypeOK, Fmus
<1>3. FileInv' /\ RowsKept'
  <2>1. ~ resultFile'.created
    BY <1>1 DEF NoWriter
  <2> QED
    BY <1>0, <1>1, <1>2, <2>1, NoFile DEF FileInv
<1>4. ModesInv' /\ SimulationIsReady' /\ CallsAreLegal'
  BY <1>0, <1>1 DEF ModesInv, SimulationIsReady, CallsAreLegal, Fmus
<1> QED
  BY <1>2, <1>3, <1>4 DEF IInv

(* What initialize does when an FMU refuses or is in another mode.         *)
LEMMA InitializeNotDone ==
  ASSUME IInv, Initializing, NewWriterOnly, mode' \in [Fmus -> Modes], initialized' \subseteq Fmus,
         UNCHANGED fault
  PROVE  TypeOK' /\ FileInv' /\ RowsKept' /\ modelState' = "instantiated" /\ until' = -1
<1>0. TypeOK /\ FileInv
  BY DEF IInv
<1>1. /\ modelState' = "instantiated" /\ until = -1
      /\ resultFile' = NewWriter(resultFilename) /\ disk' = emitted
      /\ time' = 0 /\ tLastEmit' = 0 /\ calls' = calls + 1
      /\ UNCHANGED <<setup, resultFilename, until, fault, emitted>>
  BY DeletedIsEmitted DEF Initializing, NewWriterOnly, ClientCall, Start
<1>2. TypeOK'
  <2>1. resultFile' \in Writers
    BY <1>0, <1>1 DEF NewWriter, Writers, TypeOK
  <2>2. calls' \in Nat
    BY <1>0, <1>1 DEF TypeOK
  <2> QED
    BY <1>0, <1>1, <2>1, <2>2 DEF TypeOK, Fmus
<1>3. ~ resultFile'.created
  BY <1>1 DEF NewWriter
<1> QED
  BY <1>0, <1>1, <1>2, <1>3, NoFile DEF FileInv

LEMMA InitializeStuckInv ==
  ASSUME IInv, InitializeStuck
  PROVE  IInv'
<1> DEFINE stuck == {m \in DOMAIN setup.fmus : mode[setup.fmus[m]] # "instantiated"}
           n == First(stuck)
<1>0. TypeOK /\ ModesInv /\ CallsAreLegal
  BY DEF IInv
<1>1. /\ Initializing /\ NewWriterOnly /\ n \in DOMAIN setup.fmus
      /\ mode' = [f \in Fmus |-> IF f \in Before(n) THEN "initialization" ELSE mode[f]]
      /\ UNCHANGED <<initialized, refused, fault>>
  BY DEF InitializeStuck
<1>2. refused # {}
  <2> SUFFICES ASSUME refused = {} PROVE FALSE
    OBVIOUS
  <2>1. modelState = "instantiated"
    BY <1>1 DEF Initializing
  <2>2. \A f \in Fmus : mode[f] = "instantiated"
    BY <1>0, <2>1 DEF ModesInv
  <2>3. stuck = {}
    BY <1>0, <2>2, SetupFacts
  <2>4. n = Min({Len(setup.fmus) + 1})
    BY <2>3 DEF First
  <2>5. Len(setup.fmus) + 1 \in Nat /\ DOMAIN setup.fmus = 1..Len(setup.fmus)
        /\ Len(setup.fmus) \in Nat
    BY <1>0, SetupFacts
  <2>6. Min({Len(setup.fmus) + 1}) = Len(setup.fmus) + 1
    <3> DEFINE x == Len(setup.fmus) + 1
    <3>1. {x} \subseteq Nat /\ {x} # {}
      BY <2>5
    <3> HIDE DEF x
    <3>2. Min({x}) \in {x}
      BY <3>1, MinOfNaturals
    <3> QED
      BY <3>2 DEF x
  <2>7. Len(setup.fmus) + 1 \in 1..Len(setup.fmus)
    BY <1>1, <2>4, <2>5, <2>6
  <2> QED
    BY <2>5, <2>7
<1>3. mode' \in [Fmus -> Modes] /\ initialized' \subseteq Fmus
  <2> HIDE DEF n
  <2> QED
    BY <1>0, <1>1 DEF TypeOK, Modes
<1>4. TypeOK' /\ FileInv' /\ RowsKept' /\ modelState' = "instantiated" /\ until' = -1
  BY <1>1, <1>3, InitializeNotDone
<1>5. refused' # {}
  BY <1>1, <1>2
<1> QED
  BY <1>4, <1>5 DEF IInv, ModesInv, SimulationIsReady, CallsAreLegal

LEMMA InitializeFailsInv ==
  ASSUME IInv, NEW f \in Fmus, InitializeFails(f)
  PROVE  IInv'
<1> DEFINE done == Before(Position(f))
<1>0. TypeOK
  BY DEF IInv
<1>1. /\ Initializing /\ NewWriterOnly
      /\ mode' = [g \in Fmus |-> IF g \in done THEN "simulation"
                                 ELSE IF g = f THEN "error" ELSE "initialization"]
      /\ initialized' = initialized \cup done /\ refused' = refused \cup {f} /\ UNCHANGED fault
  BY DEF InitializeFails
<1>2. done \subseteq Fmus
  BY DEF Before
<1> HIDE DEF done
<1>3. mode' \in [Fmus -> Modes] /\ initialized' \subseteq Fmus
  BY <1>0, <1>1, <1>2 DEF TypeOK, Modes
<1>4. TypeOK' /\ FileInv' /\ RowsKept' /\ modelState' = "instantiated" /\ until' = -1
  BY <1>1, <1>3, InitializeNotDone
<1>5. refused' # {}
  BY <1>1
<1> QED
  BY <1>4, <1>5 DEF IInv, ModesInv, SimulationIsReady, CallsAreLegal
(* All FMUs leave their initialisation; the first row is written.          *)
LEMMA InitializeInv ==
  ASSUME IInv, Initialize
  PROVE  IInv'
<1>0. TypeOK /\ FileInv /\ ModesInv /\ SimulationIsReady /\ CallsAreLegal
  BY DEF IInv
<1>1. /\ modelState' = "simulation" /\ until = -1 /\ time' = 0 /\ tLastEmit' = 0
      /\ calls' = calls + 1 /\ initialized' = Fmus /\ mode' = [f \in Fmus |-> "simulation"]
      /\ fault' \in BOOLEAN
      /\ UNCHANGED <<setup, resultFilename, until, refused, illegal>>
  BY DEF Initialize, Initializing, ClientCall, Start
<1>2. /\ calls' \in Nat /\ resultFilename \in Names /\ mode' \in [Fmus -> Modes]
      /\ \A n \in Names : InOrder(emitted[n])
  BY <1>0, <1>1 DEF TypeOK, Modes, FileInv
<1>3. ModesInv' /\ CallsAreLegal'
  BY <1>0, <1>1 DEF ModesInv, CallsAreLegal
<1>4. initialized' = Fmus' /\ \A f \in Fmus' : mode'[f] = "simulation"
  BY <1>1 DEF Fmus
<1>5. CASE resultFilename \in {Locked, LockedCSV}
  <2>1. resultFile' = NoWriter /\ disk' = emitted /\ emitted' = emitted
    BY <1>5, DeletedIsEmitted DEF Initialize
  <2>2. resultFile' \in Writers /\ ~ resultFile'.created
    BY <2>1 DEF NoWriter, Writers
  <2>3. TypeOK'
    BY <1>0, <1>1, <1>2, <2>1, <2>2 DEF TypeOK, Fmus
  <2>4. FileInv' /\ RowsKept'
    BY <1>2, <2>1, <2>2, <2>3, NoFile
  <2>5. SimulationIsReady'
    BY <1>1, <1>4, <1>5 DEF SimulationIsReady
  <2> QED
    BY <1>3, <2>3, <2>4, <2>5 DEF IInv
<1>6. CASE resultFilename \notin {Locked, LockedCSV}
  <2> DEFINE name == resultFilename
             first == <<Start>>
  <2>1. CreateFile(name, DiskAfterDelete, first)
    BY <1>6 DEF Initialize
  <2>2. first \in {<< >>, <<Start>>}
    OBVIOUS
  <2>3. /\ resultFile' \in Writers /\ resultFile'.created /\ resultFile'.name = name
        /\ disk' \in [Names -> Seq(Int)] /\ emitted' \in [Names -> Seq(Int)]
        /\ \A n \in Names \ {name} : emitted'[n] = disk'[n] /\ emitted'[n] = emitted[n]
        /\ emitted'[name] = first /\ emitted'[name] = disk'[name] \o resultFile'.buffer
    BY <1>2, <2>1, <2>2, CreateFileFacts
  <2>4. TypeOK'
    BY <1>0, <1>1, <1>2, <2>3 DEF TypeOK, Fmus
  <2>5. InOrder(first) /\ \A i \in DOMAIN first : first[i] <= 0
    BY DEF InOrder, Start
  <2>6. FileInv' /\ RowsKept'
    <3>1. \A n \in Names : InOrder(emitted'[n])
      BY <1>2, <2>3, <2>5
    <3>2. \A i \in DOMAIN emitted'[name] : emitted'[name][i] <= time'
      BY <1>1, <2>3, <2>5
    <3> HIDE DEF first
    <3> QED
      BY <1>1, <1>2, <2>3, <2>4, <3>1, <3>2, OpenFile
  <2>7. SimulationIsReady'
    <3>1. resultFile'.name # "NULL"
      BY <1>2, <2>3, NoName
    <3> QED
      BY <1>4, <3>1 DEF SimulationIsReady
  <2> QED
    BY <1>3, <2>4, <2>6, <2>7 DEF IInv
<1> QED
  BY <1>5, <1>6

(* In the state "simulation" the next file is created at once. *)
LEMMA SetResultFileInv ==
  ASSUME IInv, NEW name \in Names, SetResultFile(name)
  PROVE  IInv'
<1>0. /\ TypeOK /\ FileInv /\ ModesInv /\ SimulationIsReady /\ CallsAreLegal /\ RowsKept
  BY DEF IInv
<1>1. /\ modelState # "unloaded" /\ resultFilename' = name /\ calls' = calls + 1
      /\ fault' \in BOOLEAN
      /\ UNCHANGED <<setup, modelState, time, tLastEmit, mode, initialized, refused, illegal, until>>
  BY DEF SetResultFile, ClientCall, fmuVars
<1>2. calls' \in Nat /\ \A n \in Names : InOrder(emitted[n])
  BY <1>0, <1>1 DEF TypeOK, FileInv
<1>3. ModesInv' /\ CallsAreLegal'
  BY <1>0, <1>1 DEF ModesInv, CallsAreLegal, Fmus
<1>4. CASE modelState = "instantiated"
  <2>1. UNCHANGED <<resultFile, disk, emitted>>
    BY <1>4 DEF SetResultFile, fileVars
  <2>2. TypeOK'
    BY <1>0, <1>1, <1>2, <2>1 DEF TypeOK, Fmus
  <2>3. FileInv' /\ RowsKept' /\ SimulationIsReady'
    BY <1>0, <1>1, <1>4, <2>1 DEF FileInv, RowsKept, SimulationIsReady
  <2> QED
    BY <1>3, <2>2, <2>3 DEF IInv
<1>5. CASE modelState # "instantiated" /\ name \in {Unsupported, Locked, LockedCSV, Void}
  <2>1. resultFile' = NoWriter /\ disk' = emitted /\ emitted' = emitted
    BY <1>5, DeletedIsEmitted DEF SetResultFile
  <2>2. resultFile' \in Writers /\ ~ resultFile'.created
    BY <2>1 DEF NoWriter, Writers
  <2>3. TypeOK'
    BY <1>0, <1>1, <1>2, <2>1, <2>2 DEF TypeOK, Fmus
  <2>4. FileInv' /\ RowsKept'
    BY <1>2, <2>1, <2>2, <2>3, NoFile
  <2>5. SimulationIsReady'
    BY <1>0, <1>1, <1>5 DEF SimulationIsReady, Fmus
  <2> QED
    BY <1>3, <2>3, <2>4, <2>5 DEF IInv
<1>6. CASE modelState # "instantiated" /\ name \notin {Unsupported, Locked, LockedCSV, Void}
  <2>1. CreateFile(name, DiskAfterDelete, << >>)
    BY <1>6 DEF SetResultFile
  <2>2. modelState' = "simulation"
    BY <1>0, <1>1, <1>6 DEF TypeOK
  <2>3. /\ resultFile' \in Writers /\ resultFile'.created /\ resultFile'.name = name
        /\ disk' \in [Names -> Seq(Int)] /\ emitted' \in [Names -> Seq(Int)]
        /\ \A n \in Names \ {name} : emitted'[n] = disk'[n] /\ emitted'[n] = emitted[n]
        /\ emitted'[name] = << >> /\ emitted'[name] = disk'[name] \o resultFile'.buffer
    BY <2>1, CreateFileFacts
  <2>4. TypeOK'
    BY <1>0, <1>1, <1>2, <2>3 DEF TypeOK, Fmus
  <2>5. FileInv' /\ RowsKept'
    <3>1. InOrder(<< >>) /\ DOMAIN << >> = {}
      BY DEF InOrder
    <3>2. \A n \in Names : InOrder(emitted'[n])
      BY <1>2, <2>3, <3>1
    <3>3. \A i \in DOMAIN emitted'[name] : emitted'[name][i] <= time'
      BY <2>3, <3>1
    <3> QED
      BY <2>2, <2>3, <2>4, <3>2, <3>3, OpenFile
  <2>6. SimulationIsReady'
    <3>1. resultFile'.name # "NULL"
      BY <2>3, NoName
    <3> QED
      BY <1>0, <1>1, <2>2, <3>1 DEF SimulationIsReady, Fmus
  <2> QED
    BY <1>3, <2>4, <2>5, <2>6 DEF IInv
<1> QED
  BY <1>4, <1>5, <1>6

(* simulate begins and ends, and steps that change nothing. *)
LEMMA CallInv ==
  ASSUME IInv,
         UNCHANGED <<setup, modelState, resultFilename, resultFile, time, tLastEmit, mode,
                     initialized, disk, emitted, refused, illegal, fault>>,
         until' \in 0..MaxTime \cup {-1}, calls' \in Nat, until' # -1 => modelState = "simulation"
  PROVE  IInv'
<1>0. /\ TypeOK /\ FileInv /\ ModesInv /\ SimulationIsReady /\ CallsAreLegal /\ RowsKept
  BY DEF IInv
<1>1. TypeOK'
  BY <1>0 DEF TypeOK, Fmus
<1>2. FileInv' /\ RowsKept'
  BY <1>0 DEF FileInv, RowsKept
<1>3. ModesInv' /\ SimulationIsReady' /\ CallsAreLegal'
  BY <1>0 DEF ModesInv, SimulationIsReady, CallsAreLegal, Fmus
<1> QED
  BY <1>1, <1>2, <1>3 DEF IInv

LEMMA SimulateInv ==
  ASSUME IInv, NEW t \in 0..MaxTime, Simulate(t)
  PROVE  IInv'
<1>1. calls \in Nat
  BY DEF IInv, TypeOK
<1> QED
  BY <1>1, CallInv DEF Simulate, ClientCall, fmuVars, fileVars

LEMMA ReturnInv ==
  ASSUME IInv, Return
  PROVE  IInv'
<1>1. calls \in Nat
  BY DEF IInv, TypeOK
<1>2. calls' \in Nat
  BY <1>1 DEF Return
<1> QED
  BY <1>2, CallInv DEF Return, fmuVars, fileVars

LEMMA StutterInv ==
  ASSUME IInv, UNCHANGED vars
  PROVE  IInv'
<1>1. calls \in Nat /\ until \in 0..MaxTime \cup {-1} /\ (until # -1 => modelState = "simulation")
  BY DEF IInv, TypeOK, ModesInv
<1> QED
  BY <1>1, CallInv DEF vars

(* A communication step: no FMU is called in another mode, and the rows    *)
(* are kept.                                                               *)
LEMMA StepInv ==
  ASSUME IInv, Step
  PROVE  IInv'
<1> DEFINE t == NextTime
           after == Emitting(resultFile, Rows(t))
           name == resultFile.name
<1>0. /\ TypeOK /\ FileInv /\ ModesInv /\ SimulationIsReady /\ CallsAreLegal /\ RowsKept
  BY DEF IInv
<1>1. /\ time < until /\ time' = t
      /\ illegal' = illegal \cup {<<"doStep", f>> : f \in {g \in Fmus : mode[g] # "simulation"}}
      /\ tLastEmit' = IF Rows(t) # << >> THEN t ELSE tLastEmit
      /\ resultFile' = after.w
      /\ disk' = IF resultFile.created THEN [disk EXCEPT ![name] = @ \o after.d] ELSE disk
      /\ emitted' = IF resultFile.created THEN [emitted EXCEPT ![name] = @ \o Rows(t)] ELSE emitted
      /\ UNCHANGED <<setup, modelState, resultFilename, mode, initialized, refused, until, calls>>
  BY DEF Step, Emit
<1>2. time \in Nat /\ until \in Nat /\ modelState = "simulation"
  <2>1. time \in Nat /\ until \in 0..MaxTime \cup {-1}
    BY <1>0 DEF TypeOK
  <2>2. until # -1
    BY <1>1, <2>1
  <2> QED
    BY <1>0, <2>1, <2>2, BoundsAssumption DEF ModesInv
<1>3. t \in Nat /\ time <= t
  BY <1>0, <1>1, <1>2, SetupFacts DEF NextTime, Smaller
<1> HIDE DEF t
<1>4. illegal' = illegal
  <2>1. {g \in Fmus : mode[g] # "simulation"} = {}
    BY <1>0, <1>2 DEF SimulationIsReady
  <2> QED
    BY <1>1, <2>1
<1>5. fault' \in BOOLEAN
  <2>1. fault' = (Rows(t) # << >> /\ resultFile = NoWriter)
    BY DEF Step, t
  <2> QED
    BY <2>1
<1>6. /\ disk \in [Names -> Seq(Int)] /\ emitted \in [Names -> Seq(Int)]
      /\ resultFile \in Writers /\ setup.bufferSize \in Int /\ resultFile.buffer \in Seq(Int)
      /\ resultFile.created \in BOOLEAN /\ tLastEmit \in Int
  BY <1>0, SetupFacts DEF TypeOK, Writers
<1>7. Rows(t) \in Seq(Int)
  <2>1. <<t, t>> \in Seq(Int) /\ <<t>> \in Seq(Int) /\ << >> \in Seq(Int)
    BY <1>3
  <2>2. Rows(t) \in {<<t, t>>, <<t>>, << >>}
    BY DEF Rows
  <2> QED
    BY <2>1, <2>2
<1>8. /\ after.w \in Writers /\ after.d \in Seq(Int)
      /\ after.w.name = name /\ after.w.created = resultFile.created
      /\ resultFile.created => after.d \o after.w.buffer = resultFile.buffer \o Rows(t)
  BY <1>6, <1>7, EmittingKeeps
<1> HIDE DEF after
<1>9. ModesInv' /\ CallsAreLegal' /\ SimulationIsReady'
  BY <1>0, <1>1, <1>4, <1>8 DEF ModesInv, CallsAreLegal, SimulationIsReady, Fmus
<1>10. tLastEmit' \in Int
  BY <1>1, <1>3, <1>6
<1>11. CASE ~ resultFile.created
  <2>1. disk' = disk /\ emitted' = emitted /\ resultFile' \in Writers /\ ~ resultFile'.created
    BY <1>1, <1>8, <1>11
  <2>2. TypeOK'
    BY <1>0, <1>1, <1>3, <1>5, <1>10, <2>1 DEF TypeOK, Fmus
  <2>3. disk = emitted
    BY <1>11, DeletedIsEmitted DEF DiskAfterDelete
  <2>4. FileInv' /\ RowsKept'
    BY <1>0, <2>1, <2>2, <2>3, NoFile DEF FileInv
  <2> QED
    BY <1>9, <2>2, <2>4 DEF IInv
<1>12. CASE resultFile.created
  <2>1. name \in Names
    BY <1>0, <1>6, <1>12 DEF FileInv, Writers
  <2>2. /\ disk' = [disk EXCEPT ![name] = disk[name] \o after.d]
        /\ emitted' = [emitted EXCEPT ![name] = emitted[name] \o Rows(t)]
        /\ resultFile' \in Writers /\ resultFile'.created /\ resultFile'.name = name
        /\ resultFile'.buffer = after.w.buffer
    BY <1>1, <1>8, <1>12
  <2>3. disk[name] \in Seq(Int) /\ emitted[name] \in Seq(Int) /\ after.w.buffer \in Seq(Int)
    BY <1>6, <1>8, <2>1 DEF Writers
  <2>4. /\ emitted[name] \o Rows(t) \in Seq(Int) /\ InOrder(emitted[name] \o Rows(t))
        /\ \A i \in DOMAIN (emitted[name] \o Rows(t)) : (emitted[name] \o Rows(t))[i] <= t
    <3>1. InOrder(emitted[name]) /\ \A i \in DOMAIN emitted[name] : emitted[name][i] <= time
      BY <1>0, <1>12, <2>1 DEF FileInv
    <3>2. \A i \in DOMAIN emitted[name] : emitted[name][i] \in Int
      BY <2>3, LenProperties
    <3>3. \A i \in DOMAIN emitted[name] : emitted[name][i] <= t
      BY <1>2, <1>3, <3>1, <3>2
    <3>4. t \in Int
      BY <1>3
    <3> QED
      BY <2>3, <3>1, <3>3, <3>4, RowsInOrder
  <2>5. disk[name] \o after.d \in Seq(Int)
    BY <1>8, <2>3, ConcatProperties
  <2>6. TypeOK'
    <3>1. disk' \in [Names -> Seq(Int)] /\ emitted' \in [Names -> Seq(Int)]
      BY <1>6, <2>2, <2>4, <2>5
    <3> QED
      BY <1>0, <1>1, <1>3, <1>5, <1>10, <2>2, <3>1 DEF TypeOK, Fmus
  <2>7. emitted[name] \o Rows(t) = (disk[name] \o after.d) \o after.w.buffer
    <3>1. emitted[name] = disk[name] \o resultFile.buffer
      BY <1>0, <1>12, <2>1 DEF RowsKept
    <3>2. (disk[name] \o resultFile.buffer) \o Rows(t) = disk[name] \o (resultFile.buffer \o Rows(t))
      BY <1>6, <1>7, <2>3, Associated
    <3>3. disk[name] \o (after.d \o after.w.buffer) = (disk[name] \o after.d) \o after.w.buffer
      BY <1>8, <2>3, Associated
    <3> QED
      BY <1>8, <1>12, <3>1, <3>2, <3>3
  <2>8. ASSUME NEW n \in Names \ {name}
        PROVE  emitted'[n] = disk'[n] /\ emitted'[n] = emitted[n]
    <3>1. emitted[n] = disk[n] \o << >> /\ disk[n] \in Seq(Int)
      BY <1>0, <1>6 DEF RowsKept
    <3>2. emitted[n] = disk[n]
      BY <3>1, ConcatEmptySeq
    <3> QED
      BY <1>6, <2>2, <3>2
  <2>9. emitted'[name] = emitted[name] \o Rows(t) /\ disk'[name] = disk[name] \o after.d
    BY <1>6, <2>1, <2>2
  <2>10. \A n \in Names : InOrder(emitted'[n])
    BY <1>0, <2>4, <2>8, <2>9 DEF FileInv
  <2>11. FileInv' /\ RowsKept'
    <3>1. emitted'[name] = disk'[name] \o resultFile'.buffer
      BY <2>2, <2>7, <2>9
    <3>2. \A i \in DOMAIN emitted'[name] : emitted'[name][i] <= time'
      BY <1>1, <2>4, <2>9
    <3>3. modelState' = "simulation"
      BY <1>1, <1>2
    <3> HIDE DEF name
    <3> QED
      BY <2>1, <2>2, <2>6, <2>8, <2>10, <3>1, <3>2, <3>3, OpenFile
  <2> QED
    BY <1>9, <2>6, <2>11 DEF IInv
<1> QED
  BY <1>6, <1>11, <1>12
LEMMA ResetUnsupportedInv ==
  ASSUME IInv, ResetUnsupported
  PROVE  IInv'
<1>0. TypeOK /\ ModesInv /\ SimulationIsReady /\ CallsAreLegal
  BY DEF IInv
<1>1. /\ resultFilename = Unsupported /\ resultFile' = NoWriter /\ calls' = calls + 1
      /\ UNCHANGED <<setup, resultFilename, time, until, fault, modelState, mode, initialized,
                     refused, illegal>>
  BY DEF ResetUnsupported, Closing, ClientCall, fmuVars
<1>2. /\ disk' = emitted' /\ emitted' \in [Names -> Seq(Int)] /\ tLastEmit' \in Int
      /\ \A n \in Names : InOrder(emitted'[n])
  BY ClosingFacts DEF ResetUnsupported
<1>3. resultFile' \in Writers /\ ~ resultFile'.created
  BY <1>1 DEF NoWriter, Writers
<1>4. TypeOK'
  <2>1. calls' \in Nat
    BY <1>0, <1>1 DEF TypeOK
  <2> QED
    BY <1>0, <1>1, <1>2, <1>3, <2>1 DEF TypeOK, Fmus
<1>5. FileInv' /\ RowsKept'
  BY <1>2, <1>3, <1>4, NoFile
<1>6. ModesInv' /\ CallsAreLegal' /\ SimulationIsReady'
  BY <1>0, <1>1 DEF ModesInv, CallsAreLegal, SimulationIsReady, Fmus
<1> QED
  BY <1>4, <1>5, <1>6 DEF IInv

(* After reset every FMU is as new, unless one has refused. *)
LEMMA ResetInv ==
  ASSUME IInv, Reset
  PROVE  IInv'
<1>0. TypeOK /\ ModesInv /\ SimulationIsReady /\ CallsAreLegal
  BY DEF IInv
<1>1. /\ modelState # "unloaded" /\ modelState' = "instantiated" /\ until = -1
      /\ resultFile' = NewWriter(resultFilename) /\ calls' = calls + 1
      /\ mode' = [f \in Fmus |-> IF f \in initialized THEN "instantiated" ELSE mode[f]]
      /\ initialized' = {}
      /\ UNCHANGED <<setup, resultFilename, time, until, fault, refused, illegal>>
  BY DEF Reset, Closing, ClientCall, InitializedAfterReset
<1>2. /\ disk' = emitted' /\ emitted' \in [Names -> Seq(Int)] /\ tLastEmit' \in Int
      /\ \A n \in Names : InOrder(emitted'[n])
  BY ClosingFacts DEF Reset
<1>3. resultFile' \in Writers /\ ~ resultFile'.created
  BY <1>0, <1>1 DEF NewWriter, Writers, TypeOK
<1>4. TypeOK'
  <2>1. calls' \in Nat /\ mode' \in [Fmus -> Modes]
    BY <1>0, <1>1 DEF TypeOK, Modes
  <2> QED
    BY <1>0, <1>1, <1>2, <1>3, <2>1 DEF TypeOK, Fmus
<1>5. FileInv' /\ RowsKept'
  BY <1>2, <1>3, <1>4, NoFile
<1>6. refused = {} => \A f \in Fmus : mode'[f] = "instantiated"
  <2>1. modelState \in {"instantiated", "simulation"}
    BY <1>0, <1>1 DEF TypeOK
  <2> QED
    BY <1>0, <1>1, <2>1 DEF ModesInv, SimulationIsReady
<1>7. ModesInv' /\ CallsAreLegal' /\ SimulationIsReady'
  BY <1>0, <1>1, <1>6 DEF ModesInv, CallsAreLegal, SimulationIsReady, Fmus
<1> QED
  BY <1>4, <1>5, <1>7 DEF IInv

(* Only an FMU in the mode that allows it is terminated. *)
LEMMA UnloadInv ==
  ASSUME IInv, Unload
  PROVE  IInv'
<1>0. TypeOK /\ ModesInv /\ SimulationIsReady /\ CallsAreLegal
  BY DEF IInv
<1>1. /\ modelState # "unloaded" /\ modelState' = "unloaded" /\ until = -1
      /\ resultFile' = NoWriter /\ calls' = calls + 1
      /\ illegal' = illegal \cup
           {<<"terminate", f>> : f \in {g \in initialized : mode[g] # "simulation"}}
      /\ mode' = [f \in Fmus |-> "freed"] /\ initialized' = {}
      /\ UNCHANGED <<setup, resultFilename, time, until, fault, refused>>
  BY DEF Unload, Closing, ClientCall
<1>2. /\ disk' = emitted' /\ emitted' \in [Names -> Seq(Int)] /\ tLastEmit' \in Int
      /\ \A n \in Names : InOrder(emitted'[n])
  BY ClosingFacts DEF Unload
<1>3. resultFile' \in Writers /\ ~ resultFile'.created
  BY <1>1 DEF NoWriter, Writers
<1>4. TypeOK'
  <2>1. calls' \in Nat /\ mode' \in [Fmus -> Modes]
    BY <1>0, <1>1 DEF TypeOK, Modes
  <2> QED
    BY <1>0, <1>1, <1>2, <1>3, <2>1 DEF TypeOK, Fmus
<1>5. FileInv' /\ RowsKept'
  BY <1>2, <1>3, <1>4, NoFile
<1>6. refused = {} => illegal' = illegal
  <2>1. modelState \in {"instantiated", "simulation"}
    BY <1>0, <1>1 DEF TypeOK
  <2>2. refused = {} => {g \in initialized : mode[g] # "simulation"} = {}
    BY <1>0, <2>1 DEF ModesInv, SimulationIsReady
  <2> QED
    BY <1>1, <2>2
<1>7. ModesInv' /\ CallsAreLegal' /\ SimulationIsReady'
  BY <1>0, <1>1, <1>6 DEF ModesInv, CallsAreLegal, SimulationIsReady
<1> QED
  BY <1>4, <1>5, <1>7 DEF IInv

LEMMA NextInv ==
  ASSUME IInv, [Next]_vars
  PROVE  IInv'
<1>1. CASE Client
  BY <1>1, InitializeUnsupportedInv, InitializeStuckInv, InitializeInv, InitializeFailsInv,
     SetResultFileInv, SimulateInv, ResetUnsupportedInv, ResetInv, UnloadInv DEF Client
<1>2. CASE Step
  BY <1>2, StepInv
<1>3. CASE Return
  BY <1>3, ReturnInv
<1>4. CASE Over \/ UNCHANGED vars
  BY <1>4, StutterInv DEF Over
<1> QED
  BY <1>1, <1>2, <1>3, <1>4 DEF Next

-----------------------------------------------------------------------------
(* The inductive invariant holds of every run. *)
THEOREM Invariance == Spec => []IInv
<1>1. Init => IInv
  BY InitInv
<1>2. IInv /\ [Next]_vars => IInv'
  BY NextInv
<1> QED
  BY <1>1, <1>2, PTL DEF Spec

(* A model in the state "simulation" can be simulated, whatever failed     *)
(* before it came there and however often it was reset.                    *)
THEOREM SimulatedModelsAreReady == Spec => []SimulationIsReady
<1>1. IInv => SimulationIsReady
  BY DEF IInv
<1> QED
  BY <1>1, Invariance, PTL

(* No order of the calls of a client makes the model call an FMU in a mode *)
(* that does not allow it, unless one has refused to be initialised.       *)
THEOREM FMUsAreCalledLegally == Spec => []CallsAreLegal
<1>1. IInv => CallsAreLegal
  BY DEF IInv
<1> QED
  BY <1>1, Invariance, PTL

(* No row is lost or written twice, for any size of the buffer, and in a   *)
(* file the time never goes back.                                          *)
THEOREM RowsAreKept == Spec => []RowsKept
<1>1. IInv => RowsKept
  BY DEF IInv
<1> QED
  BY <1>1, Invariance, PTL
=============================================================================
