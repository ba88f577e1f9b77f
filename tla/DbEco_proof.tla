----------------------------- MODULE DbEco_proof ----------------------------
(***************************************************************************)
(* Proofs about the ECO journal: what any caller can rely on, and what a   *)
(* careful one can.  The first half is about the operators of Netlist:     *)
(* what each keeps of a block that is sound or consistent, and which of    *)
(* them take each other back.                                              *)
(***************************************************************************)
EXTENDS EcoRemote, SequenceTheorems, TLAPS

-----------------------------------------------------------------------------
(***************************************************************************)
(* Free lists: what taking ids from one and giving them back does.         *)
(***************************************************************************)
Distinct(q) == \A j, k \in 1..Len(q) : q[j] = q[k] => j = k

\* The set A is B with x, without x; with or without all of C.
With(A, B, x) == A = B \cup {x}
Without(A, B, x) == A = B \ {x}
WithAll(A, B, C) == A = B \cup C
WithoutAll(A, B, C) == A = B \ C

\* The head of a free list is free; the tail is the list without it.
LEMMA TakeOne ==
  ASSUME NEW ids, NEW tbl \in Seq(ids), tbl # <<>>, NEW live,
         TableOK(tbl, ids, live)
  PROVE  /\ Head(tbl) \in ids /\ Head(tbl) \notin live
         /\ Tail(tbl) \in Seq(ids)
         /\ \A live2 : With(live2, live, Head(tbl)) => TableOK(Tail(tbl), ids, live2)
<1> DEFINE t == Tail(tbl)
<1>1. /\ Len(tbl) \in Nat \ {0} /\ Head(tbl) = tbl[1] /\ t \in Seq(ids)
      /\ Len(t) = Len(tbl) - 1 /\ \A i \in 1..Len(t) : t[i] = tbl[i + 1]
  BY HeadTailProperties, EmptySeq
<1>2. tbl[1] \in ids \ live
  BY <1>1 DEF TableOK, Elems
<1>3. ASSUME NEW live2, With(live2, live, Head(tbl)) PROVE TableOK(t, ids, live2)
  <2>1. \A j, k \in 1..Len(t) : t[j] = t[k] => j = k
    BY <1>1 DEF TableOK
  <2>2. ASSUME NEW x \in Elems(t) PROVE x \in ids \ live2
    <3>1. PICK k \in 1..Len(t) : x = tbl[k + 1]
      BY <1>1 DEF Elems
    <3>2. k + 1 \in 1..Len(tbl) /\ k + 1 # 1 /\ 1 \in 1..Len(tbl)
      BY <1>1
    <3>3. x # tbl[1] /\ x \in ids \ live
      BY <3>1, <3>2 DEF TableOK, Elems
    <3>4. QED BY <3>3, <1>1, <1>3 DEF With
  <2>3. ASSUME NEW x \in ids \ live2 PROVE x \in Elems(t)
    <3>1. x \in ids \ live /\ x # tbl[1]
      BY <1>1, <1>3 DEF With
    <3>2. PICK k \in 1..Len(tbl) : x = tbl[k]
      BY <3>1 DEF TableOK, Elems
    <3>3. k - 1 \in 1..Len(t) /\ t[k - 1] = x
      BY <3>1, <3>2, <1>1
    <3>4. QED BY <3>3 DEF Elems
  <2>4. QED BY <2>1, <2>2, <2>3 DEF TableOK
<1>4. QED BY <1>1, <1>2, <1>3

LEMMA HeadAndTail ==
  ASSUME NEW S, NEW q \in Seq(S), q # <<>>
  PROVE  <<Head(q)>> \o Tail(q) = q
<1>1. /\ Len(q) \in Nat \ {0} /\ Head(q) = q[1] /\ Head(q) \in S /\ Tail(q) \in Seq(S)
      /\ Len(Tail(q)) = Len(q) - 1 /\ \A i \in 1..Len(Tail(q)) : Tail(q)[i] = q[i + 1]
  BY HeadTailProperties, EmptySeq
<1>2. <<Head(q)>> \in Seq(S) /\ Len(<<Head(q)>>) = 1 /\ <<Head(q)>>[1] = q[1]
  BY <1>1
<1> DEFINE c == <<Head(q)>> \o Tail(q)
<1>3. /\ c \in Seq(S) /\ Len(c) = Len(q)
      /\ \A i \in 1..Len(q) : c[i] = IF i <= 1 THEN q[1] ELSE Tail(q)[i - 1]
  BY <1>1, <1>2, ConcatProperties
<1>4. \A i \in 1..Len(c) : c[i] = q[i]
  BY <1>1, <1>3
<1>5. QED BY <1>3, <1>4, SeqEqual

\* A used id put at the head of a free list.
LEMMA GiveOne ==
  ASSUME NEW ids, NEW tbl \in Seq(ids), NEW live, NEW x \in ids, x \in live,
         TableOK(tbl, ids, live)
  PROVE  /\ <<x>> \o tbl \in Seq(ids) /\ <<x>> \o tbl # <<>>
         /\ Head(<<x>> \o tbl) = x /\ Tail(<<x>> \o tbl) = tbl
         /\ \A live2 : Without(live2, live, x) => TableOK(<<x>> \o tbl, ids, live2)
<1> DEFINE c == <<x>> \o tbl
<1>1. <<x>> \in Seq(ids) /\ Len(<<x>>) = 1 /\ <<x>>[1] = x
  OBVIOUS
<1>2. /\ c \in Seq(ids) /\ Len(c) = 1 + Len(tbl) /\ Len(tbl) \in Nat
      /\ c[1] = x /\ \A k \in 1..Len(tbl) : c[k + 1] = tbl[k]
  BY <1>1, ConcatProperties
<1>3. c # <<>> /\ Head(c) = x
  BY <1>2
<1>4. Tail(c) = tbl
  <2>1. Tail(c) \in Seq(ids) /\ Len(Tail(c)) = Len(tbl)
        /\ \A i \in 1..Len(tbl) : Tail(c)[i] = tbl[i]
    BY <1>2, <1>3, HeadTailProperties
  <2>2. QED BY <2>1, SeqEqual
<1>5. ASSUME NEW live2, Without(live2, live, x) PROVE TableOK(c, ids, live2)
  <2>1. \A k \in 1..Len(tbl) : tbl[k] \in ids \ live
    BY DEF TableOK, Elems
  <2>2. ASSUME NEW j \in 1..Len(c), NEW k \in 1..Len(c), c[j] = c[k] PROVE j = k
    <3>1. j = 1 \/ (j - 1 \in 1..Len(tbl) /\ c[j] = tbl[j - 1])
      BY <1>2
    <3>2. k = 1 \/ (k - 1 \in 1..Len(tbl) /\ c[k] = tbl[k - 1])
      BY <1>2
    <3>3. QED BY <3>1, <3>2, <2>1, <2>2, <1>2 DEF TableOK
  <2>3. ASSUME NEW y \in Elems(c) PROVE y \in ids \ live2
    <3>1. PICK k \in 1..Len(c) : y = c[k]
      BY DEF Elems
    <3>2. k = 1 \/ (k - 1 \in 1..Len(tbl) /\ y = tbl[k - 1])
      BY <1>2, <3>1
    <3>3. QED BY <3>1, <3>2, <2>1, <1>2, <1>5 DEF Without
  <2>4. ASSUME NEW y \in ids \ live2 PROVE y \in Elems(c)
    <3>1. CASE y = x BY <3>1, <1>2 DEF Elems
    <3>2. CASE y # x
      <4>1. y \in Elems(tbl) BY <3>2, <1>5 DEF Without, TableOK
      <4>2. PICK k \in 1..Len(tbl) : y = tbl[k] BY <4>1 DEF Elems
      <4>3. k + 1 \in 1..Len(c) /\ c[k + 1] = y BY <4>2, <1>2
      <4>4. QED BY <4>3 DEF Elems
    <3>3. QED BY <3>1, <3>2
  <2>5. QED BY <2>2, <2>3, <2>4 DEF TableOK
<1>6. QED BY <1>2, <1>3, <1>4, <1>5

\* A free list whose ids are those not in live nor in ts.
RestOK(tbl, ids, live, ts) ==
  \A live2 : WithAll(live2, live, Elems(ts)) => TableOK(tbl, ids, live2)

SplitAt(tbl, n, ts, rest) ==
  ts = SubSeq(tbl, 1, n) /\ rest = SubSeq(tbl, n + 1, Len(tbl))

\* The first n ids of a free list, and the rest of it.
LEMMA TakeSome ==
  ASSUME NEW ids, NEW tbl \in Seq(ids), NEW live, NEW n \in Nat, n <= Len(tbl),
         TableOK(tbl, ids, live),
         NEW ts, NEW rest, SplitAt(tbl, n, ts, rest)
  PROVE  /\ ts \in Seq(ids) /\ Len(ts) = n /\ Distinct(ts)
         /\ \A x \in Elems(ts) : x \in ids /\ x \notin live
         /\ rest \in Seq(ids) /\ ts \o rest = tbl
         /\ RestOK(rest, ids, live, ts)
<1>0. ts = SubSeq(tbl, 1, n) /\ rest = SubSeq(tbl, n + 1, Len(tbl))
  BY DEF SplitAt
<1>1. /\ Len(tbl) \in Nat /\ \A i \in 1..Len(tbl) : tbl[i] \in ids
      /\ \A j, k \in 1..Len(tbl) : tbl[j] = tbl[k] => j = k
      /\ Elems(tbl) = ids \ live
  BY LenProperties, ElementOfSeq DEF TableOK
<1>2. ts \in Seq(ids) /\ Len(ts) = n /\ \A i \in 1..n : ts[i] = tbl[i]
  <2>1. \A i \in 1..n : tbl[i] \in ids BY <1>1
  <2>2. ts \in Seq(ids) /\ Len(ts) = (IF 1 <= n THEN n - 1 + 1 ELSE 0)
        /\ \A i \in 1..n - 1 + 1 : ts[i] = tbl[1 + i - 1]
    BY <1>0, <2>1, SubSeqProperties
  <2>3. QED BY <2>2
<1>3. /\ rest \in Seq(ids) /\ Len(rest) = Len(tbl) - n
      /\ \A i \in 1..Len(tbl) - n : rest[i] = tbl[n + i]
  <2>1. \A i \in n + 1..Len(tbl) : tbl[i] \in ids BY <1>1
  <2>2. rest \in Seq(ids)
        /\ Len(rest) = (IF n + 1 <= Len(tbl) THEN Len(tbl) - (n + 1) + 1 ELSE 0)
        /\ \A i \in 1..Len(tbl) - (n + 1) + 1 : rest[i] = tbl[n + 1 + i - 1]
    BY <1>0, <2>1, <1>1, SubSeqProperties
  <2>3. QED BY <2>2, <1>1
<1>4. ts \o rest = tbl
  <2>1. ts \o rest = SubSeq(tbl, 1, Len(tbl))
    <3>1. 1 \in 1..Len(tbl) + 1 /\ n \in 1 - 1..Len(tbl) /\ Len(tbl) \in n..Len(tbl)
      BY <1>1
    <3>2. QED BY <1>0, <3>1, ConcatAdjacentSubSeq
  <2>2. QED BY <2>1, SubSeqFull
<1>5. Distinct(ts)
  BY <1>1, <1>2 DEF Distinct
<1>6. \A x \in Elems(ts) : x \in ids /\ x \notin live
  BY <1>1, <1>2 DEF Elems
<1>7. ASSUME NEW live2, WithAll(live2, live, Elems(ts)) PROVE TableOK(rest, ids, live2)
  <2>1. \A j, k \in 1..Len(rest) : rest[j] = rest[k] => j = k
    BY <1>1, <1>3
  <2>2. ASSUME NEW y \in Elems(rest) PROVE y \in ids \ live2
    <3>1. PICK k \in 1..Len(tbl) - n : y = tbl[n + k]
      BY <1>3 DEF Elems
    <3>2. n + k \in 1..Len(tbl) /\ \A j \in 1..n : tbl[j] # tbl[n + k]
      BY <1>1, <3>1
    <3>3. y \in ids \ live /\ y \notin Elems(ts)
      BY <1>1, <1>2, <3>1, <3>2 DEF Elems
    <3>4. QED BY <3>3, <1>7 DEF WithAll
  <2>3. ASSUME NEW y \in ids \ live2 PROVE y \in Elems(rest)
    <3>1. y \in Elems(tbl) /\ y \notin Elems(ts)
      BY <1>1, <1>7 DEF WithAll
    <3>2. PICK k \in 1..Len(tbl) : y = tbl[k]
      BY <3>1 DEF Elems
    <3>3. ~(k <= n)
      BY <3>1, <3>2, <1>2 DEF Elems
    <3>4. k - n \in 1..Len(tbl) - n /\ rest[k - n] = y
      BY <3>2, <3>3, <1>1, <1>3
    <3>5. QED BY <3>4, <1>3 DEF Elems
  <2>4. QED BY <2>1, <2>2, <2>3 DEF TableOK
<1>8. RestOK(rest, ids, live, ts) BY <1>7 DEF RestOK
<1>9. QED BY <1>2, <1>3, <1>4, <1>5, <1>6, <1>8

\* A free list whose ids are those not in live, and ts.
GivenOK(tbl, ids, live, ts) ==
  \A live2 : WithoutAll(live2, live, Elems(ts)) => TableOK(tbl, ids, live2)

\* Used ids put in front of a free list.
LEMMA GiveSome ==
  ASSUME NEW ids, NEW tbl \in Seq(ids), NEW live, NEW ts \in Seq(ids),
         Distinct(ts), Elems(ts) \subseteq live,
         TableOK(tbl, ids, live)
  PROVE  /\ ts \o tbl \in Seq(ids) /\ Len(ts \o tbl) >= Len(ts)
         /\ SplitAt(ts \o tbl, Len(ts), ts, tbl)
         /\ GivenOK(ts \o tbl, ids, live, ts)
<1> DEFINE c == ts \o tbl
<1>1. /\ Len(ts) \in Nat /\ Len(tbl) \in Nat
      /\ c \in Seq(ids) /\ Len(c) = Len(ts) + Len(tbl)
      /\ \A i \in 1..Len(ts) : c[i] = ts[i]
      /\ \A i \in 1..Len(tbl) : c[Len(ts) + i] = tbl[i]
      /\ \A i \in 1..Len(c) : c[i] \in ids
  BY LenProperties, ConcatProperties, ElementOfSeq
<1>2. SubSeq(c, 1, Len(ts)) = ts
  <2>1. \A i \in 1..Len(ts) : c[i] \in ids BY <1>1
  <2>2. /\ SubSeq(c, 1, Len(ts)) \in Seq(ids) 
        /\ Len(SubSeq(c, 1, Len(ts))) = (IF 1 <= Len(ts) THEN Len(ts) - 1 + 1 ELSE 0)
        /\ \A i \in 1..Len(ts) - 1 + 1 : SubSeq(c, 1, Len(ts))[i] = c[1 + i - 1]
    BY <2>1, <1>1, SubSeqProperties
  <2>3. QED BY <2>2, <1>1, SeqEqual
<1>3. SubSeq(c, Len(ts) + 1, Len(c)) = tbl
  <2> DEFINE r == SubSeq(c, Len(ts) + 1, Len(c))
  <2>1. \A i \in Len(ts) + 1..Len(c) : c[i] \in ids BY <1>1
  <2>2. /\ r \in Seq(ids)
        /\ Len(r) = (IF Len(ts) + 1 <= Len(c) THEN Len(c) - (Len(ts) + 1) + 1 ELSE 0)
        /\ \A i \in 1..Len(c) - (Len(ts) + 1) + 1 : r[i] = c[Len(ts) + 1 + i - 1]
    BY <2>1, <1>1, SubSeqProperties
  <2>3. Len(r) = Len(tbl) /\ \A i \in 1..Len(r) : r[i] = tbl[i]
    BY <2>2, <1>1
  <2>4. QED BY <2>2, <2>3, SeqEqual
<1>4. ASSUME NEW live2, WithoutAll(live2, live, Elems(ts)) PROVE TableOK(c, ids, live2)
  <2>1. /\ \A i \in 1..Len(ts) : ts[i] \in live /\ ts[i] \in ids
        /\ \A i \in 1..Len(tbl) : tbl[i] \in ids \ live
        /\ \A j, k \in 1..Len(ts) : ts[j] = ts[k] => j = k
        /\ \A j, k \in 1..Len(tbl) : tbl[j] = tbl[k] => j = k
    BY ElementOfSeq DEF Distinct, TableOK, Elems
  <2>2. ASSUME NEW k \in 1..Len(c)
        PROVE  \/ k \in 1..Len(ts) /\ c[k] = ts[k]
               \/ k - Len(ts) \in 1..Len(tbl) /\ c[k] = tbl[k - Len(ts)]
    BY <1>1
  <2>3. ASSUME NEW j \in 1..Len(c), NEW k \in 1..Len(c), c[j] = c[k] PROVE j = k
    BY <2>1, <2>2, <2>3, <1>1
  <2>4. ASSUME NEW y \in Elems(c) PROVE y \in ids \ live2
    <3>1. PICK k \in 1..Len(c) : y = c[k] BY DEF Elems
    <3>2. \/ y \in Elems(ts) /\ y \in ids
          \/ y \in ids \ live
      BY <2>1, <2>2, <3>1 DEF Elems
    <3>3. QED BY <3>2, <1>4 DEF WithoutAll
  <2>5. ASSUME NEW y \in ids \ live2 PROVE y \in Elems(c)
    <3>1. y \in Elems(ts) \/ y \in Elems(tbl) BY <1>4 DEF WithoutAll, TableOK
    <3>2. CASE y \in Elems(ts)
      <4>1. PICK k \in 1..Len(ts) : y = ts[k] BY <3>2 DEF Elems
      <4>2. k \in 1..Len(c) /\ c[k] = y BY <4>1, <1>1
      <4>3. QED BY <4>2 DEF Elems
    <3>3. CASE y \in Elems(tbl)
      <4>1. PICK k \in 1..Len(tbl) : y = tbl[k] BY <3>3 DEF Elems
      <4>2. Len(ts) + k \in 1..Len(c) /\ c[Len(ts) + k] = y BY <4>1, <1>1
      <4>3. QED BY <4>2 DEF Elems
    <3>4. QED BY <3>1, <3>2, <3>3
  <2>6. QED BY <2>3, <2>4, <2>5 DEF TableOK
<1>5. GivenOK(c, ids, live, ts) BY <1>4 DEF GivenOK
<1>6. SplitAt(c, Len(ts), ts, tbl) BY <1>2, <1>3 DEF SplitAt
<1>7. QED BY <1>1, <1>5, <1>6

-----------------------------------------------------------------------------
(***************************************************************************)
(* Masters with the same terminals: the pins of one in the other's order.  *)
(***************************************************************************)
LEMMA Terminals ==
  ASSUME NEW m \in Master
  PROVE  /\ MTerms[m] \in Seq(STRING) /\ Len(MTerms[m]) \in Nat
         /\ \A j, k \in 1..Len(MTerms[m]) : MTerms[m][j] = MTerms[m][k] => j = k
BY NetlistAssumption, LenProperties

LEMMA TermsSymmetric ==
  ASSUME NEW m, NEW m2, SameTerms(m, m2)
  PROVE  SameTerms(m2, m)
BY DEF SameTerms

\* The terminal of m that is the k-th of m2.
Term(m, m2, ts, k) == CHOOSE j \in 1..Len(ts) : MTerms[m][j] = MTerms[m2][k]

LEMMA TermOf ==
  ASSUME NEW m \in Master, NEW m2 \in Master, SameTerms(m, m2),
         NEW ts, Len(ts) = Len(MTerms[m]), NEW k \in 1..Len(ts),
         NEW j, j = Term(m, m2, ts, k)
  PROVE  j \in 1..Len(ts) /\ MTerms[m][j] = MTerms[m2][k]
<1>1. MTerms[m2][k] \in Elems(MTerms[m])
  BY DEF SameTerms, Elems
<1>2. \E h \in 1..Len(ts) : MTerms[m][h] = MTerms[m2][k]
  BY <1>1 DEF Elems
<1>3. QED BY <1>2 DEF Term

\* Reordering keeps the pins, each once.
LEMMA ReorderKeeps ==
  ASSUME NEW S, NEW ts \in Seq(S), NEW m \in Master, NEW m2 \in Master,
         SameTerms(m, m2), Len(ts) = Len(MTerms[m]),
         NEW r, r = Reordered(ts, m, m2)
  PROVE  /\ r \in Seq(S) /\ Len(r) = Len(ts)
         /\ \A k \in 1..Len(ts) : r[k] = ts[Term(m, m2, ts, k)]
         /\ Elems(r) = Elems(ts)
         /\ Distinct(ts) => Distinct(r)
<1> DEFINE n == Len(ts)
<1>1. n \in Nat /\ \A k \in 1..n : ts[k] \in S
  BY LenProperties, ElementOfSeq
<1>2. r = [k \in 1..n |-> ts[Term(m, m2, ts, k)]]
  BY DEF Reordered, Term
<1>3. \A k \in 1..n : /\ Term(m, m2, ts, k) \in 1..n
                      /\ MTerms[m][Term(m, m2, ts, k)] = MTerms[m2][k]
  BY TermOf
<1>4. r \in Seq(S) /\ Len(r) = n /\ \A k \in 1..n : r[k] = ts[Term(m, m2, ts, k)]
  BY <1>1, <1>2, <1>3, IsASeq
<1>5. ASSUME NEW x \in Elems(r) PROVE x \in Elems(ts)
  <2>1. PICK k \in 1..Len(r) : x = r[k] BY <1>5 DEF Elems
  <2>2. k \in 1..n BY <2>1, <1>4
  <2>3. Term(m, m2, ts, k) \in 1..n /\ x = ts[Term(m, m2, ts, k)] BY <2>1, <2>2, <1>3, <1>4
  <2>4. QED BY <2>3 DEF Elems
<1>6. ASSUME NEW x \in Elems(ts) PROVE x \in Elems(r)
  <2>1. PICK j \in 1..n : x = ts[j] BY <1>6 DEF Elems
  <2>2. MTerms[m][j] \in Elems(MTerms[m2]) BY DEF SameTerms, Elems
  <2>3. PICK k \in 1..n : MTerms[m2][k] = MTerms[m][j]
    BY <2>2 DEF Elems, SameTerms
  <2>4. Term(m, m2, ts, k) = j BY <1>3, <2>3, Terminals
  <2>5. r[k] = x BY <1>4, <2>1, <2>4
  <2>6. QED BY <1>4, <2>5 DEF Elems
<1>7. ASSUME Distinct(ts), NEW j \in 1..n, NEW k \in 1..n, r[j] = r[k] PROVE j = k
  <2>1. Term(m, m2, ts, j) = Term(m, m2, ts, k)
    BY <1>3, <1>4, <1>7 DEF Distinct
  <2>2. MTerms[m2][j] = MTerms[m2][k] BY <1>3, <2>1
  <2>3. QED BY <2>2, Terminals DEF SameTerms
<1>8. Distinct(ts) => Distinct(r) BY <1>4, <1>7 DEF Distinct
<1>9. QED BY <1>4, <1>5, <1>6, <1>8

\* Reordering there and back changes nothing, nor does reordering to the
\* same master.
LEMMA ReorderBack ==
  ASSUME NEW S, NEW ts \in Seq(S), NEW m \in Master, NEW m2 \in Master,
         SameTerms(m, m2), Len(ts) = Len(MTerms[m]),
         NEW r, r = Reordered(ts, m, m2), NEW q, q = Reordered(r, m2, m)
  PROVE  q = ts
<1> DEFINE n == Len(ts)
<1>1. SameTerms(m2, m) /\ Len(MTerms[m2]) = n
  BY TermsSymmetric DEF SameTerms
<1>2. r \in Seq(S) /\ Len(r) = n /\ \A k \in 1..n : r[k] = ts[Term(m, m2, ts, k)]
  BY ReorderKeeps
<1>3. q \in Seq(S) /\ Len(q) = n /\ \A k \in 1..n : q[k] = r[Term(m2, m, r, k)]
  BY <1>1, <1>2, ReorderKeeps
<1>4. ASSUME NEW k \in 1..n PROVE q[k] = ts[k]
  <2>1. PICK j : j = Term(m2, m, r, k)
    OBVIOUS
  <2>2. j \in 1..n /\ MTerms[m2][j] = MTerms[m][k] /\ q[k] = r[j]
    <3>1. k \in 1..Len(r) /\ Len(r) = Len(MTerms[m2]) BY <1>1, <1>2
    <3>2. SameTerms(m2, m) BY <1>1
    <3>3. j \in 1..Len(r) /\ MTerms[m2][j] = MTerms[m][k]
      <4>1. MTerms[m][k] \in Elems(MTerms[m2])
        BY <3>1, <3>2, <1>1 DEF SameTerms, Elems
      <4>2. \E h \in 1..Len(r) : MTerms[m2][h] = MTerms[m][k]
        BY <4>1, <3>1 DEF Elems
      <4>3. QED BY <4>2, <2>1 DEF Term
    <3>4. QED BY <3>3, <2>1, <1>2, <1>3
  <2>3. PICK h : h = Term(m, m2, ts, j)
    OBVIOUS
  <2>4. h \in 1..n /\ MTerms[m][h] = MTerms[m2][j] /\ r[j] = ts[h]
    <3>1. h \in 1..n /\ MTerms[m][h] = MTerms[m2][j]
      BY <2>2, <2>3, TermOf
    <3>2. QED BY <3>1, <2>2, <2>3, <1>2
  <2>5. h = k BY <2>2, <2>4, Terminals
  <2>6. QED BY <2>2, <2>4, <2>5
<1>5. QED BY <1>2, <1>3, <1>4, SeqEqual

LEMMA ReorderSame ==
  ASSUME NEW S, NEW ts \in Seq(S), NEW m \in Master, Len(ts) = Len(MTerms[m]),
         NEW r, r = Reordered(ts, m, m)
  PROVE  SameTerms(m, m) /\ r = ts
<1> DEFINE n == Len(ts)
<1>1. SameTerms(m, m) BY DEF SameTerms
<1>2. r \in Seq(S) /\ Len(r) = n /\ \A k \in 1..n : r[k] = ts[Term(m, m, ts, k)]
  BY <1>1, ReorderKeeps
<1>3. ASSUME NEW k \in 1..n PROVE r[k] = ts[k]
  <2>1. /\ Term(m, m, ts, k) \in 1..n
        /\ MTerms[m][Term(m, m, ts, k)] = MTerms[m][k]
    BY <1>1, TermOf
  <2>2. Term(m, m, ts, k) = k BY <2>1, Terminals
  <2>3. QED BY <1>2, <2>2
<1>4. QED BY <1>1, <1>2, <1>3, SeqEqual

-----------------------------------------------------------------------------
(***************************************************************************)
(* Blocks.  A sound block is one that even a throw leaves: an instance may *)
(* have lost its last pins.  A consistent block is sound and has them all. *)
(***************************************************************************)
OwnPins(s) ==
  \A i \in LiveInst(s) :
    /\ Len(s.inst[i].iterms) <= Len(MTerms[s.inst[i].master])
    /\ Distinct(s.inst[i].iterms)
    /\ \A t \in PinsOf(s, i) : s.pin[t] # NoObj /\ s.pin[t].inst = i

Sound(s) ==
  /\ s \in Block
  /\ TableOK(s.inst_tbl, InstId, LiveInst(s))
  /\ TableOK(s.iterm_tbl, PinId, LivePin(s))
  /\ TableOK(s.net_tbl, NetId, LiveNet(s))
  /\ OwnPins(s)
  /\ NoOrphanPin(s)
  /\ NamesUnique(s)

AllPins(s) == \A i \in LiveInst(s) : HasAllPins(s, i)

LEMMA ConsistentIsSound ==
  ASSUME NEW s \in Block
  PROVE  Consistent(s) <=> Sound(s) /\ AllPins(s)
<1>1. ASSUME Consistent(s) PROVE OwnPins(s)
  <2> SUFFICES ASSUME NEW i \in LiveInst(s)
               PROVE  /\ Len(s.inst[i].iterms) <= Len(MTerms[s.inst[i].master])
                      /\ Distinct(s.inst[i].iterms)
                      /\ \A t \in PinsOf(s, i) : s.pin[t] # NoObj /\ s.pin[t].inst = i
    BY DEF OwnPins
  <2>1. s.inst[i].master \in Master BY DEF LiveInst, Block, Inst
  <2>2. QED BY <1>1, <2>1, Terminals DEF Consistent, PinsMatchMaster, HasAllPins, Distinct
<1>2. ASSUME Consistent(s) PROVE AllPins(s)
  BY <1>2 DEF Consistent, PinsMatchMaster, AllPins
<1>3. ASSUME Sound(s), AllPins(s) PROVE PinsMatchMaster(s)
  BY <1>3 DEF Sound, OwnPins, AllPins, PinsMatchMaster, Distinct
<1>4. QED BY <1>1, <1>2, <1>3 DEF Consistent, Sound

\* The types of a block's tables and of what is in them.
LEMMA Fields ==
  ASSUME NEW s \in Block
  PROVE  /\ s.inst \in [InstId -> Inst \cup {NoObj}]
         /\ s.pin \in [PinId -> Pin \cup {NoObj}]
         /\ s.net \in [NetId -> Net \cup {NoObj}]
         /\ s.inst_tbl \in Seq(InstId) /\ s.iterm_tbl \in Seq(PinId) /\ s.net_tbl \in Seq(NetId)
BY DEF Block

LEMMA LiveInstFields ==
  ASSUME NEW s \in Block, NEW i \in LiveInst(s)
  PROVE  /\ i \in InstId /\ s.inst[i] \in Inst /\ s.inst[i] # NoObj
         /\ s.inst[i].name \in InstName /\ s.inst[i].master \in Master
         /\ s.inst[i].flags \in InstFlags /\ s.inst[i].origin \in Int
         /\ s.inst[i].iterms \in Seq(PinId) /\ PinsOf(s, i) \subseteq PinId
<1>1. i \in InstId /\ s.inst[i] \in Inst /\ s.inst[i] # NoObj
  BY DEF LiveInst, Block
<1>2. /\ s.inst[i].name \in InstName /\ s.inst[i].master \in Master
      /\ s.inst[i].flags \in InstFlags /\ s.inst[i].origin \in Int
      /\ s.inst[i].iterms \in Seq(PinId)
  BY <1>1 DEF Inst
<1>3. PinsOf(s, i) \subseteq PinId
  BY <1>2, ElementOfSeq DEF PinsOf, Elems
<1>4. QED BY <1>1, <1>2, <1>3

LEMMA LivePinFields ==
  ASSUME NEW s \in Block, NEW t \in LivePin(s)
  PROVE  /\ t \in PinId /\ s.pin[t] \in Pin /\ s.pin[t] # NoObj
         /\ s.pin[t].inst \in InstId /\ s.pin[t].net \in NetId \cup {0}
BY DEF LivePin, Block, Pin

LEMMA LiveNetFields ==
  ASSUME NEW s \in Block, NEW n \in LiveNet(s)
  PROVE  /\ n \in NetId /\ n # 0 /\ s.net[n] \in Net /\ s.net[n] # NoObj
         /\ s.net[n].name \in NetName /\ s.net[n].flags \in NetFlags
BY NetlistAssumption DEF LiveNet, Block, Net

LEMMA SameBlock ==
  ASSUME NEW s \in Block, NEW d \in Block,
         d.inst = s.inst, d.pin = s.pin, d.net = s.net,
         d.inst_tbl = s.inst_tbl, d.iterm_tbl = s.iterm_tbl, d.net_tbl = s.net_tbl
  PROVE  d = s
BY DEF Block

\* The block d is s with a new instance i, whose id and pins ts were free.
InstAdded(s, d, nm, m, i, ts) ==
  /\ s \in Block /\ d \in Block
  /\ i \in InstId /\ s.inst[i] = NoObj /\ i \in LiveInst(d)
  /\ d.inst[i] = [name |-> nm, master |-> m, flags |-> NewInstFlags,
                  origin |-> 0, iterms |-> ts]
  /\ ts \in Seq(PinId) /\ Len(ts) = Len(MTerms[m]) /\ Distinct(ts)
  /\ \A t \in Elems(ts) :
       t \in PinId /\ s.pin[t] = NoObj /\ d.pin[t] = [inst |-> i, net |-> 0]
  /\ \A j \in InstId : j # i => d.inst[j] = s.inst[j]
  /\ \A t \in PinId : t \notin Elems(ts) => d.pin[t] = s.pin[t]
  /\ d.net = s.net /\ d.net_tbl = s.net_tbl
  /\ d.inst_tbl = Tail(s.inst_tbl)
  /\ d.iterm_tbl = SubSeq(s.iterm_tbl, Len(MTerms[m]) + 1, Len(s.iterm_tbl))
  /\ With(LiveInst(d), LiveInst(s), i)
  /\ WithAll(LivePin(d), LivePin(s), Elems(ts))
  /\ LiveNet(d) = LiveNet(s)

LEMMA NewInstShape ==
  ASSUME NEW s, Sound(s), NEW nm \in InstName, NEW m \in Master, RoomForInst(s, m),
         NEW d, d = NewInst(s, nm, m), NEW i, i = Head(s.inst_tbl),
         NEW ts, ts = SubSeq(s.iterm_tbl, 1, Len(MTerms[m]))
  PROVE  InstAdded(s, d, nm, m, i, ts)
<1> DEFINE n == Len(MTerms[m])
           r == [name |-> nm, master |-> m, flags |-> NewInstFlags, origin |-> 0, iterms |-> ts]
           pins == [t \in PinId |-> IF t \in Elems(ts) THEN [inst |-> i, net |-> 0] ELSE s.pin[t]]
           rest == SubSeq(s.iterm_tbl, n + 1, Len(s.iterm_tbl))
<1>1. s \in Block /\ s.inst_tbl # <<>> /\ n \in Nat /\ Len(s.iterm_tbl) >= n
  BY Terminals DEF Sound, RoomForInst
<1>2. /\ s.inst \in [InstId -> Inst \cup {NoObj}]
      /\ s.pin \in [PinId -> Pin \cup {NoObj}]
      /\ s.inst_tbl \in Seq(InstId) /\ s.iterm_tbl \in Seq(PinId)
  BY <1>1, Fields
<1>3. i \in InstId /\ i \notin LiveInst(s) /\ Tail(s.inst_tbl) \in Seq(InstId)
  BY <1>1, <1>2, TakeOne DEF Sound
<1>4. /\ ts \in Seq(PinId) /\ Len(ts) = n /\ Distinct(ts)
      /\ \A x \in Elems(ts) : x \in PinId /\ x \notin LivePin(s)
      /\ rest \in Seq(PinId)
  <2>1. TableOK(s.iterm_tbl, PinId, LivePin(s)) /\ n <= Len(s.iterm_tbl)
    BY <1>1, <1>2, LenProperties DEF Sound
  <2>2. SplitAt(s.iterm_tbl, n, ts, rest) /\ n \in Nat
    BY <1>1 DEF SplitAt
  <2> HIDE DEF n, rest
  <2>3. QED BY ONLY <1>2, <2>1, <2>2, TakeSome
<1>5. r \in Inst /\ r # NoObj /\ [inst |-> i, net |-> 0] \in Pin /\ [inst |-> i, net |-> 0] # NoObj
  <2>1. NewInstFlags \in InstFlags
    BY NetlistAssumption DEF NewInstFlags, InstFlags, Status
  <2>2. r \in Inst /\ [inst |-> i, net |-> 0] \in Pin
    BY <1>3, <1>4, <2>1 DEF Inst, Pin
  <2>3. QED BY <2>2, NetlistAssumption
<1>6. pins \in [PinId -> Pin \cup {NoObj}] /\ [s.inst EXCEPT ![i] = r] \in [InstId -> Inst \cup {NoObj}]
  BY <1>2, <1>5
<1>7. d = [s EXCEPT !.inst[i] = r, !.pin = pins, !.inst_tbl = Tail(@), !.iterm_tbl = rest]
  BY DEF NewInst
<1> HIDE DEF r, pins, rest
<1>8. /\ d.inst = [s.inst EXCEPT ![i] = r] /\ d.pin = pins /\ d.net = s.net
      /\ d.inst_tbl = Tail(s.inst_tbl) /\ d.iterm_tbl = rest /\ d.net_tbl = s.net_tbl
      /\ d \in Block
  BY <1>1, <1>3, <1>4, <1>6, <1>7 DEF Block
<1>9. d.inst[i] = r /\ \A j \in InstId : j # i => d.inst[j] = s.inst[j]
  BY <1>2, <1>3, <1>8
<1>10. /\ \A t \in Elems(ts) : d.pin[t] = [inst |-> i, net |-> 0]
       /\ \A t \in PinId : t \notin Elems(ts) => d.pin[t] = s.pin[t]
  BY <1>4, <1>8 DEF pins
<1>11. s.inst[i] = NoObj /\ \A t \in Elems(ts) : s.pin[t] = NoObj
  BY <1>3, <1>4 DEF LiveInst, LivePin
<1>12. i \in LiveInst(d) /\ With(LiveInst(d), LiveInst(s), i)
  BY <1>3, <1>5, <1>9, <1>11 DEF LiveInst, With
<1>13. WithAll(LivePin(d), LivePin(s), Elems(ts))
  BY <1>4, <1>5, <1>10, <1>11 DEF LivePin, WithAll
<1>14. LiveNet(d) = LiveNet(s)
  BY <1>8 DEF LiveNet
<1>15. d.inst[i] = [name |-> nm, master |-> m, flags |-> NewInstFlags, origin |-> 0, iterms |-> ts]
  BY <1>9 DEF r
<1>16. d.iterm_tbl = SubSeq(s.iterm_tbl, n + 1, Len(s.iterm_tbl))
  BY <1>8 DEF rest
<1>17. QED BY <1>3, <1>4, <1>8, <1>9, <1>10, <1>11, <1>12, <1>13, <1>14, <1>15, <1>16, <1>1 DEF InstAdded

\* dbInst::create keeps a block sound, and one that has all its pins so.
LEMMA NewInstSound ==
  ASSUME NEW s, Sound(s), NEW nm \in InstName, NEW m \in Master, RoomForInst(s, m),
         ~InstNameTaken(s, nm), NEW d, d = NewInst(s, nm, m)
  PROVE  Sound(d) /\ (AllPins(s) => AllPins(d))
<1>1. PICK i, ts : i = Head(s.inst_tbl) /\ ts = SubSeq(s.iterm_tbl, 1, Len(MTerms[m]))
  OBVIOUS
<1>2. InstAdded(s, d, nm, m, i, ts)
  BY <1>1, NewInstShape
<1> USE DEF InstAdded
<1>3. TableOK(d.inst_tbl, InstId, LiveInst(d))
  <2>1. s.inst_tbl \in Seq(InstId) /\ s.inst_tbl # <<>> /\ TableOK(s.inst_tbl, InstId, LiveInst(s))
    BY <1>2, Fields DEF Sound, RoomForInst
  <2>2. QED BY <1>1, <1>2, <2>1, TakeOne
<1>4. TableOK(d.iterm_tbl, PinId, LivePin(d))
  <2>1. /\ s.iterm_tbl \in Seq(PinId) /\ Len(MTerms[m]) \in Nat
        /\ Len(MTerms[m]) <= Len(s.iterm_tbl) /\ TableOK(s.iterm_tbl, PinId, LivePin(s))
    BY <1>2, Fields, Terminals, LenProperties DEF Sound, RoomForInst
  <2>2. SplitAt(s.iterm_tbl, Len(MTerms[m]), ts, d.iterm_tbl)
    BY <1>1, <1>2 DEF SplitAt
  <2>3. RestOK(d.iterm_tbl, PinId, LivePin(s), ts)
    BY ONLY <2>1, <2>2, TakeSome
  <2>4. QED BY <2>3, <1>2 DEF RestOK
<1>5. TableOK(d.net_tbl, NetId, LiveNet(d))
  BY <1>2 DEF Sound
<1>6. \A j \in LiveInst(d) : j = i \/ (j # i /\ j \in LiveInst(s) /\ d.inst[j] = s.inst[j])
  BY <1>2 DEF LiveInst
<1>7. \A t \in LivePin(d) :
        \/ t \in Elems(ts) /\ d.pin[t] = [inst |-> i, net |-> 0]
        \/ t \in LivePin(s) /\ t \notin Elems(ts) /\ d.pin[t] = s.pin[t]
  BY <1>2 DEF LivePin
<1>8. OwnPins(d)
  <2> SUFFICES ASSUME NEW j \in LiveInst(d)
               PROVE  /\ Len(d.inst[j].iterms) <= Len(MTerms[d.inst[j].master])
                      /\ Distinct(d.inst[j].iterms)
                      /\ \A t \in PinsOf(d, j) : d.pin[t] # NoObj /\ d.pin[t].inst = j
    BY DEF OwnPins
  <2>1. CASE j = i
    <3>1. d.inst[j].iterms = ts /\ d.inst[j].master = m BY <2>1, <1>2
    <3>2. \A t \in Elems(ts) : t \in LivePin(d) /\ d.pin[t].inst = i
      BY <1>2 DEF WithAll
    <3>3. Len(MTerms[m]) \in Nat BY Terminals
    <3>4. QED BY <3>1, <3>2, <3>3, <2>1, <1>2 DEF PinsOf, LivePin
  <2>2. CASE j # i
    <3>1. j \in LiveInst(s) /\ d.inst[j] = s.inst[j] BY <2>2, <1>6
    <3>2. \A t \in PinsOf(s, j) : t \in PinId /\ s.pin[t] # NoObj /\ s.pin[t].inst = j
      BY <3>1, <1>2, LiveInstFields DEF Sound, OwnPins
    <3>3. PinsOf(d, j) = PinsOf(s, j) BY <3>1 DEF PinsOf
    <3>4. \A t \in PinsOf(d, j) : d.pin[t] = s.pin[t] BY <3>2, <3>3, <1>2
    <3>5. QED BY <3>1, <3>2, <3>3, <3>4 DEF Sound, OwnPins
  <2>3. QED BY <2>1, <2>2
<1>9. NoOrphanPin(d)
  <2> SUFFICES ASSUME NEW t \in LivePin(d)
               PROVE  /\ d.pin[t].inst \in LiveInst(d) /\ t \in PinsOf(d, d.pin[t].inst)
                      /\ d.pin[t].net # 0 => d.pin[t].net \in LiveNet(d)
    BY DEF NoOrphanPin
  <2>1. CASE t \in Elems(ts)
    <3>1. d.pin[t].inst = i /\ d.pin[t].net = 0 /\ d.inst[i].iterms = ts BY <2>1, <1>2
    <3>2. QED BY <3>1, <2>1, <1>2 DEF PinsOf
  <2>2. CASE t \notin Elems(ts)
    <3>1. t \in LivePin(s) /\ d.pin[t] = s.pin[t] BY <2>2, <1>7
    <3>2. /\ s.pin[t].inst \in LiveInst(s) /\ t \in PinsOf(s, s.pin[t].inst)
          /\ s.pin[t].net # 0 => s.pin[t].net \in LiveNet(s)
      BY <3>1 DEF Sound, NoOrphanPin
    <3>3. s.pin[t].inst # i /\ d.inst[s.pin[t].inst] = s.inst[s.pin[t].inst]
          /\ s.pin[t].inst \in LiveInst(d)
      BY <3>2, <1>2 DEF LiveInst, With
    <3>4. QED BY <3>1, <3>2, <3>3, <1>2 DEF PinsOf
  <2>3. QED BY <2>1, <2>2
<1>10. NamesUnique(d)
  <2>1. d.inst[i].name = nm BY <1>2
  <2>2. \A j \in LiveInst(s) : s.inst[j].name # nm BY DEF InstNameTaken
  <2>3. \A j, k \in LiveInst(d) : d.inst[j].name = d.inst[k].name => j = k
    BY <2>1, <2>2, <1>6 DEF Sound, NamesUnique
  <2>4. \A j, k \in LiveNet(d) : d.net[j].name = d.net[k].name => j = k
    BY <1>2 DEF Sound, NamesUnique
  <2>5. QED BY <2>3, <2>4 DEF NamesUnique
<1>11. AllPins(s) => AllPins(d)
  BY <1>2, <1>6 DEF AllPins, HasAllPins
<1>12. QED BY <1>2, <1>3, <1>4, <1>5, <1>8, <1>9, <1>10, <1>11 DEF Sound

\* The block d is s without instance i and its pins, whose ids are free.
InstRemoved(s, d, i, ts) ==
  /\ s \in Block /\ d \in Block
  /\ i \in LiveInst(s) /\ ts = s.inst[i].iterms
  /\ ts \in Seq(PinId) /\ Distinct(ts)
  /\ d.inst[i] = NoObj
  /\ \A t \in Elems(ts) : t \in LivePin(s) /\ s.pin[t].inst = i /\ d.pin[t] = NoObj
  /\ \A j \in InstId : j # i => d.inst[j] = s.inst[j]
  /\ \A t \in PinId : t \notin Elems(ts) => d.pin[t] = s.pin[t]
  /\ d.net = s.net /\ d.net_tbl = s.net_tbl
  /\ d.inst_tbl = <<i>> \o s.inst_tbl
  /\ d.iterm_tbl = ts \o s.iterm_tbl
  /\ Without(LiveInst(d), LiveInst(s), i)
  /\ WithoutAll(LivePin(d), LivePin(s), Elems(ts))
  /\ LiveNet(d) = LiveNet(s)

LEMMA FreeInstShape ==
  ASSUME NEW s, Sound(s), NEW i \in LiveInst(s), NEW d, d = FreeInst(s, i),
         NEW ts, ts = s.inst[i].iterms
  PROVE  InstRemoved(s, d, i, ts)
<1> DEFINE pins == [t \in PinId |-> IF t \in Elems(ts) THEN NoObj ELSE s.pin[t]]
<1>1. s \in Block /\ i \in InstId /\ ts \in Seq(PinId) /\ Distinct(ts)
  BY LiveInstFields DEF Sound, OwnPins
<1>2. \A t \in Elems(ts) : t \in PinId /\ s.pin[t] # NoObj /\ s.pin[t].inst = i
  BY <1>1, LiveInstFields DEF Sound, OwnPins, PinsOf
<1>3. /\ s.inst \in [InstId -> Inst \cup {NoObj}]
      /\ s.pin \in [PinId -> Pin \cup {NoObj}]
      /\ s.inst_tbl \in Seq(InstId) /\ s.iterm_tbl \in Seq(PinId)
  BY <1>1, Fields
<1>4. pins \in [PinId -> Pin \cup {NoObj}] /\ [s.inst EXCEPT ![i] = NoObj] \in [InstId -> Inst \cup {NoObj}]
  BY <1>3
<1>5. <<i>> \o s.inst_tbl \in Seq(InstId) /\ ts \o s.iterm_tbl \in Seq(PinId)
  BY <1>1, <1>3, ConcatProperties
<1>6. d = [[s EXCEPT !.pin = pins, !.iterm_tbl = ts \o @]
             EXCEPT !.inst[i] = NoObj, !.inst_tbl = <<i>> \o @]
  BY DEF FreeInst, FreePins
<1> HIDE DEF pins
<1>7. /\ d.inst = [s.inst EXCEPT ![i] = NoObj] /\ d.pin = pins /\ d.net = s.net
      /\ d.inst_tbl = <<i>> \o s.inst_tbl /\ d.iterm_tbl = ts \o s.iterm_tbl
      /\ d.net_tbl = s.net_tbl /\ d \in Block
  BY <1>1, <1>4, <1>5, <1>6 DEF Block
<1>8. d.inst[i] = NoObj /\ \A j \in InstId : j # i => d.inst[j] = s.inst[j]
  BY <1>1, <1>3, <1>7
<1>9. /\ \A t \in Elems(ts) : d.pin[t] = NoObj
      /\ \A t \in PinId : t \notin Elems(ts) => d.pin[t] = s.pin[t]
  BY <1>2, <1>7 DEF pins
<1>10. Without(LiveInst(d), LiveInst(s), i)
  BY <1>1, <1>8 DEF LiveInst, Without
<1>11. WithoutAll(LivePin(d), LivePin(s), Elems(ts))
  BY <1>2, <1>9 DEF LivePin, WithoutAll
<1>12. LiveNet(d) = LiveNet(s)
  BY <1>7 DEF LiveNet
<1>13. \A t \in Elems(ts) : t \in LivePin(s)
  BY <1>2 DEF LivePin
<1>14. QED BY <1>1, <1>2, <1>7, <1>8, <1>9, <1>10, <1>11, <1>12, <1>13 DEF InstRemoved

\* The end of dbInst::destroy.
LEMMA FreeInstSound ==
  ASSUME NEW s, Sound(s), NEW i \in LiveInst(s), NEW d, d = FreeInst(s, i)
  PROVE  Sound(d) /\ (AllPins(s) => AllPins(d))
<1>1. PICK ts : ts = s.inst[i].iterms
  OBVIOUS
<1>2. InstRemoved(s, d, i, ts)
  BY <1>1, FreeInstShape
<1> USE DEF InstRemoved
<1>3. TableOK(d.inst_tbl, InstId, LiveInst(d))
  <2>1. s.inst_tbl \in Seq(InstId) /\ i \in InstId /\ TableOK(s.inst_tbl, InstId, LiveInst(s))
    BY <1>2, Fields DEF Sound, LiveInst
  <2>2. QED BY <1>2, <2>1, GiveOne
<1>4. TableOK(d.iterm_tbl, PinId, LivePin(d))
  <2>1. s.iterm_tbl \in Seq(PinId) /\ TableOK(s.iterm_tbl, PinId, LivePin(s))
        /\ Elems(ts) \subseteq LivePin(s)
    BY <1>2, Fields DEF Sound
  <2>2. GivenOK(d.iterm_tbl, PinId, LivePin(s), ts)
    BY <1>2, <2>1, GiveSome
  <2>3. QED BY <2>2, <1>2 DEF GivenOK
<1>5. TableOK(d.net_tbl, NetId, LiveNet(d))
  BY <1>2 DEF Sound
<1>6. \A j \in LiveInst(d) : j # i /\ j \in LiveInst(s) /\ d.inst[j] = s.inst[j]
  BY <1>2 DEF LiveInst
<1>7. \A t \in LivePin(d) : t \in LivePin(s) /\ t \notin Elems(ts) /\ d.pin[t] = s.pin[t]
  BY <1>2 DEF LivePin
<1>8. OwnPins(d)
  <2> SUFFICES ASSUME NEW j \in LiveInst(d)
               PROVE  /\ Len(d.inst[j].iterms) <= Len(MTerms[d.inst[j].master])
                      /\ Distinct(d.inst[j].iterms)
                      /\ \A t \in PinsOf(d, j) : d.pin[t] # NoObj /\ d.pin[t].inst = j
    BY DEF OwnPins
  <2>1. j # i /\ j \in LiveInst(s) /\ d.inst[j] = s.inst[j] BY <1>6
  <2>2. \A t \in PinsOf(s, j) : t \in PinId /\ s.pin[t] # NoObj /\ s.pin[t].inst = j
    BY <2>1, <1>2, LiveInstFields DEF Sound, OwnPins
  <2>3. PinsOf(d, j) = PinsOf(s, j) BY <2>1 DEF PinsOf
  <2>4. \A t \in PinsOf(d, j) : d.pin[t] = s.pin[t] BY <2>1, <2>2, <2>3, <1>2
  <2>5. QED BY <2>1, <2>2, <2>3, <2>4 DEF Sound, OwnPins
<1>9. NoOrphanPin(d)
  <2> SUFFICES ASSUME NEW t \in LivePin(d)
               PROVE  /\ d.pin[t].inst \in LiveInst(d) /\ t \in PinsOf(d, d.pin[t].inst)
                      /\ d.pin[t].net # 0 => d.pin[t].net \in LiveNet(d)
    BY DEF NoOrphanPin
  <2>1. t \in LivePin(s) /\ t \notin Elems(ts) /\ d.pin[t] = s.pin[t] BY <1>7
  <2>2. /\ s.pin[t].inst \in LiveInst(s) /\ t \in PinsOf(s, s.pin[t].inst)
        /\ s.pin[t].net # 0 => s.pin[t].net \in LiveNet(s)
    BY <2>1 DEF Sound, NoOrphanPin
  <2>3. s.pin[t].inst # i BY <2>1, <2>2, <1>2 DEF PinsOf
  <2>4. d.inst[s.pin[t].inst] = s.inst[s.pin[t].inst] /\ s.pin[t].inst \in LiveInst(d)
    BY <2>2, <2>3, <1>2 DEF LiveInst, Without
  <2>5. QED BY <2>1, <2>2, <2>4, <1>2 DEF PinsOf
<1>10. NamesUnique(d)
  BY <1>2, <1>6 DEF Sound, NamesUnique
<1>11. AllPins(s) => AllPins(d)
  BY <1>2, <1>6 DEF AllPins, HasAllPins
<1>12. QED BY <1>2, <1>3, <1>4, <1>5, <1>8, <1>9, <1>10, <1>11 DEF Sound

\* Destroying an instance undoes its creation ...
LEMMA CreatedInstBack ==
  ASSUME NEW s, Sound(s), NEW nm \in InstName, NEW m \in Master, RoomForInst(s, m),
         ~InstNameTaken(s, nm), NEW d, d = NewInst(s, nm, m),
         NEW i, i = Head(s.inst_tbl), NEW e, e = FreeInst(d, i)
  PROVE  i \in LiveInst(d) /\ e = s
<1>1. PICK ts : ts = SubSeq(s.iterm_tbl, 1, Len(MTerms[m]))
  OBVIOUS
<1>2. InstAdded(s, d, nm, m, i, ts)
  BY <1>1, NewInstShape
<1>3. Sound(d) BY NewInstSound
<1>4. i \in LiveInst(d) /\ d.inst[i].iterms = ts BY <1>2 DEF InstAdded
<1>5. InstRemoved(d, e, i, ts) BY <1>3, <1>4, FreeInstShape
<1>6. s \in Block /\ e \in Block BY <1>2, <1>5 DEF InstAdded, InstRemoved
<1>7. e.inst = s.inst
  <2>1. \A j \in InstId : e.inst[j] = s.inst[j] BY <1>2, <1>5 DEF InstAdded, InstRemoved
  <2>2. QED BY <2>1, <1>6, Fields
<1>8. e.pin = s.pin
  <2>1. \A t \in PinId : e.pin[t] = s.pin[t] BY <1>2, <1>5 DEF InstAdded, InstRemoved
  <2>2. QED BY <2>1, <1>6, Fields
<1>9. e.inst_tbl = s.inst_tbl
  <2>1. s.inst_tbl \in Seq(InstId) /\ s.inst_tbl # <<>> BY <1>6, Fields DEF RoomForInst
  <2>2. e.inst_tbl = <<i>> \o Tail(s.inst_tbl) BY <1>2, <1>5 DEF InstAdded, InstRemoved
  <2>3. QED BY <2>1, <2>2, HeadAndTail
<1>10. e.iterm_tbl = s.iterm_tbl
  <2>1. /\ s.iterm_tbl \in Seq(PinId) /\ Len(MTerms[m]) \in Nat
        /\ Len(MTerms[m]) <= Len(s.iterm_tbl) /\ TableOK(s.iterm_tbl, PinId, LivePin(s))
    BY <1>6, Fields, Terminals, LenProperties DEF Sound, RoomForInst
  <2>2. SplitAt(s.iterm_tbl, Len(MTerms[m]), ts, d.iterm_tbl)
    BY <1>1, <1>2 DEF SplitAt, InstAdded
  <2>3. PICK tbl, rest, n : tbl = s.iterm_tbl /\ rest = d.iterm_tbl /\ n = Len(MTerms[m])
    OBVIOUS
  <2>4. tbl \in Seq(PinId) /\ n \in Nat /\ n <= Len(tbl) /\ TableOK(tbl, PinId, LivePin(s))
        /\ SplitAt(tbl, n, ts, rest)
    BY <2>1, <2>2, <2>3
  <2>5. ts \o rest = tbl BY ONLY <2>4, TakeSome
  <2>6. QED BY <2>3, <2>5, <1>5 DEF InstRemoved
<1>11. e.net = s.net /\ e.net_tbl = s.net_tbl BY <1>2, <1>5 DEF InstAdded, InstRemoved
<1>12. QED BY <1>4, <1>6, <1>7, <1>8, <1>9, <1>10, <1>11, SameBlock

\* The block d is s with a new record for the live instance i: the same name
\* and the same pins, in an order that need not be the same.
InstChanged(s, d, i) ==
  /\ s \in Block /\ d \in Block
  /\ i \in LiveInst(s)
  /\ d.inst[i] \in Inst /\ d.inst[i].name = s.inst[i].name
  /\ Len(d.inst[i].iterms) = Len(s.inst[i].iterms)
  /\ Elems(d.inst[i].iterms) = Elems(s.inst[i].iterms)
  /\ Distinct(s.inst[i].iterms) => Distinct(d.inst[i].iterms)
  /\ Len(MTerms[d.inst[i].master]) = Len(MTerms[s.inst[i].master])
  /\ \A j \in InstId : j # i => d.inst[j] = s.inst[j]
  /\ d.pin = s.pin /\ d.net = s.net
  /\ d.inst_tbl = s.inst_tbl /\ d.iterm_tbl = s.iterm_tbl /\ d.net_tbl = s.net_tbl
  /\ LiveInst(d) = LiveInst(s) /\ LivePin(d) = LivePin(s) /\ LiveNet(d) = LiveNet(s)

LEMMA InstChangedSound ==
  ASSUME NEW s, Sound(s), NEW d, NEW i, InstChanged(s, d, i)
  PROVE  Sound(d) /\ (AllPins(s) => AllPins(d))
<1> USE DEF InstChanged
<1>1. /\ TableOK(d.inst_tbl, InstId, LiveInst(d)) /\ TableOK(d.iterm_tbl, PinId, LivePin(d))
      /\ TableOK(d.net_tbl, NetId, LiveNet(d))
  BY DEF Sound
<1>2. \A j \in LiveInst(d) :
        /\ j \in LiveInst(s) /\ d.inst[j].name = s.inst[j].name
        /\ PinsOf(d, j) = PinsOf(s, j)
        /\ Len(d.inst[j].iterms) = Len(s.inst[j].iterms)
        /\ Len(MTerms[d.inst[j].master]) = Len(MTerms[s.inst[j].master])
        /\ Distinct(s.inst[j].iterms) => Distinct(d.inst[j].iterms)
  BY DEF LiveInst, PinsOf
<1>3. OwnPins(d)
  BY <1>2 DEF Sound, OwnPins
<1>4. NoOrphanPin(d)
  BY <1>2 DEF Sound, NoOrphanPin
<1>5. NamesUnique(d)
  BY <1>2 DEF Sound, NamesUnique
<1>6. AllPins(s) => AllPins(d)
  BY <1>2 DEF AllPins, HasAllPins
<1>7. QED BY <1>1, <1>3, <1>4, <1>5, <1>6 DEF Sound

\* One record of the table of instances is replaced.
PutsInst(s, d, i, r) == d = [s EXCEPT !.inst = [s.inst EXCEPT ![i] = r]]

InstPut(s, d, i, r) ==
  /\ d \in Block /\ d.inst[i] = r
  /\ \A j \in InstId : j # i => d.inst[j] = s.inst[j]
  /\ d.pin = s.pin /\ d.net = s.net
  /\ d.inst_tbl = s.inst_tbl /\ d.iterm_tbl = s.iterm_tbl /\ d.net_tbl = s.net_tbl
  /\ LiveInst(d) = LiveInst(s) /\ LivePin(d) = LivePin(s) /\ LiveNet(d) = LiveNet(s)

LEMMA PutInst ==
  ASSUME NEW s \in Block, NEW i \in LiveInst(s), NEW r \in Inst,
         NEW d, PutsInst(s, d, i, r)
  PROVE  InstPut(s, d, i, r)
<1>1. i \in InstId /\ s.inst \in [InstId -> Inst \cup {NoObj}]
  BY LiveInstFields, Fields
<1>2. [s.inst EXCEPT ![i] = r] \in [InstId -> Inst \cup {NoObj}]
  BY <1>1
<1>3. /\ d \in Block /\ d.inst = [s.inst EXCEPT ![i] = r]
      /\ d.pin = s.pin /\ d.net = s.net
      /\ d.inst_tbl = s.inst_tbl /\ d.iterm_tbl = s.iterm_tbl /\ d.net_tbl = s.net_tbl
  BY <1>2 DEF Block, PutsInst
<1>4. d.inst[i] = r /\ \A j \in InstId : j # i => d.inst[j] = s.inst[j]
  BY <1>1, <1>3
<1>5. r # NoObj /\ s.inst[i] # NoObj BY NetlistAssumption DEF LiveInst
<1>6. LiveInst(d) = LiveInst(s) BY <1>1, <1>4, <1>5 DEF LiveInst
<1>7. LivePin(d) = LivePin(s) /\ LiveNet(d) = LiveNet(s) BY <1>3 DEF LivePin, LiveNet
<1>8. QED BY <1>3, <1>4, <1>6, <1>7 DEF InstPut

\* The setters of the flags word and of the origin.
LEMMA SetInstFlagsShape ==
  ASSUME NEW s \in Block, NEW i \in LiveInst(s), NEW f \in InstFlags,
         NEW d, d = SetInstFlags(s, i, f)
  PROVE  InstChanged(s, d, i) /\ d.inst[i] = [s.inst[i] EXCEPT !.flags = f]
<1>1. PICK r : r = [s.inst[i] EXCEPT !.flags = f]
  OBVIOUS
<1>2. /\ s.inst[i] \in Inst /\ r \in Inst /\ r.name = s.inst[i].name /\ r.iterms = s.inst[i].iterms
      /\ r.master = s.inst[i].master
  BY <1>1, LiveInstFields DEF Inst
<1>3. PutsInst(s, d, i, r)
  BY <1>1, LiveInstFields, Fields DEF SetInstFlags, PutsInst
<1>4. InstPut(s, d, i, r) BY <1>2, <1>3, PutInst
<1>5. QED BY <1>1, <1>2, <1>4 DEF InstChanged, InstPut

LEMMA PutOriginShape ==
  ASSUME NEW s \in Block, NEW i \in LiveInst(s), NEW x \in Int,
         NEW d, d = PutOrigin(s, i, x)
  PROVE  InstChanged(s, d, i) /\ d.inst[i] = [s.inst[i] EXCEPT !.origin = x]
<1>1. PICK r : r = [s.inst[i] EXCEPT !.origin = x]
  OBVIOUS
<1>2. /\ s.inst[i] \in Inst /\ r \in Inst /\ r.name = s.inst[i].name /\ r.iterms = s.inst[i].iterms
      /\ r.master = s.inst[i].master
  BY <1>1, LiveInstFields DEF Inst
<1>3. PutsInst(s, d, i, r)
  BY <1>1, LiveInstFields, Fields DEF PutOrigin, PutsInst
<1>4. InstPut(s, d, i, r) BY <1>2, <1>3, PutInst
<1>5. QED BY <1>1, <1>2, <1>4 DEF InstChanged, InstPut

\* dbInst::swapMaster: the pins take the order of the new master's terminals,
\* or nothing happens.
MasterSwapped(s, d, i, m, m2) ==
  /\ InstChanged(s, d, i)
  /\ ~SameTerms(m, m2) => d = s
  /\ SameTerms(m, m2) =>
       d.inst[i] = [s.inst[i] EXCEPT !.iterms = Reordered(s.inst[i].iterms, m, m2),
                                     !.master = m2]

LEMMA SwapMasterShape ==
  ASSUME NEW s \in Block, NEW i \in LiveInst(s), NEW m2 \in Master, HasAllPins(s, i),
         NEW d, d = SwapMaster(s, i, m2), NEW m, m = s.inst[i].master
  PROVE  MasterSwapped(s, d, i, m, m2)
<1>1. /\ s.inst[i] \in Inst /\ s.inst[i].iterms \in Seq(PinId) /\ m \in Master
      /\ Len(s.inst[i].iterms) = Len(MTerms[m])
  BY LiveInstFields DEF HasAllPins
<1>2. CASE ~SameTerms(m, m2)
  <2>1. d = s BY <1>2 DEF SwapMaster
  <2>2. QED BY <2>1, <1>1, <1>2 DEF InstChanged, MasterSwapped
<1>3. CASE SameTerms(m, m2)
  <2>1. PICK ts, r : /\ ts = Reordered(s.inst[i].iterms, m, m2)
                     /\ r = [s.inst[i] EXCEPT !.iterms = ts, !.master = m2]
    OBVIOUS
  <2>2. /\ ts \in Seq(PinId) /\ Len(ts) = Len(s.inst[i].iterms) /\ Elems(ts) = Elems(s.inst[i].iterms)
        /\ Distinct(s.inst[i].iterms) => Distinct(ts)
    BY <1>1, <1>3, <2>1, ReorderKeeps
  <2>3. r \in Inst /\ r.name = s.inst[i].name /\ r.iterms = ts /\ r.master = m2
    BY <1>1, <2>1, <2>2 DEF Inst
  <2>4. PutsInst(s, d, i, r)
    BY <1>3, <2>1, <1>1, LiveInstFields, Fields DEF SwapMaster, Inst, PutsInst
  <2>5. Len(MTerms[m2]) = Len(MTerms[m]) BY <1>3 DEF SameTerms
  <2>6. InstPut(s, d, i, r)
    BY <2>3, <2>4, PutInst
  <2>7. InstChanged(s, d, i)
    BY <2>2, <2>3, <2>5, <2>6 DEF InstChanged, InstPut
  <2>8. d.inst[i] = [s.inst[i] EXCEPT !.iterms = Reordered(s.inst[i].iterms, m, m2), !.master = m2]
    BY <2>1, <2>6 DEF InstPut
  <2>9. QED BY <1>3, <2>7, <2>8 DEF MasterSwapped
<1>4. QED BY <1>2, <1>3

\* Two changes of an instance that end with the record it had leave the block
\* as it was.
LEMMA ChangedBack ==
  ASSUME NEW s, NEW d, NEW e, NEW i, InstChanged(s, d, i), InstChanged(d, e, i),
         e.inst[i] = s.inst[i]
  PROVE  e = s
<1> USE DEF InstChanged
<1>1. \A j \in InstId : e.inst[j] = s.inst[j] OBVIOUS
<1>2. e.inst = s.inst BY <1>1, Fields
<1>3. QED BY <1>2, SameBlock

\* An instance none of whose pins is connected.
Unconnected(s, i) == \A t \in PinsOf(s, i) : s.pin[t].net = 0

\* The block d is s with pin t on net n, or on none.
PinMoved(s, d, t, n) ==
  /\ s \in Block /\ d \in Block
  /\ t \in LivePin(s)
  /\ d.pin[t] = [inst |-> s.pin[t].inst, net |-> n]
  /\ \A u \in PinId : u # t => d.pin[u] = s.pin[u]
  /\ d.inst = s.inst /\ d.net = s.net
  /\ d.inst_tbl = s.inst_tbl /\ d.iterm_tbl = s.iterm_tbl /\ d.net_tbl = s.net_tbl
  /\ LiveInst(d) = LiveInst(s) /\ LivePin(d) = LivePin(s) /\ LiveNet(d) = LiveNet(s)

NetOrNone(s, n) == n = 0 \/ n \in LiveNet(s)

LEMMA SetPinNetShape ==
  ASSUME NEW s \in Block, NEW t \in LivePin(s), NEW n, NetOrNone(s, n),
         NEW d, d = SetPinNet(s, t, n)
  PROVE  PinMoved(s, d, t, n)
<1>1. PICK p : p = [inst |-> s.pin[t].inst, net |-> n]
  OBVIOUS
<1>2. /\ t \in PinId /\ s.pin[t] \in Pin /\ s.pin[t] # NoObj /\ s.pin[t].inst \in InstId
      /\ n \in NetId \cup {0} /\ s.pin \in [PinId -> Pin \cup {NoObj}]
  BY LivePinFields, LiveNetFields, Fields DEF NetOrNone
<1>3. p \in Pin /\ p # NoObj
  BY <1>1, <1>2, NetlistAssumption DEF Pin
<1>4. [s.pin[t] EXCEPT !.net = n] = p
  BY <1>1, <1>2 DEF Pin
<1>5. d = [s EXCEPT !.pin = [s.pin EXCEPT ![t] = p]]
  BY <1>2, <1>4 DEF SetPinNet
<1>6. [s.pin EXCEPT ![t] = p] \in [PinId -> Pin \cup {NoObj}]
  BY <1>2, <1>3
<1>7. /\ d \in Block /\ d.pin = [s.pin EXCEPT ![t] = p]
      /\ d.inst = s.inst /\ d.net = s.net
      /\ d.inst_tbl = s.inst_tbl /\ d.iterm_tbl = s.iterm_tbl /\ d.net_tbl = s.net_tbl
  BY <1>5, <1>6 DEF Block
<1>8. d.pin[t] = p /\ \A u \in PinId : u # t => d.pin[u] = s.pin[u]
  BY <1>2, <1>7
<1>9. LivePin(d) = LivePin(s) BY <1>2, <1>3, <1>8 DEF LivePin
<1>10. LiveInst(d) = LiveInst(s) /\ LiveNet(d) = LiveNet(s) BY <1>7 DEF LiveInst, LiveNet
<1>11. QED BY <1>1, <1>7, <1>8, <1>9, <1>10 DEF PinMoved

LEMMA SetPinNetSound ==
  ASSUME NEW s, Sound(s), NEW t \in LivePin(s), NEW n, NetOrNone(s, n),
         NEW d, d = SetPinNet(s, t, n)
  PROVE  Sound(d) /\ (AllPins(s) => AllPins(d))
<1>1. PinMoved(s, d, t, n)
  BY SetPinNetShape DEF Sound
<1> USE DEF PinMoved
<1>2. /\ TableOK(d.inst_tbl, InstId, LiveInst(d)) /\ TableOK(d.iterm_tbl, PinId, LivePin(d))
      /\ TableOK(d.net_tbl, NetId, LiveNet(d)) /\ NamesUnique(d)
  BY <1>1 DEF Sound, NamesUnique
<1>3. \A u \in LivePin(d) :
        /\ u \in LivePin(s) /\ d.pin[u].inst = s.pin[u].inst
        /\ d.pin[u].net = n \/ d.pin[u].net = s.pin[u].net
  BY <1>1 DEF LivePin
<1>4. \A j \in LiveInst(d) : j \in LiveInst(s) /\ PinsOf(d, j) = PinsOf(s, j) /\ d.inst[j] = s.inst[j]
  BY <1>1 DEF PinsOf
<1>5. OwnPins(d)
  <2> SUFFICES ASSUME NEW j \in LiveInst(d)
               PROVE  /\ Len(d.inst[j].iterms) <= Len(MTerms[d.inst[j].master])
                      /\ Distinct(d.inst[j].iterms)
                      /\ \A u \in PinsOf(d, j) : d.pin[u] # NoObj /\ d.pin[u].inst = j
    BY DEF OwnPins
  <2>1. \A u \in PinsOf(s, j) : u \in LivePin(s) /\ s.pin[u].inst = j
    BY <1>1, <1>4, LiveInstFields DEF Sound, OwnPins, LivePin
  <2>2. \A u \in PinsOf(d, j) : u \in LivePin(d) /\ d.pin[u].inst = j
    BY <2>1, <1>1, <1>3, <1>4
  <2>3. QED BY <2>2, <1>4 DEF Sound, OwnPins, LivePin
<1>6. NoOrphanPin(d)
  <2> SUFFICES ASSUME NEW u \in LivePin(d)
               PROVE  /\ d.pin[u].inst \in LiveInst(d) /\ u \in PinsOf(d, d.pin[u].inst)
                      /\ d.pin[u].net # 0 => d.pin[u].net \in LiveNet(d)
    BY DEF NoOrphanPin
  <2>1. /\ s.pin[u].inst \in LiveInst(s) /\ u \in PinsOf(s, s.pin[u].inst)
        /\ s.pin[u].net # 0 => s.pin[u].net \in LiveNet(s)
    BY <1>3 DEF Sound, NoOrphanPin
  <2>2. QED BY <2>1, <1>1, <1>3, <1>4 DEF NetOrNone
<1>7. AllPins(s) => AllPins(d)
  BY <1>1 DEF AllPins, HasAllPins
<1>8. QED BY <1>1, <1>2, <1>5, <1>6, <1>7 DEF Sound

\* A pin put back on the net it was on.
LEMMA MovedPinBack ==
  ASSUME NEW s, Sound(s), NEW t \in LivePin(s), NEW n, NetOrNone(s, n),
         NEW d, d = SetPinNet(s, t, n), NEW o, o = s.pin[t].net, NEW e, e = SetPinNet(d, t, o)
  PROVE  t \in LivePin(d) /\ NetOrNone(d, o) /\ e = s
<1>1. PinMoved(s, d, t, n)
  BY SetPinNetShape DEF Sound
<1>2. s.pin[t] \in Pin /\ NetOrNone(s, o)
  BY LivePinFields DEF Sound, NoOrphanPin, NetOrNone
<1>3. d \in Block /\ t \in LivePin(d) /\ NetOrNone(d, o)
  BY <1>1, <1>2 DEF PinMoved, NetOrNone
<1>4. PinMoved(d, e, t, o)
  BY <1>3, SetPinNetShape
<1>5. e.pin[t] = s.pin[t]
  <2>1. e.pin[t] = [inst |-> s.pin[t].inst, net |-> s.pin[t].net]
    BY <1>1, <1>4 DEF PinMoved
  <2>2. QED BY <2>1, <1>2 DEF Pin
<1>6. s \in Block /\ e \in Block BY <1>1, <1>4 DEF PinMoved
<1>7. e.pin = s.pin
  <2>1. \A u \in PinId : e.pin[u] = s.pin[u] BY <1>1, <1>4, <1>5 DEF PinMoved
  <2>2. e.pin \in [PinId -> Pin \cup {NoObj}] /\ s.pin \in [PinId -> Pin \cup {NoObj}]
    BY <1>6, Fields
  <2>3. QED BY <2>1, <2>2
<1>8. e = s BY <1>1, <1>4, <1>6, <1>7, SameBlock DEF PinMoved
<1>9. QED BY <1>3, <1>8

-----------------------------------------------------------------------------
(***************************************************************************)
(* Nets.                                                                   *)
(***************************************************************************)

\* The block d is s with another record, or none, for net n.
NetPut(s, d, n, r) ==
  /\ s \in Block /\ d \in Block
  /\ n \in NetId /\ d.net[n] = r
  /\ \A o \in NetId : o # n => d.net[o] = s.net[o]
  /\ d.inst = s.inst /\ d.pin = s.pin
  /\ d.inst_tbl = s.inst_tbl /\ d.iterm_tbl = s.iterm_tbl
  /\ LiveInst(d) = LiveInst(s) /\ LivePin(d) = LivePin(s)

PutsNet(s, d, n, r, tbl) ==
  d = [s EXCEPT !.net = [s.net EXCEPT ![n] = r], !.net_tbl = tbl]

NetOrGone(r) == r \in Net \/ r = NoObj

LEMMA PutNet ==
  ASSUME NEW s \in Block, NEW n \in NetId, NEW r, NetOrGone(r),
         NEW tbl \in Seq(NetId), NEW d, PutsNet(s, d, n, r, tbl)
  PROVE  NetPut(s, d, n, r) /\ d.net_tbl = tbl
<1>1. s.net \in [NetId -> Net \cup {NoObj}]
  BY Fields
<1>2. [s.net EXCEPT ![n] = r] \in [NetId -> Net \cup {NoObj}]
  BY <1>1 DEF NetOrGone
<1>3. /\ d \in Block /\ d.net = [s.net EXCEPT ![n] = r]
      /\ d.inst = s.inst /\ d.pin = s.pin
      /\ d.inst_tbl = s.inst_tbl /\ d.iterm_tbl = s.iterm_tbl /\ d.net_tbl = tbl
  BY <1>2 DEF Block, PutsNet
<1>4. d.net[n] = r /\ \A o \in NetId : o # n => d.net[o] = s.net[o]
  BY <1>1, <1>3
<1>5. LivePin(d) = LivePin(s) /\ LiveInst(d) = LiveInst(s) BY <1>3 DEF LivePin, LiveInst
<1>6. QED BY <1>3, <1>4, <1>5 DEF NetPut

\* A change of the nets that takes none from under a pin.
LEMMA NetPutSound ==
  ASSUME NEW s, Sound(s), NEW d, NEW n, NEW r, NetPut(s, d, n, r),
         TableOK(d.net_tbl, NetId, LiveNet(d)),
         r = NoObj => PinsOn(s, n) = {},
         r # NoObj => \A o \in LiveNet(s) : o # n => s.net[o].name # r.name
  PROVE  Sound(d) /\ (AllPins(s) => AllPins(d))
<1> USE DEF NetPut
<1>1. /\ TableOK(d.inst_tbl, InstId, LiveInst(d)) /\ TableOK(d.iterm_tbl, PinId, LivePin(d))
      /\ OwnPins(d)
  BY DEF Sound, OwnPins, PinsOf
<1>2. NoOrphanPin(d)
  <2> SUFFICES ASSUME NEW u \in LivePin(d)
               PROVE  /\ d.pin[u].inst \in LiveInst(d) /\ u \in PinsOf(d, d.pin[u].inst)
                      /\ d.pin[u].net # 0 => d.pin[u].net \in LiveNet(d)
    BY DEF NoOrphanPin
  <2>1. /\ s.pin[u].inst \in LiveInst(s) /\ u \in PinsOf(s, s.pin[u].inst)
        /\ s.pin[u].net # 0 => s.pin[u].net \in LiveNet(s)
    BY DEF Sound, NoOrphanPin
  <2>2. s.pin[u].net = n => r # NoObj
    <3>1. CASE r = NoObj
      <4>1. u \in LivePin(s) /\ PinsOn(s, n) = {} BY <3>1
      <4>2. QED BY <4>1 DEF PinsOn
    <3>2. QED BY <3>1
  <2>3. s.pin[u].net # 0 => s.pin[u].net \in LiveNet(d)
    <3>1. \A o \in LiveNet(s) : o = n /\ r # NoObj => o \in LiveNet(d) BY DEF LiveNet
    <3>2. \A o \in LiveNet(s) : o # n => o \in LiveNet(d) BY DEF LiveNet
    <3>3. QED BY <2>1, <2>2, <3>1, <3>2
  <2>4. QED BY <2>1, <2>3 DEF PinsOf
<1>3. NamesUnique(d)
  <2>1. \A i, j \in LiveInst(d) : d.inst[i].name = d.inst[j].name => i = j
    BY DEF Sound, NamesUnique
  <2>2. n \in LiveNet(d) => d.net[n] = r /\ r # NoObj
    BY DEF LiveNet
  <2>3. \A o \in LiveNet(d) : o # n => o \in LiveNet(s) /\ d.net[o] = s.net[o]
    BY DEF LiveNet
  <2>4. \A o, p \in LiveNet(s) : s.net[o].name = s.net[p].name => o = p
    BY DEF Sound, NamesUnique
  <2>5. \A o, p \in LiveNet(d) : d.net[o].name = d.net[p].name => o = p
    BY <2>2, <2>3, <2>4
  <2>6. QED BY <2>1, <2>5 DEF NamesUnique
<1>4. AllPins(s) => AllPins(d)
  BY DEF AllPins, HasAllPins
<1>5. QED BY <1>1, <1>2, <1>3, <1>4 DEF Sound

\* dbNet::create.
LEMMA NewNetShape ==
  ASSUME NEW s, Sound(s), NEW nm \in NetName, RoomForNet(s),
         NEW d, d = NewNet(s, nm), NEW n, n = Head(s.net_tbl),
         NEW r, r = [name |-> nm, flags |-> NewNetFlags]
  PROVE  /\ NetPut(s, d, n, r) /\ d.net_tbl = Tail(s.net_tbl)
         /\ n \in NetId /\ s.net[n] = NoObj /\ n \in LiveNet(d)
         /\ r \in Net /\ r # NoObj /\ With(LiveNet(d), LiveNet(s), n)
<1>1. s \in Block /\ s.net_tbl \in Seq(NetId) /\ s.net_tbl # <<>> /\ TableOK(s.net_tbl, NetId, LiveNet(s))
  BY Fields DEF Sound, RoomForNet
<1>2. n \in NetId /\ n \notin LiveNet(s) /\ Tail(s.net_tbl) \in Seq(NetId)
  BY <1>1, TakeOne
<1>3. r \in Net /\ r # NoObj
  <2>1. NewNetFlags \in NetFlags BY NetlistAssumption DEF NewNetFlags, NetFlags
  <2>2. r \in Net BY <2>1 DEF Net
  <2>3. QED BY <2>2, NetlistAssumption
<1>4. PICK tbl : tbl = Tail(s.net_tbl)
  OBVIOUS
<1>5. NetPut(s, d, n, r) /\ d.net_tbl = Tail(s.net_tbl)
  <2>1. PutsNet(s, d, n, r, tbl)
    BY <1>1, <1>4, Fields DEF NewNet, PutsNet
  <2>2. NetOrGone(r) /\ tbl \in Seq(NetId)
    BY <1>2, <1>3, <1>4 DEF NetOrGone
  <2>3. s \in Block /\ n \in NetId BY <1>1, <1>2
  <2>4. NetPut(s, d, n, r) /\ d.net_tbl = tbl
    BY ONLY <2>1, <2>2, <2>3, PutNet
  <2>5. QED BY <2>4, <1>4
<1>6. s.net[n] = NoObj BY <1>2 DEF LiveNet
<1>7. n \in LiveNet(d) /\ With(LiveNet(d), LiveNet(s), n)
  BY <1>2, <1>3, <1>5, <1>6 DEF LiveNet, With, NetPut
<1>8. QED BY <1>2, <1>3, <1>5, <1>6, <1>7

LEMMA NewNetSound ==
  ASSUME NEW s, Sound(s), NEW nm \in NetName, RoomForNet(s), ~NetNameTaken(s, nm),
         NEW d, d = NewNet(s, nm)
  PROVE  Sound(d) /\ (AllPins(s) => AllPins(d))
<1>1. PICK n, r : n = Head(s.net_tbl) /\ r = [name |-> nm, flags |-> NewNetFlags]
  OBVIOUS
<1>2. /\ NetPut(s, d, n, r) /\ d.net_tbl = Tail(s.net_tbl) /\ r # NoObj
      /\ With(LiveNet(d), LiveNet(s), n)
  BY <1>1, NewNetShape
<1>3. s.net_tbl \in Seq(NetId) /\ s.net_tbl # <<>> /\ TableOK(s.net_tbl, NetId, LiveNet(s))
  BY Fields DEF Sound, RoomForNet
<1>4. TableOK(d.net_tbl, NetId, LiveNet(d))
  BY <1>1, <1>2, <1>3, TakeOne
<1>5. \A o \in LiveNet(s) : o # n => s.net[o].name # r.name
  BY <1>1 DEF NetNameTaken
<1>6. QED BY <1>2, <1>4, <1>5, NetPutSound

\* The end of dbNet::destroy, of a net no pin is on.
LEMMA FreeNetShape ==
  ASSUME NEW s, Sound(s), NEW n \in LiveNet(s), NEW d, d = FreeNet(s, n)
  PROVE  /\ NetPut(s, d, n, NoObj) /\ d.net_tbl = <<n>> \o s.net_tbl
         /\ Without(LiveNet(d), LiveNet(s), n)
<1>1. /\ s \in Block /\ n \in NetId /\ s.net_tbl \in Seq(NetId)
      /\ TableOK(s.net_tbl, NetId, LiveNet(s))
  BY Fields, LiveNetFields DEF Sound
<1>2. PICK tbl : tbl = <<n>> \o s.net_tbl
  OBVIOUS
<1>3. PutsNet(s, d, n, NoObj, tbl) /\ NetOrGone(NoObj) /\ tbl \in Seq(NetId)
  <2>1. PutsNet(s, d, n, NoObj, tbl) BY <1>1, <1>2, Fields DEF FreeNet, PutsNet
  <2>2. tbl \in Seq(NetId) BY <1>1, <1>2, GiveOne
  <2>3. QED BY <2>1, <2>2 DEF NetOrGone
<1>4. NetPut(s, d, n, NoObj) /\ d.net_tbl = <<n>> \o s.net_tbl
  <2>1. NetPut(s, d, n, NoObj) /\ d.net_tbl = tbl
    BY ONLY <1>1, <1>3, PutNet
  <2>2. QED BY <2>1, <1>2
<1>5. QED BY <1>4 DEF LiveNet, Without, NetPut

LEMMA FreeNetSound ==
  ASSUME NEW s, Sound(s), NEW n \in LiveNet(s), PinsOn(s, n) = {}, NEW d, d = FreeNet(s, n)
  PROVE  Sound(d) /\ (AllPins(s) => AllPins(d))
<1>1. /\ NetPut(s, d, n, NoObj) /\ d.net_tbl = <<n>> \o s.net_tbl
      /\ Without(LiveNet(d), LiveNet(s), n)
  BY FreeNetShape
<1>2. s.net_tbl \in Seq(NetId) /\ n \in NetId /\ TableOK(s.net_tbl, NetId, LiveNet(s))
  BY Fields, LiveNetFields DEF Sound
<1>3. TableOK(d.net_tbl, NetId, LiveNet(d))
  BY <1>1, <1>2, GiveOne
<1>4. QED BY <1>1, <1>3, NetPutSound

\* The flags of a net.
LEMMA SetNetFlagsShape ==
  ASSUME NEW s \in Block, NEW n \in LiveNet(s), NEW f \in NetFlags, NEW d, d = SetNetFlags(s, n, f),
         NEW r, r = [s.net[n] EXCEPT !.flags = f]
  PROVE  /\ NetPut(s, d, n, r) /\ d.net_tbl = s.net_tbl /\ LiveNet(d) = LiveNet(s)
         /\ r \in Net /\ r # NoObj /\ r.name = s.net[n].name
<1>1. /\ s.net_tbl \in Seq(NetId) /\ n \in NetId /\ s.net[n] \in Net /\ s.net[n] # NoObj
  BY Fields, LiveNetFields
<1>2. r \in Net /\ r.name = s.net[n].name
  BY <1>1 DEF Net
<1>3. r # NoObj
  BY <1>2, NetlistAssumption
<1>4. PutsNet(s, d, n, r, s.net_tbl) /\ NetOrGone(r)
  BY <1>1, <1>2, Fields DEF SetNetFlags, PutsNet, Block, NetOrGone
<1>5. NetPut(s, d, n, r) /\ d.net_tbl = s.net_tbl
  BY <1>1, <1>2, <1>4, PutNet
<1>6. LiveNet(d) = LiveNet(s)
  BY <1>1, <1>3, <1>5 DEF LiveNet, NetPut
<1>7. QED BY <1>2, <1>3, <1>5, <1>6

LEMMA SetNetFlagsSound ==
  ASSUME NEW s, Sound(s), NEW n \in LiveNet(s), NEW f \in NetFlags, NEW d, d = SetNetFlags(s, n, f)
  PROVE  Sound(d) /\ (AllPins(s) => AllPins(d))
<1>1. PICK r : r = [s.net[n] EXCEPT !.flags = f]
  OBVIOUS
<1>2. /\ NetPut(s, d, n, r) /\ d.net_tbl = s.net_tbl /\ LiveNet(d) = LiveNet(s)
      /\ r # NoObj /\ r.name = s.net[n].name
  BY <1>1, SetNetFlagsShape DEF Sound
<1>3. TableOK(d.net_tbl, NetId, LiveNet(d))
  BY <1>2 DEF Sound
<1>4. \A o \in LiveNet(s) : o # n => s.net[o].name # r.name
  BY <1>2 DEF Sound, NamesUnique
<1>5. QED BY <1>2, <1>3, <1>4, NetPutSound

\* Two changes of a net that end with the record and the free list it had
\* leave the block as it was.
LEMMA NetPutBack ==
  ASSUME NEW s, NEW d, NEW e, NEW n, NEW q, NetPut(s, d, n, q), NetPut(d, e, n, s.net[n]),
         e.net_tbl = s.net_tbl
  PROVE  e = s
<1> USE DEF NetPut
<1>1. \A o \in NetId : e.net[o] = s.net[o] OBVIOUS
<1>2. e.net = s.net BY <1>1, Fields
<1>3. QED BY <1>2, SameBlock

LEMMA CreatedNetBack ==
  ASSUME NEW s, Sound(s), NEW nm \in NetName, RoomForNet(s), ~NetNameTaken(s, nm),
         NEW d, d = NewNet(s, nm), NEW n, n = Head(s.net_tbl), NEW e, e = FreeNet(d, n)
  PROVE  n \in LiveNet(d) /\ e = s
<1>1. PICK r : r = [name |-> nm, flags |-> NewNetFlags]
  OBVIOUS
<1>2. /\ NetPut(s, d, n, r) /\ d.net_tbl = Tail(s.net_tbl)
      /\ s.net[n] = NoObj /\ n \in LiveNet(d)
  BY <1>1, NewNetShape
<1>3. Sound(d) BY NewNetSound
<1>4. NetPut(d, e, n, NoObj) /\ e.net_tbl = <<n>> \o d.net_tbl
  BY <1>2, <1>3, FreeNetShape
<1>5. e.net_tbl = s.net_tbl
  <2>1. s.net_tbl \in Seq(NetId) /\ s.net_tbl # <<>> BY Fields DEF Sound, RoomForNet
  <2>2. QED BY <2>1, <1>2, <1>4, HeadAndTail
<1>6. QED BY <1>2, <1>4, <1>5, NetPutBack

LEMMA DeletedNetBack ==
  ASSUME NEW s, Sound(s), NEW n \in LiveNet(s), PinsOn(s, n) = {},
         NEW d, d = FreeNet(s, n), NEW nm, nm = s.net[n].name, NEW f, f = s.net[n].flags,
         NEW c, c = NewNet(d, nm), NEW e, e = SetNetFlags(c, n, f)
  PROVE  RoomForNet(d) /\ Head(d.net_tbl) = n /\ ~NetNameTaken(d, nm) /\ e = s
<1>1. s \in Block /\ s.net_tbl \in Seq(NetId) /\ n \in NetId /\ s.net[n] \in Net
      /\ nm \in NetName /\ f \in NetFlags /\ TableOK(s.net_tbl, NetId, LiveNet(s))
  BY Fields, LiveNetFields DEF Sound
<1>2. /\ NetPut(s, d, n, NoObj) /\ d.net_tbl = <<n>> \o s.net_tbl
      /\ Without(LiveNet(d), LiveNet(s), n)
  BY FreeNetShape
<1>3. Sound(d) BY FreeNetSound
<1>4. d.net_tbl # <<>> /\ Head(d.net_tbl) = n /\ Tail(d.net_tbl) = s.net_tbl
  BY <1>1, <1>2, GiveOne
<1>5. RoomForNet(d) BY <1>4 DEF RoomForNet
<1>6. ~NetNameTaken(d, nm)
  <2>1. \A o \in LiveNet(d) : o # n /\ o \in LiveNet(s) /\ d.net[o] = s.net[o]
    BY <1>2 DEF NetPut, LiveNet
  <2>2. QED BY <2>1 DEF NetNameTaken, Sound, NamesUnique
<1>7. PICK r, q : r = [name |-> nm, flags |-> NewNetFlags] /\ q = [c.net[n] EXCEPT !.flags = f]
  OBVIOUS
<1>8. NetPut(d, c, n, r) /\ c.net_tbl = s.net_tbl /\ n \in LiveNet(c)
  BY <1>1, <1>3, <1>4, <1>5, <1>7, NewNetShape
<1>9. NetPut(c, e, n, q) /\ e.net_tbl = s.net_tbl
  <2>1. c \in Block BY <1>8 DEF NetPut
  <2>2. QED BY <2>1, <1>1, <1>7, <1>8, SetNetFlagsShape
<1>10. q = s.net[n]
  <2>1. c.net[n] = [name |-> nm, flags |-> NewNetFlags] BY <1>7, <1>8 DEF NetPut
  <2>2. q = [name |-> nm, flags |-> f] BY ONLY <1>7, <2>1
  <2>3. QED BY <1>1, <2>2 DEF Net
<1>11. NetPut(s, c, n, r)
  BY <1>2, <1>8 DEF NetPut
<1>12. e = s
  BY <1>9, <1>10, <1>11, NetPutBack
<1>13. QED BY <1>4, <1>5, <1>6, <1>12

LEMMA NetFlagsBack ==
  ASSUME NEW s, Sound(s), NEW n \in LiveNet(s), NEW f \in NetFlags, NEW d, d = SetNetFlags(s, n, f),
         NEW o, o = s.net[n].flags, NEW e, e = SetNetFlags(d, n, o)
  PROVE  n \in LiveNet(d) /\ e = s
<1>1. PICK r, q : r = [s.net[n] EXCEPT !.flags = f] /\ q = [d.net[n] EXCEPT !.flags = o]
  OBVIOUS
<1>2. s \in Block /\ s.net[n] \in Net /\ o \in NetFlags
  BY LiveNetFields DEF Sound
<1>3. NetPut(s, d, n, r) /\ d.net_tbl = s.net_tbl /\ LiveNet(d) = LiveNet(s)
  BY <1>1, <1>2, SetNetFlagsShape
<1>4. d \in Block /\ n \in LiveNet(d) BY <1>3 DEF NetPut
<1>5. NetPut(d, e, n, q) /\ e.net_tbl = s.net_tbl
  BY <1>1, <1>2, <1>3, <1>4, SetNetFlagsShape
<1>6. q = s.net[n]
  BY <1>1, <1>2, <1>3 DEF NetPut, Net
<1>7. e = s BY <1>3, <1>5, <1>6, NetPutBack
<1>8. QED BY <1>4, <1>7

-----------------------------------------------------------------------------
(***************************************************************************)
(* What a throw leaves: an instance without its last pins.                 *)
(***************************************************************************)

\* The parts of a list that names each pin once.
LEMMA Parts ==
  ASSUME NEW ids, NEW q \in Seq(ids), Distinct(q), NEW n \in Nat, n <= Len(q),
         NEW kept, NEW lost, SplitAt(q, n, kept, lost)
  PROVE  /\ kept \in Seq(ids) /\ Len(kept) = n /\ Distinct(kept)
         /\ lost \in Seq(ids) /\ Distinct(lost)
         /\ \A x \in Elems(kept) : x \in Elems(q) /\ x \notin Elems(lost)
         /\ \A x \in Elems(lost) : x \in Elems(q)
         /\ \A x \in Elems(q) : x \in Elems(kept) \/ x \in Elems(lost)
<1>1. PICK live, live2 : live = ids \ Elems(q) /\ live2 = live \cup Elems(kept)
  OBVIOUS
<1>2. Elems(q) \subseteq ids
  BY ElementOfSeq DEF Elems
<1>3. TableOK(q, ids, live)
  BY <1>1, <1>2 DEF TableOK, Distinct
<1>4. /\ kept \in Seq(ids) /\ Len(kept) = n /\ Distinct(kept)
      /\ \A x \in Elems(kept) : x \in ids /\ x \notin live
      /\ lost \in Seq(ids) /\ RestOK(lost, ids, live, kept)
  BY <1>3, TakeSome
<1>5. WithAll(live2, live, Elems(kept)) BY <1>1 DEF WithAll
<1>6. TableOK(lost, ids, live2) BY <1>4, <1>5 DEF RestOK
<1>7. Distinct(lost) /\ Elems(lost) = ids \ live2 BY <1>6 DEF TableOK, Distinct
<1>8. QED BY <1>1, <1>2, <1>4, <1>7

\* The block that is left.
Dropped(s, i, kept, lost) ==
  [FreePins(s, lost) EXCEPT !.inst[i].iterms = kept]

PinsDropped(s, d, i, kept, lost) ==
  /\ s \in Block /\ d \in Block
  /\ i \in LiveInst(s)
  /\ d.inst[i] = [s.inst[i] EXCEPT !.iterms = kept]
  /\ \A j \in InstId : j # i => d.inst[j] = s.inst[j]
  /\ \A t \in Elems(lost) : d.pin[t] = NoObj
  /\ \A t \in PinId : t \notin Elems(lost) => d.pin[t] = s.pin[t]
  /\ d.net = s.net /\ d.net_tbl = s.net_tbl
  /\ d.inst_tbl = s.inst_tbl /\ d.iterm_tbl = lost \o s.iterm_tbl
  /\ LiveInst(d) = LiveInst(s) /\ LiveNet(d) = LiveNet(s)

LEMMA DroppedShape ==
  ASSUME NEW s \in Block, NEW i \in LiveInst(s), NEW kept \in Seq(PinId), NEW lost \in Seq(PinId),
         NEW d, d = Dropped(s, i, kept, lost)
  PROVE  PinsDropped(s, d, i, kept, lost)
<1> DEFINE pins == [t \in PinId |-> IF t \in Elems(lost) THEN NoObj ELSE s.pin[t]]
<1>1. PICK r : r = [s.inst[i] EXCEPT !.iterms = kept]
  OBVIOUS
<1>2. /\ i \in InstId /\ s.inst \in [InstId -> Inst \cup {NoObj}] /\ s.inst[i] \in Inst
      /\ s.inst[i] # NoObj /\ s.pin \in [PinId -> Pin \cup {NoObj}] /\ s.iterm_tbl \in Seq(PinId)
  BY LiveInstFields, Fields
<1>3. r \in Inst /\ r # NoObj
  <2>1. r \in Inst BY <1>1, <1>2 DEF Inst
  <2>2. QED BY <2>1, NetlistAssumption
<1>4. lost \o s.iterm_tbl \in Seq(PinId)
  BY <1>2, ConcatProperties
<1>5. pins \in [PinId -> Pin \cup {NoObj}] /\ [s.inst EXCEPT ![i] = r] \in [InstId -> Inst \cup {NoObj}]
  BY <1>2, <1>3
<1>6. d = [[s EXCEPT !.pin = pins, !.iterm_tbl = lost \o @] EXCEPT !.inst[i].iterms = kept]
  BY DEF Dropped, FreePins
<1> HIDE DEF pins
<1>7. d = [s EXCEPT !.pin = pins, !.iterm_tbl = lost \o s.iterm_tbl, !.inst = [s.inst EXCEPT ![i] = r]]
  BY <1>1, <1>2, <1>6 DEF Block
<1>8. /\ d.inst = [s.inst EXCEPT ![i] = r] /\ d.pin = pins /\ d.net = s.net
      /\ d.inst_tbl = s.inst_tbl /\ d.iterm_tbl = lost \o s.iterm_tbl
      /\ d.net_tbl = s.net_tbl /\ d \in Block
  BY <1>4, <1>5, <1>7 DEF Block
<1>9. d.inst[i] = r /\ \A j \in InstId : j # i => d.inst[j] = s.inst[j]
  BY <1>2, <1>8
<1>10. /\ \A t \in Elems(lost) : d.pin[t] = NoObj
       /\ \A t \in PinId : t \notin Elems(lost) => d.pin[t] = s.pin[t]
  <2>1. \A t \in Elems(lost) : t \in PinId BY ElementOfSeq DEF Elems
  <2>2. QED BY <2>1, <1>8 DEF pins
<1>11. LiveInst(d) = LiveInst(s) BY <1>2, <1>3, <1>9 DEF LiveInst
<1>12. LiveNet(d) = LiveNet(s) BY <1>8 DEF LiveNet
<1>13. QED BY <1>1, <1>8, <1>9, <1>10, <1>11, <1>12 DEF PinsDropped

LEMMA DroppedSound ==
  ASSUME NEW s, Sound(s), NEW i \in LiveInst(s), NEW k \in Nat, NEW kept, NEW lost,
         k <= Len(s.inst[i].iterms), SplitAt(s.inst[i].iterms, k, kept, lost),
         NEW d, d = Dropped(s, i, kept, lost)
  PROVE  Sound(d)
<1>1. PICK ts : ts = s.inst[i].iterms
  OBVIOUS
<1>2. /\ s \in Block /\ i \in InstId /\ s.inst[i] \in Inst /\ s.inst[i].master \in Master
      /\ ts \in Seq(PinId) /\ Distinct(ts) /\ Len(ts) \in Nat
      /\ Len(ts) <= Len(MTerms[s.inst[i].master]) /\ Len(MTerms[s.inst[i].master]) \in Nat
  BY <1>1, LiveInstFields, LenProperties, Terminals DEF Sound, OwnPins
<1>3. /\ kept \in Seq(PinId) /\ Len(kept) = k /\ Distinct(kept)
      /\ lost \in Seq(PinId) /\ Distinct(lost)
      /\ \A x \in Elems(kept) : x \in Elems(ts) /\ x \notin Elems(lost)
      /\ \A x \in Elems(lost) : x \in Elems(ts)
      /\ \A x \in Elems(ts) : x \in Elems(kept) \/ x \in Elems(lost)
  BY <1>1, <1>2, Parts
<1>4. PinsDropped(s, d, i, kept, lost)
  BY <1>2, <1>3, DroppedShape
<1> USE DEF PinsDropped
<1>5. \A t \in Elems(ts) : t \in LivePin(s) /\ s.pin[t].inst = i
  BY <1>1, <1>2, LiveInstFields DEF Sound, OwnPins, PinsOf, LivePin
<1>6. WithoutAll(LivePin(d), LivePin(s), Elems(lost))
  BY <1>3, <1>4, <1>5 DEF LivePin, WithoutAll
<1>7. TableOK(d.inst_tbl, InstId, LiveInst(d)) /\ TableOK(d.net_tbl, NetId, LiveNet(d))
  BY <1>4 DEF Sound
<1>8. TableOK(d.iterm_tbl, PinId, LivePin(d))
  <2>1. /\ s.iterm_tbl \in Seq(PinId) /\ TableOK(s.iterm_tbl, PinId, LivePin(s))
        /\ Elems(lost) \subseteq LivePin(s)
    BY <1>2, <1>3, <1>5, Fields DEF Sound
  <2>2. GivenOK(d.iterm_tbl, PinId, LivePin(s), lost)
    BY <1>3, <1>4, <2>1, GiveSome
  <2>3. QED BY <2>2, <1>6 DEF GivenOK
<1>9. /\ d.inst[i].iterms = kept /\ d.inst[i].name = s.inst[i].name
      /\ d.inst[i].master = s.inst[i].master
  BY <1>2, <1>4 DEF Inst
<1>10. \A j \in LiveInst(d) : j # i => d.inst[j] = s.inst[j] /\ PinsOf(d, j) = PinsOf(s, j)
  BY <1>4 DEF LiveInst, PinsOf
<1>11. OwnPins(d)
  <2> SUFFICES ASSUME NEW j \in LiveInst(d)
               PROVE  /\ Len(d.inst[j].iterms) <= Len(MTerms[d.inst[j].master])
                      /\ Distinct(d.inst[j].iterms)
                      /\ \A t \in PinsOf(d, j) : d.pin[t] # NoObj /\ d.pin[t].inst = j
    BY DEF OwnPins
  <2>1. CASE j = i
    <3>1. \A t \in Elems(kept) : t \in PinId /\ t \notin Elems(lost) /\ s.pin[t] # NoObj /\ s.pin[t].inst = i
      BY <1>3, <1>5 DEF LivePin
    <3>2. \A t \in Elems(kept) : d.pin[t] # NoObj /\ d.pin[t].inst = i
      BY <3>1, <1>4
    <3>3. k <= Len(MTerms[s.inst[i].master]) BY <1>1, <1>2
    <3>4. QED BY <2>1, <3>2, <3>3, <1>3, <1>9 DEF PinsOf
  <2>2. CASE j # i
    <3>1. j \in LiveInst(s) /\ d.inst[j] = s.inst[j] /\ PinsOf(d, j) = PinsOf(s, j)
      BY <2>2, <1>4, <1>10
    <3>2. \A t \in PinsOf(s, j) : t \in PinId /\ s.pin[t] # NoObj /\ s.pin[t].inst = j
      BY <3>1, <1>2, LiveInstFields DEF Sound, OwnPins
    <3>3. \A t \in PinsOf(d, j) : d.pin[t] = s.pin[t]
      BY <2>2, <3>1, <3>2, <1>3, <1>4, <1>5
    <3>4. QED BY <3>1, <3>2, <3>3 DEF Sound, OwnPins
  <2>3. QED BY <2>1, <2>2
<1>12. NoOrphanPin(d)
  <2> SUFFICES ASSUME NEW t \in LivePin(d)
               PROVE  /\ d.pin[t].inst \in LiveInst(d) /\ t \in PinsOf(d, d.pin[t].inst)
                      /\ d.pin[t].net # 0 => d.pin[t].net \in LiveNet(d)
    BY DEF NoOrphanPin
  <2>1. t \in LivePin(s) /\ t \notin Elems(lost) /\ d.pin[t] = s.pin[t]
    BY <1>4, <1>6 DEF LivePin, WithoutAll
  <2>2. /\ s.pin[t].inst \in LiveInst(s) /\ t \in PinsOf(s, s.pin[t].inst)
        /\ s.pin[t].net # 0 => s.pin[t].net \in LiveNet(s)
    BY <2>1 DEF Sound, NoOrphanPin
  <2>3. CASE s.pin[t].inst = i
    <3>1. t \in Elems(kept) BY <2>1, <2>2, <2>3, <1>1, <1>3 DEF PinsOf
    <3>2. QED BY <3>1, <2>1, <2>2, <2>3, <1>4, <1>9 DEF PinsOf
  <2>4. CASE s.pin[t].inst # i
    BY <2>1, <2>2, <2>4, <1>4, <1>10
  <2>5. QED BY <2>3, <2>4
<1>13. NamesUnique(d)
  <2>1. \A j \in LiveInst(d) : j \in LiveInst(s) /\ d.inst[j].name = s.inst[j].name
    BY <1>4, <1>9, <1>10
  <2>2. QED BY <2>1, <1>4 DEF Sound, NamesUnique
<1>14. QED BY <1>4, <1>7, <1>8, <1>11, <1>12, <1>13 DEF Sound

-----------------------------------------------------------------------------
(***************************************************************************)
(* Each entry of the log, and the change it is written for: undoing the    *)
(* entry from the block after it finds its objects, does not throw, and    *)
(* gives the block before it.                                              *)
(***************************************************************************)
Undoes(entry, d, s) ==
  ObjectsExist(entry, d) /\ ~UndoThrows(entry, d) /\ UndoEntry(entry, d) = s

\* Replayed forwards, where the block is the one before it, the entry finds
\* its objects under their ids, is not refused, and gives the block after it.
Redoes(entry, s, d) == RedoFinds(entry, s) /\ RedoEntry(entry, s) = d

Fits(entry, s, d) == Undoes(entry, d, s) /\ Redoes(entry, s, d)

\* Undoing the destruction of an instance creates it as it was: under its id,
\* with its pins under theirs, if it was where setLocation can put it.
LEMMA DeletedInstBack ==
  ASSUME NEW s, Sound(s), NEW i \in LiveInst(s), HasAllPins(s, i), Unconnected(s, i),
         ~IsFixed(s, i), Shift[s.inst[i].flags.orient] = 0,
         NEW d, d = FreeInst(s, i), NEW entry, entry = InstDeleted(i, s.inst[i])
  PROVE  /\ ObjectsExist(entry, d) /\ ~UndoThrows(entry, d)
         /\ UndoEntry(entry, d) = s
<1>1. PICK ts, nm, m, f, x :
        /\ ts = s.inst[i].iterms /\ nm = s.inst[i].name /\ m = s.inst[i].master
        /\ f = s.inst[i].flags /\ x = s.inst[i].origin
  OBVIOUS
<1>2. /\ entry.act = "delete" /\ entry.obj = "inst" /\ entry.id = i /\ entry.name = nm
      /\ entry.master = m /\ entry.flags = f /\ entry.origin = x
  BY <1>1 DEF InstDeleted
<1>3. /\ s \in Block /\ s.inst[i] \in Inst /\ nm \in InstName /\ m \in Master /\ f \in InstFlags
      /\ x \in Int /\ ts \in Seq(PinId) /\ Distinct(ts) /\ Len(ts) = Len(MTerms[m])
  BY <1>1, LiveInstFields DEF Sound, OwnPins, HasAllPins
<1>4. InstRemoved(s, d, i, ts)
  BY <1>1, FreeInstShape
<1>5. Sound(d)
  BY FreeInstSound
<1>6. d.inst_tbl # <<>> /\ Head(d.inst_tbl) = i /\ Tail(d.inst_tbl) = s.inst_tbl
  <2>1. s.inst_tbl \in Seq(InstId) /\ i \in InstId /\ TableOK(s.inst_tbl, InstId, LiveInst(s))
    BY <1>3, Fields DEF Sound, LiveInst
  <2>2. QED BY <1>4, <2>1, GiveOne DEF InstRemoved
<1>7. /\ Len(d.iterm_tbl) >= Len(ts)
      /\ SubSeq(d.iterm_tbl, 1, Len(ts)) = ts
      /\ SubSeq(d.iterm_tbl, Len(ts) + 1, Len(d.iterm_tbl)) = s.iterm_tbl
  <2>1. s.iterm_tbl \in Seq(PinId) /\ TableOK(s.iterm_tbl, PinId, LivePin(s))
        /\ Elems(ts) \subseteq LivePin(s) /\ d.iterm_tbl = ts \o s.iterm_tbl
    BY <1>3, <1>4, Fields DEF Sound, InstRemoved
  <2>2. Len(d.iterm_tbl) >= Len(ts) /\ SplitAt(d.iterm_tbl, Len(ts), ts, s.iterm_tbl)
    BY <1>3, <2>1, GiveSome
  <2>3. QED BY <2>2 DEF SplitAt
<1>8. RoomForInst(d, m)
  BY <1>3, <1>6, <1>7 DEF RoomForInst
<1>9. ~InstNameTaken(d, nm)
  <2>1. \A j \in LiveInst(d) : j # i /\ j \in LiveInst(s) /\ d.inst[j] = s.inst[j]
    BY <1>4 DEF InstRemoved, LiveInst
  <2>2. QED BY <1>1, <2>1 DEF InstNameTaken, Sound, NamesUnique
<1>10. PICK c, e, b :
         /\ c = NewInst(d, nm, m) /\ e = SetInstFlags(c, i, f) /\ b = PutOrigin(e, i, x)
  OBVIOUS
<1>11. InstAdded(d, c, nm, m, i, ts)
  BY <1>3, <1>5, <1>6, <1>7, <1>8, <1>10, NewInstShape
<1>12. c \in Block /\ i \in LiveInst(c)
  BY <1>11 DEF InstAdded
<1>13. InstChanged(c, e, i) /\ e.inst[i] = [c.inst[i] EXCEPT !.flags = f]
  BY <1>3, <1>10, <1>12, SetInstFlagsShape
<1>14. e \in Block /\ i \in LiveInst(e)
  BY <1>12, <1>13 DEF InstChanged
<1>15. InstChanged(e, b, i) /\ b.inst[i] = [e.inst[i] EXCEPT !.origin = x]
  BY <1>3, <1>10, <1>14, PutOriginShape
<1>16. b.inst[i] = s.inst[i]
  <2>1. c.inst[i] = [name |-> nm, master |-> m, flags |-> NewInstFlags, origin |-> 0, iterms |-> ts]
    BY <1>11 DEF InstAdded
  <2>2. e.inst[i] = [name |-> nm, master |-> m, flags |-> f, origin |-> 0, iterms |-> ts]
    BY ONLY <1>13, <2>1
  <2>3. b.inst[i] = [name |-> nm, master |-> m, flags |-> f, origin |-> x, iterms |-> ts]
    BY ONLY <1>15, <2>2
  <2>4. QED BY <1>1, <1>3, <2>3 DEF Inst
<1>17. b = s
  <2>1. b \in Block BY <1>15 DEF InstChanged
  <2>2. b.inst = s.inst
    <3>1. ASSUME NEW j \in InstId, j # i PROVE b.inst[j] = s.inst[j]
      <4>1. d.inst[j] = s.inst[j] BY <1>4, <3>1 DEF InstRemoved
      <4>2. c.inst[j] = d.inst[j] BY <1>11, <3>1 DEF InstAdded
      <4>3. e.inst[j] = c.inst[j] BY <1>13, <3>1 DEF InstChanged
      <4>4. b.inst[j] = e.inst[j] BY <1>15, <3>1 DEF InstChanged
      <4>5. QED BY <4>1, <4>2, <4>3, <4>4
    <3>2. \A j \in InstId : b.inst[j] = s.inst[j] BY <1>16, <3>1
    <3>3. b.inst \in [InstId -> Inst \cup {NoObj}] /\ s.inst \in [InstId -> Inst \cup {NoObj}]
      BY <1>3, <2>1, Fields
    <3>4. QED BY <3>2, <3>3
  <2>3. b.pin = s.pin
    <3>1. b.pin = c.pin BY <1>13, <1>15 DEF InstChanged
    <3>2. ASSUME NEW t \in Elems(ts) PROVE c.pin[t] = s.pin[t]
      <4>1. t \in LivePin(s) /\ s.pin[t].inst = i /\ c.pin[t] = [inst |-> i, net |-> 0]
        BY <1>4, <1>11 DEF InstRemoved, InstAdded
      <4>2. s.pin[t].net = 0 BY <1>1 DEF Unconnected, PinsOf
      <4>3. s.pin[t] \in Pin BY <4>1, <1>3, LivePinFields
      <4>4. QED BY <4>1, <4>2, <4>3 DEF Pin
    <3>3. \A t \in PinId : t \notin Elems(ts) => c.pin[t] = s.pin[t]
      BY <1>4, <1>11 DEF InstRemoved, InstAdded
    <3>4. QED BY <1>3, <2>1, <3>1, <3>2, <3>3, Fields
  <2>4. b.net = s.net /\ b.net_tbl = s.net_tbl
    BY <1>4, <1>11, <1>13, <1>15 DEF InstRemoved, InstAdded, InstChanged
  <2>5. b.inst_tbl = s.inst_tbl
    BY <1>6, <1>11, <1>13, <1>15 DEF InstAdded, InstChanged
  <2>6. b.iterm_tbl = s.iterm_tbl
    BY <1>3, <1>7, <1>11, <1>13, <1>15 DEF InstAdded, InstChanged
  <2>7. QED BY <1>3, <2>1, <2>2, <2>3, <2>4, <2>5, <2>6, SameBlock
<1>18. Recreated(entry, d) = e
  BY <1>2, <1>6, <1>10 DEF Recreated
<1>19. entry.origin - Shift[entry.flags.orient] = x
  BY <1>1, <1>2, <1>3
<1>20. ObjectsExist(entry, d)
  BY <1>2, <1>8, <1>9 DEF ObjectsExist
<1>21. ~UndoThrows(entry, d)
  <2>1. e.inst[i].flags = f
    BY <1>11, <1>13 DEF InstAdded
  <2>2. ~OriginHeld(e, i, x) BY <2>1, <1>1 DEF OriginHeld, IsFixed
  <2>3. QED BY <2>2, <1>2, <1>6, <1>18, <1>19 DEF UndoThrows
<1>22. UndoEntry(entry, d) = b
  BY <1>2, <1>6, <1>10, <1>18, <1>19 DEF UndoEntry, UndoDelete, PlacedBack
<1>23. QED BY <1>17, <1>20, <1>21, <1>22

LEMMA InstCreatedFits ==
  ASSUME NEW s, Sound(s), NEW nm \in InstName, NEW m \in Master, RoomForInst(s, m),
         ~InstNameTaken(s, nm), NEW d, d = NewInst(s, nm, m),
         NEW entry, entry = InstCreated(Head(s.inst_tbl), nm, m)
  PROVE  entry \in Entry /\ Fits(entry, s, d)
<1>1. PICK i, ts : i = Head(s.inst_tbl) /\ ts = SubSeq(s.iterm_tbl, 1, Len(MTerms[m]))
  OBVIOUS
<1>2. entry = [act |-> "create", obj |-> "inst", id |-> i, name |-> nm, master |-> m]
  BY <1>1 DEF InstCreated
<1>3. InstAdded(s, d, nm, m, i, ts)
  BY <1>1, NewInstShape
<1>4. i \in InstId /\ i \in LiveInst(d) /\ d.inst[i].flags = NewInstFlags /\ PinsOf(d, i) = Elems(ts)
      /\ \A t \in Elems(ts) : d.pin[t] = [inst |-> i, net |-> 0] /\ t \in LivePin(d)
  BY <1>3 DEF InstAdded, PinsOf, WithAll
<1>5. entry \in Entry
  BY <1>2, <1>4 DEF Entry
<1>6. ObjectsExist(entry, d)
  BY <1>2, <1>4 DEF ObjectsExist, LivePin
<1>7. ~UndoThrows(entry, d)
  BY <1>2, <1>4 DEF UndoThrows, NewInstFlags
<1>8. UndoEntry(entry, d) = FreeInst(d, i)
  BY <1>2 DEF UndoEntry, UndoCreate
<1>9. FreeInst(d, i) = s
  BY <1>1, CreatedInstBack
<1>10. Redoes(entry, s, d)
  BY <1>1, <1>2 DEF Redoes, RedoFinds, RedoEntry, RedoCreate
<1>11. QED BY <1>5, <1>6, <1>7, <1>8, <1>9, <1>10 DEF Fits, Undoes

LEMMA InstDeletedFits ==
  ASSUME NEW s, Sound(s), NEW i \in LiveInst(s), HasAllPins(s, i), Unconnected(s, i),
         ~IsFixed(s, i), Shift[s.inst[i].flags.orient] = 0, ~s.inst[i].flags.dont_touch,
         NEW d, d = FreeInst(s, i), NEW entry, entry = InstDeleted(i, s.inst[i])
  PROVE  Fits(entry, s, d)
<1>1. Undoes(entry, d, s)
  BY DeletedInstBack DEF Undoes
<1>2. entry.act = "delete" /\ entry.obj = "inst" /\ entry.id = i
  BY DEF InstDeleted
<1>3. Redoes(entry, s, d)
  BY <1>2 DEF Redoes, RedoFinds, RedoEntry, RedoDelete, Unconnected
<1>4. QED BY <1>1, <1>3 DEF Fits

LEMMA InstDeletedEntry ==
  ASSUME NEW s \in Block, NEW i \in LiveInst(s)
  PROVE  InstDeleted(i, s.inst[i]) \in Entry
BY LiveInstFields DEF InstDeleted, Entry

LEMMA NetCreatedFits ==
  ASSUME NEW s, Sound(s), NEW nm \in NetName, RoomForNet(s), ~NetNameTaken(s, nm),
         NEW d, d = NewNet(s, nm), NEW entry, entry = NetCreated(Head(s.net_tbl), nm)
  PROVE  entry \in Entry /\ Fits(entry, s, d)
<1>1. PICK n, r : n = Head(s.net_tbl) /\ r = [name |-> nm, flags |-> NewNetFlags]
  OBVIOUS
<1>2. entry = [act |-> "create", obj |-> "net", id |-> n, name |-> nm]
  BY <1>1 DEF NetCreated
<1>3. NetPut(s, d, n, r) /\ n \in NetId /\ s.net[n] = NoObj /\ n \in LiveNet(d)
  BY <1>1, NewNetShape
<1>4. PinsOn(d, n) = {}
  <2>1. n \notin LiveNet(s) /\ n # 0 BY <1>3, NetlistAssumption DEF LiveNet
  <2>2. \A t \in LivePin(d) : t \in LivePin(s) /\ d.pin[t] = s.pin[t] BY <1>3 DEF NetPut
  <2>3. \A t \in LivePin(s) : s.pin[t].net # n BY <2>1 DEF Sound, NoOrphanPin
  <2>4. QED BY <2>2, <2>3 DEF PinsOn
<1>5. d.net[n].flags.dont_touch = FALSE BY <1>1, <1>3 DEF NetPut, NewNetFlags
<1>6. entry \in Entry
  BY <1>2, <1>3 DEF Entry
<1>7. ObjectsExist(entry, d)
  BY <1>2, <1>3, <1>4 DEF ObjectsExist
<1>8. ~UndoThrows(entry, d)
  BY <1>2, <1>5 DEF UndoThrows
<1>9. UndoEntry(entry, d) = FreeNet(d, n)
  BY <1>2 DEF UndoEntry, UndoCreate
<1>10. FreeNet(d, n) = s
  BY <1>1, CreatedNetBack
<1>11. Redoes(entry, s, d)
  BY <1>1, <1>2 DEF Redoes, RedoFinds, RedoEntry, RedoCreate
<1>12. QED BY <1>6, <1>7, <1>8, <1>9, <1>10, <1>11 DEF Fits, Undoes

LEMMA NetDeletedEntry ==
  ASSUME NEW s \in Block, NEW n \in LiveNet(s)
  PROVE  NetDeleted(n, s.net[n]) \in Entry
BY LiveNetFields DEF NetDeleted, Entry

LEMMA NetDeletedFits ==
  ASSUME NEW s, Sound(s), NEW n \in LiveNet(s), PinsOn(s, n) = {},
         ~s.net[n].flags.dont_touch,
         NEW d, d = FreeNet(s, n), NEW entry, entry = NetDeleted(n, s.net[n])
  PROVE  entry \in Entry /\ Fits(entry, s, d)
<1>1. PICK nm, f : nm = s.net[n].name /\ f = s.net[n].flags
  OBVIOUS
<1>2. entry = [act |-> "delete", obj |-> "net", id |-> n, name |-> nm, flags |-> f]
  BY <1>1 DEF NetDeleted
<1>3. n \in NetId /\ nm \in NetName /\ f \in NetFlags
  BY <1>1, LiveNetFields DEF Sound
<1>4. PICK c, e : c = NewNet(d, nm) /\ e = SetNetFlags(c, n, f)
  OBVIOUS
<1>5. RoomForNet(d) /\ Head(d.net_tbl) = n /\ ~NetNameTaken(d, nm) /\ e = s
  BY <1>1, <1>4, DeletedNetBack
<1>6. entry \in Entry
  BY <1>2, <1>3 DEF Entry
<1>7. ObjectsExist(entry, d)
  BY <1>2, <1>5 DEF ObjectsExist
<1>8. ~UndoThrows(entry, d)
  BY <1>2 DEF UndoThrows
<1>9. UndoEntry(entry, d) = e
  <2>1. UndoEntry(entry, d) = UndoDelete(entry, d) BY <1>2 DEF UndoEntry
  <2>2. UndoDelete(entry, d) = SetNetFlags(NewNet(d, nm), n, f)
    BY <1>2, <1>5 DEF UndoDelete
  <2>3. QED BY <2>1, <2>2, <1>4
<1>10. Redoes(entry, s, d)
  BY <1>2 DEF Redoes, RedoFinds, RedoEntry, RedoDelete
<1>11. QED BY <1>5, <1>6, <1>7, <1>8, <1>9, <1>10 DEF Fits, Undoes

\* Neither the pin's instance nor its net is dont_touch.
LEMMA ConnectedFits ==
  ASSUME NEW s, Sound(s), NEW t \in LivePin(s), NEW n \in LiveNet(s), s.pin[t].net = 0,
         ~s.inst[s.pin[t].inst].flags.dont_touch, ~s.net[n].flags.dont_touch,
         NEW d, d = SetPinNet(s, t, n), NEW entry, entry = Connected(t, n)
  PROVE  entry \in Entry /\ Fits(entry, s, d)
<1>1. entry = [act |-> "connect", pin |-> t, net |-> n]
  BY DEF Connected
<1>2. PICK e : e = SetPinNet(d, t, 0)
  OBVIOUS
<1>3. NetOrNone(s, n) BY DEF NetOrNone
<1>4. PinMoved(s, d, t, n)
  BY <1>3, SetPinNetShape DEF Sound
<1>5. e = s
  <2>1. PICK o : o = s.pin[t].net /\ e = SetPinNet(d, t, o) BY <1>2
  <2>2. QED BY <2>1, <1>3, MovedPinBack
<1>6. entry \in Entry
  BY <1>1 DEF Entry, LivePin, LiveNet
<1>7. ObjectsExist(entry, d)
  BY <1>1, <1>4 DEF ObjectsExist, PinMoved
<1>8. ~UndoThrows(entry, d)
  BY <1>1, <1>4 DEF UndoThrows, PinMoved, PinHeld
<1>9. UndoEntry(entry, d) = e
  BY <1>1, <1>2 DEF UndoEntry, UndoConnect
<1>10. Redoes(entry, s, d)
  BY <1>1 DEF Redoes, RedoFinds, RedoEntry, RedoConnect, PinHeld
<1>11. QED BY <1>5, <1>6, <1>7, <1>8, <1>9, <1>10 DEF Fits, Undoes

LEMMA DisconnectedFits ==
  ASSUME NEW s, Sound(s), NEW t \in LivePin(s), NEW n, n = s.pin[t].net, n # 0,
         ~s.inst[s.pin[t].inst].flags.dont_touch, ~s.net[n].flags.dont_touch,
         NEW d, d = SetPinNet(s, t, 0), NEW entry, entry = Disconnected(t, n)
  PROVE  entry \in Entry /\ Fits(entry, s, d)
<1>1. entry = [act |-> "disconnect", pin |-> t, net |-> n]
  BY DEF Disconnected
<1>2. PICK e, o : e = SetPinNet(d, t, n) /\ o = 0
  OBVIOUS
<1>3. NetOrNone(s, o) /\ n \in LiveNet(s) BY <1>2 DEF NetOrNone, Sound, NoOrphanPin
<1>4. PinMoved(s, d, t, 0)
  BY <1>2, <1>3, SetPinNetShape DEF Sound
<1>5. e = s
  BY <1>2, <1>3, MovedPinBack
<1>6. entry \in Entry
  BY <1>1, <1>3 DEF Entry, LivePin, LiveNet
<1>7. ObjectsExist(entry, d)
  BY <1>1, <1>3, <1>4 DEF ObjectsExist, PinMoved
<1>8. ~UndoThrows(entry, d)
  BY <1>1, <1>4 DEF UndoThrows, PinMoved, PinHeld
<1>9. UndoEntry(entry, d) = e
  BY <1>1, <1>2 DEF UndoEntry, UndoDisconnect
<1>10. Redoes(entry, s, d)
  BY <1>1 DEF Redoes, RedoFinds, RedoEntry, RedoDisconnect, PinHeld
<1>11. QED BY <1>5, <1>6, <1>7, <1>8, <1>9, <1>10 DEF Fits, Undoes

LEMMA SwappedFits ==
  ASSUME NEW s, Sound(s), NEW i \in LiveInst(s), HasAllPins(s, i), NEW m2 \in Master,
         ~s.inst[i].flags.dont_touch,
         NEW d, d = SwapMaster(s, i, m2), NEW entry, entry = Swapped(i, s.inst[i].master, m2)
  PROVE  entry \in Entry /\ Fits(entry, s, d)
<1>1. PICK m, ts, r, q : /\ m = s.inst[i].master /\ ts = s.inst[i].iterms
                         /\ r = Reordered(ts, m, m2) /\ q = Reordered(r, m2, m)
  OBVIOUS
<1>2. entry = [act |-> "swap", inst |-> i, prev |-> m, new |-> m2]
  BY <1>1 DEF Swapped
<1>3. /\ s \in Block /\ i \in InstId /\ s.inst[i] \in Inst /\ m \in Master /\ ts \in Seq(PinId)
      /\ Len(ts) = Len(MTerms[m])
  BY <1>1, LiveInstFields DEF Sound, HasAllPins
<1>4. /\ InstChanged(s, d, i)
      /\ ~SameTerms(m, m2) => d = s
      /\ SameTerms(m, m2) => d.inst[i] = [s.inst[i] EXCEPT !.iterms = r, !.master = m2]
  <2>1. MasterSwapped(s, d, i, m, m2) BY <1>1, <1>3, SwapMasterShape
  <2>2. QED BY <2>1, <1>1 DEF MasterSwapped
<1>5. PICK e : e = SwapMaster(d, i, m)
  OBVIOUS
<1>6. i \in LiveInst(d) /\ d \in Block
  BY <1>4 DEF InstChanged
<1>7. HasAllPins(d, i) /\ d.inst[i].flags = s.inst[i].flags
  <2>1. d.inst[i].flags = s.inst[i].flags
    BY <1>3, <1>4 DEF Inst
  <2>2. HasAllPins(d, i)
    BY <1>1, <1>3, <1>4 DEF HasAllPins, InstChanged
  <2>3. QED BY <2>1, <2>2
<1>8. e = s
  <2>1. CASE SameTerms(m, m2)
    <3>1. /\ d.inst[i].master = m2 /\ d.inst[i].iterms = r
          /\ d.inst[i].name = s.inst[i].name /\ d.inst[i].flags = s.inst[i].flags
          /\ d.inst[i].origin = s.inst[i].origin
      BY <2>1, <1>3, <1>4 DEF Inst
    <3>2. SameTerms(m2, m) BY <2>1, TermsSymmetric
    <3>3. InstChanged(d, e, i) /\ e.inst[i] = [d.inst[i] EXCEPT !.iterms = q, !.master = m]
      <4>1. PICK p : p = d.inst[i].master OBVIOUS
      <4>2. MasterSwapped(d, e, i, p, m)
        BY <1>3, <1>5, <1>6, <1>7, <4>1, SwapMasterShape
      <4>3. p = m2 /\ SameTerms(p, m) BY <4>1, <3>1, <3>2
      <4>4. QED BY <4>2, <4>3, <3>1, <1>1 DEF MasterSwapped
    <3>4. q = ts BY <2>1, <1>1, <1>3, ReorderBack
    <3>5. e.inst[i] \in Inst /\ d.inst[i] \in Inst BY <1>4, <3>3 DEF InstChanged
    <3>6. e.inst[i] = s.inst[i]
      <4>1. /\ e.inst[i].master = m /\ e.inst[i].iterms = ts
            /\ e.inst[i].name = s.inst[i].name /\ e.inst[i].flags = s.inst[i].flags
            /\ e.inst[i].origin = s.inst[i].origin
        BY <3>1, <3>3, <3>4, <3>5 DEF Inst
      <4>2. QED BY <4>1, <3>5, <1>1, <1>3 DEF Inst
    <3>7. QED BY <3>3, <3>6, <1>4, ChangedBack
  <2>2. CASE ~SameTerms(m, m2)
    <3>1. d = s BY <2>2, <1>4
    <3>2. PICK p : p = Reordered(ts, m, m) OBVIOUS
    <3>3. SameTerms(m, m) /\ p = ts BY <1>3, <3>2, ReorderSame
    <3>4. InstChanged(s, e, i) /\ e.inst[i] = [s.inst[i] EXCEPT !.iterms = p, !.master = m]
      <4>1. MasterSwapped(s, e, i, m, m) BY <3>1, <1>1, <1>3, <1>5, SwapMasterShape
      <4>2. QED BY <4>1, <3>2, <3>3, <1>1 DEF MasterSwapped
    <3>5. e.inst[i] = s.inst[i] BY <3>3, <3>4, <1>1, <1>3 DEF Inst, InstChanged
    <3>6. QED BY <3>1, <3>4, <3>5, <1>4, ChangedBack
  <2>3. QED BY <2>1, <2>2
<1>9. entry \in Entry
  BY <1>2, <1>3 DEF Entry
<1>10. ObjectsExist(entry, d)
  BY <1>2, <1>6, <1>7 DEF ObjectsExist
<1>11. ~UndoThrows(entry, d)
  BY <1>2, <1>7 DEF UndoThrows
<1>12. UndoEntry(entry, d) = e
  BY <1>2, <1>5 DEF UndoEntry, UndoSwap
<1>13. Redoes(entry, s, d)
  BY <1>2 DEF Redoes, RedoFinds, RedoEntry, RedoSwap
<1>14. QED BY <1>8, <1>9, <1>10, <1>11, <1>12, <1>13 DEF Fits, Undoes

LEMMA InstFlagsSetFits ==
  ASSUME NEW s, Sound(s), NEW i \in LiveInst(s), NEW f \in InstFlags,
         NEW d, d = SetInstFlags(s, i, f), NEW entry, entry = InstFlagsSet(i, s.inst[i].flags, f)
  PROVE  entry \in Entry /\ Fits(entry, s, d)
<1>1. PICK o, e : o = s.inst[i].flags /\ e = SetInstFlags(d, i, o)
  OBVIOUS
<1>2. entry = [act |-> "update", field |-> "inst_flags", id |-> i, prev |-> o, new |-> f]
  BY <1>1 DEF InstFlagsSet
<1>3. s \in Block /\ i \in InstId /\ s.inst[i] \in Inst /\ o \in InstFlags
  BY <1>1, LiveInstFields DEF Sound
<1>4. InstChanged(s, d, i) /\ d.inst[i] = [s.inst[i] EXCEPT !.flags = f]
  BY <1>3, SetInstFlagsShape
<1>5. i \in LiveInst(d) /\ d \in Block BY <1>4 DEF InstChanged
<1>6. InstChanged(d, e, i) /\ e.inst[i] = [d.inst[i] EXCEPT !.flags = o]
  BY <1>1, <1>3, <1>5, SetInstFlagsShape
<1>7. e.inst[i] = s.inst[i] BY <1>1, <1>3, <1>4, <1>6 DEF Inst
<1>8. e = s BY <1>4, <1>6, <1>7, ChangedBack
<1>9. entry \in Entry BY <1>2, <1>3 DEF Entry
<1>10. ObjectsExist(entry, d) /\ ~UndoThrows(entry, d)
  BY <1>2, <1>5 DEF ObjectsExist, UndoThrows
<1>11. UndoEntry(entry, d) = e BY <1>1, <1>2 DEF UndoEntry, UndoUpdate
<1>12. Redoes(entry, s, d)
  BY <1>2 DEF Redoes, RedoFinds, RedoEntry, RedoUpdate
<1>13. QED BY <1>8, <1>9, <1>10, <1>11, <1>12 DEF Fits, Undoes

LEMMA OriginSetFits ==
  ASSUME NEW s, Sound(s), NEW i \in LiveInst(s), NEW x \in Int, ~IsFixed(s, i),
         NEW d, d = PutOrigin(s, i, x), NEW entry, entry = OriginSet(i, s.inst[i].origin, x)
  PROVE  entry \in Entry /\ Fits(entry, s, d)
<1>1. PICK o, e : o = s.inst[i].origin /\ e = PutOrigin(d, i, o)
  OBVIOUS
<1>2. entry = [act |-> "update", field |-> "origin", id |-> i, prev_x |-> o, new_x |-> x]
  BY <1>1 DEF OriginSet
<1>3. s \in Block /\ i \in InstId /\ s.inst[i] \in Inst /\ o \in Int
  BY <1>1, LiveInstFields DEF Sound
<1>4. InstChanged(s, d, i) /\ d.inst[i] = [s.inst[i] EXCEPT !.origin = x]
  BY <1>3, PutOriginShape
<1>5. i \in LiveInst(d) /\ d \in Block BY <1>4 DEF InstChanged
<1>6. InstChanged(d, e, i) /\ e.inst[i] = [d.inst[i] EXCEPT !.origin = o]
  BY <1>1, <1>3, <1>5, PutOriginShape
<1>7. e.inst[i] = s.inst[i] BY <1>1, <1>3, <1>4, <1>6 DEF Inst
<1>8. e = s BY <1>4, <1>6, <1>7, ChangedBack
<1>9. entry \in Entry BY <1>2, <1>3 DEF Entry
<1>10. ObjectsExist(entry, d) BY <1>2, <1>5 DEF ObjectsExist
<1>11. ~UndoThrows(entry, d)
  <2>1. d.inst[i].flags = s.inst[i].flags BY <1>3, <1>4 DEF Inst
  <2>2. QED BY <2>1, <1>2 DEF UndoThrows, OriginHeld, IsFixed
<1>12. UndoEntry(entry, d) = e BY <1>1, <1>2 DEF UndoEntry, UndoUpdate
<1>13. Redoes(entry, s, d)
  BY <1>2 DEF Redoes, RedoFinds, RedoEntry, RedoUpdate, OriginHeld, IsFixed
<1>14. QED BY <1>8, <1>9, <1>10, <1>11, <1>12, <1>13 DEF Fits, Undoes

LEMMA NetFlagsSetFits ==
  ASSUME NEW s, Sound(s), NEW n \in LiveNet(s), NEW f \in NetFlags,
         NEW d, d = SetNetFlags(s, n, f), NEW entry, entry = NetFlagsSet(n, s.net[n].flags, f)
  PROVE  entry \in Entry /\ Fits(entry, s, d)
<1>1. PICK o, e : o = s.net[n].flags /\ e = SetNetFlags(d, n, o)
  OBVIOUS
<1>2. entry = [act |-> "update", field |-> "net_flags", id |-> n, prev |-> o, new |-> f]
  BY <1>1 DEF NetFlagsSet
<1>3. n \in NetId /\ o \in NetFlags
  BY <1>1, LiveNetFields DEF Sound
<1>4. n \in LiveNet(d) /\ e = s
  BY <1>1, NetFlagsBack
<1>5. entry \in Entry BY <1>2, <1>3 DEF Entry
<1>6. ObjectsExist(entry, d) /\ ~UndoThrows(entry, d)
  BY <1>2, <1>4 DEF ObjectsExist, UndoThrows
<1>7. UndoEntry(entry, d) = e BY <1>1, <1>2 DEF UndoEntry, UndoUpdate
<1>8. Redoes(entry, s, d)
  BY <1>2 DEF Redoes, RedoFinds, RedoEntry, RedoUpdate
<1>9. QED BY <1>4, <1>5, <1>6, <1>7, <1>8 DEF Fits, Undoes

-----------------------------------------------------------------------------
(***************************************************************************)
(* Undoing any entry whose objects exist keeps a block sound, whatever     *)
(* block the entry was written in.                                         *)
(***************************************************************************)
IsInstCreated(e) == e.act = "create" /\ e.obj = "inst"
IsInstDeleted(e) ==
  /\ e.act = "delete" /\ e.obj = "inst"
  /\ e.name \in InstName /\ e.master \in Master /\ e.flags \in InstFlags /\ e.origin \in Int
IsNetCreated(e) == e.act = "create" /\ e.obj = "net"
IsNetDeleted(e) ==
  e.act = "delete" /\ e.obj = "net" /\ e.name \in NetName /\ e.flags \in NetFlags
IsConnected(e) == e.act = "connect"
IsDisconnected(e) == e.act = "disconnect"
IsSwapped(e) == e.act = "swap" /\ e.prev \in Master
IsInstFlagsSet(e) == e.act = "update" /\ e.field = "inst_flags" /\ e.prev \in InstFlags
IsOriginSet(e) == e.act = "update" /\ e.field = "origin" /\ e.prev_x \in Int
IsNetFlagsSet(e) == e.act = "update" /\ e.field = "net_flags" /\ e.prev \in NetFlags

LEMMA EntryKinds ==
  ASSUME NEW e \in Entry
  PROVE  \/ IsInstCreated(e) \/ IsInstDeleted(e) \/ IsNetCreated(e) \/ IsNetDeleted(e)
         \/ IsConnected(e) \/ IsDisconnected(e) \/ IsSwapped(e)
         \/ IsInstFlagsSet(e) \/ IsOriginSet(e) \/ IsNetFlagsSet(e)
BY DEF Entry, IsInstCreated, IsInstDeleted, IsNetCreated, IsNetDeleted, IsConnected,
       IsDisconnected, IsSwapped, IsInstFlagsSet, IsOriginSet, IsNetFlagsSet

\* Undoing a deletion, up to the point where setLocation may throw.
LEMMA RecreatedSound ==
  ASSUME NEW s, Sound(s), NEW e, IsInstDeleted(e), ObjectsExist(e, s),
         NEW d, d = Recreated(e, s)
  PROVE  Sound(d) /\ Head(s.inst_tbl) \in LiveInst(d)
<1>1. RoomForInst(s, e.master) /\ ~InstNameTaken(s, e.name)
  BY DEF ObjectsExist, IsInstDeleted
<1>2. PICK nm, m, f, i, ts, c :
        /\ nm = e.name /\ m = e.master /\ f = e.flags /\ i = Head(s.inst_tbl)
        /\ ts = SubSeq(s.iterm_tbl, 1, Len(MTerms[m])) /\ c = NewInst(s, nm, m)
  OBVIOUS
<1>3. nm \in InstName /\ m \in Master /\ f \in InstFlags /\ RoomForInst(s, m) /\ ~InstNameTaken(s, nm)
  BY <1>1, <1>2 DEF IsInstDeleted
<1>4. InstAdded(s, c, nm, m, i, ts)
  BY <1>2, <1>3, NewInstShape
<1>5. Sound(c)
  BY <1>2, <1>3, NewInstSound
<1>6. i \in LiveInst(c) /\ c \in Block BY <1>4 DEF InstAdded
<1>7. d = SetInstFlags(c, i, f) BY <1>2 DEF Recreated
<1>8. InstChanged(c, d, i) BY <1>3, <1>6, <1>7, SetInstFlagsShape
<1>9. Sound(d) BY <1>5, <1>8, InstChangedSound
<1>10. QED BY <1>2, <1>6, <1>8, <1>9 DEF InstChanged

LEMMA UndoSound ==
  ASSUME NEW s, Sound(s), NEW e \in Entry, ObjectsExist(e, s), NEW d, d = UndoEntry(e, s)
  PROVE  Sound(d)
<1>0. s \in Block BY DEF Sound
<1>1. CASE IsInstCreated(e)
  <2>1. PICK i : i = e.id OBVIOUS
  <2>2. i \in LiveInst(s) /\ d = FreeInst(s, i)
    BY <1>1, <2>1 DEF IsInstCreated, ObjectsExist, UndoEntry, UndoCreate
  <2>3. QED BY <2>2, FreeInstSound
<1>2. CASE IsInstDeleted(e)
  <2>1. PICK c, i, x : c = Recreated(e, s) /\ i = Head(s.inst_tbl) /\ x = e.origin - Shift[e.flags.orient]
    OBVIOUS
  <2>2. Sound(c) /\ i \in LiveInst(c) BY <1>2, <2>1, RecreatedSound
  <2>3. x \in Int
    <3>1. e.flags.orient \in Orient /\ e.origin \in Int BY <1>2 DEF IsInstDeleted, InstFlags
    <3>2. Shift[e.flags.orient] \in Int BY <3>1, NetlistAssumption
    <3>3. QED BY <2>1, <3>1, <3>2
  <2>4. d = PutOrigin(c, i, x)
    BY <1>2, <2>1 DEF IsInstDeleted, UndoEntry, UndoDelete, PlacedBack
  <2>5. c \in Block BY <2>2 DEF Sound
  <2>6. InstChanged(c, d, i) BY <2>2, <2>3, <2>4, <2>5, PutOriginShape
  <2>7. QED BY <2>2, <2>6, InstChangedSound
<1>3. CASE IsNetCreated(e)
  <2>1. PICK n : n = e.id OBVIOUS
  <2>2. n \in LiveNet(s) /\ PinsOn(s, n) = {} /\ d = FreeNet(s, n)
    BY <1>3, <2>1 DEF IsNetCreated, ObjectsExist, UndoEntry, UndoCreate
  <2>3. QED BY <2>2, FreeNetSound
<1>4. CASE IsNetDeleted(e)
  <2>1. PICK nm, f, n, c, r :
          /\ nm = e.name /\ f = e.flags /\ n = Head(s.net_tbl) /\ c = NewNet(s, nm)
          /\ r = [name |-> nm, flags |-> NewNetFlags]
    OBVIOUS
  <2>2. /\ nm \in NetName /\ f \in NetFlags /\ RoomForNet(s) /\ ~NetNameTaken(s, nm)
        /\ d = SetNetFlags(c, n, f)
    BY <1>4, <2>1 DEF IsNetDeleted, ObjectsExist, UndoEntry, UndoDelete
  <2>3. n \in LiveNet(c) BY <2>1, <2>2, NewNetShape
  <2>4. Sound(c) BY <2>1, <2>2, NewNetSound
  <2>5. QED BY <2>2, <2>3, <2>4, SetNetFlagsSound
<1>5. CASE IsConnected(e)
  <2>1. PICK t, n : t = e.pin /\ n = 0 OBVIOUS
  <2>2. t \in LivePin(s) /\ d = SetPinNet(s, t, n) /\ NetOrNone(s, n)
    BY <1>5, <2>1 DEF IsConnected, ObjectsExist, UndoEntry, UndoConnect, NetOrNone
  <2>3. QED BY <2>2, SetPinNetSound
<1>6. CASE IsDisconnected(e)
  <2>1. PICK t, n : t = e.pin /\ n = e.net OBVIOUS
  <2>2. t \in LivePin(s) /\ d = SetPinNet(s, t, n) /\ NetOrNone(s, n)
    BY <1>6, <2>1 DEF IsDisconnected, ObjectsExist, UndoEntry, UndoDisconnect, NetOrNone
  <2>3. QED BY <2>2, SetPinNetSound
<1>7. CASE IsSwapped(e)
  <2>1. PICK i, m, p : i = e.inst /\ m = e.prev /\ p = s.inst[i].master OBVIOUS
  <2>2. i \in LiveInst(s) /\ HasAllPins(s, i) /\ m \in Master /\ d = SwapMaster(s, i, m)
    BY <1>7, <2>1 DEF IsSwapped, ObjectsExist, UndoEntry, UndoSwap
  <2>3. InstChanged(s, d, i)
    <3>1. MasterSwapped(s, d, i, p, m) BY <1>0, <2>1, <2>2, SwapMasterShape
    <3>2. QED BY <3>1 DEF MasterSwapped
  <2>4. QED BY <2>3, InstChangedSound
<1>8. CASE IsInstFlagsSet(e)
  <2>1. PICK i, f : i = e.id /\ f = e.prev OBVIOUS
  <2>2. i \in LiveInst(s) /\ f \in InstFlags /\ d = SetInstFlags(s, i, f)
    BY <1>8, <2>1 DEF IsInstFlagsSet, ObjectsExist, UndoEntry, UndoUpdate
  <2>3. InstChanged(s, d, i) BY <1>0, <2>2, SetInstFlagsShape
  <2>4. QED BY <2>3, InstChangedSound
<1>9. CASE IsOriginSet(e)
  <2>1. PICK i, x : i = e.id /\ x = e.prev_x OBVIOUS
  <2>2. i \in LiveInst(s) /\ x \in Int /\ d = PutOrigin(s, i, x)
    BY <1>9, <2>1 DEF IsOriginSet, ObjectsExist, UndoEntry, UndoUpdate
  <2>3. InstChanged(s, d, i) BY <1>0, <2>2, PutOriginShape
  <2>4. QED BY <2>3, InstChangedSound
<1>10. CASE IsNetFlagsSet(e)
  <2>1. PICK n, f : n = e.id /\ f = e.prev OBVIOUS
  <2>2. n \in LiveNet(s) /\ f \in NetFlags /\ d = SetNetFlags(s, n, f)
    BY <1>10, <2>1 DEF IsNetFlagsSet, ObjectsExist, UndoEntry, UndoUpdate
  <2>3. QED BY <2>2, SetNetFlagsSound
<1>11. QED
  BY <1>1, <1>2, <1>3, <1>4, <1>5, <1>6, <1>7, <1>8, <1>9, <1>10, EntryKinds

\* And so does the exception that undoing a deletion can end with.
LEMMA ThrowSound ==
  ASSUME NEW s, Sound(s), NEW e \in Entry, ObjectsExist(e, s), NEW d, d = AfterThrow(e, s)
  PROVE  Sound(d)
<1>1. CASE e.act = "delete" /\ e.obj = "inst"
  <2>1. IsInstDeleted(e) BY <1>1, EntryKinds DEF IsInstCreated, IsInstDeleted, IsNetCreated,
          IsNetDeleted, IsConnected, IsDisconnected, IsSwapped, IsInstFlagsSet, IsOriginSet,
          IsNetFlagsSet
  <2>2. QED BY <1>1, <2>1, RecreatedSound DEF AfterThrow
<1>2. CASE ~(e.act = "delete" /\ e.obj = "inst")
  BY <1>2 DEF AfterThrow
<1>3. QED BY <1>1, <1>2

-----------------------------------------------------------------------------
(***************************************************************************)
(* Marks taken off.  A block that is Back at another differs from it in    *)
(* dont_touch marks alone, and has no more of them: an entry that can be   *)
(* undone in the one can be undone in the other, and leads back again.     *)
(***************************************************************************)
LEMMA UnmarkedInst ==
  ASSUME NEW r \in Inst, NEW u, u = Unmarked(r)
  PROVE  /\ u \in Inst /\ u # NoObj /\ u.name = r.name /\ u.master = r.master
         /\ u.origin = r.origin /\ u.iterms = r.iterms
         /\ u.flags = [r.flags EXCEPT !.dont_touch = FALSE]
         /\ u.flags.status = r.flags.status /\ u.flags.orient = r.flags.orient
         /\ u.flags.dont_touch = FALSE
         /\ Unmarked(u) = u
<1>1. r.flags \in InstFlags BY DEF Inst
<1>2. PICK f : f = [r.flags EXCEPT !.dont_touch = FALSE]
  OBVIOUS
<1>3. /\ f \in InstFlags /\ f.status = r.flags.status /\ f.orient = r.flags.orient
      /\ f.dont_touch = FALSE /\ [f EXCEPT !.dont_touch = FALSE] = f
  BY <1>1, <1>2 DEF InstFlags
<1>4. u = [r EXCEPT !.flags = f] BY <1>2 DEF Unmarked
<1>5. /\ u \in Inst /\ u.name = r.name /\ u.master = r.master /\ u.origin = r.origin
      /\ u.iterms = r.iterms /\ u.flags = f
  BY <1>3, <1>4 DEF Inst
<1>6. Unmarked(u) = [u EXCEPT !.flags = f] BY <1>3, <1>5 DEF Unmarked
<1>7. [u EXCEPT !.flags = f] = u BY <1>5 DEF Inst
<1>8. QED BY <1>2, <1>3, <1>5, <1>6, <1>7, NetlistAssumption

LEMMA UnmarkedNet ==
  ASSUME NEW r \in Net, NEW u, u = Unmarked(r)
  PROVE  /\ u \in Net /\ u # NoObj /\ u.name = r.name
         /\ u.flags.sig_type = r.flags.sig_type /\ u.flags.dont_touch = FALSE
         /\ Unmarked(u) = u
<1>1. r.flags \in NetFlags BY DEF Net
<1>2. PICK f : f = [r.flags EXCEPT !.dont_touch = FALSE]
  OBVIOUS
<1>3. /\ f \in NetFlags /\ f.sig_type = r.flags.sig_type
      /\ f.dont_touch = FALSE /\ [f EXCEPT !.dont_touch = FALSE] = f
  BY <1>1, <1>2 DEF NetFlags
<1>4. u = [r EXCEPT !.flags = f] BY <1>2 DEF Unmarked
<1>5. u \in Net /\ u.name = r.name /\ u.flags = f
  BY <1>3, <1>4 DEF Net
<1>6. Unmarked(u) = [u EXCEPT !.flags = f] BY <1>3, <1>5 DEF Unmarked
<1>7. [u EXCEPT !.flags = f] = u BY <1>5 DEF Net
<1>8. QED BY <1>3, <1>5, <1>6, <1>7, NetlistAssumption

LEMMA BackAtItself ==
  ASSUME NEW s
  PROVE  Back(s, s)
BY DEF Back

\* Objects, names, places and pins are the same; marks are no more.
Alike(s, b) ==
  /\ LiveInst(s) = LiveInst(b) /\ LivePin(s) = LivePin(b) /\ LiveNet(s) = LiveNet(b)
  /\ \A i \in LiveInst(b) :
       /\ s.inst[i].name = b.inst[i].name /\ s.inst[i].master = b.inst[i].master
       /\ s.inst[i].origin = b.inst[i].origin /\ s.inst[i].iterms = b.inst[i].iterms
       /\ PinsOf(s, i) = PinsOf(b, i)
       /\ s.inst[i].flags.status = b.inst[i].flags.status
       /\ s.inst[i].flags.orient = b.inst[i].flags.orient
       /\ s.inst[i].flags.dont_touch => b.inst[i].flags.dont_touch
       /\ Unmarked(s.inst[i]) = Unmarked(b.inst[i])
  /\ \A n \in LiveNet(b) :
       /\ s.net[n].name = b.net[n].name /\ PinsOn(s, n) = PinsOn(b, n)
       /\ s.net[n].flags.dont_touch => b.net[n].flags.dont_touch
       /\ Unmarked(s.net[n]) = Unmarked(b.net[n])

LEMMA BackIsAlike ==
  ASSUME NEW s \in Block, NEW b \in Block, Back(s, b)
  PROVE  Alike(s, b)
<1>1. ASSUME NEW i \in InstId PROVE s.inst[i] = NoObj <=> b.inst[i] = NoObj
  <2>1. CASE i \in LiveInst(b)
    <3>1. b.inst[i] \in Inst BY <2>1, LiveInstFields
    <3>2. Unmarked(b.inst[i]) # NoObj BY <3>1, UnmarkedInst
    <3>3. QED BY <2>1, <3>2 DEF Back, LiveInst
  <2>2. CASE i \notin LiveInst(b) BY <2>2, <1>1 DEF Back, LiveInst
  <2>3. QED BY <2>1, <2>2
<1>2. ASSUME NEW n \in NetId PROVE s.net[n] = NoObj <=> b.net[n] = NoObj
  <2>1. CASE n \in LiveNet(b)
    <3>1. b.net[n] \in Net BY <2>1, LiveNetFields
    <3>2. Unmarked(b.net[n]) # NoObj BY <3>1, UnmarkedNet
    <3>3. QED BY <2>1, <3>2 DEF Back, LiveNet
  <2>2. CASE n \notin LiveNet(b) BY <2>2, <1>2 DEF Back, LiveNet
  <2>3. QED BY <2>1, <2>2
<1>3. LiveInst(s) = LiveInst(b) /\ LiveNet(s) = LiveNet(b) /\ LivePin(s) = LivePin(b)
  BY <1>1, <1>2 DEF LiveInst, LiveNet, LivePin, Back
<1>4. ASSUME NEW i \in LiveInst(b)
      PROVE  /\ s.inst[i].name = b.inst[i].name /\ s.inst[i].master = b.inst[i].master
             /\ s.inst[i].origin = b.inst[i].origin /\ s.inst[i].iterms = b.inst[i].iterms
             /\ PinsOf(s, i) = PinsOf(b, i)
             /\ s.inst[i].flags.status = b.inst[i].flags.status
             /\ s.inst[i].flags.orient = b.inst[i].flags.orient
             /\ s.inst[i].flags.dont_touch => b.inst[i].flags.dont_touch
             /\ Unmarked(s.inst[i]) = Unmarked(b.inst[i])
  <2>1. PICK r, u : r = b.inst[i] /\ u = Unmarked(r)
    OBVIOUS
  <2>2. r \in Inst /\ i \in InstId BY <2>1, LiveInstFields
  <2>3. s.inst[i] = r \/ s.inst[i] = u BY <2>1, <2>2 DEF Back
  <2>4. QED BY <2>1, <2>2, <2>3, UnmarkedInst DEF PinsOf
<1>5. ASSUME NEW n \in LiveNet(b)
      PROVE  /\ s.net[n].name = b.net[n].name /\ PinsOn(s, n) = PinsOn(b, n)
             /\ s.net[n].flags.dont_touch => b.net[n].flags.dont_touch
             /\ Unmarked(s.net[n]) = Unmarked(b.net[n])
  <2>1. PICK r, u : r = b.net[n] /\ u = Unmarked(r)
    OBVIOUS
  <2>2. r \in Net /\ n \in NetId BY <2>1, LiveNetFields
  <2>3. s.net[n] = r \/ s.net[n] = u BY <2>1, <2>2 DEF Back
  <2>4. PinsOn(s, n) = PinsOn(b, n) BY <1>3 DEF PinsOn, Back
  <2>5. QED BY <2>1, <2>2, <2>3, <2>4, UnmarkedNet
<1>6. QED BY <1>3, <1>4, <1>5 DEF Alike

LEMMA BackTwice ==
  ASSUME NEW s \in Block, NEW b \in Block, NEW c \in Block, Back(s, b), Back(b, c)
  PROVE  Back(s, c)
<1>1. LiveInst(b) = LiveInst(c) /\ LiveNet(b) = LiveNet(c)
  BY BackIsAlike DEF Alike
<1>2. ASSUME NEW i \in InstId
      PROVE  s.inst[i] = c.inst[i] \/ (i \in LiveInst(c) /\ s.inst[i] = Unmarked(c.inst[i]))
  <2>1. CASE i \in LiveInst(c)
    <3>1. Unmarked(b.inst[i]) = Unmarked(c.inst[i]) BY <2>1, BackIsAlike DEF Alike
    <3>2. QED BY <2>1, <3>1, <1>1 DEF Back
  <2>2. CASE i \notin LiveInst(c) BY <2>2, <1>1, <1>2 DEF Back
  <2>3. QED BY <2>1, <2>2
<1>3. ASSUME NEW n \in NetId
      PROVE  s.net[n] = c.net[n] \/ (n \in LiveNet(c) /\ s.net[n] = Unmarked(c.net[n]))
  <2>1. CASE n \in LiveNet(c)
    <3>1. Unmarked(b.net[n]) = Unmarked(c.net[n]) BY <2>1, BackIsAlike DEF Alike
    <3>2. QED BY <2>1, <3>1, <1>1 DEF Back
  <2>2. CASE n \notin LiveNet(c) BY <2>2, <1>1, <1>3 DEF Back
  <2>3. QED BY <2>1, <2>2
<1>4. QED BY <1>2, <1>3 DEF Back

LEMMA BackBare ==
  ASSUME NEW s \in Block, NEW b \in Block, Back(s, b)
  PROVE  Bare(s) = Bare(b)
<1>1. Alike(s, b) BY BackIsAlike
<1>2. /\ [i \in InstId |-> IF i \in LiveInst(s) THEN Unmarked(s.inst[i]) ELSE NoObj]
           = [i \in InstId |-> IF i \in LiveInst(b) THEN Unmarked(b.inst[i]) ELSE NoObj]
      /\ [n \in NetId |-> IF n \in LiveNet(s) THEN Unmarked(s.net[n]) ELSE NoObj]
           = [n \in NetId |-> IF n \in LiveNet(b) THEN Unmarked(b.net[n]) ELSE NoObj]
  BY <1>1 DEF Alike
<1>3. /\ s.pin = b.pin /\ s.inst_tbl = b.inst_tbl /\ s.iterm_tbl = b.iterm_tbl
      /\ s.net_tbl = b.net_tbl
  BY DEF Back
<1>4. QED BY <1>2, <1>3 DEF Bare, Block

\* A bare block is a block, so never the missing log.
LEMMA BareIsBlock ==
  ASSUME NEW s \in Block
  PROVE  Bare(s) \in Block /\ Bare(s) # NoLog
<1>1. \A i \in LiveInst(s) : Unmarked(s.inst[i]) \in Inst BY LiveInstFields, UnmarkedInst
<1>2. \A n \in LiveNet(s) : Unmarked(s.net[n]) \in Net BY LiveNetFields, UnmarkedNet
<1>3. PICK insts, nets :
        /\ insts = [i \in InstId |-> IF i \in LiveInst(s) THEN Unmarked(s.inst[i]) ELSE NoObj]
        /\ nets = [n \in NetId |-> IF n \in LiveNet(s) THEN Unmarked(s.net[n]) ELSE NoObj]
  OBVIOUS
<1>4. insts \in [InstId -> Inst \cup {NoObj}] /\ nets \in [NetId -> Net \cup {NoObj}]
  BY <1>1, <1>2, <1>3
<1>5. Bare(s) = [s EXCEPT !.inst = insts, !.net = nets] BY <1>3 DEF Bare
<1>6. Bare(s) \in Block BY <1>4, <1>5 DEF Block
<1>7. QED BY <1>6, EcoAssumption

\* The same operation on two blocks, one of which is back at the other.
LEMMA BackInstPut ==
  ASSUME NEW s, NEW b, NEW d, NEW e, NEW i, Back(s, b),
         InstChanged(s, d, i), InstChanged(b, e, i),
         d.inst[i] = e.inst[i] \/ d.inst[i] = Unmarked(e.inst[i])
  PROVE  Back(d, e)
<1> USE DEF InstChanged
<1>1. ASSUME NEW j \in InstId
      PROVE  d.inst[j] = e.inst[j] \/ (j \in LiveInst(e) /\ d.inst[j] = Unmarked(e.inst[j]))
  <2>1. CASE j = i BY <2>1
  <2>2. CASE j # i BY <2>2 DEF Back
  <2>3. QED BY <2>1, <2>2
<1>2. \A n \in NetId : d.net[n] = e.net[n] \/ (n \in LiveNet(e) /\ d.net[n] = Unmarked(e.net[n]))
  BY DEF Back
<1>3. QED BY <1>1, <1>2 DEF Back

LEMMA BackNetPut ==
  ASSUME NEW s, NEW b, NEW d, NEW e, NEW n, NEW r, Back(s, b),
         NetPut(s, d, n, r), NetPut(b, e, n, r), d.net_tbl = e.net_tbl
  PROVE  Back(d, e)
<1> USE DEF NetPut
<1>1. ASSUME NEW o \in NetId
      PROVE  d.net[o] = e.net[o] \/ (o \in LiveNet(e) /\ d.net[o] = Unmarked(e.net[o]))
  <2>1. CASE o = n BY <2>1
  <2>2. CASE o # n
    <3>1. o \in LiveNet(b) => o \in LiveNet(e) BY <2>2 DEF LiveNet
    <3>2. QED BY <2>2, <3>1 DEF Back
  <2>3. QED BY <2>1, <2>2
<1>2. \A i \in InstId : d.inst[i] = e.inst[i] \/ (i \in LiveInst(e) /\ d.inst[i] = Unmarked(e.inst[i]))
  BY DEF Back
<1>3. QED BY <1>1, <1>2 DEF Back

LEMMA BackPinMoved ==
  ASSUME NEW s, NEW b, NEW d, NEW e, NEW t, NEW n, Back(s, b),
         PinMoved(s, d, t, n), PinMoved(b, e, t, n)
  PROVE  Back(d, e)
<1> USE DEF PinMoved
<1>1. d.pin = e.pin
  <2>1. \A u \in PinId : d.pin[u] = e.pin[u] BY DEF Back
  <2>2. QED BY <2>1, Fields
<1>2. QED BY <1>1 DEF Back

LEMMA BackFreeInst ==
  ASSUME NEW s, NEW b, Sound(s), Sound(b), Back(s, b), NEW i \in LiveInst(b)
  PROVE  Back(FreeInst(s, i), FreeInst(b, i))
<1>1. PICK d, e, ts : d = FreeInst(s, i) /\ e = FreeInst(b, i) /\ ts = b.inst[i].iterms
  OBVIOUS
<1>2. Alike(s, b) BY BackIsAlike DEF Sound
<1>3. i \in LiveInst(s) /\ s.inst[i].iterms = ts BY <1>1, <1>2 DEF Alike
<1>4. InstRemoved(s, d, i, ts) /\ InstRemoved(b, e, i, ts) BY <1>1, <1>3, FreeInstShape
<1> USE DEF InstRemoved
<1>5. ASSUME NEW j \in InstId
      PROVE  d.inst[j] = e.inst[j] \/ (j \in LiveInst(e) /\ d.inst[j] = Unmarked(e.inst[j]))
  <2>1. CASE j = i BY <2>1, <1>4
  <2>2. CASE j # i
    <3>1. j \in LiveInst(b) => j \in LiveInst(e) BY <1>4, <2>2 DEF LiveInst
    <3>2. QED BY <1>4, <2>2, <3>1 DEF Back
  <2>3. QED BY <2>1, <2>2
<1>6. \A n \in NetId : d.net[n] = e.net[n] \/ (n \in LiveNet(e) /\ d.net[n] = Unmarked(e.net[n]))
  BY <1>4 DEF Back
<1>7. d.pin = e.pin
  <2>1. \A t \in PinId : d.pin[t] = e.pin[t] BY <1>4 DEF Back
  <2>2. d \in Block /\ e \in Block BY <1>4
  <2>3. QED BY <2>1, <2>2, Fields
<1>8. QED BY <1>1, <1>4, <1>5, <1>6, <1>7 DEF Back

LEMMA BackNewInst ==
  ASSUME NEW s, NEW b, Sound(s), Sound(b), Back(s, b),
         NEW nm \in InstName, NEW m \in Master, RoomForInst(b, m)
  PROVE  /\ RoomForInst(s, m) /\ Back(NewInst(s, nm, m), NewInst(b, nm, m))
<1>1. PICK d, e, ts, i : /\ d = NewInst(s, nm, m) /\ e = NewInst(b, nm, m)
                         /\ ts = SubSeq(b.iterm_tbl, 1, Len(MTerms[m])) /\ i = Head(b.inst_tbl)
  OBVIOUS
<1>2. s.inst_tbl = b.inst_tbl /\ s.iterm_tbl = b.iterm_tbl BY DEF Back
<1>3. RoomForInst(s, m) BY <1>2 DEF RoomForInst
<1>4. InstAdded(s, d, nm, m, i, ts) /\ InstAdded(b, e, nm, m, i, ts)
  BY <1>1, <1>2, <1>3, NewInstShape
<1> USE DEF InstAdded
<1>5. ASSUME NEW j \in InstId
      PROVE  d.inst[j] = e.inst[j] \/ (j \in LiveInst(e) /\ d.inst[j] = Unmarked(e.inst[j]))
  <2>1. CASE j = i BY <2>1, <1>4
  <2>2. CASE j # i
    <3>1. j \in LiveInst(b) => j \in LiveInst(e) BY <1>4, <2>2 DEF LiveInst
    <3>2. QED BY <1>4, <2>2, <3>1 DEF Back
  <2>3. QED BY <2>1, <2>2
<1>6. \A n \in NetId : d.net[n] = e.net[n] \/ (n \in LiveNet(e) /\ d.net[n] = Unmarked(e.net[n]))
  BY <1>4 DEF Back
<1>7. d.pin = e.pin
  <2>1. \A t \in PinId : d.pin[t] = e.pin[t] BY <1>4 DEF Back
  <2>2. d \in Block /\ e \in Block BY <1>4
  <2>3. QED BY <2>1, <2>2, Fields
<1>8. d.inst_tbl = e.inst_tbl /\ d.iterm_tbl = e.iterm_tbl /\ d.net_tbl = e.net_tbl
  BY <1>2, <1>4 DEF Back
<1>9. QED BY <1>1, <1>3, <1>5, <1>6, <1>7, <1>8 DEF Back

LEMMA BackSetInstFlags ==
  ASSUME NEW s \in Block, NEW b \in Block, Back(s, b), NEW i \in LiveInst(b), NEW f \in InstFlags
  PROVE  Back(SetInstFlags(s, i, f), SetInstFlags(b, i, f))
<1>1. PICK d, e : d = SetInstFlags(s, i, f) /\ e = SetInstFlags(b, i, f)
  OBVIOUS
<1>2. Alike(s, b) BY BackIsAlike
<1>3. i \in LiveInst(s) BY <1>2 DEF Alike
<1>4. /\ InstChanged(s, d, i) /\ d.inst[i] = [s.inst[i] EXCEPT !.flags = f]
      /\ InstChanged(b, e, i) /\ e.inst[i] = [b.inst[i] EXCEPT !.flags = f]
  BY <1>1, <1>3, SetInstFlagsShape
<1>5. s.inst[i] \in Inst /\ b.inst[i] \in Inst BY <1>3, LiveInstFields
<1>6. /\ s.inst[i].name = b.inst[i].name /\ s.inst[i].master = b.inst[i].master
      /\ s.inst[i].origin = b.inst[i].origin /\ s.inst[i].iterms = b.inst[i].iterms
  BY <1>2 DEF Alike
<1>7. d.inst[i] = e.inst[i] BY <1>4, <1>5, <1>6 DEF Inst
<1>8. QED BY <1>1, <1>4, <1>7, BackInstPut

\* Taking the mark off changes no other field.
LEMMA BackPutOrigin ==
  ASSUME NEW s \in Block, NEW b \in Block, Back(s, b), NEW i \in LiveInst(b), NEW x \in Int
  PROVE  Back(PutOrigin(s, i, x), PutOrigin(b, i, x))
<1>1. PICK d, e, r : d = PutOrigin(s, i, x) /\ e = PutOrigin(b, i, x) /\ r = b.inst[i]
  OBVIOUS
<1>2. Alike(s, b) BY BackIsAlike
<1>3. i \in LiveInst(s) BY <1>2 DEF Alike
<1>4. /\ InstChanged(s, d, i) /\ d.inst[i] = [s.inst[i] EXCEPT !.origin = x]
      /\ InstChanged(b, e, i) /\ e.inst[i] = [b.inst[i] EXCEPT !.origin = x]
  BY <1>1, <1>3, PutOriginShape
<1>5. s.inst[i] \in Inst /\ r \in Inst /\ r.flags \in InstFlags /\ i \in InstId
  BY <1>1, <1>3, LiveInstFields
<1>6. s.inst[i] = r \/ s.inst[i] = Unmarked(r) BY <1>1, <1>5 DEF Back
<1>7. [Unmarked(r) EXCEPT !.origin = x] = Unmarked([r EXCEPT !.origin = x])
  BY <1>5 DEF Unmarked, Inst, InstFlags
<1>8. d.inst[i] = e.inst[i] \/ d.inst[i] = Unmarked(e.inst[i]) BY <1>1, <1>4, <1>6, <1>7
<1>9. QED BY <1>1, <1>4, <1>8, BackInstPut

LEMMA BackSwapMaster ==
  ASSUME NEW s \in Block, NEW b \in Block, Back(s, b), NEW i \in LiveInst(b), NEW m2 \in Master,
         HasAllPins(b, i)
  PROVE  Back(SwapMaster(s, i, m2), SwapMaster(b, i, m2))
<1>1. PICK d, e, r, m : /\ d = SwapMaster(s, i, m2) /\ e = SwapMaster(b, i, m2)
                        /\ r = b.inst[i] /\ m = r.master
  OBVIOUS
<1>2. Alike(s, b) BY BackIsAlike
<1>3. /\ i \in LiveInst(s) /\ HasAllPins(s, i) /\ s.inst[i].master = m
      /\ s.inst[i].iterms = r.iterms
  BY <1>1, <1>2 DEF Alike, HasAllPins
<1>4. MasterSwapped(s, d, i, m, m2) /\ MasterSwapped(b, e, i, m, m2)
  BY <1>1, <1>3, SwapMasterShape
<1>5. CASE ~SameTerms(m, m2)
  <2>1. d = s /\ e = b BY <1>4, <1>5 DEF MasterSwapped
  <2>2. QED BY <2>1, <1>1
<1>6. CASE SameTerms(m, m2)
  <2>1. PICK ts : ts = Reordered(r.iterms, m, m2)
    OBVIOUS
  <2>2. /\ InstChanged(s, d, i) /\ d.inst[i] = [s.inst[i] EXCEPT !.iterms = ts, !.master = m2]
        /\ InstChanged(b, e, i) /\ e.inst[i] = [r EXCEPT !.iterms = ts, !.master = m2]
    BY <1>1, <1>3, <1>4, <1>6, <2>1 DEF MasterSwapped
  <2>3. s.inst[i] \in Inst /\ r \in Inst /\ r.flags \in InstFlags /\ i \in InstId
    BY <1>1, <1>3, LiveInstFields
  <2>4. s.inst[i] = r \/ s.inst[i] = Unmarked(r) BY <1>1, <2>3 DEF Back
  <2>5. [Unmarked(r) EXCEPT !.iterms = ts, !.master = m2]
          = Unmarked([r EXCEPT !.iterms = ts, !.master = m2])
    BY <2>3 DEF Unmarked, Inst, InstFlags
  <2>6. d.inst[i] = e.inst[i] \/ d.inst[i] = Unmarked(e.inst[i]) BY <2>2, <2>4, <2>5
  <2>7. QED BY <1>1, <2>2, <2>6, BackInstPut
<1>7. QED BY <1>5, <1>6

LEMMA BackSetPinNet ==
  ASSUME NEW s \in Block, NEW b \in Block, Back(s, b), NEW t \in LivePin(b), NEW n, NetOrNone(b, n)
  PROVE  Back(SetPinNet(s, t, n), SetPinNet(b, t, n))
<1>1. PICK d, e : d = SetPinNet(s, t, n) /\ e = SetPinNet(b, t, n)
  OBVIOUS
<1>2. t \in LivePin(s) /\ NetOrNone(s, n) BY BackIsAlike DEF Alike, NetOrNone
<1>3. PinMoved(s, d, t, n) /\ PinMoved(b, e, t, n) BY <1>1, <1>2, SetPinNetShape
<1>4. QED BY <1>1, <1>3, BackPinMoved

LEMMA BackNewNet ==
  ASSUME NEW s, NEW b, Sound(s), Sound(b), Back(s, b), NEW nm \in NetName, RoomForNet(b)
  PROVE  Back(NewNet(s, nm), NewNet(b, nm))
<1>1. PICK d, e, n, r : /\ d = NewNet(s, nm) /\ e = NewNet(b, nm) /\ n = Head(b.net_tbl)
                        /\ r = [name |-> nm, flags |-> NewNetFlags]
  OBVIOUS
<1>2. s.net_tbl = b.net_tbl BY DEF Back
<1>3. RoomForNet(s) BY <1>2 DEF RoomForNet
<1>4. /\ NetPut(s, d, n, r) /\ d.net_tbl = Tail(s.net_tbl)
      /\ NetPut(b, e, n, r) /\ e.net_tbl = Tail(b.net_tbl)
  BY <1>1, <1>2, <1>3, NewNetShape
<1>5. QED BY <1>1, <1>2, <1>4, BackNetPut

LEMMA BackFreeNet ==
  ASSUME NEW s, NEW b, Sound(s), Sound(b), Back(s, b), NEW n \in LiveNet(b)
  PROVE  Back(FreeNet(s, n), FreeNet(b, n))
<1>1. PICK d, e, r : d = FreeNet(s, n) /\ e = FreeNet(b, n) /\ r = NoObj
  OBVIOUS
<1>2. n \in LiveNet(s) /\ s.net_tbl = b.net_tbl
  BY BackIsAlike DEF Alike, Back, Sound
<1>3. /\ NetPut(s, d, n, r) /\ d.net_tbl = <<n>> \o s.net_tbl
      /\ NetPut(b, e, n, r) /\ e.net_tbl = <<n>> \o b.net_tbl
  BY <1>1, <1>2, FreeNetShape
<1>4. QED BY <1>1, <1>2, <1>3, BackNetPut

LEMMA BackSetNetFlags ==
  ASSUME NEW s \in Block, NEW b \in Block, Back(s, b), NEW n \in LiveNet(b), NEW f \in NetFlags
  PROVE  Back(SetNetFlags(s, n, f), SetNetFlags(b, n, f))
<1>1. PICK d, e, q, r : /\ d = SetNetFlags(s, n, f) /\ e = SetNetFlags(b, n, f)
                        /\ q = [s.net[n] EXCEPT !.flags = f] /\ r = [b.net[n] EXCEPT !.flags = f]
  OBVIOUS
<1>2. n \in LiveNet(s) /\ s.net[n].name = b.net[n].name /\ s.net_tbl = b.net_tbl
  BY BackIsAlike DEF Alike, Back
<1>3. /\ NetPut(s, d, n, q) /\ d.net_tbl = s.net_tbl
      /\ NetPut(b, e, n, r) /\ e.net_tbl = b.net_tbl
  BY <1>1, <1>2, SetNetFlagsShape
<1>4. s.net[n] \in Net /\ b.net[n] \in Net BY <1>2, LiveNetFields
<1>5. q = r BY <1>1, <1>2, <1>4 DEF Net
<1>6. QED BY <1>1, <1>2, <1>3, <1>5, BackNetPut

\* What undoing an entry asks for, and what it does, in the one block and in
\* the other.
LEMMA BackFinds ==
  ASSUME NEW s, NEW b, Sound(s), Sound(b), Back(s, b), NEW e \in Entry, ObjectsExist(e, b)
  PROVE  ObjectsExist(e, s)
<1>1. Alike(s, b) BY BackIsAlike DEF Sound
<1>2. /\ s.pin = b.pin /\ s.inst_tbl = b.inst_tbl /\ s.iterm_tbl = b.iterm_tbl
      /\ s.net_tbl = b.net_tbl
  BY DEF Back
<1>3. /\ \A m : RoomForInst(s, m) <=> RoomForInst(b, m)
      /\ RoomForNet(s) <=> RoomForNet(b)
  BY <1>2 DEF RoomForInst, RoomForNet
<1>4. /\ \A nm : InstNameTaken(s, nm) <=> InstNameTaken(b, nm)
      /\ \A nm : NetNameTaken(s, nm) <=> NetNameTaken(b, nm)
  BY <1>1 DEF Alike, InstNameTaken, NetNameTaken
<1>5. \A i \in LiveInst(b) : HasAllPins(s, i) <=> HasAllPins(b, i)
  BY <1>1 DEF Alike, HasAllPins
<1>6. CASE IsInstCreated(e) BY <1>1, <1>2, <1>6 DEF IsInstCreated, ObjectsExist, Alike
<1>7. CASE IsInstDeleted(e) BY <1>3, <1>4, <1>7 DEF IsInstDeleted, ObjectsExist
<1>8. CASE IsNetCreated(e) BY <1>1, <1>8 DEF IsNetCreated, ObjectsExist, Alike
<1>9. CASE IsNetDeleted(e) BY <1>3, <1>4, <1>9 DEF IsNetDeleted, ObjectsExist
<1>10. CASE IsConnected(e) BY <1>1, <1>10 DEF IsConnected, ObjectsExist, Alike
<1>11. CASE IsDisconnected(e) BY <1>1, <1>11 DEF IsDisconnected, ObjectsExist, Alike
<1>12. CASE IsSwapped(e) BY <1>1, <1>5, <1>12 DEF IsSwapped, ObjectsExist, Alike
<1>13. CASE IsInstFlagsSet(e) BY <1>1, <1>13 DEF IsInstFlagsSet, ObjectsExist, Alike
<1>14. CASE IsOriginSet(e) BY <1>1, <1>14 DEF IsOriginSet, ObjectsExist, Alike
<1>15. CASE IsNetFlagsSet(e) BY <1>1, <1>15 DEF IsNetFlagsSet, ObjectsExist, Alike
<1>16. QED
  BY <1>6, <1>7, <1>8, <1>9, <1>10, <1>11, <1>12, <1>13, <1>14, <1>15, EntryKinds

LEMMA BackRecreated ==
  ASSUME NEW s, NEW b, Sound(s), Sound(b), Back(s, b), NEW e, IsInstDeleted(e), ObjectsExist(e, b)
  PROVE  Back(Recreated(e, s), Recreated(e, b))
<1>1. PICK nm, m, f, i, c, d :
        /\ nm = e.name /\ m = e.master /\ f = e.flags /\ i = Head(b.inst_tbl)
        /\ c = NewInst(s, nm, m) /\ d = NewInst(b, nm, m)
  OBVIOUS
<1>2. nm \in InstName /\ m \in Master /\ f \in InstFlags /\ RoomForInst(b, m) /\ Head(s.inst_tbl) = i
  BY <1>1 DEF IsInstDeleted, ObjectsExist, Back
<1>3. RoomForInst(s, m) /\ Back(c, d) BY <1>1, <1>2, BackNewInst
<1>4. PICK ts : ts = SubSeq(b.iterm_tbl, 1, Len(MTerms[m]))
  OBVIOUS
<1>5. s.iterm_tbl = b.iterm_tbl BY DEF Back
<1>6. InstAdded(s, c, nm, m, i, ts) /\ InstAdded(b, d, nm, m, i, ts)
  BY <1>1, <1>2, <1>3, <1>4, <1>5, NewInstShape
<1>7. c \in Block /\ d \in Block /\ i \in LiveInst(d) BY <1>6 DEF InstAdded
<1>8. Back(SetInstFlags(c, i, f), SetInstFlags(d, i, f)) BY <1>2, <1>3, <1>7, BackSetInstFlags
<1>9. QED BY <1>1, <1>2, <1>8 DEF Recreated

LEMMA BackHeld ==
  ASSUME NEW s \in Block, NEW b \in Block, Back(s, b), NEW i \in LiveInst(b), NEW x
  PROVE  OriginHeld(s, i, x) <=> OriginHeld(b, i, x)
BY BackIsAlike DEF Alike, OriginHeld

LEMMA BackDoesNotThrow ==
  ASSUME NEW s, NEW b, Sound(s), Sound(b), Back(s, b), NEW e \in Entry, ObjectsExist(e, b),
         ~UndoThrows(e, b)
  PROVE  ~UndoThrows(e, s)
<1>1. Alike(s, b) /\ s \in Block /\ b \in Block BY BackIsAlike DEF Sound
<1>2. s.pin = b.pin /\ s.inst_tbl = b.inst_tbl BY DEF Back
<1>3. ASSUME NEW t \in LivePin(b), PinHeld(s, t) PROVE PinHeld(b, t)
  <2>1. b.pin[t].inst \in LiveInst(b) /\ (b.pin[t].net # 0 => b.pin[t].net \in LiveNet(b))
    BY DEF Sound, NoOrphanPin
  <2>2. QED BY <1>1, <1>2, <1>3, <2>1 DEF PinHeld, Alike
<1>4. CASE IsInstCreated(e) BY <1>1, <1>4 DEF IsInstCreated, ObjectsExist, UndoThrows, Alike
<1>5. CASE IsInstDeleted(e)
  <2>1. PICK c, d, i, x : /\ c = Recreated(e, s) /\ d = Recreated(e, b) /\ i = Head(b.inst_tbl)
                          /\ x = e.origin - Shift[e.flags.orient]
    OBVIOUS
  <2>2. Back(c, d) BY <1>5, <2>1, BackRecreated
  <2>3. ObjectsExist(e, s) BY BackFinds
  <2>4. Sound(c) /\ Sound(d) /\ i \in LiveInst(d) BY <1>5, <2>1, <2>3, RecreatedSound
  <2>5. OriginHeld(c, i, x) <=> OriginHeld(d, i, x) BY <2>2, <2>4, BackHeld DEF Sound
  <2>6. QED BY <1>2, <1>5, <2>1, <2>5 DEF IsInstDeleted, UndoThrows
<1>6. CASE IsNetCreated(e) BY <1>1, <1>6 DEF IsNetCreated, ObjectsExist, UndoThrows, Alike
<1>7. CASE IsNetDeleted(e) BY <1>7 DEF IsNetDeleted, UndoThrows
<1>8. CASE IsConnected(e) BY <1>2, <1>3, <1>8 DEF IsConnected, ObjectsExist, UndoThrows
<1>9. CASE IsDisconnected(e)
  BY <1>1, <1>2, <1>3, <1>9 DEF IsDisconnected, ObjectsExist, UndoThrows, Alike
<1>10. CASE IsSwapped(e) BY <1>1, <1>10 DEF IsSwapped, ObjectsExist, UndoThrows, Alike
<1>11. CASE IsInstFlagsSet(e) BY <1>11 DEF IsInstFlagsSet, UndoThrows
<1>12. CASE IsOriginSet(e)
  <2>1. PICK i, x : i = e.id /\ x = e.prev_x OBVIOUS
  <2>2. i \in LiveInst(b) BY <1>12, <2>1 DEF IsOriginSet, ObjectsExist
  <2>3. OriginHeld(s, i, x) <=> OriginHeld(b, i, x) BY <1>1, <2>2, BackHeld
  <2>4. QED BY <1>12, <2>1, <2>3 DEF IsOriginSet, UndoThrows
<1>13. CASE IsNetFlagsSet(e) BY <1>13 DEF IsNetFlagsSet, UndoThrows
<1>14. QED
  BY <1>4, <1>5, <1>6, <1>7, <1>8, <1>9, <1>10, <1>11, <1>12, <1>13, EntryKinds

LEMMA BackUndone ==
  ASSUME NEW s, NEW b, Sound(s), Sound(b), Back(s, b), NEW e \in Entry, ObjectsExist(e, b)
  PROVE  Back(UndoEntry(e, s), UndoEntry(e, b))
<1>0. s \in Block /\ b \in Block BY DEF Sound
<1>1. CASE IsInstCreated(e)
  <2>1. PICK i : i = e.id OBVIOUS
  <2>2. i \in LiveInst(b) BY <1>1, <2>1 DEF IsInstCreated, ObjectsExist
  <2>3. Back(FreeInst(s, i), FreeInst(b, i)) BY <2>2, BackFreeInst
  <2>4. QED BY <1>1, <2>1, <2>3 DEF IsInstCreated, UndoEntry, UndoCreate
<1>2. CASE IsInstDeleted(e)
  <2>1. PICK c, d, i, x : /\ c = Recreated(e, s) /\ d = Recreated(e, b) /\ i = Head(b.inst_tbl)
                          /\ x = e.origin - Shift[e.flags.orient]
    OBVIOUS
  <2>2. Back(c, d) BY <1>2, <2>1, BackRecreated
  <2>3. ObjectsExist(e, s) BY BackFinds
  <2>4. Sound(c) /\ Sound(d) /\ i \in LiveInst(d) BY <1>2, <2>1, <2>3, RecreatedSound
  <2>5. x \in Int
    <3>1. e.flags.orient \in Orient /\ e.origin \in Int BY <1>2 DEF IsInstDeleted, InstFlags
    <3>2. Shift[e.flags.orient] \in Int BY <3>1, NetlistAssumption
    <3>3. QED BY <2>1, <3>1, <3>2
  <2>6. Back(PutOrigin(c, i, x), PutOrigin(d, i, x)) BY <2>2, <2>4, <2>5, BackPutOrigin DEF Sound
  <2>7. Head(s.inst_tbl) = i BY <2>1 DEF Back
  <2>8. QED BY <1>2, <2>1, <2>6, <2>7 DEF IsInstDeleted, UndoEntry, UndoDelete, PlacedBack
<1>3. CASE IsNetCreated(e)
  <2>1. PICK n : n = e.id OBVIOUS
  <2>2. n \in LiveNet(b) BY <1>3, <2>1 DEF IsNetCreated, ObjectsExist
  <2>3. Back(FreeNet(s, n), FreeNet(b, n)) BY <2>2, BackFreeNet
  <2>4. QED BY <1>3, <2>1, <2>3 DEF IsNetCreated, UndoEntry, UndoCreate
<1>4. CASE IsNetDeleted(e)
  <2>1. PICK nm, f, n, c, d : /\ nm = e.name /\ f = e.flags /\ n = Head(b.net_tbl)
                              /\ c = NewNet(s, nm) /\ d = NewNet(b, nm)
    OBVIOUS
  <2>2. nm \in NetName /\ f \in NetFlags /\ RoomForNet(b) /\ Head(s.net_tbl) = n
    BY <1>4, <2>1 DEF IsNetDeleted, ObjectsExist, Back
  <2>3. RoomForNet(s) BY <2>2 DEF RoomForNet, Back
  <2>4. Back(c, d) BY <2>1, <2>2, BackNewNet
  <2>5. PICK r : r = [name |-> nm, flags |-> NewNetFlags]
    OBVIOUS
  <2>6. NetPut(s, c, n, r) /\ NetPut(b, d, n, r) /\ n \in LiveNet(d)
    BY <2>1, <2>2, <2>3, <2>5, NewNetShape
  <2>7. Back(SetNetFlags(c, n, f), SetNetFlags(d, n, f))
    BY <2>2, <2>4, <2>6, BackSetNetFlags DEF NetPut
  <2>8. QED BY <1>4, <2>1, <2>2, <2>7 DEF IsNetDeleted, UndoEntry, UndoDelete
<1>5. CASE IsConnected(e)
  <2>1. PICK t, n : t = e.pin /\ n = 0 OBVIOUS
  <2>2. t \in LivePin(b) /\ NetOrNone(b, n)
    BY <1>5, <2>1 DEF IsConnected, ObjectsExist, NetOrNone
  <2>3. Back(SetPinNet(s, t, n), SetPinNet(b, t, n)) BY <1>0, <2>2, BackSetPinNet
  <2>4. QED BY <1>5, <2>1, <2>3 DEF IsConnected, UndoEntry, UndoConnect
<1>6. CASE IsDisconnected(e)
  <2>1. PICK t, n : t = e.pin /\ n = e.net OBVIOUS
  <2>2. t \in LivePin(b) /\ NetOrNone(b, n)
    BY <1>6, <2>1 DEF IsDisconnected, ObjectsExist, NetOrNone
  <2>3. Back(SetPinNet(s, t, n), SetPinNet(b, t, n)) BY <1>0, <2>2, BackSetPinNet
  <2>4. QED BY <1>6, <2>1, <2>3 DEF IsDisconnected, UndoEntry, UndoDisconnect
<1>7. CASE IsSwapped(e)
  <2>1. PICK i, m : i = e.inst /\ m = e.prev OBVIOUS
  <2>2. i \in LiveInst(b) /\ HasAllPins(b, i) /\ m \in Master
    BY <1>7, <2>1 DEF IsSwapped, ObjectsExist
  <2>3. Back(SwapMaster(s, i, m), SwapMaster(b, i, m)) BY <1>0, <2>2, BackSwapMaster
  <2>4. QED BY <1>7, <2>1, <2>3 DEF IsSwapped, UndoEntry, UndoSwap
<1>8. CASE IsInstFlagsSet(e)
  <2>1. PICK i, f : i = e.id /\ f = e.prev OBVIOUS
  <2>2. i \in LiveInst(b) /\ f \in InstFlags BY <1>8, <2>1 DEF IsInstFlagsSet, ObjectsExist
  <2>3. Back(SetInstFlags(s, i, f), SetInstFlags(b, i, f)) BY <1>0, <2>2, BackSetInstFlags
  <2>4. QED BY <1>8, <2>1, <2>3 DEF IsInstFlagsSet, UndoEntry, UndoUpdate
<1>9. CASE IsOriginSet(e)
  <2>1. PICK i, x : i = e.id /\ x = e.prev_x OBVIOUS
  <2>2. i \in LiveInst(b) /\ x \in Int BY <1>9, <2>1 DEF IsOriginSet, ObjectsExist
  <2>3. Back(PutOrigin(s, i, x), PutOrigin(b, i, x)) BY <1>0, <2>2, BackPutOrigin
  <2>4. QED BY <1>9, <2>1, <2>3 DEF IsOriginSet, UndoEntry, UndoUpdate
<1>10. CASE IsNetFlagsSet(e)
  <2>1. PICK n, f : n = e.id /\ f = e.prev OBVIOUS
  <2>2. n \in LiveNet(b) /\ f \in NetFlags BY <1>10, <2>1 DEF IsNetFlagsSet, ObjectsExist
  <2>3. Back(SetNetFlags(s, n, f), SetNetFlags(b, n, f)) BY <1>0, <2>2, BackSetNetFlags
  <2>4. QED BY <1>10, <2>1, <2>3 DEF IsNetFlagsSet, UndoEntry, UndoUpdate
<1>11. QED
  BY <1>1, <1>2, <1>3, <1>4, <1>5, <1>6, <1>7, <1>8, <1>9, <1>10, EntryKinds

-----------------------------------------------------------------------------
(***************************************************************************)
(* The invariant for callers that take no care: the block is sound and a   *)
(* call that is running names objects that are there.                      *)
(***************************************************************************)
DestroysInst ==
  /\ call \in [op: {"destroy_inst"}, inst: InstId, k: Nat]
  /\ call.inst \in LiveInst(db) /\ call.k <= Len(db.inst[call.inst].iterms)

DestroysNet ==
  call \in [op: {"destroy_net"}, net: NetId] /\ call.net \in LiveNet(db)

Connects ==
  /\ call \in [op: {"connect"}, pin: PinId, net: NetId]
  /\ call.pin \in LivePin(db) /\ call.net \in LiveNet(db)

Replays ==
  /\ call \in [op: {"undo"}, at: Nat \ {0}]
  /\ pending # NoLog /\ call.at <= Len(pending)

InCall == call = Idle \/ DestroysInst \/ DestroysNet \/ Connects \/ Replays

LogsTyped ==
  /\ journal # NoLog => journal \in Seq(Entry)
  /\ pending # NoLog => pending \in Seq(Entry)

SoundInv == Sound(db) /\ LogsTyped /\ InCall

LEMMA SoundInit ==
  ASSUME Init
  PROVE  SoundInv
<1>1. db \in Block /\ Consistent(db)
  BY EcoAssumption DEF Init
<1>2. Sound(db) BY <1>1, ConsistentIsSound
<1>3. LogsTyped /\ InCall BY DEF Init, LogsTyped, InCall
<1>4. QED BY <1>2, <1>3 DEF SoundInv

\* Which call is running, by its name.
LEMMA Running ==
  ASSUME InCall
  PROVE  /\ call.op = "destroy_inst" => DestroysInst
         /\ call.op = "destroy_net" => DestroysNet
         /\ call.op = "connect" => Connects
         /\ call.op = "undo" => Replays
BY DEF InCall, Idle, DestroysInst, DestroysNet, Connects, Replays

\* An edit neither opens a log nor closes one.
LogKept == journal' = NoLog <=> journal = NoLog

\* An entry is appended to the log, or none.
LEMMA LoggedSound ==
  ASSUME SoundInv, NEW entry \in Entry, Log(entry), Sound(db'), InCall', pending' = pending
  PROVE  SoundInv' /\ LogKept
<1>1. LogsTyped' /\ LogKept
  BY AppendProperties, EcoAssumption DEF SoundInv, LogsTyped, Log, LogKept
<1>2. QED BY <1>1 DEF SoundInv

LEMMA NotLoggedSound ==
  ASSUME SoundInv, NoLogging, Sound(db'), InCall', pending' = pending
  PROVE  SoundInv' /\ LogKept
BY DEF SoundInv, LogsTyped, NoLogging, LogKept

LEMMA ConnectedEntry ==
  ASSUME NEW t \in LivePin(db), NEW n \in LiveNet(db)
  PROVE  Connected(t, n) \in Entry /\ Disconnected(t, n) \in Entry
BY DEF Connected, Disconnected, Entry, LivePin, LiveNet

LEMMA InstCreateSound ==
  ASSUME SoundInv, NEW nm \in InstName, NEW m \in Master, InstCreate(nm, m)
  PROVE  SoundInv' /\ LogKept
<1>1. PICK s, d, entry :
        s = db /\ d = db' /\ entry = InstCreated(Head(db.inst_tbl), nm, m)
  OBVIOUS
<1>2. /\ Sound(s) /\ ~InstNameTaken(s, nm) /\ RoomForInst(s, m) /\ d = NewInst(s, nm, m)
      /\ Log(entry) /\ call' = Idle /\ pending' = pending
  BY <1>1 DEF InstCreate, Begins, Whole, SoundInv
<1>3. Sound(d) BY <1>2, NewInstSound
<1>4. entry \in Entry BY <1>1, <1>2, InstCreatedFits
<1>5. InCall' BY <1>2 DEF InCall
<1>6. QED BY <1>1, <1>2, <1>3, <1>4, <1>5, LoggedSound

LEMMA InstDestroyBeginSound ==
  ASSUME SoundInv, NEW i \in InstId, InstDestroyBegin(i)
  PROVE  SoundInv' /\ LogKept
<1>1. db' = db /\ NoLogging /\ pending' = pending /\ i \in LiveInst(db)
      /\ call' = [op |-> "destroy_inst", inst |-> i, k |-> Len(db.inst[i].iterms)]
  BY DEF InstDestroyBegin, Begins
<1>2. Sound(db') BY <1>1 DEF SoundInv
<1>3. Len(db.inst[i].iterms) \in Nat
  BY <1>1, LiveInstFields, LenProperties DEF SoundInv, Sound
<1>4. DestroysInst' BY <1>1, <1>3 DEF DestroysInst
<1>5. QED BY <1>1, <1>2, <1>4, NotLoggedSound DEF InCall

LEMMA InstDestroyPinSound ==
  ASSUME SoundInv, InstDestroyPin
  PROVE  SoundInv' /\ LogKept
<1>1. PICK i, k, ts, t, n :
        /\ i = call.inst /\ k = call.k /\ ts = db.inst[i].iterms /\ t = ts[k]
        /\ n = db.pin[t].net
  OBVIOUS
<1>2. DestroysInst /\ k > 0
  BY <1>1, Running DEF InstDestroyPin, SoundInv
<1>3. /\ i \in LiveInst(db) /\ k \in Nat /\ k <= Len(ts) /\ pending' = pending
      /\ call = [op |-> "destroy_inst", inst |-> i, k |-> k]
  BY <1>1, <1>2 DEF DestroysInst, InstDestroyPin, GoesOn
<1>4. /\ Sound(db) /\ db \in Block /\ i \in InstId /\ t \in LivePin(db)
      /\ ts \in Seq(PinId) /\ Len(ts) \in Nat
  BY <1>1, <1>2, <1>3, LiveInstFields, LenProperties
     DEF SoundInv, Sound, OwnPins, PinsOf, Elems, LivePin
<1>5. PICK next : next = [call EXCEPT !.k = k - 1]
  OBVIOUS
<1>6. next = [op |-> "destroy_inst", inst |-> i, k |-> k - 1] /\ k - 1 \in Nat /\ k - 1 <= Len(ts)
  BY <1>2, <1>3, <1>4, <1>5
<1>7. CASE n = 0
  <2>1. db' = db /\ NoLogging /\ call' = next
    BY <1>1, <1>5, <1>7 DEF InstDestroyPin
  <2>2. DestroysInst'
    BY <1>1, <1>3, <1>4, <1>6, <2>1 DEF DestroysInst
  <2>3. QED BY <1>3, <1>4, <2>1, <2>2, NotLoggedSound DEF InCall
<1>8. CASE n # 0 /\ ~db.net[n].flags.dont_touch
  <2>1. PICK s, d, entry, o : s = db /\ d = db' /\ entry = Disconnected(t, n) /\ o = 0
    OBVIOUS
  <2>2. d = SetPinNet(s, t, o) /\ Log(entry) /\ call' = next
    <3>1. d = SetPinNet(s, t, 0) /\ Log(Disconnected(t, n)) /\ call' = [call EXCEPT !.k = @ - 1]
      BY <1>1, <1>8, <2>1 DEF InstDestroyPin
    <3>2. QED BY <3>1, <1>1, <1>5, <2>1
  <2>3. NetOrNone(s, o) /\ Sound(s) /\ t \in LivePin(s) /\ s \in Block
    BY <1>4, <2>1 DEF NetOrNone
  <2>4. Sound(d) BY <2>2, <2>3, SetPinNetSound
  <2>5. n \in LiveNet(db) BY <1>1, <1>4, <1>8 DEF Sound, NoOrphanPin
  <2>6. entry \in Entry BY <2>1, <1>4, <2>5, ConnectedEntry
  <2>7. d.inst = s.inst /\ LiveInst(d) = LiveInst(s)
    <3>1. PinMoved(s, d, t, o) BY <2>2, <2>3, SetPinNetShape
    <3>2. QED BY <3>1 DEF PinMoved
  <2>8. DestroysInst'
    BY <1>1, <1>3, <1>4, <1>6, <2>1, <2>2, <2>7 DEF DestroysInst
  <2>9. QED BY <1>3, <2>1, <2>2, <2>4, <2>6, <2>8, LoggedSound DEF InCall
<1>9. CASE n # 0 /\ db.net[n].flags.dont_touch
  <2>1. PICK s, d, kept, lost :
          s = db /\ d = db' /\ kept = SubSeq(ts, 1, k) /\ lost = SubSeq(ts, k + 1, Len(ts))
    OBVIOUS
  <2>2. /\ d = Dropped(s, i, kept, lost) /\ call' = Idle /\ NoLogging
    BY <1>1, <1>9, <2>1 DEF InstDestroyPin, Dropped, Whole
  <2>3. SplitAt(s.inst[i].iterms, k, kept, lost) /\ k <= Len(s.inst[i].iterms)
    BY <1>1, <1>3, <2>1 DEF SplitAt
  <2>4. Sound(d) BY <1>3, <1>4, <2>1, <2>2, <2>3, DroppedSound
  <2>5. QED BY <1>3, <2>1, <2>2, <2>4, NotLoggedSound DEF InCall
<1>10. QED BY <1>1, <1>7, <1>8, <1>9 DEF InstDestroyPin

LEMMA InstDestroyEndSound ==
  ASSUME SoundInv, InstDestroyEnd
  PROVE  SoundInv' /\ LogKept
<1>1. DestroysInst BY Running DEF InstDestroyEnd, SoundInv
<1>2. PICK s, d, i, entry :
        s = db /\ d = db' /\ i = call.inst /\ entry = InstDeleted(i, db.inst[i])
  OBVIOUS
<1>3. /\ Sound(s) /\ s \in Block /\ i \in LiveInst(s) /\ d = FreeInst(s, i) /\ Log(entry)
      /\ call' = Idle /\ pending' = pending
  BY <1>1, <1>2 DEF InstDestroyEnd, GoesOn, Whole, SoundInv, Sound, DestroysInst
<1>4. Sound(d) BY <1>3, FreeInstSound
<1>5. entry \in Entry BY <1>2, <1>3, InstDeletedEntry
<1>6. QED BY <1>2, <1>3, <1>4, <1>5, LoggedSound DEF InCall

LEMMA InstSwapMasterSound ==
  ASSUME SoundInv, NEW i \in InstId, NEW m2 \in Master, InstSwapMaster(i, m2)
  PROVE  SoundInv' /\ LogKept
<1>1. PICK s, d, m, entry :
        s = db /\ d = db' /\ m = db.inst[i].master /\ entry = Swapped(i, m, m2)
  OBVIOUS
<1>2. /\ Sound(s) /\ s \in Block /\ i \in LiveInst(s) /\ HasAllPins(s, i)
      /\ ~s.inst[i].flags.dont_touch /\ d = SwapMaster(s, i, m2) /\ Log(entry)
      /\ call' = Idle /\ pending' = pending
  BY <1>1 DEF InstSwapMaster, Begins, Whole, SoundInv, Sound
<1>3. InstChanged(s, d, i)
  <2>1. m = s.inst[i].master BY <1>1
  <2>2. MasterSwapped(s, d, i, m, m2) BY <1>2, <2>1, SwapMasterShape
  <2>3. QED BY <2>2 DEF MasterSwapped
<1>4. Sound(d) BY <1>2, <1>3, InstChangedSound
<1>5. entry \in Entry BY <1>1, <1>2, SwappedFits
<1>6. QED BY <1>1, <1>2, <1>4, <1>5, LoggedSound DEF InCall

LEMMA InstSetOriginSound ==
  ASSUME SoundInv, NEW i \in InstId, NEW x \in Loc, InstSetOrigin(i, x)
  PROVE  SoundInv' /\ LogKept
<1>1. PICK s, d, entry :
        s = db /\ d = db' /\ entry = OriginSet(i, db.inst[i].origin, x)
  OBVIOUS
<1>2. /\ Sound(s) /\ s \in Block /\ i \in LiveInst(s) /\ ~IsFixed(s, i) /\ x \in Int
      /\ d = PutOrigin(s, i, x) /\ Log(entry) /\ call' = Idle /\ pending' = pending
  BY <1>1, NetlistAssumption DEF InstSetOrigin, Begins, Whole, SoundInv, Sound
<1>3. InstChanged(s, d, i) BY <1>1, <1>2, PutOriginShape
<1>4. Sound(d) BY <1>2, <1>3, InstChangedSound
<1>5. entry \in Entry BY <1>1, <1>2, OriginSetFits
<1>6. QED BY <1>1, <1>2, <1>4, <1>5, LoggedSound DEF InCall

LEMMA InstSetFlagsSound ==
  ASSUME SoundInv, NEW i \in InstId, NEW f \in InstFlags, InstSetFlags(i, f)
  PROVE  SoundInv' /\ LogKept
<1>1. PICK s, d, entry :
        s = db /\ d = db' /\ entry = InstFlagsSet(i, db.inst[i].flags, f)
  OBVIOUS
<1>2. /\ Sound(s) /\ s \in Block /\ i \in LiveInst(s) /\ d = SetInstFlags(s, i, f)
      /\ Log(entry) /\ call' = Idle /\ pending' = pending
  BY <1>1 DEF InstSetFlags, Begins, Whole, SoundInv, Sound
<1>3. InstChanged(s, d, i) BY <1>1, <1>2, SetInstFlagsShape
<1>4. Sound(d) BY <1>2, <1>3, InstChangedSound
<1>5. entry \in Entry BY <1>1, <1>2, InstFlagsSetFits
<1>6. QED BY <1>1, <1>2, <1>4, <1>5, LoggedSound DEF InCall

LEMMA InstSetDoNotTouchSound ==
  ASSUME SoundInv, NEW i \in InstId, InstSetDoNotTouch(i)
  PROVE  SoundInv' /\ LogKept /\ (AllPins(db) => AllPins(db'))
<1>1. PICK s, d, f :
        /\ s = db /\ d = db'
        /\ f = [db.inst[i].flags EXCEPT !.dont_touch = ~db.inst[i].flags.dont_touch]
  OBVIOUS
<1>2. /\ Sound(s) /\ s \in Block /\ i \in LiveInst(s) /\ NoLogging
      /\ call' = Idle /\ pending' = pending
  BY <1>1 DEF InstSetDoNotTouch, Begins, Whole, SoundInv, Sound
<1>3. f \in InstFlags
  BY <1>1, <1>2, LiveInstFields DEF InstFlags
<1>4. d = SetInstFlags(s, i, f)
  <2>1. d = [s EXCEPT !.inst[i].flags.dont_touch = ~@]
    BY <1>1 DEF InstSetDoNotTouch
  <2>2. QED BY <2>1, <1>1 DEF SetInstFlags
<1>5. InstChanged(s, d, i) BY <1>2, <1>3, <1>4, SetInstFlagsShape
<1>6. Sound(d) /\ (AllPins(s) => AllPins(d)) BY <1>2, <1>5, InstChangedSound
<1>7. QED BY <1>1, <1>2, <1>6, NotLoggedSound DEF InCall

LEMMA NetCreateSound ==
  ASSUME SoundInv, NEW nm \in NetName, NetCreate(nm)
  PROVE  SoundInv' /\ LogKept
<1>1. PICK s, d, entry :
        s = db /\ d = db' /\ entry = NetCreated(Head(db.net_tbl), nm)
  OBVIOUS
<1>2. /\ Sound(s) /\ ~NetNameTaken(s, nm) /\ RoomForNet(s) /\ d = NewNet(s, nm)
      /\ Log(entry) /\ call' = Idle /\ pending' = pending
  BY <1>1 DEF NetCreate, Begins, Whole, SoundInv
<1>3. Sound(d) BY <1>2, NewNetSound
<1>4. entry \in Entry BY <1>1, <1>2, NetCreatedFits
<1>5. QED BY <1>1, <1>2, <1>3, <1>4, LoggedSound DEF InCall

LEMMA NetDestroyBeginSound ==
  ASSUME SoundInv, NEW n \in NetId, NetDestroyBegin(n)
  PROVE  SoundInv' /\ LogKept
<1>1. db' = db /\ NoLogging /\ pending' = pending /\ n \in LiveNet(db)
      /\ call' = [op |-> "destroy_net", net |-> n]
  BY DEF NetDestroyBegin, Begins
<1>2. Sound(db') BY <1>1 DEF SoundInv
<1>3. DestroysNet' BY <1>1 DEF DestroysNet
<1>4. QED BY <1>1, <1>2, <1>3, NotLoggedSound DEF InCall

LEMMA NetDestroyPinSound ==
  ASSUME SoundInv, NEW t \in PinId, NetDestroyPin(t)
  PROVE  SoundInv' /\ LogKept
<1>1. DestroysNet BY Running DEF NetDestroyPin, SoundInv
<1>2. PICK n : n = call.net
  OBVIOUS
<1>3. /\ Sound(db) /\ db \in Block /\ t \in LivePin(db) /\ n \in LiveNet(db)
      /\ pending' = pending
  BY <1>1, <1>2 DEF NetDestroyPin, GoesOn, SoundInv, Sound, DestroysNet, PinsOn
<1>4. CASE db.inst[db.pin[t].inst].flags.dont_touch
  <2>1. db' = db /\ NoLogging /\ call' = Idle BY <1>4 DEF NetDestroyPin, Whole
  <2>2. QED BY <1>3, <2>1, NotLoggedSound DEF InCall
<1>5. CASE ~db.inst[db.pin[t].inst].flags.dont_touch
  <2>1. PICK s, d, entry, o : s = db /\ d = db' /\ entry = Disconnected(t, n) /\ o = 0
    OBVIOUS
  <2>2. d = SetPinNet(s, t, o) /\ Log(entry) /\ call' = call
    <3>1. d = SetPinNet(s, t, 0) /\ Log(Disconnected(t, n)) /\ call' = call
      BY <1>2, <1>5, <2>1 DEF NetDestroyPin
    <3>2. QED BY <3>1, <2>1
  <2>3. NetOrNone(s, o) /\ Sound(s) /\ t \in LivePin(s) /\ s \in Block
    BY <1>3, <2>1 DEF NetOrNone
  <2>4. Sound(d) BY <2>2, <2>3, SetPinNetSound
  <2>5. entry \in Entry BY <2>1, <1>3, ConnectedEntry
  <2>6. LiveNet(d) = LiveNet(s)
    <3>1. PinMoved(s, d, t, o) BY <2>2, <2>3, SetPinNetShape
    <3>2. QED BY <3>1 DEF PinMoved
  <2>7. DestroysNet' BY <1>1, <2>1, <2>2, <2>6 DEF DestroysNet
  <2>8. QED BY <1>3, <2>1, <2>2, <2>4, <2>5, <2>7, LoggedSound DEF InCall
<1>6. QED BY <1>4, <1>5

LEMMA NetDestroyEndSound ==
  ASSUME SoundInv, NetDestroyEnd
  PROVE  SoundInv' /\ LogKept
<1>1. DestroysNet BY Running DEF NetDestroyEnd, SoundInv
<1>2. PICK s, d, n, entry :
        s = db /\ d = db' /\ n = call.net /\ entry = NetDeleted(n, db.net[n])
  OBVIOUS
<1>3. /\ Sound(s) /\ s \in Block /\ n \in LiveNet(s) /\ PinsOn(s, n) = {}
      /\ d = FreeNet(s, n) /\ Log(entry)
      /\ call' = Idle /\ pending' = pending
  BY <1>1, <1>2 DEF NetDestroyEnd, GoesOn, Whole, SoundInv, Sound, DestroysNet
<1>4. Sound(d) BY <1>3, FreeNetSound
<1>5. entry \in Entry BY <1>2, <1>3, NetDeletedEntry
<1>6. QED BY <1>2, <1>3, <1>4, <1>5, LoggedSound DEF InCall

LEMMA NetSetSigTypeSound ==
  ASSUME SoundInv, NEW n \in NetId, NEW v \in Mark, NetSetSigType(n, v)
  PROVE  SoundInv' /\ LogKept
<1>1. PICK s, d, f, entry :
        /\ s = db /\ d = db' /\ f = [db.net[n].flags EXCEPT !.sig_type = v]
        /\ entry = NetFlagsSet(n, db.net[n].flags, f)
  OBVIOUS
<1>2. /\ Sound(s) /\ s \in Block /\ n \in LiveNet(s) /\ d = SetNetFlags(s, n, f)
      /\ Log(entry) /\ call' = Idle /\ pending' = pending
  BY <1>1 DEF NetSetSigType, Begins, Whole, SoundInv, Sound
<1>3. f \in NetFlags BY <1>1, <1>2, LiveNetFields DEF NetFlags
<1>4. Sound(d) BY <1>2, <1>3, SetNetFlagsSound
<1>5. entry \in Entry BY <1>1, <1>2, <1>3, NetFlagsSetFits
<1>6. QED BY <1>1, <1>2, <1>4, <1>5, LoggedSound DEF InCall

LEMMA NetSetDoNotTouchSound ==
  ASSUME SoundInv, NEW n \in NetId, NetSetDoNotTouch(n)
  PROVE  SoundInv' /\ LogKept /\ (AllPins(db) => AllPins(db'))
<1>1. PICK s, d, f :
        /\ s = db /\ d = db'
        /\ f = [db.net[n].flags EXCEPT !.dont_touch = ~db.net[n].flags.dont_touch]
  OBVIOUS
<1>2. /\ Sound(s) /\ s \in Block /\ n \in LiveNet(s) /\ NoLogging
      /\ call' = Idle /\ pending' = pending
  BY <1>1 DEF NetSetDoNotTouch, Begins, Whole, SoundInv, Sound
<1>3. f \in NetFlags BY <1>1, <1>2, LiveNetFields DEF NetFlags
<1>4. d = SetNetFlags(s, n, f)
  <2>1. d = [s EXCEPT !.net[n].flags.dont_touch = ~@]
    BY <1>1 DEF NetSetDoNotTouch
  <2>2. QED BY <2>1, <1>1 DEF SetNetFlags
<1>5. Sound(d) /\ (AllPins(s) => AllPins(d)) BY <1>2, <1>3, <1>4, SetNetFlagsSound
<1>6. QED BY <1>1, <1>2, <1>5, NotLoggedSound DEF InCall

\* A pin is connected to a net, or disconnected, and the entry is logged.
LEMMA PinMoveSound ==
  ASSUME SoundInv, NEW t \in LivePin(db), NEW n, NetOrNone(db, n), db' = SetPinNet(db, t, n),
         NEW entry \in Entry, Log(entry), InCall', pending' = pending
  PROVE  SoundInv' /\ LogKept
<1>1. Sound(db') BY SetPinNetSound DEF SoundInv
<1>2. QED BY <1>1, LoggedSound

LEMMA PinConnectSound ==
  ASSUME SoundInv, NEW t \in PinId, NEW n \in NetId, PinConnect(t, n)
  PROVE  SoundInv' /\ LogKept
<1>1. PICK o, z : o = db.pin[t].net /\ z = 0
  OBVIOUS
<1>2. /\ Sound(db) /\ db \in Block /\ t \in LivePin(db) /\ n \in LiveNet(db)
      /\ pending' = pending
  BY DEF PinConnect, Begins, SoundInv, Sound
<1>3. NetOrNone(db, n) /\ NetOrNone(db, z) BY <1>1, <1>2 DEF NetOrNone
<1>4. CASE o # 0
  <2>1. PICK entry : entry = Disconnected(t, o)
    OBVIOUS
  <2>2. db' = SetPinNet(db, t, z) /\ Log(entry) /\ call' = [op |-> "connect", pin |-> t, net |-> n]
    <3>1. /\ db' = SetPinNet(db, t, 0) /\ Log(Disconnected(t, o))
          /\ call' = [op |-> "connect", pin |-> t, net |-> n]
      BY <1>1, <1>4 DEF PinConnect
    <3>2. QED BY <3>1, <2>1, <1>1
  <2>3. o \in LiveNet(db) BY <1>1, <1>2, <1>4 DEF Sound, NoOrphanPin
  <2>4. entry \in Entry BY <1>2, <2>1, <2>3, ConnectedEntry
  <2>5. LivePin(db') = LivePin(db) /\ LiveNet(db') = LiveNet(db)
    <3>1. PinMoved(db, db', t, z) BY <1>2, <1>3, <2>2, SetPinNetShape
    <3>2. QED BY <3>1 DEF PinMoved
  <2>6. InCall' BY <1>2, <2>2, <2>5 DEF InCall, Connects
  <2>7. QED BY <1>2, <1>3, <2>2, <2>4, <2>6, PinMoveSound
<1>5. CASE o = 0
  <2>1. PICK entry : entry = Connected(t, n)
    OBVIOUS
  <2>2. db' = SetPinNet(db, t, n) /\ Log(entry) /\ call' = Idle
    <3>1. db' = SetPinNet(db, t, n) /\ Log(Connected(t, n)) /\ call' = Idle
      BY <1>1, <1>5 DEF PinConnect, Whole
    <3>2. QED BY <3>1, <2>1
  <2>3. entry \in Entry BY <1>2, <2>1, ConnectedEntry
  <2>4. InCall' BY <2>2 DEF InCall
  <2>5. QED BY <1>2, <1>3, <2>2, <2>3, <2>4, PinMoveSound
<1>6. QED BY <1>4, <1>5

LEMMA PinConnectEndSound ==
  ASSUME SoundInv, PinConnectEnd
  PROVE  SoundInv' /\ LogKept
<1>1. Connects BY Running DEF PinConnectEnd, SoundInv
<1>2. PICK t, n, entry : t = call.pin /\ n = call.net /\ entry = Connected(t, n)
  OBVIOUS
<1>3. /\ t \in LivePin(db) /\ n \in LiveNet(db) /\ NetOrNone(db, n) /\ db' = SetPinNet(db, t, n)
      /\ Log(entry) /\ InCall' /\ pending' = pending
  BY <1>1, <1>2 DEF Connects, PinConnectEnd, GoesOn, Whole, NetOrNone, InCall
<1>4. entry \in Entry BY <1>2, <1>3, ConnectedEntry
<1>5. QED BY <1>3, <1>4, PinMoveSound

LEMMA PinDisconnectSound ==
  ASSUME SoundInv, NEW t \in PinId, PinDisconnect(t)
  PROVE  SoundInv' /\ LogKept
<1>1. PICK n, o, entry : n = db.pin[t].net /\ o = 0 /\ entry = Disconnected(t, n)
  OBVIOUS
<1>2. /\ t \in LivePin(db) /\ NetOrNone(db, o) /\ n # 0 /\ pending' = pending
      /\ InCall' /\ Log(entry)
  BY <1>1 DEF PinDisconnect, Begins, Whole, NetOrNone, InCall
<1>3. db' = SetPinNet(db, t, o) BY <1>1 DEF PinDisconnect
<1>4. n \in LiveNet(db) BY <1>1, <1>2 DEF SoundInv, Sound, NoOrphanPin
<1>5. entry \in Entry BY <1>1, <1>2, <1>4, ConnectedEntry
<1>6. QED BY <1>2, <1>3, <1>5, PinMoveSound

LEMMA EcoCallSound ==
  ASSUME SoundInv, EcoCall
  PROVE  SoundInv'
<1>1. CASE BeginEco
  <2>1. /\ Sound(db') /\ pending' = pending /\ call' = Idle
        /\ journal' \in Seq(Entry)
    BY <1>1, EmptySeq DEF BeginEco, SoundInv
  <2>2. QED BY <2>1 DEF SoundInv, LogsTyped, InCall
<1>2. CASE EndEco
  <2>1. /\ Sound(db') /\ pending' = journal /\ journal' = NoLog /\ call' = Idle
    BY <1>2 DEF EndEco, SoundInv
  <2>2. QED BY <2>1 DEF SoundInv, LogsTyped, InCall
<1>3. CASE UndoEco
  <2>1. Sound(db') /\ journal' = journal /\ pending # NoLog /\ pending \in Seq(Entry)
    BY <1>3 DEF UndoEco, SoundInv, LogsTyped
  <2>2. CASE pending = <<>>
    <3>1. pending' = NoLog /\ call' = Idle BY <1>3, <2>2 DEF UndoEco
    <3>2. QED BY <2>1, <3>1 DEF SoundInv, LogsTyped, InCall
  <2>3. CASE pending # <<>>
    <3>1. pending' = pending /\ call' = [op |-> "undo", at |-> Len(pending)]
      BY <1>3, <2>3 DEF UndoEco
    <3>2. Len(pending) \in Nat \ {0} BY <2>1, <2>3, EmptySeq, LenProperties
    <3>3. Replays' BY <2>1, <3>1, <3>2 DEF Replays
    <3>4. QED BY <2>1, <3>1, <3>3 DEF SoundInv, LogsTyped, InCall
  <2>4. QED BY <2>2, <2>3
<1>4. ASSUME call.op = "undo"
      PROVE  /\ pending # NoLog /\ pending \in Seq(Entry) /\ call.at \in Nat \ {0}
             /\ call.at <= Len(pending) /\ call = [op |-> "undo", at |-> call.at]
             /\ pending[call.at] \in Entry
  <2>1. Replays BY <1>4, Running DEF SoundInv
  <2>2. QED BY <2>1, ElementOfSeq, LenProperties DEF SoundInv, LogsTyped, Replays
<1>5. CASE UndoStep
  <2>1. PICK s, d, entry, at : s = db /\ d = db' /\ entry = pending[call.at] /\ at = call.at
    OBVIOUS
  <2>2. Sound(s) /\ entry \in Entry /\ ObjectsExist(entry, s) /\ d = UndoEntry(entry, s)
    BY <1>4, <1>5, <2>1 DEF UndoStep, SoundInv
  <2>3. Sound(d) BY <2>2, UndoSound
  <2>4. CASE at = 1
    <3>1. pending' = NoLog /\ call' = Idle /\ journal' = journal
      BY <1>5, <2>1, <2>4 DEF UndoStep, Whole
    <3>2. QED BY <2>1, <2>3, <3>1 DEF SoundInv, LogsTyped, InCall
  <2>5. CASE at # 1
    <3>1. pending' = pending /\ call' = [call EXCEPT !.at = at - 1] /\ journal' = journal
      BY <1>5, <2>1, <2>5 DEF UndoStep
    <3>2. call' = [op |-> "undo", at |-> at - 1] /\ at - 1 \in Nat \ {0} /\ at - 1 <= Len(pending)
      <4>1. pending \in Seq(Entry) /\ Len(pending) \in Nat BY <1>4, <1>5, LenProperties DEF UndoStep
      <4>2. at \in Nat \ {0} /\ at <= Len(pending) /\ call = [op |-> "undo", at |-> at]
        BY <1>4, <1>5, <2>1 DEF UndoStep
      <4>3. QED BY <4>1, <4>2, <3>1, <2>5
    <3>3. Replays' BY <1>4, <1>5, <3>1, <3>2 DEF Replays, UndoStep
    <3>4. QED BY <2>1, <2>3, <3>1, <3>3 DEF SoundInv, LogsTyped, InCall
  <2>6. QED BY <2>4, <2>5
<1>6. CASE UndoFails
  <2>1. PICK s, d, entry : s = db /\ d = db' /\ entry = pending[call.at]
    OBVIOUS
  <2>2. Sound(s) /\ entry \in Entry /\ ObjectsExist(entry, s) /\ d = AfterThrow(entry, s)
    BY <1>4, <1>6, <2>1 DEF UndoFails, SoundInv
  <2>3. Sound(d) BY <2>2, ThrowSound
  <2>4. pending' = pending /\ call' = Idle /\ journal' = journal
    BY <1>6 DEF UndoFails, Whole
  <2>5. QED BY <2>1, <2>3, <2>4 DEF SoundInv, LogsTyped, InCall
<1>7. QED BY <1>1, <1>2, <1>3, <1>5, <1>6 DEF EcoCall

LEMMA SoundStep ==
  ASSUME SoundInv, [Next]_vars
  PROVE  SoundInv'
<1>1. CASE InstEdit
  BY <1>1, InstCreateSound, InstDestroyBeginSound, InstSetDoNotTouchSound, InstSwapMasterSound,
     InstSetOriginSound, InstSetFlagsSound, InstDestroyPinSound, InstDestroyEndSound DEF InstEdit
<1>2. CASE NetEdit
  BY <1>2, NetCreateSound, NetDestroyBeginSound, NetSetDoNotTouchSound, NetSetSigTypeSound,
     NetDestroyPinSound, NetDestroyEndSound DEF NetEdit
<1>3. CASE PinEdit
  BY <1>3, PinConnectSound, PinDisconnectSound, PinConnectEndSound DEF PinEdit
<1>4. CASE EcoCall
  BY <1>4, EcoCallSound
<1>5. CASE UNCHANGED vars
  BY <1>5 DEF vars, SoundInv, LogsTyped, InCall, DestroysInst, DestroysNet, Connects, Replays
<1>6. QED BY <1>1, <1>2, <1>3, <1>4, <1>5 DEF Next

\* The invariant holds of every behaviour.
LEMMA AlwaysSound == Spec => []SoundInv
<1>1. Init => SoundInv BY SoundInit
<1>2. SoundInv /\ [Next]_vars => SoundInv' BY SoundStep
<1>3. QED BY <1>1, <1>2, PTL DEF Spec

\* Whoever calls, in whatever order, and whatever throws half way: no id is
\* lost or given twice, no pin is left without its instance and no name is
\* taken twice.
THEOREM TablesStaySound == Spec => []TablesSound
<1>1. SoundInv => TablesSound BY DEF SoundInv, Sound, TablesSound
<1>2. QED BY <1>1, AlwaysSound, PTL

-----------------------------------------------------------------------------
(***************************************************************************)
(* The invariant for careful callers: every entry of a log undoes the      *)
(* change it was written for, and nothing a running call still has to do   *)
(* is refused.                                                             *)
(***************************************************************************)
\* Callers keep away from every use of the journal that undo cannot reverse.
\* They may still take dont_touch marks off while a log is open.
Careful == {"fixed", "shifted", "dont_touch", "marked", "late"} \subseteq Avoid

\* The block s is b, but for marks that were taken off, if callers do that.
Follows(s, b) == Back(s, b) /\ ("unmarked" \in Avoid => s = b)

\* An entry between two blocks of a log: it fits the second and the block it
\* was written in, which follows the first.
Joins(entry, b, d) == \E s : Sound(s) /\ Follows(s, b) /\ Fits(entry, s, d)

LogOK(log, blocks) ==
  /\ log \in Seq(Entry) /\ blocks \in Seq(Block)
  /\ Len(blocks) = Len(log) + 1
  /\ \A k \in 1..Len(blocks) : Sound(blocks[k]) /\ AllPins(blocks[k])
  /\ \A k \in 1..Len(log) : Joins(log[k], blocks[k], blocks[k + 1])

\* ... and leads to the block s.
LeadsTo(log, blocks, s) == LogOK(log, blocks) /\ Follows(s, blocks[Len(blocks)])

\* An instance that is being destroyed can be put back: its pins from the
\* k-th on are disconnected.
CarefulDestroys(s, i, k) ==
  /\ ~IsFixed(s, i) /\ Shift[s.inst[i].flags.orient] = 0
  /\ ~s.inst[i].flags.dont_touch
  /\ \A t \in PinsOf(s, i) : s.pin[t].net # 0 => ~s.net[s.pin[t].net].flags.dont_touch
  /\ \A j \in 1..Len(s.inst[i].iterms) : j > k => s.pin[s.inst[i].iterms[j]].net = 0

CarefulConnects(s, t, n) ==
  /\ s.pin[t].net = 0
  /\ ~s.inst[s.pin[t].inst].flags.dont_touch /\ ~s.net[n].flags.dont_touch

CarefulCall ==
  /\ call.op = "destroy_inst" => CarefulDestroys(db, call.inst, call.k)
  /\ call.op = "destroy_net" => ~db.net[call.net].flags.dont_touch
  /\ call.op = "connect" => CarefulConnects(db, call.pin, call.net)
  /\ call.op = "undo" => journal = NoLog /\ Back(db, ptrail[call.at + 1])

CarefulLogs ==
  /\ journal # NoLog => LeadsTo(journal, trail, db)
  /\ pending # NoLog => LogOK(pending, ptrail)
  /\ pending # NoLog /\ ~stale /\ call = Idle => LeadsTo(pending, ptrail, db)

\* A call that edits has made the pending log stale.
EditsStale == call.op \in {"destroy_inst", "destroy_net", "connect"} => stale

CarefulInv == AllPins(db) /\ CarefulLogs /\ EditsStale /\ CarefulCall

LEMMA LogStarts ==
  ASSUME NEW s, Sound(s), AllPins(s), NEW log, NEW blocks, log = <<>>, blocks = <<s>>
  PROVE  LeadsTo(log, blocks, s)
<1>1. Follows(s, s) BY BackAtItself DEF Follows
<1>2. s \in Block /\ Len(log) = 0 /\ Len(blocks) = 1 /\ blocks[1] = s BY DEF Sound
<1>3. log \in Seq(Entry) /\ blocks \in Seq(Block) BY <1>2
<1>4. LogOK(log, blocks) BY <1>2, <1>3 DEF LogOK
<1>5. QED BY <1>1, <1>2, <1>4 DEF LeadsTo

LEMMA LogGrows ==
  ASSUME NEW log, NEW blocks, NEW s, Sound(s), LeadsTo(log, blocks, s),
         NEW d, Sound(d), AllPins(d), NEW entry \in Entry, Fits(entry, s, d),
         NEW log2, log2 = Append(log, entry), NEW blocks2, blocks2 = Append(blocks, d)
  PROVE  LeadsTo(log2, blocks2, d)
<1>1. PICK n : n = Len(log)
  OBVIOUS
<1>2. /\ log \in Seq(Entry) /\ blocks \in Seq(Block) /\ Len(blocks) = n + 1 /\ n \in Nat
      /\ Follows(s, blocks[n + 1]) /\ d \in Block
  BY <1>1, LenProperties DEF LeadsTo, LogOK, Sound
<1>3. /\ log2 \in Seq(Entry) /\ Len(log2) = n + 1 /\ log2[n + 1] = entry
      /\ \A k \in 1..n : log2[k] = log[k]
  BY <1>1, <1>2, AppendProperties
<1>4. /\ blocks2 \in Seq(Block) /\ Len(blocks2) = n + 2 /\ blocks2[n + 2] = d
      /\ \A k \in 1..(n + 1) : blocks2[k] = blocks[k]
  BY <1>2, AppendProperties
<1>5. \A k \in 1..Len(blocks2) : Sound(blocks2[k]) /\ AllPins(blocks2[k])
  <2>1. \A k \in 1..(n + 1) : Sound(blocks[k]) /\ AllPins(blocks[k])
    BY <1>2 DEF LeadsTo, LogOK
  <2>2. \A k \in 1..(n + 1) : Sound(blocks2[k]) /\ AllPins(blocks2[k])
    BY <1>4, <2>1
  <2>3. \A k \in 1..Len(blocks2) : k \in 1..(n + 1) \/ k = n + 2 BY <1>2, <1>4
  <2>4. QED BY <2>2, <2>3, <1>4
<1>6. ASSUME NEW k \in 1..Len(log2) PROVE Joins(log2[k], blocks2[k], blocks2[k + 1])
  <2>1. CASE k \in 1..n
    <3>1. Joins(log[k], blocks[k], blocks[k + 1]) BY <2>1, <1>1 DEF LeadsTo, LogOK
    <3>2. log2[k] = log[k] /\ blocks2[k] = blocks[k] /\ blocks2[k + 1] = blocks[k + 1]
      BY <1>2, <1>3, <1>4, <2>1
    <3>3. QED BY <3>1, <3>2
  <2>2. CASE k = n + 1
    <3>1. log2[k] = entry /\ blocks2[k] = blocks[n + 1] /\ blocks2[k + 1] = d
      BY <1>2, <1>3, <1>4, <2>2
    <3>2. QED BY <3>1, <1>2 DEF Joins
  <2>3. QED BY <1>2, <1>3, <2>1, <2>2
<1>7. Follows(d, blocks2[Len(blocks2)])
  BY <1>4, BackAtItself DEF Follows
<1>8. QED BY <1>3, <1>4, <1>5, <1>6, <1>7, <1>2 DEF LeadsTo, LogOK

\* A mark is taken off while the log is open.
LEMMA LogMarked ==
  ASSUME NEW log, NEW blocks, NEW s, Sound(s), LeadsTo(log, blocks, s),
         NEW d, Sound(d), Follows(d, s)
  PROVE  LeadsTo(log, blocks, d)
<1>1. PICK b : b = blocks[Len(blocks)]
  OBVIOUS
<1>2. LogOK(log, blocks) /\ Follows(s, b) BY <1>1 DEF LeadsTo
<1>3. b \in Block
  <2>1. blocks \in Seq(Block) /\ Len(blocks) = Len(log) + 1 /\ Len(log) \in Nat
    BY <1>2, LenProperties DEF LogOK
  <2>2. QED BY <1>1, <2>1
<1>4. Back(d, b) BY <1>2, <1>3, BackTwice DEF Follows, Sound
<1>5. QED BY <1>1, <1>2, <1>4 DEF LeadsTo, Follows

\* Undoing an entry of a log from the block it left leads back.
LEMMA LogReverses ==
  ASSUME NEW log, NEW blocks, LogOK(log, blocks), NEW k \in 1..Len(log)
  PROVE  Reverses(log[k], blocks[k + 1], blocks[k])
<1>1. PICK p : Follows(p, blocks[k]) /\ Fits(log[k], p, blocks[k + 1])
  BY DEF LogOK, Joins
<1>2. QED BY <1>1 DEF Follows, Fits, Undoes, Reverses

\* ... and so does undoing it from a block that has fewer marks.
LEMMA MarkedReverses ==
  ASSUME NEW e \in Entry, NEW s, Sound(s), NEW d, Sound(d), NEW b, Sound(b),
         Back(s, d), Reverses(e, d, b)
  PROVE  Reverses(e, s, b)
<1>1. ObjectsExist(e, d) /\ ~UndoThrows(e, d) /\ Back(UndoEntry(e, d), b)
  BY DEF Reverses
<1>2. ObjectsExist(e, s) /\ ~UndoThrows(e, s) BY <1>1, BackFinds, BackDoesNotThrow
<1>3. Back(UndoEntry(e, s), UndoEntry(e, d)) BY <1>1, BackUndone
<1>4. UndoEntry(e, s) \in Block /\ UndoEntry(e, d) \in Block /\ b \in Block
  BY <1>1, <1>2, UndoSound DEF Sound
<1>5. Back(UndoEntry(e, s), b) BY <1>1, <1>3, <1>4, BackTwice
<1>6. QED BY <1>2, <1>5 DEF Reverses

LEMMA CarefulInit ==
  ASSUME Init
  PROVE  CarefulInv
<1>1. db \in Block /\ Consistent(db)
  BY EcoAssumption DEF Init
<1>2. AllPins(db) BY <1>1, ConsistentIsSound
<1>3. QED BY <1>2 DEF Init, CarefulInv, CarefulLogs, EditsStale, CarefulCall, Idle

\* A step of an edit that is logged, and one that changes nothing.
LEMMA LoggedCareful ==
  ASSUME CarefulInv, NEW entry \in Entry, Log(entry), Fits(entry, db, db'),
         Sound(db), Sound(db'), AllPins(db'), pending' = pending, ptrail' = ptrail, stale',
         CarefulCall'
  PROVE  CarefulInv'
<1>1. ASSUME journal' # NoLog PROVE LeadsTo(journal, trail, db)'
  <2>1. PICK s, d, log, log2, blocks, blocks2 :
          /\ s = db /\ d = db' /\ log = journal /\ log2 = journal' /\ blocks = trail
          /\ blocks2 = trail'
    OBVIOUS
  <2>2. LeadsTo(log, blocks, s) /\ log2 = Append(log, entry) /\ blocks2 = Append(blocks, d)
    BY <1>1, <2>1 DEF CarefulInv, CarefulLogs, Log
  <2>3. Fits(entry, s, d) /\ Sound(s) /\ Sound(d) /\ AllPins(d) BY <2>1
  <2>4. LeadsTo(log2, blocks2, d) BY <2>2, <2>3, LogGrows
  <2>5. QED BY <2>1, <2>4
<1>2. CarefulLogs'
  BY <1>1 DEF CarefulInv, CarefulLogs
<1>3. QED BY <1>2 DEF CarefulInv, EditsStale

LEMMA NotLoggedCareful ==
  ASSUME CarefulInv, NoLogging, db' = db, pending' = pending, ptrail' = ptrail, stale',
         CarefulCall'
  PROVE  CarefulInv'
BY DEF CarefulInv, CarefulLogs, EditsStale, NoLogging

LEMMA IdleIsCareful ==
  ASSUME call' = Idle
  PROVE  CarefulCall'
BY DEF CarefulCall, Idle

\* What an edit that is whole leaves.
EditEnds == pending' = pending /\ ptrail' = ptrail /\ stale' /\ call' = Idle

LEMMA WholeEdit ==
  ASSUME Begins, Whole
  PROVE  EditEnds
BY DEF EditEnds, Begins, Whole

LEMMA EditCareful ==
  ASSUME SoundInv, SoundInv', CarefulInv, EditEnds, NEW entry \in Entry, Log(entry),
         NEW s, NEW d, s = db, d = db', Fits(entry, s, d), AllPins(d)
  PROVE  CarefulInv'
<1>1. CarefulCall' BY IdleIsCareful DEF EditEnds
<1>2. Sound(db) /\ Sound(db') /\ AllPins(db') /\ Fits(entry, db, db')
  BY DEF SoundInv
<1>3. QED BY <1>1, <1>2, LoggedCareful DEF EditEnds

LEMMA InstCreateCareful ==
  ASSUME SoundInv, SoundInv', CarefulInv, NEW nm \in InstName, NEW m \in Master, InstCreate(nm, m)
  PROVE  CarefulInv'
<1>1. PICK s, d, entry :
        s = db /\ d = db' /\ entry = InstCreated(Head(db.inst_tbl), nm, m)
  OBVIOUS
<1>2. /\ Sound(s) /\ AllPins(s) /\ ~InstNameTaken(s, nm) /\ RoomForInst(s, m)
      /\ d = NewInst(s, nm, m) /\ Log(entry) /\ EditEnds
  BY <1>1, WholeEdit DEF InstCreate, SoundInv, CarefulInv
<1>3. AllPins(d) BY <1>2, NewInstSound
<1>4. entry \in Entry /\ Fits(entry, s, d) BY <1>1, <1>2, InstCreatedFits
<1>5. QED BY <1>1, <1>2, <1>3, <1>4, EditCareful

LEMMA InstDestroyBeginCareful ==
  ASSUME Careful, SoundInv, CarefulInv, NEW i \in InstId, InstDestroyBegin(i)
  PROVE  CarefulInv'
<1>1. PICK k : k = Len(db.inst[i].iterms)
  OBVIOUS
<1>2. /\ NoLogging /\ db' = db /\ pending' = pending /\ ptrail' = ptrail /\ stale'
      /\ i \in LiveInst(db) /\ Restorable(i) /\ ~db.inst[i].flags.dont_touch
      /\ call' = [op |-> "destroy_inst", inst |-> i, k |-> k]
  BY <1>1 DEF InstDestroyBegin, Begins
<1>3. k \in Nat
  BY <1>1, <1>2, LiveInstFields, LenProperties DEF SoundInv, Sound
<1>4. CarefulDestroys(db, i, k)
  BY <1>1, <1>2, <1>3 DEF CarefulDestroys, Restorable, Careful
<1>5. CarefulCall' BY <1>2, <1>4 DEF CarefulCall
<1>6. QED BY <1>2, <1>5, NotLoggedCareful

LEMMA InstDestroyPinCareful ==
  ASSUME SoundInv, SoundInv', CarefulInv, InstDestroyPin
  PROVE  CarefulInv'
<1>1. PICK i, k, ts, t, n, o :
        /\ i = call.inst /\ k = call.k /\ ts = db.inst[i].iterms /\ t = ts[k]
        /\ n = db.pin[t].net /\ o = 0
  OBVIOUS
<1>2. DestroysInst /\ k > 0 /\ CarefulDestroys(db, i, k) /\ stale
  BY <1>1, Running DEF InstDestroyPin, SoundInv, CarefulInv, CarefulCall, EditsStale
<1>3. /\ i \in LiveInst(db) /\ k \in Nat /\ k <= Len(ts) /\ pending' = pending
      /\ ptrail' = ptrail /\ stale'
      /\ call = [op |-> "destroy_inst", inst |-> i, k |-> k]
  BY <1>1, <1>2 DEF DestroysInst, InstDestroyPin, GoesOn
<1>4. /\ Sound(db) /\ db \in Block /\ i \in InstId /\ t \in LivePin(db) /\ t \in PinsOf(db, i)
      /\ db.pin[t].inst = i /\ ts \in Seq(PinId) /\ Len(ts) \in Nat
  BY <1>1, <1>2, <1>3, LiveInstFields, LenProperties
     DEF SoundInv, Sound, OwnPins, PinsOf, Elems, LivePin
<1>5. PICK next : next = [call EXCEPT !.k = k - 1]
  OBVIOUS
<1>6. next.op = "destroy_inst" /\ next.inst = i /\ next.k = k - 1
  BY <1>3, <1>5
<1>7. n # 0 => ~db.net[n].flags.dont_touch
  BY <1>1, <1>2, <1>4 DEF CarefulDestroys
<1>8. CASE n = 0
  <2>1. db' = db /\ NoLogging /\ call' = next
    BY <1>1, <1>5, <1>8 DEF InstDestroyPin
  <2>2. CarefulDestroys(db, i, k - 1)
    <3>1. ASSUME NEW j \in 1..Len(ts), j > k - 1 PROVE db.pin[ts[j]].net = 0
      <4>1. j = k \/ j > k BY <3>1, <1>3
      <4>2. QED BY <4>1, <1>1, <1>2, <1>8 DEF CarefulDestroys
    <3>2. QED BY <3>1, <1>1, <1>2 DEF CarefulDestroys
  <2>3. CarefulCall' BY <2>1, <2>2, <1>6 DEF CarefulCall
  <2>4. QED BY <1>3, <2>1, <2>3, NotLoggedCareful
<1>9. CASE n # 0
  <2>1. PICK s, d, entry : s = db /\ d = db' /\ entry = Disconnected(t, n)
    OBVIOUS
  <2>2. d = SetPinNet(s, t, o) /\ Log(entry) /\ call' = next
    <3>1. d = SetPinNet(s, t, 0) /\ Log(Disconnected(t, n)) /\ call' = [call EXCEPT !.k = @ - 1]
      BY <1>1, <1>7, <1>9, <2>1 DEF InstDestroyPin
    <3>2. QED BY <3>1, <1>1, <1>5, <2>1
  <2>3. /\ NetOrNone(s, o) /\ Sound(s) /\ AllPins(s) /\ t \in LivePin(s) /\ s \in Block
        /\ s.pin[t].inst = i
    BY <1>1, <1>4, <2>1 DEF NetOrNone, CarefulInv
  <2>4. Sound(d) /\ AllPins(d) BY <2>2, <2>3, SetPinNetSound
  <2>5. entry \in Entry /\ Fits(entry, s, d)
    <3>1. ~s.inst[s.pin[t].inst].flags.dont_touch BY <1>2, <2>1, <2>3 DEF CarefulDestroys
    <3>2. n = s.pin[t].net /\ ~s.net[n].flags.dont_touch /\ d = SetPinNet(s, t, 0)
      BY <1>1, <1>7, <1>9, <2>1, <2>2
    <3>3. QED BY <3>1, <3>2, <1>9, <2>1, <2>3, DisconnectedFits
  <2>6. PinMoved(s, d, t, o) BY <2>2, <2>3, SetPinNetShape
  <2>7. /\ d.inst = s.inst /\ d.net = s.net /\ d.pin[t].net = 0
        /\ \A u \in PinId : u # t => d.pin[u] = s.pin[u]
    <3>1. /\ d.inst = s.inst /\ d.net = s.net /\ d.pin[t] = [inst |-> s.pin[t].inst, net |-> o]
          /\ \A u \in PinId : u # t => d.pin[u] = s.pin[u]
      BY <2>6 DEF PinMoved
    <3>2. d.pin[t].net = o BY <3>1
    <3>3. QED BY <3>1, <3>2, <1>1
  <2>8. CarefulDestroys(d, i, k - 1)
    <3>1. ASSUME NEW j \in 1..Len(ts), j > k - 1 PROVE d.pin[ts[j]].net = 0
      <4>1. CASE ts[j] = t BY <4>1, <2>7
      <4>2. CASE ts[j] # t
        <5>1. j > k BY <4>2, <3>1, <1>1, <1>3
        <5>2. s.pin[ts[j]].net = 0 BY <5>1, <1>1, <1>2, <2>1 DEF CarefulDestroys
        <5>3. ts[j] \in PinId BY <1>4, ElementOfSeq
        <5>4. QED BY <4>2, <5>2, <5>3, <2>7
      <4>3. QED BY <4>1, <4>2
    <3>2. \A u \in PinsOf(d, i) :
            u \in PinsOf(s, i) /\ (d.pin[u].net # 0 => d.pin[u].net = s.pin[u].net)
      <4>1. PinsOf(d, i) = PinsOf(s, i) BY <2>7 DEF PinsOf
      <4>2. PinsOf(s, i) \subseteq PinId BY <1>3, <2>1, <2>3, LiveInstFields
      <4>3. QED BY <4>1, <4>2, <2>7
    <3>3. IsFixed(d, i) = IsFixed(s, i) BY <2>7 DEF IsFixed
    <3>4. /\ ~IsFixed(s, i) /\ Shift[s.inst[i].flags.orient] = 0
          /\ ~s.inst[i].flags.dont_touch
          /\ \A u \in PinsOf(s, i) : s.pin[u].net # 0 => ~s.net[s.pin[u].net].flags.dont_touch
      BY <1>2, <2>1 DEF CarefulDestroys
    <3>5. \A u \in PinsOf(d, i) : d.pin[u].net # 0 => ~d.net[d.pin[u].net].flags.dont_touch
      BY <3>2, <3>4, <2>7
    <3>6. /\ ~IsFixed(d, i) /\ Shift[d.inst[i].flags.orient] = 0
          /\ ~d.inst[i].flags.dont_touch /\ d.inst[i].iterms = ts
      BY <3>3, <3>4, <1>1, <2>1, <2>7
    <3>7. QED BY <3>1, <3>5, <3>6 DEF CarefulDestroys
  <2>9. CarefulCall' BY <2>1, <2>2, <2>8, <1>6 DEF CarefulCall
  <2>10. QED BY <1>3, <1>4, <2>1, <2>2, <2>4, <2>5, <2>9, LoggedCareful
<1>10. QED BY <1>8, <1>9

LEMMA InstDestroyEndCareful ==
  ASSUME SoundInv, SoundInv', CarefulInv, InstDestroyEnd
  PROVE  CarefulInv'
<1>1. PICK s, d, i, entry :
        s = db /\ d = db' /\ i = call.inst /\ entry = InstDeleted(i, db.inst[i])
  OBVIOUS
<1>2. DestroysInst /\ CarefulDestroys(s, i, 0) /\ stale
  BY <1>1, Running DEF InstDestroyEnd, SoundInv, CarefulInv, CarefulCall, EditsStale
<1>3. /\ Sound(s) /\ AllPins(s) /\ s \in Block /\ i \in LiveInst(s) /\ d = FreeInst(s, i)
      /\ Log(entry) /\ EditEnds
  BY <1>1, <1>2
     DEF InstDestroyEnd, GoesOn, Whole, SoundInv, CarefulInv, Sound, DestroysInst, EditEnds
<1>4. Unconnected(s, i)
  <2>1. s.inst[i].iterms \in Seq(PinId) BY <1>3, LiveInstFields
  <2>2. \A j \in 1..Len(s.inst[i].iterms) : j > 0 BY <2>1, LenProperties
  <2>3. QED BY <1>2, <2>2 DEF CarefulDestroys, Unconnected, PinsOf, Elems
<1>5. /\ HasAllPins(s, i) /\ ~IsFixed(s, i) /\ Shift[s.inst[i].flags.orient] = 0
      /\ ~s.inst[i].flags.dont_touch
  BY <1>2, <1>3 DEF AllPins, CarefulDestroys
<1>6. AllPins(d) BY <1>3, FreeInstSound
<1>7. entry \in Entry BY <1>1, <1>3, InstDeletedEntry
<1>8. Fits(entry, s, d)
  <2>1. entry = InstDeleted(i, s.inst[i]) BY <1>1
  <2>2. QED BY <2>1, <1>3, <1>4, <1>5, InstDeletedFits
<1>9. QED BY <1>1, <1>3, <1>6, <1>7, <1>8, EditCareful

LEMMA InstSwapMasterCareful ==
  ASSUME SoundInv, SoundInv', CarefulInv, NEW i \in InstId, NEW m2 \in Master,
         InstSwapMaster(i, m2)
  PROVE  CarefulInv'
<1>1. PICK s, d, m, entry :
        s = db /\ d = db' /\ m = db.inst[i].master /\ entry = Swapped(i, m, m2)
  OBVIOUS
<1>2. /\ Sound(s) /\ AllPins(s) /\ s \in Block /\ i \in LiveInst(s) /\ HasAllPins(s, i)
      /\ ~s.inst[i].flags.dont_touch /\ d = SwapMaster(s, i, m2) /\ Log(entry) /\ EditEnds
  BY <1>1, WholeEdit DEF InstSwapMaster, SoundInv, CarefulInv, Sound
<1>3. InstChanged(s, d, i)
  <2>1. m = s.inst[i].master BY <1>1
  <2>2. MasterSwapped(s, d, i, m, m2) BY <1>2, <2>1, SwapMasterShape
  <2>3. QED BY <2>2 DEF MasterSwapped
<1>4. AllPins(d) BY <1>2, <1>3, InstChangedSound
<1>5. entry \in Entry /\ Fits(entry, s, d) BY <1>1, <1>2, SwappedFits
<1>6. QED BY <1>1, <1>2, <1>4, <1>5, EditCareful

LEMMA InstSetOriginCareful ==
  ASSUME SoundInv, SoundInv', CarefulInv, NEW i \in InstId, NEW x \in Loc, InstSetOrigin(i, x)
  PROVE  CarefulInv'
<1>1. PICK s, d, entry :
        s = db /\ d = db' /\ entry = OriginSet(i, db.inst[i].origin, x)
  OBVIOUS
<1>2. /\ Sound(s) /\ AllPins(s) /\ s \in Block /\ i \in LiveInst(s) /\ ~IsFixed(s, i) /\ x \in Int
      /\ d = PutOrigin(s, i, x) /\ Log(entry) /\ EditEnds
  BY <1>1, WholeEdit, NetlistAssumption DEF InstSetOrigin, SoundInv, CarefulInv, Sound
<1>3. InstChanged(s, d, i) BY <1>1, <1>2, PutOriginShape
<1>4. AllPins(d) BY <1>2, <1>3, InstChangedSound
<1>5. entry \in Entry /\ Fits(entry, s, d) BY <1>1, <1>2, OriginSetFits
<1>6. QED BY <1>1, <1>2, <1>4, <1>5, EditCareful

LEMMA InstSetFlagsCareful ==
  ASSUME SoundInv, SoundInv', CarefulInv, NEW i \in InstId, NEW f \in InstFlags,
         InstSetFlags(i, f)
  PROVE  CarefulInv'
<1>1. PICK s, d, entry :
        s = db /\ d = db' /\ entry = InstFlagsSet(i, db.inst[i].flags, f)
  OBVIOUS
<1>2. /\ Sound(s) /\ AllPins(s) /\ s \in Block /\ i \in LiveInst(s) /\ d = SetInstFlags(s, i, f)
      /\ Log(entry) /\ EditEnds
  BY <1>1, WholeEdit DEF InstSetFlags, SoundInv, CarefulInv, Sound
<1>3. InstChanged(s, d, i) BY <1>1, <1>2, SetInstFlagsShape
<1>4. AllPins(d) BY <1>2, <1>3, InstChangedSound
<1>5. entry \in Entry /\ Fits(entry, s, d) BY <1>1, <1>2, InstFlagsSetFits
<1>6. QED BY <1>1, <1>2, <1>4, <1>5, EditCareful

LEMMA NetCreateCareful ==
  ASSUME SoundInv, SoundInv', CarefulInv, NEW nm \in NetName, NetCreate(nm)
  PROVE  CarefulInv'
<1>1. PICK s, d, entry :
        s = db /\ d = db' /\ entry = NetCreated(Head(db.net_tbl), nm)
  OBVIOUS
<1>2. /\ Sound(s) /\ AllPins(s) /\ ~NetNameTaken(s, nm) /\ RoomForNet(s) /\ d = NewNet(s, nm)
      /\ Log(entry) /\ EditEnds
  BY <1>1, WholeEdit DEF NetCreate, SoundInv, CarefulInv
<1>3. AllPins(d) BY <1>2, NewNetSound
<1>4. entry \in Entry /\ Fits(entry, s, d) BY <1>1, <1>2, NetCreatedFits
<1>5. QED BY <1>1, <1>2, <1>3, <1>4, EditCareful

LEMMA NetDestroyBeginCareful ==
  ASSUME SoundInv, CarefulInv, NEW n \in NetId, NetDestroyBegin(n)
  PROVE  CarefulInv'
<1>1. /\ NoLogging /\ db' = db /\ pending' = pending /\ ptrail' = ptrail /\ stale'
      /\ ~db.net[n].flags.dont_touch /\ call' = [op |-> "destroy_net", net |-> n]
  BY DEF NetDestroyBegin, Begins
<1>2. CarefulCall' BY <1>1 DEF CarefulCall
<1>3. QED BY <1>1, <1>2, NotLoggedCareful

LEMMA NetDestroyPinCareful ==
  ASSUME SoundInv, SoundInv', CarefulInv, NEW t \in PinId, NetDestroyPin(t)
  PROVE  CarefulInv'
<1>1. PICK n : n = call.net
  OBVIOUS
<1>2. DestroysNet /\ ~db.net[n].flags.dont_touch /\ stale /\ call.op = "destroy_net"
  BY <1>1, Running DEF NetDestroyPin, SoundInv, CarefulInv, CarefulCall, EditsStale
<1>3. /\ Sound(db) /\ AllPins(db) /\ db \in Block /\ t \in LivePin(db) /\ n \in LiveNet(db)
      /\ db.pin[t].net = n /\ n # 0 /\ pending' = pending /\ ptrail' = ptrail /\ stale'
  BY <1>1, <1>2, LiveNetFields
     DEF NetDestroyPin, GoesOn, SoundInv, CarefulInv, Sound, DestroysNet, PinsOn
<1>4. CASE db.inst[db.pin[t].inst].flags.dont_touch
  <2>1. db' = db /\ NoLogging /\ call' = Idle BY <1>4 DEF NetDestroyPin, Whole
  <2>2. QED BY <1>3, <2>1, IdleIsCareful, NotLoggedCareful
<1>5. CASE ~db.inst[db.pin[t].inst].flags.dont_touch
  <2>1. PICK s, d, entry, o : s = db /\ d = db' /\ entry = Disconnected(t, n) /\ o = 0
    OBVIOUS
  <2>2. d = SetPinNet(s, t, 0) /\ Log(Disconnected(t, n)) /\ call' = call
    BY <1>1, <1>5, <2>1 DEF NetDestroyPin
  <2>3. /\ NetOrNone(s, o) /\ Sound(s) /\ AllPins(s) /\ t \in LivePin(s) /\ s \in Block
        /\ d = SetPinNet(s, t, o) /\ Log(entry)
    BY <1>3, <2>1, <2>2 DEF NetOrNone, CarefulInv
  <2>4. Sound(d) /\ AllPins(d) BY <2>3, SetPinNetSound
  <2>5. entry \in Entry /\ Fits(entry, s, d)
    <3>1. /\ ~s.inst[s.pin[t].inst].flags.dont_touch
          /\ n = s.pin[t].net /\ n # 0 /\ ~s.net[n].flags.dont_touch
      BY <1>2, <1>3, <1>5, <2>1
    <3>2. QED BY <3>1, <2>1, <2>2, <2>3, DisconnectedFits
  <2>6. d.net = s.net
    <3>1. PinMoved(s, d, t, o) BY <2>3, SetPinNetShape
    <3>2. QED BY <3>1 DEF PinMoved
  <2>7. CarefulCall' BY <1>1, <1>2, <2>1, <2>2, <2>6 DEF CarefulCall
  <2>8. QED BY <1>3, <2>1, <2>3, <2>4, <2>5, <2>7, LoggedCareful
<1>6. QED BY <1>4, <1>5

LEMMA NetDestroyEndCareful ==
  ASSUME SoundInv, SoundInv', CarefulInv, NetDestroyEnd
  PROVE  CarefulInv'
<1>1. DestroysNet /\ stale /\ ~db.net[call.net].flags.dont_touch
  BY Running DEF NetDestroyEnd, SoundInv, CarefulInv, CarefulCall, EditsStale
<1>2. PICK s, d, n, entry :
        s = db /\ d = db' /\ n = call.net /\ entry = NetDeleted(n, db.net[n])
  OBVIOUS
<1>3. /\ Sound(s) /\ AllPins(s) /\ n \in LiveNet(s) /\ PinsOn(s, n) = {} /\ d = FreeNet(s, n)
      /\ ~s.net[n].flags.dont_touch /\ Log(entry) /\ EditEnds
  BY <1>1, <1>2 DEF NetDestroyEnd, GoesOn, Whole, SoundInv, CarefulInv, Sound, DestroysNet, EditEnds
<1>4. AllPins(d) BY <1>3, FreeNetSound
<1>5. entry \in Entry /\ Fits(entry, s, d)
  BY <1>2, <1>3, NetDeletedEntry, NetDeletedFits DEF Sound
<1>6. QED BY <1>2, <1>3, <1>4, <1>5, EditCareful

LEMMA NetSetSigTypeCareful ==
  ASSUME SoundInv, SoundInv', CarefulInv, NEW n \in NetId, NEW v \in Mark, NetSetSigType(n, v)
  PROVE  CarefulInv'
<1>1. PICK s, d, f, entry :
        /\ s = db /\ d = db' /\ f = [db.net[n].flags EXCEPT !.sig_type = v]
        /\ entry = NetFlagsSet(n, db.net[n].flags, f)
  OBVIOUS
<1>2. /\ Sound(s) /\ AllPins(s) /\ s \in Block /\ n \in LiveNet(s) /\ d = SetNetFlags(s, n, f)
      /\ Log(entry) /\ EditEnds
  BY <1>1, WholeEdit DEF NetSetSigType, SoundInv, CarefulInv, Sound
<1>3. f \in NetFlags BY <1>1, <1>2, LiveNetFields DEF NetFlags
<1>4. AllPins(d) BY <1>2, <1>3, SetNetFlagsSound
<1>5. entry \in Entry /\ Fits(entry, s, d) BY <1>1, <1>2, <1>3, NetFlagsSetFits
<1>6. QED BY <1>1, <1>2, <1>4, <1>5, EditCareful

\* setDoNotTouch is not logged; while a log is open it takes marks off.
LEMMA DoNotTouchCareful ==
  ASSUME SoundInv, SoundInv', CarefulInv, AllPins(db'), Begins, Whole, NoLogging,
         journal # NoLog => Follows(db', db)
  PROVE  CarefulInv'
<1>1. /\ journal' = journal /\ trail' = trail /\ pending' = pending /\ ptrail' = ptrail
      /\ stale' /\ call' = Idle
  BY DEF Begins, Whole, NoLogging
<1>2. ASSUME journal # NoLog PROVE LeadsTo(journal, trail, db')
  <2>1. PICK s, d, log, blocks : s = db /\ d = db' /\ log = journal /\ blocks = trail
    OBVIOUS
  <2>2. Sound(s) /\ Sound(d) /\ LeadsTo(log, blocks, s) /\ Follows(d, s)
    BY <1>2, <2>1 DEF SoundInv, CarefulInv, CarefulLogs
  <2>3. LeadsTo(log, blocks, d) BY <2>2, LogMarked
  <2>4. QED BY <2>1, <2>3
<1>3. CarefulLogs' BY <1>1, <1>2 DEF CarefulInv, CarefulLogs
<1>4. QED BY <1>1, <1>3, IdleIsCareful DEF CarefulInv, EditsStale

LEMMA InstSetDoNotTouchCareful ==
  ASSUME Careful, SoundInv, SoundInv', CarefulInv, NEW i \in InstId, InstSetDoNotTouch(i)
  PROVE  CarefulInv'
<1>1. Begins /\ Whole /\ NoLogging /\ AllPins(db) BY DEF InstSetDoNotTouch, CarefulInv
<1>2. AllPins(db') BY <1>1, InstSetDoNotTouchSound
<1>3. ASSUME journal # NoLog PROVE Follows(db', db)
  <2>1. PICK s, d, r : s = db /\ d = db' /\ r = Unmarked(s.inst[i])
    OBVIOUS
  <2>2. s \in Block /\ i \in LiveInst(s) BY <2>1 DEF SoundInv, Sound, InstSetDoNotTouch
  <2>3. /\ s.inst[i] \in Inst /\ s.inst[i].flags \in InstFlags
        /\ s.inst \in [InstId -> Inst \cup {NoObj}]
    BY <2>2, LiveInstFields, Fields
  <2>4. s.inst[i].flags.dont_touch = TRUE /\ "unmarked" \notin Avoid
    <3>1. s.inst[i].flags.dont_touch \in BOOLEAN BY <2>3 DEF InstFlags
    <3>2. MarkAllowed(~s.inst[i].flags.dont_touch) BY <2>1 DEF InstSetDoNotTouch
    <3>3. QED BY <1>3, <3>1, <3>2 DEF MarkAllowed, Careful
  <2>5. d = [s EXCEPT !.inst[i].flags.dont_touch = ~@] BY <2>1 DEF InstSetDoNotTouch
  <2>6. d = [s EXCEPT !.inst[i].flags.dont_touch = FALSE] BY <2>4, <2>5
  <2>7. d = [s EXCEPT !.inst = [s.inst EXCEPT ![i] = r]] BY <2>1, <2>6 DEF Unmarked
  <2>8. PutsInst(s, d, i, r) /\ r \in Inst
    BY <2>1, <2>3, <2>7, UnmarkedInst DEF PutsInst
  <2>9. InstPut(s, d, i, r) BY <2>2, <2>8, PutInst
  <2>10. Back(d, s) BY <2>1, <2>2, <2>9 DEF InstPut, Back
  <2>11. QED BY <2>1, <2>4, <2>10 DEF Follows
<1>4. QED BY <1>1, <1>2, <1>3, DoNotTouchCareful

LEMMA NetSetDoNotTouchCareful ==
  ASSUME Careful, SoundInv, SoundInv', CarefulInv, NEW n \in NetId, NetSetDoNotTouch(n)
  PROVE  CarefulInv'
<1>1. Begins /\ Whole /\ NoLogging /\ AllPins(db) BY DEF NetSetDoNotTouch, CarefulInv
<1>2. AllPins(db') BY <1>1, NetSetDoNotTouchSound
<1>3. ASSUME journal # NoLog PROVE Follows(db', db)
  <2>1. PICK s, d, r, tbl : /\ s = db /\ d = db' /\ r = Unmarked(s.net[n])
                            /\ tbl = s.net_tbl
    OBVIOUS
  <2>2. s \in Block /\ n \in LiveNet(s) /\ n \in NetId
    BY <2>1 DEF SoundInv, Sound, NetSetDoNotTouch
  <2>3. /\ s.net[n] \in Net /\ s.net[n].flags \in NetFlags
        /\ s.net \in [NetId -> Net \cup {NoObj}] /\ tbl \in Seq(NetId)
    BY <2>1, <2>2, LiveNetFields, Fields
  <2>4. s.net[n].flags.dont_touch = TRUE /\ "unmarked" \notin Avoid
    <3>1. s.net[n].flags.dont_touch \in BOOLEAN BY <2>3 DEF NetFlags
    <3>2. MarkAllowed(~s.net[n].flags.dont_touch) BY <2>1 DEF NetSetDoNotTouch
    <3>3. QED BY <1>3, <3>1, <3>2 DEF MarkAllowed, Careful
  <2>5. d = [s EXCEPT !.net[n].flags.dont_touch = ~@] BY <2>1 DEF NetSetDoNotTouch
  <2>6. d = [s EXCEPT !.net[n].flags.dont_touch = FALSE] BY <2>4, <2>5
  <2>7. d = [s EXCEPT !.net = [s.net EXCEPT ![n] = r], !.net_tbl = tbl]
    BY <2>1, <2>2, <2>6 DEF Unmarked, Block
  <2>8. PutsNet(s, d, n, r, tbl) /\ NetOrGone(r)
    BY <2>1, <2>3, <2>7, UnmarkedNet DEF PutsNet, NetOrGone
  <2>9. NetPut(s, d, n, r) /\ d.net_tbl = tbl BY <2>2, <2>3, <2>8, PutNet
  <2>10. Back(d, s) BY <2>1, <2>2, <2>9 DEF NetPut, Back
  <2>11. QED BY <2>1, <2>4, <2>10 DEF Follows
<1>4. QED BY <1>1, <1>2, <1>3, DoNotTouchCareful

LEMMA PinConnectCareful ==
  ASSUME SoundInv, SoundInv', CarefulInv, NEW t \in PinId, NEW n \in NetId, PinConnect(t, n)
  PROVE  CarefulInv'
<1>1. PICK s, d, o, z : s = db /\ d = db' /\ o = db.pin[t].net /\ z = 0
  OBVIOUS
<1>2. /\ Sound(s) /\ AllPins(s) /\ s \in Block /\ t \in LivePin(s) /\ n \in LiveNet(s)
      /\ ~s.inst[s.pin[t].inst].flags.dont_touch
      /\ n # 0 => ~s.net[n].flags.dont_touch
      /\ o # 0 => ~s.net[o].flags.dont_touch
      /\ o = s.pin[t].net
  BY <1>1 DEF PinConnect, PinLocked, NetLocked, SoundInv, CarefulInv, Sound
<1>3. pending' = pending /\ ptrail' = ptrail /\ stale' /\ n # 0
  BY <1>2, LiveNetFields DEF PinConnect, Begins
<1>4. NetOrNone(s, n) /\ NetOrNone(s, z) BY <1>1, <1>2 DEF NetOrNone
<1>5. CASE o # 0
  <2>1. PICK entry : entry = Disconnected(t, o)
    OBVIOUS
  <2>2. d = SetPinNet(s, t, 0) /\ Log(entry) /\ call' = [op |-> "connect", pin |-> t, net |-> n]
    BY <1>1, <1>5, <2>1 DEF PinConnect
  <2>3. d = SetPinNet(s, t, z) BY <1>1, <2>2
  <2>4. Sound(d) /\ AllPins(d) BY <1>2, <1>4, <2>3, SetPinNetSound
  <2>5. entry \in Entry /\ Fits(entry, s, d)
    BY <1>2, <1>5, <2>1, <2>2, DisconnectedFits
  <2>6. CarefulConnects(d, t, n)
    <3>1. PinMoved(s, d, t, z) BY <1>2, <1>4, <2>3, SetPinNetShape
    <3>2. d.inst = s.inst /\ d.net = s.net /\ d.pin[t] = [inst |-> s.pin[t].inst, net |-> z]
      BY <3>1 DEF PinMoved
    <3>3. d.pin[t].inst = s.pin[t].inst /\ d.pin[t].net = z BY <3>2
    <3>4. QED BY <3>2, <3>3, <1>1, <1>2, <1>3 DEF CarefulConnects
  <2>7. CarefulCall' BY <1>1, <2>2, <2>6 DEF CarefulCall
  <2>8. QED BY <1>1, <1>2, <1>3, <2>2, <2>4, <2>5, <2>7, LoggedCareful
<1>6. CASE o = 0
  <2>1. PICK entry : entry = Connected(t, n)
    OBVIOUS
  <2>2. d = SetPinNet(s, t, n) /\ Log(entry) /\ call' = Idle
    BY <1>1, <1>6, <2>1 DEF PinConnect, Whole
  <2>3. AllPins(d) BY <1>2, <1>4, <2>2, SetPinNetSound
  <2>4. entry \in Entry /\ Fits(entry, s, d)
    BY <1>2, <1>3, <1>6, <2>1, <2>2, ConnectedFits
  <2>5. EditEnds BY <1>3, <2>2 DEF EditEnds
  <2>6. QED BY <1>1, <2>2, <2>3, <2>4, <2>5, EditCareful
<1>7. QED BY <1>5, <1>6

LEMMA PinConnectEndCareful ==
  ASSUME SoundInv, SoundInv', CarefulInv, PinConnectEnd
  PROVE  CarefulInv'
<1>1. PICK s, d, t, n, entry :
        s = db /\ d = db' /\ t = call.pin /\ n = call.net /\ entry = Connected(t, n)
  OBVIOUS
<1>2. Connects /\ CarefulConnects(s, t, n) /\ stale
  BY <1>1, Running DEF PinConnectEnd, SoundInv, CarefulInv, CarefulCall, EditsStale
<1>3. /\ Sound(s) /\ AllPins(s) /\ t \in LivePin(s) /\ n \in LiveNet(s) /\ NetOrNone(s, n)
      /\ d = SetPinNet(s, t, n) /\ Log(entry) /\ EditEnds
  BY <1>1, <1>2
     DEF Connects, PinConnectEnd, GoesOn, Whole, NetOrNone, SoundInv, CarefulInv, EditEnds
<1>4. AllPins(d) BY <1>3, SetPinNetSound
<1>5. entry \in Entry /\ Fits(entry, s, d)
  BY <1>1, <1>2, <1>3, ConnectedFits DEF CarefulConnects
<1>6. QED BY <1>1, <1>3, <1>4, <1>5, EditCareful

LEMMA PinDisconnectCareful ==
  ASSUME SoundInv, SoundInv', CarefulInv, NEW t \in PinId, PinDisconnect(t)
  PROVE  CarefulInv'
<1>1. PICK s, d, n, o, entry :
        s = db /\ d = db' /\ n = db.pin[t].net /\ o = 0 /\ entry = Disconnected(t, n)
  OBVIOUS
<1>2. /\ Sound(s) /\ AllPins(s) /\ t \in LivePin(s) /\ NetOrNone(s, o) /\ n # 0
      /\ n = s.pin[t].net
      /\ ~s.inst[s.pin[t].inst].flags.dont_touch /\ ~s.net[n].flags.dont_touch
      /\ d = SetPinNet(s, t, 0) /\ Log(entry) /\ EditEnds
  BY <1>1, WholeEdit
     DEF PinDisconnect, PinLocked, NetLocked, NetOrNone, SoundInv, CarefulInv
<1>3. d = SetPinNet(s, t, o) BY <1>1, <1>2
<1>4. AllPins(d) BY <1>2, <1>3, SetPinNetSound
<1>5. entry \in Entry /\ Fits(entry, s, d) BY <1>1, <1>2, DisconnectedFits
<1>6. QED BY <1>1, <1>2, <1>4, <1>5, EditCareful

\* While a log is replayed the block is the one that the entry was written in,
\* but for marks taken off.
LEMMA OnTrack ==
  ASSUME SoundInv, CarefulInv, call.op = "undo"
  PROVE  /\ pending # NoLog /\ LogOK(pending, ptrail) /\ journal = NoLog
         /\ call \in [op: {"undo"}, at: Nat \ {0}] /\ call.at \in 1..Len(pending)
         /\ Back(db, ptrail[call.at + 1])
         /\ Reverses(pending[call.at], db, ptrail[call.at])
         /\ Sound(ptrail[call.at]) /\ AllPins(ptrail[call.at])
<1>1. Replays /\ pending # NoLog BY Running DEF SoundInv, Replays
<1>2. LogOK(pending, ptrail) /\ journal = NoLog /\ Back(db, ptrail[call.at + 1])
  BY <1>1 DEF CarefulInv, CarefulLogs, CarefulCall
<1>3. /\ call.at \in 1..Len(pending) /\ call.at \in 1..Len(ptrail)
      /\ call.at + 1 \in 1..Len(ptrail)
      /\ call \in [op: {"undo"}, at: Nat \ {0}]
  BY <1>1, <1>2, LenProperties DEF Replays, LogOK
<1>4. PICK s, d, b, e : /\ s = db /\ d = ptrail[call.at + 1] /\ b = ptrail[call.at]
                        /\ e = pending[call.at]
  OBVIOUS
<1>5. Sound(s) /\ Sound(d) /\ Sound(b) /\ AllPins(b) /\ e \in Entry /\ Back(s, d)
  BY <1>2, <1>3, <1>4 DEF SoundInv, LogOK
<1>6. Reverses(e, d, b) BY <1>2, <1>3, <1>4, LogReverses
<1>7. Reverses(e, s, b) BY <1>5, <1>6, MarkedReverses
<1>8. QED BY <1>1, <1>2, <1>3, <1>4, <1>5, <1>7

LEMMA EcoCallCareful ==
  ASSUME Careful, SoundInv, SoundInv', CarefulInv, EcoCall
  PROVE  CarefulInv'
<1>1. CASE BeginEco
  <2>1. /\ journal' = <<>> /\ trail' = <<db>> /\ db' = db /\ pending' = pending
        /\ ptrail' = ptrail /\ stale' = stale /\ call' = call /\ call = Idle
    BY <1>1 DEF BeginEco
  <2>2. PICK s, log, blocks : s = db /\ log = journal' /\ blocks = trail'
    OBVIOUS
  <2>3. LeadsTo(log, blocks, s)
    BY <2>1, <2>2, LogStarts DEF SoundInv, CarefulInv
  <2>4. CarefulLogs' BY <2>1, <2>2, <2>3 DEF CarefulInv, CarefulLogs
  <2>5. QED BY <2>1, <2>4, IdleIsCareful DEF CarefulInv, EditsStale
<1>2. CASE EndEco
  <2>1. /\ journal' = NoLog /\ pending' = journal /\ ptrail' = trail /\ db' = db
        /\ call' = call /\ call = Idle
    BY <1>2 DEF EndEco
  <2>2. CarefulLogs' BY <2>1 DEF CarefulInv, CarefulLogs, LeadsTo
  <2>3. EditsStale' BY <2>1 DEF EditsStale, Idle
  <2>4. QED BY <2>1, <2>2, <2>3, IdleIsCareful DEF CarefulInv
<1>3. CASE UndoEco
  <2>1. /\ db' = db /\ journal' = journal /\ journal = NoLog /\ stale' = stale /\ call = Idle
        /\ LeadsTo(pending, ptrail, db) /\ pending # NoLog
    BY <1>3 DEF UndoEco, Careful, CarefulInv, CarefulLogs
  <2>2. CASE pending = <<>>
    <3>1. pending' = NoLog /\ call' = Idle BY <1>3, <2>1, <2>2 DEF UndoEco
    <3>2. CarefulLogs' BY <2>1, <3>1 DEF CarefulLogs
    <3>3. EditsStale' BY <3>1 DEF EditsStale, Idle
    <3>4. QED BY <2>1, <3>1, <3>2, <3>3, IdleIsCareful DEF CarefulInv
  <2>3. CASE pending # <<>>
    <3>1. /\ pending' = pending /\ ptrail' = ptrail
          /\ call' = [op |-> "undo", at |-> Len(pending)]
      BY <1>3, <2>3 DEF UndoEco
    <3>2. call'.op = "undo" /\ call'.at = Len(pending) BY <3>1
    <3>3. Back(db, ptrail[Len(pending) + 1]) BY <2>1 DEF LeadsTo, LogOK, Follows
    <3>4. CarefulCall' BY <2>1, <3>1, <3>2, <3>3 DEF CarefulCall
    <3>5. CarefulLogs' BY <2>1, <3>1 DEF CarefulLogs, LeadsTo, Idle
    <3>6. EditsStale' BY <3>2 DEF EditsStale
    <3>7. QED BY <2>1, <3>4, <3>5, <3>6 DEF CarefulInv
  <2>4. QED BY <2>2, <2>3
<1>4. CASE UndoStep
  <2>1. PICK at, e : at = call.at /\ e = pending[at]
    OBVIOUS
  <2>2. /\ LogOK(pending, ptrail) /\ journal = NoLog /\ pending # NoLog
        /\ call \in [op: {"undo"}, at: Nat \ {0}] /\ at \in 1..Len(pending)
        /\ Reverses(e, db, ptrail[at]) /\ Sound(ptrail[at]) /\ AllPins(ptrail[at])
    BY <1>4, <2>1, OnTrack DEF UndoStep
  <2>3. /\ db' = UndoEntry(e, db) /\ journal' = journal /\ trail' = trail
    BY <1>4, <2>1 DEF UndoStep
  <2>4. Back(db', ptrail[at]) /\ AllPins(db')
    <3>1. Back(db', ptrail[at]) BY <2>2, <2>3 DEF Reverses
    <3>2. db' \in Block /\ ptrail[at] \in Block BY <2>2 DEF SoundInv, Sound
    <3>3. Alike(db', ptrail[at]) BY <3>1, <3>2, BackIsAlike
    <3>4. QED BY <2>2, <3>1, <3>3 DEF Alike, AllPins, HasAllPins
  <2>5. CASE at = 1
    <3>1. pending' = NoLog /\ call' = Idle BY <1>4, <2>1, <2>5 DEF UndoStep, Whole
    <3>2. CarefulLogs' BY <2>2, <2>3, <3>1 DEF CarefulLogs
    <3>3. EditsStale' BY <3>1 DEF EditsStale, Idle
    <3>4. QED BY <2>4, <3>1, <3>2, <3>3, IdleIsCareful DEF CarefulInv
  <2>6. CASE at # 1
    <3>1. pending' = pending /\ ptrail' = ptrail /\ call' = [call EXCEPT !.at = at - 1]
      BY <1>4, <2>1, <2>6 DEF UndoStep
    <3>2. call'.op = "undo" /\ call'.at = at - 1 BY <2>2, <3>1
    <3>3. (at - 1) + 1 = at BY <2>2
    <3>4. CarefulCall' BY <2>2, <2>3, <2>4, <3>1, <3>2, <3>3 DEF CarefulCall
    <3>5. CarefulLogs' BY <2>2, <2>3, <3>1, <3>2 DEF CarefulLogs, Idle
    <3>6. EditsStale' BY <3>2 DEF EditsStale
    <3>7. QED BY <2>4, <3>4, <3>5, <3>6 DEF CarefulInv
  <2>7. QED BY <2>5, <2>6
<1>5. CASE UndoFails
  BY <1>5, OnTrack DEF UndoFails, Reverses
<1>6. QED BY <1>1, <1>2, <1>3, <1>4, <1>5 DEF EcoCall

LEMMA CarefulStep ==
  ASSUME Careful, SoundInv, SoundInv', CarefulInv, [Next]_vars
  PROVE  CarefulInv'
<1>1. CASE InstEdit
  BY <1>1, InstCreateCareful, InstDestroyBeginCareful, InstSetDoNotTouchCareful, InstSwapMasterCareful,
     InstSetOriginCareful, InstSetFlagsCareful, InstDestroyPinCareful, InstDestroyEndCareful
     DEF InstEdit
<1>2. CASE NetEdit
  BY <1>2, NetCreateCareful, NetDestroyBeginCareful, NetSetDoNotTouchCareful, NetSetSigTypeCareful,
     NetDestroyPinCareful, NetDestroyEndCareful DEF NetEdit
<1>3. CASE PinEdit
  BY <1>3, PinConnectCareful, PinDisconnectCareful, PinConnectEndCareful DEF PinEdit
<1>4. CASE EcoCall
  BY <1>4, EcoCallCareful
<1>5. CASE UNCHANGED vars
  BY <1>5 DEF vars, CarefulInv, CarefulLogs, EditsStale, CarefulCall
<1>6. QED BY <1>1, <1>2, <1>3, <1>4, <1>5 DEF Next

LEMMA AlwaysCareful ==
  ASSUME Careful
  PROVE  Spec => [](SoundInv /\ CarefulInv)
<1>1. Init => CarefulInv BY CarefulInit
<1>2. SoundInv /\ SoundInv' /\ CarefulInv /\ [Next]_vars => CarefulInv' BY CarefulStep
<1>3. QED BY <1>1, <1>2, AlwaysSound, PTL DEF Spec

\* If callers destroy only what they can restore, a block has at every step of
\* every call, and of every undo, all the pins its instances' masters ask for.
THEOREM BlockStaysConsistent ==
  ASSUME Careful
  PROVE  Spec => []BlockConsistent
<1>1. SoundInv /\ CarefulInv => BlockConsistent
  <2> SUFFICES ASSUME SoundInv, CarefulInv PROVE BlockConsistent
    OBVIOUS
  <2>1. Sound(db) /\ AllPins(db) /\ db \in Block BY DEF SoundInv, CarefulInv, Sound
  <2>2. QED BY <2>1, ConsistentIsSound DEF BlockConsistent
<1>2. QED BY <1>1, AlwaysCareful, PTL

\* An open log, at every step of every call, leads from the block of beginEco
\* to the block as it is: undoing any of its entries in its place finds its
\* objects, does not throw, and gives the block before it.  setDoNotTouch, which
\* writes no entry, may take marks off meanwhile; these alone escape the log.
THEOREM LogStaysComplete ==
  ASSUME Careful
  PROVE  Spec => []LogComplete
<1>1. SoundInv /\ CarefulInv => LogComplete
  BY LogReverses DEF CarefulInv, CarefulLogs, LeadsTo, LogOK, Follows, LogComplete
<1>2. QED BY <1>1, AlwaysCareful, PTL

\* undoEco goes back over the blocks the calls went through, one by one, finds
\* the objects of every entry and is not refused, even where the block has lost
\* marks since the entry was written.
THEOREM ReplayStaysOnTrack ==
  ASSUME Careful
  PROVE  Spec => []ReplayOnTrack
<1>1. SoundInv /\ CarefulInv => ReplayOnTrack
  BY OnTrack DEF ReplayOnTrack
<1>2. QED BY <1>1, AlwaysCareful, PTL

\* When undoEco is done the block is the one beginEco found, free lists
\* included, but for the marks taken off since.
THEOREM UndoBringsBack ==
  ASSUME Careful
  PROVE  Spec => UndoRestores
<1>1. ASSUME SoundInv, SoundInv', CarefulInv, [Next]_vars,
             call.op = "undo", call'.op = "idle", pending' = NoLog
      PROVE  Back(db', ptrail[1])
  <2>1. /\ pending # NoLog /\ call.at \in 1..Len(pending)
        /\ Reverses(pending[call.at], db, ptrail[call.at])
    BY <1>1, OnTrack
  <2>2. UndoStep
    <3>1. call # Idle BY <1>1 DEF Idle
    <3>2. ~UNCHANGED vars BY <1>1 DEF vars
    <3>3. ~InstEdit
      BY <1>1, <3>1 DEF InstEdit, InstCreate, InstDestroyBegin, InstSetDoNotTouch, InstSwapMaster,
         InstSetOrigin, InstSetFlags, InstDestroyPin, InstDestroyEnd, Begins
    <3>4. ~NetEdit
      BY <1>1, <3>1 DEF NetEdit, NetCreate, NetDestroyBegin, NetSetDoNotTouch, NetSetSigType,
         NetDestroyPin, NetDestroyEnd, Begins
    <3>5. ~PinEdit
      BY <1>1, <3>1 DEF PinEdit, PinConnect, PinDisconnect, PinConnectEnd, Begins
    <3>6. ~BeginEco /\ ~EndEco /\ ~UndoEco
      BY <3>1 DEF BeginEco, EndEco, UndoEco
    <3>7. ~UndoFails BY <2>1 DEF UndoFails, Reverses
    <3>8. QED BY <1>1, <3>2, <3>3, <3>4, <3>5, <3>6, <3>7 DEF Next, EcoCall
  <2>3. call.at = 1 BY <2>1, <2>2, <1>1 DEF UndoStep
  <2>4. QED BY <2>1, <2>2, <2>3 DEF UndoStep, Reverses
<1>2. SoundInv /\ SoundInv' /\ CarefulInv /\ [Next]_vars =>
        [call.op = "undo" /\ call'.op = "idle" /\ pending' = NoLog => Back(db', ptrail[1])]_vars
  BY <1>1
<1>3. QED BY <1>2, AlwaysCareful, PTL DEF Spec, UndoRestores

-----------------------------------------------------------------------------
(***************************************************************************)
(* The journal implements a checkpoint (safety; that an undo ends is a     *)
(* matter of fairness).                                                    *)
(***************************************************************************)
Edits == InstEdit \/ NetEdit \/ PinEdit

LEMMA EditsKeep ==
  ASSUME SoundInv, Edits
  PROVE  /\ pending' = pending /\ ptrail' = ptrail
         /\ call.op # "undo" /\ call'.op # "undo"
         /\ NoLogging \/ \E entry : Log(entry)
<1>1. ASSUME Begins PROVE pending' = pending /\ ptrail' = ptrail /\ call.op # "undo"
  BY <1>1 DEF Begins, Idle
<1>2. ASSUME GoesOn PROVE pending' = pending /\ ptrail' = ptrail
  BY <1>2 DEF GoesOn
<1>3. ASSUME Whole PROVE call'.op # "undo"
  BY <1>3 DEF Whole, Idle
<1>4. CASE InstEdit
  <2>1. CASE \E nm \in InstName, m \in Master : InstCreate(nm, m)
    BY <2>1, <1>1, <1>2, <1>3 DEF InstCreate
  <2>2. CASE \E i \in InstId : InstDestroyBegin(i)
    BY <2>2, <1>1, <1>2, <1>3 DEF InstDestroyBegin
  <2>3. CASE \E i \in InstId : InstSetDoNotTouch(i)
    BY <2>3, <1>1, <1>2, <1>3 DEF InstSetDoNotTouch
  <2>4. CASE \E i \in InstId, m \in Master : InstSwapMaster(i, m)
    BY <2>4, <1>1, <1>2, <1>3 DEF InstSwapMaster
  <2>5. CASE \E i \in InstId, x \in Loc : InstSetOrigin(i, x)
    BY <2>5, <1>1, <1>2, <1>3 DEF InstSetOrigin
  <2>6. CASE \E i \in InstId, f \in InstFlags : InstSetFlags(i, f)
    BY <2>6, <1>1, <1>2, <1>3 DEF InstSetFlags
  <2>7. CASE InstDestroyPin
    <3>1. pending' = pending /\ ptrail' = ptrail /\ call.op = "destroy_inst"
      BY <2>7, <1>2 DEF InstDestroyPin
    <3>2. call'.op # "undo"
      <4>1. Whole \/ call' = [call EXCEPT !.k = @ - 1] BY <2>7 DEF InstDestroyPin
      <4>2. call \in [op: {"destroy_inst"}, inst: InstId, k: Nat]
        BY <3>1, Running DEF SoundInv, DestroysInst
      <4>3. ASSUME call' = [call EXCEPT !.k = @ - 1] PROVE call'.op = "destroy_inst"
        BY <4>2, <4>3
      <4>4. QED BY <4>1, <4>3, <1>3
    <3>3. NoLogging \/ \E entry : Log(entry) BY <2>7 DEF InstDestroyPin
    <3>4. QED BY <3>1, <3>2, <3>3
  <2>8. CASE InstDestroyEnd
    BY <2>8, <1>1, <1>2, <1>3 DEF InstDestroyEnd
  <2>9. QED BY <1>4, <2>1, <2>2, <2>3, <2>4, <2>5, <2>6, <2>7, <2>8 DEF InstEdit
<1>5. CASE NetEdit
  <2>1. CASE \E nm \in NetName : NetCreate(nm)
    BY <2>1, <1>1, <1>2, <1>3 DEF NetCreate
  <2>2. CASE \E n \in NetId : NetDestroyBegin(n)
    BY <2>2, <1>1, <1>2, <1>3 DEF NetDestroyBegin
  <2>3. CASE \E n \in NetId : NetSetDoNotTouch(n)
    BY <2>3, <1>1, <1>2, <1>3 DEF NetSetDoNotTouch
  <2>4. CASE \E n \in NetId, v \in Mark : NetSetSigType(n, v)
    BY <2>4, <1>1, <1>2, <1>3 DEF NetSetSigType
  <2>5. CASE \E t \in PinId : NetDestroyPin(t)
    BY <2>5, <1>1, <1>2, <1>3 DEF NetDestroyPin
  <2>6. CASE NetDestroyEnd
    BY <2>6, <1>1, <1>2, <1>3 DEF NetDestroyEnd
  <2>7. QED BY <1>5, <2>1, <2>2, <2>3, <2>4, <2>5, <2>6 DEF NetEdit
<1>6. CASE PinEdit
  <2>1. CASE \E t \in PinId, n \in NetId : PinConnect(t, n)
    BY <2>1, <1>1, <1>2, <1>3 DEF PinConnect
  <2>2. CASE \E t \in PinId : PinDisconnect(t)
    BY <2>2, <1>1, <1>2, <1>3 DEF PinDisconnect
  <2>3. CASE PinConnectEnd
    BY <2>3, <1>1, <1>2, <1>3 DEF PinConnectEnd
  <2>4. QED BY <1>6, <2>1, <2>2, <2>3 DEF PinEdit
<1>7. QED BY <1>4, <1>5, <1>6 DEF Edits

LEMMA LogBase ==
  ASSUME CarefulInv, SoundInv, journal # NoLog, NoLogging \/ \E entry : Log(entry)
  PROVE  trail'[1] = trail[1]
<1>1. trail \in Seq(Block) /\ Len(trail) \in Nat /\ Len(trail) >= 1
  BY LenProperties DEF CarefulInv, CarefulLogs, LeadsTo, LogOK
<1>2. trail' = trail \/ trail' = Append(trail, db') BY DEF NoLogging, Log
<1>3. db' \in Block => Append(trail, db')[1] = trail[1] BY <1>1, AppendProperties
<1>4. QED BY <1>1, <1>2, <1>3

LEMMA EditIsEdit ==
  ASSUME SoundInv, CarefulInv, Edits
  PROVE  [Users!Next]_(Users!cpVars)
<1>1. /\ pending' = pending /\ ptrail' = ptrail
      /\ call.op # "undo" /\ call'.op # "undo"
      /\ NoLogging \/ \E entry : Log(entry)
  BY EditsKeep
<1>2. LogKept
  BY InstCreateSound, InstDestroyBeginSound, InstSetDoNotTouchSound, InstSwapMasterSound,
     InstSetOriginSound, InstSetFlagsSound, InstDestroyPinSound, InstDestroyEndSound,
     NetCreateSound, NetDestroyBeginSound, NetSetDoNotTouchSound, NetSetSigTypeSound,
     NetDestroyPinSound, NetDestroyEndSound, PinConnectSound, PinDisconnectSound,
     PinConnectEndSound DEF Edits, InstEdit, NetEdit, PinEdit
<1>3. journal # NoLog => trail'[1] = trail[1] BY <1>1, LogBase
<1>4. CASE Bare(db') = Bare(db) BY <1>1, <1>2, <1>3, <1>4 DEF LogKept, Users!cpVars
<1>5. CASE Bare(db') # Bare(db)
  <2>1. Users!Edit BY <1>1, <1>2, <1>3, <1>5 DEF LogKept, Users!Edit
  <2>2. QED BY <2>1 DEF Users!Next
<1>6. QED BY <1>4, <1>5

LEMMA EcoCallIsCheckpoint ==
  ASSUME Careful, SoundInv, SoundInv', CarefulInv, EcoCall
  PROVE  [Users!Next]_(Users!cpVars)
<1>1. CASE BeginEco
  <2>1. /\ call.op # "undo" /\ journal' # NoLog /\ trail'[1] = db
        /\ db' = db /\ pending' = pending /\ ptrail' = ptrail /\ call' = call
    BY <1>1, EmptySeq, EcoAssumption DEF BeginEco, Idle
  <2>2. Users!Begin BY <2>1 DEF Users!Begin
  <2>3. QED BY <2>2 DEF Users!Next
<1>2. CASE EndEco
  <2>1. /\ call.op # "undo" /\ journal' = NoLog /\ pending' = journal /\ ptrail' = trail
        /\ db' = db /\ call' = call
    BY <1>2 DEF EndEco, Idle
  <2>2. Users!End BY <2>1 DEF Users!End
  <2>3. QED BY <2>2 DEF Users!Next
<1>3. CASE UndoEco
  <2>1. /\ db' = db /\ journal' = journal /\ journal = NoLog /\ call.op # "undo"
        /\ LeadsTo(pending, ptrail, db) /\ pending # NoLog
    BY <1>3 DEF UndoEco, Careful, CarefulInv, CarefulLogs, Idle
  <2>2. /\ Bare(ptrail[Len(ptrail)]) = Bare(db) /\ Len(ptrail) = Len(pending) + 1
        /\ Bare(ptrail[1]) # NoLog
    <3>1. /\ ptrail \in Seq(Block) /\ 1 \in 1..Len(ptrail) /\ Len(ptrail) \in 1..Len(ptrail)
          /\ Len(ptrail) = Len(pending) + 1
      BY <2>1, LenProperties DEF LeadsTo, LogOK
    <3>2. PICK s, b, c : s = db /\ b = ptrail[Len(ptrail)] /\ c = ptrail[1]
      OBVIOUS
    <3>3. s \in Block /\ b \in Block /\ c \in Block /\ Back(s, b)
      BY <2>1, <3>1, <3>2 DEF SoundInv, Sound, LeadsTo, Follows
    <3>4. Bare(s) = Bare(b) /\ Bare(c) # NoLog BY <3>3, BackBare, BareIsBlock
    <3>5. QED BY <3>1, <3>2, <3>4
  <2>3. CASE pending = <<>>
    <3>1. pending' = NoLog /\ call' = call BY <1>3, <2>3 DEF UndoEco
    <3>2. Bare(ptrail[1]) = Bare(db) BY <2>2, <2>3, EmptySeq
    <3>3. Users!Undo BY <2>1, <2>2, <3>1, <3>2 DEF Users!Undo
    <3>4. QED BY <3>3 DEF Users!Next
  <2>4. CASE pending # <<>>
    <3>1. pending' = pending /\ ptrail' = ptrail /\ call'.op = "undo"
      BY <1>3, <2>4 DEF UndoEco
    <3>2. Users!Undo BY <2>1, <2>2, <3>1 DEF Users!Undo
    <3>3. QED BY <3>2 DEF Users!Next
  <2>5. QED BY <2>3, <2>4
<1>4. CASE UndoStep
  <2>1. PICK at, e : at = call.at /\ e = pending[at]
    OBVIOUS
  <2>2. /\ pending # NoLog /\ journal = NoLog /\ call.op = "undo"
        /\ call \in [op: {"undo"}, at: Nat \ {0}] /\ Reverses(e, db, ptrail[at])
        /\ Sound(ptrail[at])
    BY <1>4, <2>1, OnTrack DEF UndoStep
  <2>3. journal' = NoLog /\ Bare(db') = Bare(ptrail[at])
    <3>1. journal' = NoLog /\ Back(db', ptrail[at])
      BY <1>4, <2>1, <2>2 DEF UndoStep, Reverses
    <3>2. db' \in Block /\ ptrail[at] \in Block BY <2>2 DEF SoundInv, Sound
    <3>3. QED BY <3>1, <3>2, BackBare
  <2>4. CASE at = 1
    <3>1. pending' = NoLog /\ call'.op # "undo"
      BY <1>4, <2>1, <2>4 DEF UndoStep, Whole, Idle
    <3>2. Users!Restored BY <2>2, <2>3, <2>4, <3>1 DEF Users!Restored
    <3>3. QED BY <3>2 DEF Users!Next
  <2>5. CASE at # 1
    <3>1. pending' = pending /\ ptrail' = ptrail /\ call' = [call EXCEPT !.at = at - 1]
      BY <1>4, <2>1, <2>5 DEF UndoStep
    <3>2. call'.op = "undo" BY <2>2, <3>1
    <3>3. QED BY <2>2, <2>3, <3>1, <3>2 DEF Users!cpVars
  <2>6. QED BY <2>4, <2>5
<1>5. CASE UndoFails
  BY <1>5, OnTrack DEF UndoFails, Reverses
<1>6. QED BY <1>1, <1>2, <1>3, <1>4, <1>5 DEF EcoCall

\* Every step of the journal and of the calls it logs is a step of Checkpoint,
\* or none that its users see: of the block's dont_touch marks Checkpoint
\* promises nothing.
THEOREM JournalIsCheckpoint ==
  ASSUME Careful
  PROVE  Spec => Users!Init /\ [][Users!Next]_(Users!cpVars)
<1>1. Init => Users!Init
  BY DEF Init, Idle, Users!Init
<1>2. SoundInv /\ SoundInv' /\ CarefulInv /\ [Next]_vars => [Users!Next]_(Users!cpVars)
  <2> SUFFICES ASSUME SoundInv, SoundInv', CarefulInv, [Next]_vars PROVE [Users!Next]_(Users!cpVars)
    OBVIOUS
  <2>1. CASE Edits BY <2>1, EditIsEdit
  <2>2. CASE EcoCall BY <2>2, EcoCallIsCheckpoint
  <2>3. CASE UNCHANGED vars BY <2>3 DEF vars, Users!cpVars
  <2>4. QED BY <2>1, <2>2, <2>3 DEF Next, Edits
<1>3. QED BY <1>1, <1>2, AlwaysCareful, PTL DEF Spec

-----------------------------------------------------------------------------
(***************************************************************************)
(* The ECO replayed by another process.  The copy keeps its marks, so the  *)
(* sender takes none off while the log is open.                            *)
(***************************************************************************)
Steady == Careful /\ "unmarked" \in Avoid

RemoteInv ==
  /\ file # NoLog => LogOK(file, fblocks)
  /\ redone \in Nat
  /\ redone > 0 => /\ file # NoLog /\ redone \in 1..Len(file)
                   /\ remote = fblocks[redone]

LEMMA RemoteStep ==
  ASSUME Steady, CarefulInv, RemoteInv, [RemoteNext]_remoteVars
  PROVE  /\ RemoteInv'
         /\ redone > 0 /\ redone' = 0 => remote' = fblocks[Len(fblocks)]
<1>1. CASE Sends \/ UNCHANGED remoteVars
  BY <1>1 DEF Sends, remoteVars, RemoteInv
<1>2. CASE CopyBlock
  BY <1>2 DEF CopyBlock, RemoteInv
<1>3. CASE WriteEco
  BY <1>3 DEF WriteEco, RemoteInv, CarefulInv, CarefulLogs
<1>4. CASE CommitEco
  <2>1. /\ file # NoLog /\ file # <<>> /\ remote = fblocks[1] /\ redone' = 1 /\ redone = 0
        /\ file' = file /\ fblocks' = fblocks /\ remote' = remote
    BY <1>4 DEF CommitEco
  <2>2. LogOK(file, fblocks) BY <2>1 DEF RemoteInv
  <2>3. 1 \in 1..Len(file) BY <2>1, <2>2, EmptySeq, LenProperties DEF LogOK
  <2>4. QED BY <2>1, <2>2, <2>3 DEF RemoteInv
<1>5. CASE RedoStep
  <2>1. PICK k, e, s, d : k = redone /\ e = file[k] /\ s = remote /\ d = remote'
    OBVIOUS
  <2>2. /\ file # NoLog /\ LogOK(file, fblocks) /\ k \in 1..Len(file) /\ s = fblocks[k]
        /\ file' = file /\ fblocks' = fblocks /\ d = RedoEntry(e, s)
        /\ redone' = IF k = Len(file) THEN 0 ELSE k + 1
    BY <1>5, <2>1 DEF RedoStep, RemoteInv
  <2>3. Fits(e, s, fblocks[k + 1]) BY <2>1, <2>2 DEF LogOK, Joins, Follows, Steady
  <2>4. d = fblocks[k + 1] BY <2>2, <2>3 DEF Fits, Redoes
  <2>5. Len(file) \in Nat /\ Len(fblocks) = Len(file) + 1
    BY <2>2, LenProperties DEF LogOK
  <2>6. CASE k = Len(file) BY <2>1, <2>2, <2>4, <2>5, <2>6 DEF RemoteInv
  <2>7. CASE k # Len(file)
    <3>1. redone' = k + 1 /\ k + 1 \in 1..Len(file) BY <2>2, <2>5, <2>7
    <3>2. QED BY <3>1, <2>1, <2>2, <2>4 DEF RemoteInv
  <2>8. QED BY <2>6, <2>7
<1>6. QED BY <1>1, <1>2, <1>3, <1>4, <1>5 DEF RemoteNext

LEMMA RemoteIsCareful ==
  ASSUME Steady
  PROVE  RemoteSpec => [](CarefulInv /\ RemoteInv)
<1>1. RemoteSpec => Spec
  <2>1. RemoteInit => Init BY DEF RemoteInit
  <2>2. [RemoteNext]_remoteVars => [Next]_vars
    BY DEF RemoteNext, remoteVars, Receives, CopyBlock, WriteEco, CommitEco, RedoStep
  <2>3. QED BY <2>1, <2>2, PTL DEF RemoteSpec, Spec
<1>2. RemoteSpec => []CarefulInv BY <1>1, AlwaysCareful, PTL DEF Steady
<1>3. RemoteInit => RemoteInv BY DEF RemoteInit, RemoteInv
<1>4. CarefulInv /\ RemoteInv /\ [RemoteNext]_remoteVars => RemoteInv' BY RemoteStep
<1>5. QED BY <1>2, <1>3, <1>4, PTL DEF RemoteSpec

\* commitEco, on a copy of the block that beginEco found, meets entry by entry
\* the blocks the sender went through, while the sender goes on.
THEOREM RedoStaysOnTrack ==
  ASSUME Steady
  PROVE  RemoteSpec => []RedoOnTrack
<1>1. RemoteInv => RedoOnTrack
  <2> SUFFICES ASSUME RemoteInv, redone > 0
               PROVE  remote = fblocks[redone] /\ RedoFinds(file[redone], remote)
    BY DEF RedoOnTrack
  <2>1. LogOK(file, fblocks) /\ redone \in 1..Len(file) /\ remote = fblocks[redone]
    BY DEF RemoteInv
  <2>2. Fits(file[redone], fblocks[redone], fblocks[redone + 1])
    BY <2>1 DEF LogOK, Joins, Follows, Steady
  <2>3. QED BY <2>1, <2>2 DEF Fits, Redoes
<1>2. QED BY <1>1, RemoteIsCareful, PTL

\* When commitEco is done the copy is the block the sender had at endEco.
THEOREM CommitGivesTheBlock ==
  ASSUME Steady
  PROVE  RemoteSpec => CommitReproduces
<1>1. CarefulInv /\ RemoteInv /\ [RemoteNext]_remoteVars =>
        [redone > 0 /\ redone' = 0 => remote' = fblocks[Len(fblocks)]]_remoteVars
  BY RemoteStep
<1>2. QED BY <1>1, RemoteIsCareful, PTL DEF RemoteSpec, CommitReproduces
=============================================================================
