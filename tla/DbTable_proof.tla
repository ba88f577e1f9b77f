---------------------------- MODULE DbTable_proof ---------------------------
(***************************************************************************)
(* Proofs about DbTable and the walks over it, TableWalk, for every page   *)
(* size and every number of pages.                                         *)
(***************************************************************************)
EXTENDS TableWalk, FiniteSetTheorems, SequenceTheorems, WellFoundedInduction, TLAPS

USE PageSizeAssumption, MaxPagesAssumption

-----------------------------------------------------------------------------
(***************************************************************************)
(* Arithmetic of pages, and of smallest and largest ids.                   *)
(***************************************************************************)

\* The page of an id, as newPage lays the ids out.
LEMMA PageOfBounds ==
  ASSUME NEW id \in Nat
  PROVE  /\ PageOf(id) \in Nat
         /\ PageOf(id) * PageSize <= id
         /\ id < PageOf(id) * PageSize + PageSize
PROOF
  <1>1. id = PageSize * (id \div PageSize) + (id % PageSize)
    OBVIOUS
  <1>2. id % PageSize \in 0..(PageSize - 1)
    OBVIOUS
  <1>3. id \div PageSize \in Int
    OBVIOUS
  <1>4. id \div PageSize >= 0
    OBVIOUS
  <1> QED BY <1>1, <1>2, <1>3, <1>4 DEF PageOf

\* Larger products have larger factors.
LEMMA MulMono ==
  ASSUME NEW a \in Int, NEW b \in Int, a < b
  PROVE  a * PageSize + PageSize <= b * PageSize
PROOF
  <1> DEFINE d == b - a - 1
  <1>1. d \in Nat /\ b = a + 1 + d
    OBVIOUS
  <1>2. d * PageSize >= 0
    BY <1>1
  <1>3. (a + 1 + d) * PageSize = a * PageSize + PageSize + d * PageSize
    BY <1>1
  <1> QED BY <1>1, <1>2, <1>3

\* Ids in a lower page are lower, whatever the page size.
LEMMA PageOfMonotonic ==
  ASSUME NEW x \in Nat, NEW y \in Nat, PageOf(x) < PageOf(y)
  PROVE  x < y
PROOF
  <1>1. PageOf(x) * PageSize + PageSize <= PageOf(y) * PageSize
    <2>1. PageOf(x) \in Nat /\ PageOf(y) \in Nat
      BY PageOfBounds
    <2> QED BY <2>1, MulMono
  <1>2. /\ PageOf(x) * PageSize \in Nat /\ PageOf(y) * PageSize \in Nat
    BY PageOfBounds
  <1> QED BY <1>1, <1>2, PageOfBounds

\* A set of naturals that is not empty has a smallest element.
LEMMA LeastExists ==
  ASSUME NEW S \in SUBSET Nat, S # {}
  PROVE  /\ Least(S) \in S
         /\ \A y \in S : Least(S) <= y
PROOF
  <1>1. PICK x \in S : \A y \in S : ~ (<<y, x>> \in OpToRel(<, Nat))
    BY WFMin, NatLessThanWellFounded
  <1>2. ASSUME NEW y \in S
        PROVE  ~ (y < x)
    <2>1. <<y, x>> \in Nat \X Nat
      OBVIOUS
    <2> QED BY <1>1, <2>1, Zenon DEF OpToRel
  <1>3. \A y \in S : x <= y
    BY <1>2
  <1> QED BY <1>3 DEF Least

\* A bounded one has a largest element.
LEMMA GreatestExists ==
  ASSUME NEW S \in SUBSET Nat, S # {}, NEW n \in Nat, \A y \in S : y <= n
  PROVE  /\ Greatest(S) \in S
         /\ \A y \in S : y <= Greatest(S)
PROOF
  <1> DEFINE T == {n - y : y \in S}
  <1>1. T \in SUBSET Nat /\ T # {}
    <2>1. ASSUME NEW y \in S
          PROVE  n - y \in Nat /\ n - y \in T
      <3>1. y \in Nat /\ y <= n
        OBVIOUS
      <3>2. n - y \in Nat
        BY <3>1
      <3> QED BY <3>2
    <2>2. T # {}
      <3>1. PICK y \in S : TRUE
        OBVIOUS
      <3> QED BY <2>1, <3>1
    <2>3. T \subseteq Nat
      BY <2>1
    <2> QED BY <2>2, <2>3
  <1>2. Least(T) \in T /\ \A z \in T : Least(T) <= z
    BY <1>1, LeastExists
  <1>3. PICK x \in S : Least(T) = n - x
    BY <1>2
  <1>4. ASSUME NEW y \in S
        PROVE  y <= x
    <2>1. n - y \in T
      OBVIOUS
    <2>2. n - x <= n - y
      BY <1>2, <1>3, <2>1
    <2> QED BY <2>2
  <1> QED BY <1>4 DEF Greatest

\* Smallest elements are determined by being smallest.
LEMMA LeastUnique ==
  ASSUME NEW S \in SUBSET Nat, NEW x \in S, \A y \in S : x <= y
  PROVE  Least(S) = x
PROOF
  <1>1. Least(S) \in S /\ Least(S) <= x /\ x <= Least(S)
    BY LeastExists
  <1>2. Least(S) \in Nat /\ x \in Nat
    BY <1>1
  <1> QED BY <1>1, <1>2

\* So are largest ones.
LEMMA GreatestUnique ==
  ASSUME NEW S \in SUBSET Nat, NEW x \in S, \A y \in S : y <= x
  PROVE  Greatest(S) = x
PROOF
  <1>1. Greatest(S) \in S /\ Greatest(S) <= x /\ x <= Greatest(S)
    BY GreatestExists
  <1>2. Greatest(S) \in Nat /\ x \in Nat
    BY <1>1
  <1> QED BY <1>1, <1>2

-----------------------------------------------------------------------------
(***************************************************************************)
(* The slots of a page.                                                    *)
(***************************************************************************)

\* The ids below the end of the n-th page.
SlotsBelow(n) == {id \in SlotId : id < n * PageSize}

Ids(seq) == {seq[k] : k \in 1..Len(seq)}

NoneTwice(seq) == \A j, k \in 1..Len(seq) : seq[j] = seq[k] => j = k

\* The products in the bounds of a page.
LEMMA PageArithmetic ==
  ASSUME NEW p \in Nat, p < MaxPages
  PROVE  /\ p * PageSize \in Nat
         /\ (p + 1) * PageSize = p * PageSize + PageSize
         /\ PageSize * MaxPages \in Nat
         /\ p * PageSize + PageSize <= PageSize * MaxPages
         /\ p # 0 => PageSize <= p * PageSize
         /\ 0 * PageSize = 0
PROOF
  <1>1. p * PageSize \in Nat /\ MaxPages * PageSize \in Nat
    OBVIOUS
  <1>2. (p + 1) * PageSize = p * PageSize + PageSize
    OBVIOUS
  <1>3. p * PageSize + PageSize <= MaxPages * PageSize
    BY MulMono
  <1>4. PageSize * MaxPages = MaxPages * PageSize
    OBVIOUS
  <1>5. 0 * PageSize = 0
    OBVIOUS
  <1>6. p # 0 => 0 * PageSize + PageSize <= p * PageSize
    BY MulMono
  <1> QED BY <1>1, <1>2, <1>3, <1>4, <1>5, <1>6

\* newPage links every slot of its page once, in ascending order.
LEMMA PageIdsProperties ==
  ASSUME NEW p \in Nat, p < MaxPages
  PROVE  /\ PageIds(p) \in Seq(SlotId)
         /\ Len(PageIds(p)) = (p + 1) * PageSize - FirstOf(p)
         /\ Len(PageIds(p)) \in Nat \ {0}
         /\ \A k \in 1..Len(PageIds(p)) : PageIds(p)[k] = FirstOf(p) + k - 1
         /\ Ids(PageIds(p)) = SlotsBelow(p + 1) \ SlotsBelow(p)
         /\ NoneTwice(PageIds(p))
PROOF
  <1> DEFINE n == (p + 1) * PageSize - FirstOf(p)
             a == p * PageSize
  <1>1. /\ a \in Nat /\ (p + 1) * PageSize = a + PageSize
        /\ PageSize * MaxPages \in Nat
        /\ a + PageSize <= PageSize * MaxPages
        /\ p # 0 => PageSize <= a
        /\ p = 0 => a = 0
    BY PageArithmetic
  <1>2. FirstOf(p) = IF p = 0 THEN 1 ELSE a
    BY DEF FirstOf
  <1> HIDE DEF a
  <1>3. /\ n \in Nat \ {0}
        /\ FirstOf(p) \in Nat \ {0}
        /\ n = a + PageSize - FirstOf(p)
    BY <1>1, <1>2
  <1>4. PageIds(p) = [k \in 1..n |-> FirstOf(p) + k - 1]
    BY DEF PageIds
  <1> HIDE DEF n
  <1>5. \A k \in 1..n : FirstOf(p) + k - 1 \in SlotId
    BY <1>1, <1>2, <1>3 DEF SlotId
  <1>6. PageIds(p) \in Seq(SlotId) /\ Len(PageIds(p)) = n
    <2>1. n \in Nat
      BY <1>3
    <2>2. PageIds(p) \in [1..n -> SlotId]
      BY <1>4, <1>5
    <2> QED BY <2>1, <2>2
  <1>7. \A k \in 1..n : PageIds(p)[k] = FirstOf(p) + k - 1
    BY <1>4
  <1>8. NoneTwice(PageIds(p))
    BY <1>3, <1>6, <1>7 DEF NoneTwice
  <1>9. Ids(PageIds(p)) = SlotsBelow(p + 1) \ SlotsBelow(p)
    <2>1. ASSUME NEW k \in 1..n
          PROVE  PageIds(p)[k] \in SlotsBelow(p + 1) \ SlotsBelow(p)
      <3>1. FirstOf(p) + k - 1 < a + PageSize /\ ~ (FirstOf(p) + k - 1 < a)
        BY <1>1, <1>2, <1>3
      <3> QED BY <1>1, <1>5, <1>7, <3>1 DEF SlotsBelow, a
    <2>2. ASSUME NEW id \in SlotsBelow(p + 1) \ SlotsBelow(p)
          PROVE  \E k \in 1..n : PageIds(p)[k] = id
      <3>1. id \in Nat /\ id >= 1 /\ id < a + PageSize /\ ~ (id < a)
        BY <1>1 DEF SlotsBelow, SlotId, a
      <3>2. id - FirstOf(p) + 1 \in 1..n
        BY <1>1, <1>2, <1>3, <3>1
      <3> QED BY <1>3, <1>7, <3>1, <3>2
    <2> QED BY <1>6, <2>1, <2>2 DEF Ids
  <1> QED BY <1>3, <1>6, <1>7, <1>8, <1>9 DEF n

-----------------------------------------------------------------------------
(***************************************************************************)
(* The inductive invariant.  Each of its parts needs the others: the       *)
(* bounds have a type only if the pages with objects are found, the count  *)
(* is right only if create takes a slot that is not in use, and the bounds *)
(* follow the objects only while the count tells when there are none.      *)
(***************************************************************************)

IInv == TypeOK /\ FreeListOK /\ BoundsOK

\* The free list create() pops from, with the new page's slots if there was
\* none, and the number of pages after that.
Popped == IF free = <<>> THEN PageIds(page_cnt) ELSE free
PagesThen == IF free = <<>> THEN page_cnt + 1 ELSE page_cnt

\* Whether or not a page is added, create() pops from a list of exactly the
\* slots that are not in use.
LEMMA PoppedProperties ==
  ASSUME IInv, free = <<>> => page_cnt < MaxPages
  PROVE  /\ Popped \in Seq(SlotId) /\ Popped # <<>>
         /\ NoneTwice(Popped)
         /\ PagesThen \in 0..MaxPages
         /\ Ids(Popped) = SlotsBelow(PagesThen) \ live
         /\ live \subseteq SlotsBelow(PagesThen)
PROOF
  <1> USE DEF IInv, TypeOK
  <1>1. /\ NoneTwice(free) /\ live \subseteq SlotsBelow(page_cnt)
        /\ Ids(free) = SlotsBelow(page_cnt) \ live
    BY DEF FreeListOK, Slots, SlotsBelow, NoneTwice, Ids
  <1>2. CASE free # <<>>
    BY <1>1, <1>2 DEF Popped, PagesThen
  <1>3. CASE free = <<>>
    <2>1. page_cnt \in Nat /\ page_cnt < MaxPages
      BY <1>3
    <2>2. Ids(free) = {}
      BY <1>3 DEF Ids
    <2>3. live = SlotsBelow(page_cnt)
      BY <1>1, <2>2
    <2>4. /\ PageIds(page_cnt) \in Seq(SlotId) /\ NoneTwice(PageIds(page_cnt))
          /\ Len(PageIds(page_cnt)) # 0
          /\ Ids(PageIds(page_cnt)) = SlotsBelow(page_cnt + 1) \ SlotsBelow(page_cnt)
      BY <2>1, PageIdsProperties
    <2>5. SlotsBelow(page_cnt) \subseteq SlotsBelow(page_cnt + 1)
      <3>1. /\ page_cnt * PageSize \in Nat
            /\ (page_cnt + 1) * PageSize = page_cnt * PageSize + PageSize
        BY <2>1, PageArithmetic
      <3>2. SlotId \subseteq Nat
        <4>1. PageSize * MaxPages \in Nat
          OBVIOUS
        <4> QED BY <4>1 DEF SlotId
      <3>3. ASSUME NEW id \in SlotId, id < page_cnt * PageSize
            PROVE  id < (page_cnt + 1) * PageSize
        <4> DEFINE a == page_cnt * PageSize
        <4>1. a \in Nat /\ id \in Nat /\ id < a /\ (page_cnt + 1) * PageSize = a + PageSize
          BY <3>1, <3>2, <3>3
        <4> HIDE DEF a
        <4> QED BY <4>1
      <3> QED BY <3>3 DEF SlotsBelow
    <2> QED BY <1>3, <2>1, <2>3, <2>4, <2>5 DEF Popped, PagesThen
  <1> QED BY <1>2, <1>3

\* Slot numbers are positive and there are finitely many of them.
LEMMA SlotIdProperties ==
  /\ SlotId \subseteq Nat \ {0} /\ IsFiniteSet(SlotId)
  /\ PageSize * MaxPages \in Nat
  /\ \A id \in SlotId : id < PageSize * MaxPages
PROOF
  <1>1. PageSize * MaxPages \in Nat
    OBVIOUS
  <1>2. IsFiniteSet(1..(PageSize * MaxPages - 1))
    BY <1>1, FS_Interval
  <1> QED BY <1>1, <1>2 DEF SlotId

\* The counts, also of subsets of the live objects.
LEMMA LiveFinite ==
  ASSUME IInv
  PROVE  IsFiniteSet(live) /\ Cardinality(live) \in Nat /\ live \subseteq Nat \ {0}
PROOF
  BY SlotIdProperties, FS_Subset, FS_CardinalityType DEF IInv, TypeOK

\* Taking the head of a list without repetitions takes one id away.
LEMMA TailProperties ==
  ASSUME NEW q \in Seq(SlotId), q # <<>>, NoneTwice(q)
  PROVE  /\ Head(q) \in Ids(q)
         /\ Tail(q) \in Seq(SlotId) /\ NoneTwice(Tail(q))
         /\ Ids(Tail(q)) = Ids(q) \ {Head(q)}
PROOF
  <1>1. /\ Tail(q) \in Seq(SlotId) /\ Len(Tail(q)) = Len(q) - 1
        /\ \A i \in 1..Len(Tail(q)) : Tail(q)[i] = q[i + 1]
        /\ Len(q) \in Nat \ {0}
    BY HeadTailProperties, EmptySeq
  <1>2. Head(q) = q[1] /\ 1 \in 1..Len(q)
    BY <1>1
  <1>3. NoneTwice(Tail(q))
    <2> SUFFICES ASSUME NEW j \in 1..Len(Tail(q)), NEW k \in 1..Len(Tail(q)),
                        Tail(q)[j] = Tail(q)[k]
                 PROVE  j = k
      BY DEF NoneTwice
    <2>1. j + 1 \in 1..Len(q) /\ k + 1 \in 1..Len(q) /\ q[j + 1] = q[k + 1]
      BY <1>1
    <2>2. j + 1 = k + 1
      BY <2>1 DEF NoneTwice
    <2> QED BY <2>2
  <1>4. Ids(Tail(q)) \subseteq Ids(q) \ {Head(q)}
    <2> SUFFICES ASSUME NEW j \in 1..Len(Tail(q))
                 PROVE  Tail(q)[j] \in Ids(q) \ {Head(q)}
      BY DEF Ids
    <2>1. j + 1 \in 1..Len(q) /\ Tail(q)[j] = q[j + 1] /\ j + 1 # 1
      BY <1>1
    <2>2. q[j + 1] # q[1]
      BY <1>2, <2>1 DEF NoneTwice
    <2> QED BY <1>2, <2>1, <2>2 DEF Ids
  <1>5. Ids(q) \ {Head(q)} \subseteq Ids(Tail(q))
    <2> SUFFICES ASSUME NEW j \in 1..Len(q), q[j] # Head(q)
                 PROVE  \E k \in 1..Len(Tail(q)) : Tail(q)[k] = q[j]
      BY DEF Ids
    <2>1. j # 1
      BY <1>2
    <2>2. j - 1 \in 1..Len(Tail(q)) /\ Tail(q)[j - 1] = q[j - 1 + 1]
      BY <1>1, <2>1
    <2>3. j - 1 + 1 = j
      OBVIOUS
    <2> QED BY <2>2, <2>3
  <1> QED BY <1>1, <1>2, <1>3, <1>4, <1>5 DEF Ids

\* Init establishes the invariant.
LEMMA InitIInv == Init => IInv
PROOF
  <1> SUFFICES ASSUME Init PROVE IInv
    OBVIOUS
  <1>1. TypeOK
    BY SlotIdProperties DEF Init, TypeOK
  <1>2. FreeListOK
    <2>1. {id \in SlotId : id < 0 * PageSize} = {}
      <3>1. 0 * PageSize = 0
        OBVIOUS
      <3>2. \A id \in SlotId : ~ (id < 0)
        BY SlotIdProperties
      <3> QED BY <3>1, <3>2
    <2> QED BY <2>1 DEF Init, FreeListOK, Slots
  <1>3. BoundsOK
    BY FS_EmptySet DEF Init, BoundsOK
  <1> QED BY <1>1, <1>2, <1>3 DEF IInv

\* create() keeps the invariant.
LEMMA CreateIInv == IInv /\ Create => IInv'
PROOF
  <1> SUFFICES ASSUME IInv, Create PROVE IInv'
    OBVIOUS
  <1> DEFINE id == Head(Popped)
  <1>1. /\ Popped \in Seq(SlotId) /\ Popped # <<>> /\ NoneTwice(Popped)
        /\ PagesThen \in 0..MaxPages
        /\ Ids(Popped) = SlotsBelow(PagesThen) \ live
        /\ live \subseteq SlotsBelow(PagesThen)
    BY PoppedProperties DEF Create
  <1>2. /\ id \in Ids(Popped)
        /\ Tail(Popped) \in Seq(SlotId) /\ NoneTwice(Tail(Popped))
        /\ Ids(Tail(Popped)) = Ids(Popped) \ {id}
    BY <1>1, TailProperties
  <1>3. /\ free' = Tail(Popped) /\ live' = live \cup {id} /\ page_cnt' = PagesThen
        /\ alloc_cnt' = alloc_cnt + 1
        /\ top_idx' = IF id > top_idx THEN id ELSE top_idx
        /\ bottom_idx' = IF bottom_idx = 0 \/ id < bottom_idx THEN id ELSE bottom_idx
    BY DEF Create, Popped, PagesThen
  <1>4. id \in SlotsBelow(PagesThen) /\ id \notin live /\ id \in SlotId /\ id \in Nat \ {0}
    BY <1>1, <1>2, SlotIdProperties DEF SlotsBelow
  <1> HIDE DEF id
  <1>5. TypeOK'
    BY <1>1, <1>2, <1>3, <1>4 DEF IInv, TypeOK
  <1>6. FreeListOK'
    <2>1. \A j, k \in 1..Len(free') : free'[j] = free'[k] => j = k
      BY <1>2, <1>3 DEF NoneTwice
    <2>2. {free'[k] : k \in 1..Len(free')} = SlotsBelow(page_cnt') \ live'
      BY <1>1, <1>2, <1>3 DEF Ids
    <2>3. live' \subseteq SlotsBelow(page_cnt')
      BY <1>1, <1>3, <1>4
    <2> QED BY <2>1, <2>2, <2>3 DEF FreeListOK, Slots, SlotsBelow
  <1>7. BoundsOK'
    <2>1. alloc_cnt' = Cardinality(live')
      BY <1>3, <1>4, LiveFinite, FS_AddElement DEF IInv, BoundsOK
    <2>2. live' # {} /\ live' \subseteq Nat
      BY <1>3, <1>4, LiveFinite
    <2>3. bottom_idx' = Least(live')
      <3>1. bottom_idx' \in live' /\ \A y \in live' : bottom_idx' <= y
        <4>1. CASE live = {}
          BY <1>3, <1>4, <4>1 DEF IInv, BoundsOK
        <4>2. CASE live # {}
          <5>1. bottom_idx \in live /\ \A y \in live : bottom_idx <= y
            BY <4>2, LiveFinite, LeastExists DEF IInv, BoundsOK
          <5> QED BY <1>3, <1>4, <5>1, LiveFinite
        <4> QED BY <4>1, <4>2
      <3> QED BY <2>2, <3>1, LeastUnique
    <2>4. top_idx' = Greatest(live')
      <3>1. top_idx' \in live' /\ \A y \in live' : y <= top_idx'
        <4>1. CASE live = {}
          BY <1>3, <1>4, <4>1 DEF IInv, BoundsOK
        <4>2. CASE live # {}
          <5>1. \A y \in live : y <= PageSize * MaxPages
            BY SlotIdProperties DEF IInv, TypeOK
          <5>2. top_idx \in live /\ \A y \in live : y <= top_idx
            BY <4>2, <5>1, LiveFinite, SlotIdProperties, GreatestExists DEF IInv, BoundsOK
          <5> QED BY <1>3, <1>4, <5>2, LiveFinite
        <4> QED BY <4>1, <4>2
      <3> QED BY <2>2, <3>1, GreatestUnique
    <2> QED BY <2>1, <2>2, <2>3, <2>4 DEF BoundsOK
  <1> QED BY <1>5, <1>6, <1>7 DEF IInv

\* Objects are in pages the table has.
LEMMA PageOfLive ==
  ASSUME IInv, NEW i \in live
  PROVE  PageOf(i) < page_cnt
PROOF
  <1>1. /\ i < page_cnt * PageSize /\ page_cnt \in Nat /\ i \in Nat
        /\ page_cnt * PageSize \in Nat
    BY LiveFinite DEF IInv, TypeOK, FreeListOK, Slots
  <1>2. PageOf(i) * PageSize <= i /\ PageOf(i) \in Nat /\ PageOf(i) * PageSize \in Nat
    BY <1>1, PageOfBounds
  <1>3. page_cnt # PageOf(i)
    BY <1>1, <1>2
  <1>4. ~ (page_cnt < PageOf(i))
    <2> SUFFICES ASSUME page_cnt < PageOf(i) PROVE FALSE
      OBVIOUS
    <2>1. page_cnt * PageSize + PageSize <= PageOf(i) * PageSize
      BY <1>1, <1>2, MulMono
    <2> QED BY <1>1, <1>2, <2>1
  <1> QED BY <1>1, <1>2, <1>3, <1>4

\* findBottom finds the smallest id that is left, in the page of the old one
\* or in the next page with objects.
LEMMA FindBottomCorrect ==
  ASSUME IInv, NEW id \in live, id = bottom_idx
  PROVE  FindBottom(live \ {id}, alloc_cnt - 1)
           = IF live \ {id} = {} THEN 0 ELSE Least(live \ {id})
PROOF
  <1> DEFINE L == live \ {id}
             p == PageOf(bottom_idx)
             here == {i \in L : PageOf(i) = p /\ i > bottom_idx}
             R == {r \in (p + 1)..(page_cnt - 1) : ValidPage(L, r)}
             q == Least(R)
             there == {i \in L : PageOf(i) = q}
  <1>1. alloc_cnt - 1 = 0 <=> L = {}
    <2>1. alloc_cnt - 1 = Cardinality(L) /\ IsFiniteSet(L)
      BY LiveFinite, FS_RemoveElement DEF IInv, BoundsOK
    <2> QED BY <2>1, FS_EmptySet
  <1>2. CASE L = {}
    BY <1>1, <1>2 DEF FindBottom
  <1>3. CASE L # {}
    <2>1. /\ L \in SUBSET Nat
          /\ \A i \in L : i > bottom_idx /\ PageOf(i) \in Nat /\ PageOf(i) >= p
          /\ p \in Nat
      <3>1. live # {} /\ bottom_idx = Least(live) /\ live \in SUBSET Nat
        BY LiveFinite DEF IInv, BoundsOK
      <3>2. \A i \in L : i > bottom_idx
        BY <3>1, LeastExists
      <3>3. bottom_idx \in Nat
        BY <3>1, LeastExists
      <3> QED BY <3>1, <3>2, <3>3, PageOfBounds, PageOfMonotonic
    <2>2. FindBottom(L, alloc_cnt - 1) = IF ValidPage(L, p) THEN Least(here) ELSE Least(there)
      BY <1>1, <1>3 DEF FindBottom
    <2>3. CASE ValidPage(L, p)
      <3>1. here \in SUBSET Nat /\ here # {}
        BY <2>1, <2>3 DEF ValidPage
      <3>2. Least(here) \in here /\ \A i \in here : Least(here) <= i
        BY <3>1, LeastExists
      <3>3. ASSUME NEW i \in L PROVE Least(here) <= i
        <4>1. CASE PageOf(i) = p
          BY <2>1, <3>2, <4>1
        <4>2. CASE PageOf(i) # p
          BY <2>1, <3>2, <4>2, PageOfMonotonic
        <4> QED BY <4>1, <4>2
      <3>4. Least(here) \in L
        BY <3>2
      <3> HIDE DEF L, here
      <3> QED BY <1>3, <2>1, <2>2, <2>3, <3>3, <3>4, LeastUnique DEF L
    <2>4. CASE ~ ValidPage(L, p)
      <3>1. ASSUME NEW i \in L PROVE PageOf(i) \in R
        <4>1. PageOf(i) # p
          BY <2>4 DEF ValidPage
        <4>2. PageOf(i) < page_cnt
          BY PageOfLive
        <4> QED BY <2>1, <4>1, <4>2 DEF IInv, TypeOK, ValidPage
      <3>2. R \in SUBSET Nat /\ R # {}
        <4>1. PICK i \in L : TRUE
          BY <1>3
        <4>2. PageOf(i) \in R
          BY <3>1
        <4>3. (p + 1)..(page_cnt - 1) \subseteq Nat
          BY <2>1 DEF IInv, TypeOK
        <4> QED BY <4>2, <4>3
      <3>3. q \in R /\ \A r \in R : q <= r
        BY <3>2, LeastExists
      <3>4. there \in SUBSET Nat /\ there # {}
        BY <2>1, <3>3 DEF ValidPage
      <3>5. Least(there) \in there /\ \A i \in there : Least(there) <= i
        BY <3>4, LeastExists
      <3>6. ASSUME NEW i \in L PROVE Least(there) <= i
        <4>1. CASE PageOf(i) = q
          BY <3>5, <4>1
        <4>2. CASE PageOf(i) # q
          <5>1. q <= PageOf(i) /\ PageOf(Least(there)) = q /\ Least(there) \in Nat
            BY <2>1, <3>1, <3>3, <3>5
          <5> QED BY <2>1, <3>2, <3>3, <4>2, <5>1, PageOfMonotonic
        <4> QED BY <4>1, <4>2
      <3>7. Least(there) \in L
        BY <3>5
      <3> HIDE DEF L, there
      <3> QED BY <1>3, <2>1, <2>2, <2>4, <3>6, <3>7, LeastUnique DEF L
    <2> QED BY <2>3, <2>4
  <1> QED BY <1>2, <1>3

\* findTop finds the largest id that is left.
LEMMA FindTopCorrect ==
  ASSUME IInv, NEW id \in live, id = top_idx
  PROVE  FindTop(live \ {id}, alloc_cnt - 1)
           = IF live \ {id} = {} THEN 0 ELSE Greatest(live \ {id})
PROOF
  <1> DEFINE L == live \ {id}
             p == PageOf(top_idx)
             here == {i \in L : PageOf(i) = p /\ i < top_idx}
             R == {r \in 0..(page_cnt - 1) : r < p /\ ValidPage(L, r)}
             q == Greatest(R)
             there == {i \in L : PageOf(i) = q}
  <1>1. alloc_cnt - 1 = 0 <=> L = {}
    <2>1. alloc_cnt - 1 = Cardinality(L) /\ IsFiniteSet(L)
      BY LiveFinite, FS_RemoveElement DEF IInv, BoundsOK
    <2> QED BY <2>1, FS_EmptySet
  <1>2. CASE L = {}
    BY <1>1, <1>2 DEF FindTop
  <1>3. CASE L # {}
    <2>1. /\ L \in SUBSET Nat
          /\ \A i \in L : i < top_idx /\ PageOf(i) \in Nat /\ PageOf(i) <= p
          /\ p \in Nat /\ top_idx \in Nat
          /\ p < page_cnt
      <3>1. live # {} /\ top_idx = Greatest(live) /\ live \in SUBSET Nat
        BY LiveFinite DEF IInv, BoundsOK
      <3>2. \A y \in live : y <= PageSize * MaxPages
        BY SlotIdProperties DEF IInv, TypeOK
      <3>3. \A i \in L : i < top_idx
        BY <3>1, <3>2, GreatestExists, SlotIdProperties
      <3>4. top_idx \in Nat
        BY <3>1
      <3> QED BY <3>1, <3>3, <3>4, PageOfBounds, PageOfMonotonic, PageOfLive
    <2>2. FindTop(L, alloc_cnt - 1) = IF ValidPage(L, p) THEN Greatest(here) ELSE Greatest(there)
      BY <1>1, <1>3 DEF FindTop
    <2>3. CASE ValidPage(L, p)
      <3>1. here \in SUBSET Nat /\ here # {} /\ \A i \in here : i <= top_idx
        BY <2>1, <2>3 DEF ValidPage
      <3>2. Greatest(here) \in here /\ \A i \in here : i <= Greatest(here)
        BY <2>1, <3>1, GreatestExists
      <3>3. ASSUME NEW i \in L PROVE i <= Greatest(here)
        <4>1. CASE PageOf(i) = p
          BY <2>1, <3>2, <4>1
        <4>2. CASE PageOf(i) # p
          BY <2>1, <3>2, <4>2, PageOfMonotonic
        <4> QED BY <4>1, <4>2
      <3>4. Greatest(here) \in L
        BY <3>2
      <3> HIDE DEF L, here
      <3> QED BY <1>3, <2>1, <2>2, <2>3, <3>3, <3>4, GreatestUnique DEF L
    <2>4. CASE ~ ValidPage(L, p)
      <3>1. ASSUME NEW i \in L PROVE PageOf(i) \in R
        <4>1. PageOf(i) # p
          BY <2>4 DEF ValidPage
        <4> QED BY <2>1, <4>1 DEF IInv, TypeOK, ValidPage
      <3>2. R \in SUBSET Nat /\ R # {} /\ \A r \in R : r <= p
        <4>1. PICK i \in L : TRUE
          BY <1>3
        <4>2. PageOf(i) \in R
          BY <3>1
        <4>3. 0..(page_cnt - 1) \subseteq Nat
          OBVIOUS
        <4> QED BY <2>1, <4>2, <4>3
      <3>3. q \in R /\ \A r \in R : r <= q
        BY <2>1, <3>2, GreatestExists
      <3>4. there \in SUBSET Nat /\ there # {} /\ \A i \in there : i <= top_idx
        BY <2>1, <3>3 DEF ValidPage
      <3>5. Greatest(there) \in there /\ \A i \in there : i <= Greatest(there)
        BY <2>1, <3>4, GreatestExists
      <3>6. ASSUME NEW i \in L PROVE i <= Greatest(there)
        <4>1. CASE PageOf(i) = q
          BY <3>5, <4>1
        <4>2. CASE PageOf(i) # q
          <5>1. /\ PageOf(i) <= q /\ PageOf(Greatest(there)) = q
                /\ Greatest(there) \in Nat
            BY <2>1, <3>1, <3>3, <3>5
          <5> QED BY <2>1, <3>2, <3>3, <4>2, <5>1, PageOfMonotonic
        <4> QED BY <4>1, <4>2
      <3>7. Greatest(there) \in L
        BY <3>5
      <3> HIDE DEF L, there
      <3> QED BY <1>3, <2>1, <2>2, <2>4, <3>6, <3>7, GreatestUnique DEF L
    <2> QED BY <2>3, <2>4
  <1> QED BY <1>2, <1>3

\* Putting an id that is not in a list in front of it.
LEMMA PushProperties ==
  ASSUME NEW q \in Seq(SlotId), NoneTwice(q), NEW id \in SlotId \ Ids(q)
  PROVE  /\ <<id>> \o q \in Seq(SlotId) /\ NoneTwice(<<id>> \o q)
         /\ Ids(<<id>> \o q) = Ids(q) \cup {id}
PROOF
  <1> DEFINE t == <<id>> \o q
  <1>1. /\ t \in Seq(SlotId) /\ Len(t) = Len(q) + 1 /\ Len(q) \in Nat
        /\ \A i \in 1..(Len(q) + 1) : t[i] = IF i <= 1 THEN id ELSE q[i - 1]
    BY ConcatProperties
  <1> HIDE DEF t
  <1>2. \A i \in 1..Len(t) : i # 1 => i - 1 \in 1..Len(q) /\ t[i] = q[i - 1] /\ t[i] # id
    BY <1>1 DEF Ids
  <1>3. NoneTwice(t)
    <2> SUFFICES ASSUME NEW j \in 1..Len(t), NEW k \in 1..Len(t), t[j] = t[k]
                 PROVE  j = k
      BY DEF NoneTwice
    <2>1. CASE j = 1 \/ k = 1
      BY <1>1, <1>2, <2>1
    <2>2. CASE j # 1 /\ k # 1
      <3>1. j - 1 = k - 1
        BY <1>2, <2>2 DEF NoneTwice
      <3> QED BY <3>1
    <2> QED BY <2>1, <2>2
  <1>4. Ids(t) \subseteq Ids(q) \cup {id}
    BY <1>1, <1>2 DEF Ids
  <1>5. Ids(q) \cup {id} \subseteq Ids(t)
    <2>1. id \in Ids(t)
      BY <1>1 DEF Ids
    <2>2. ASSUME NEW k \in 1..Len(q) PROVE q[k] \in Ids(t)
      <3>1. k + 1 \in 1..Len(t) /\ t[k + 1] = q[k + 1 - 1] /\ k + 1 - 1 = k
        BY <1>1
      <3> QED BY <3>1 DEF Ids
    <2> QED BY <2>1, <2>2 DEF Ids
  <1> QED BY <1>1, <1>3, <1>4, <1>5 DEF t

\* destroy() keeps the invariant.
LEMMA DestroyIInv == ASSUME NEW id \in SlotId PROVE IInv /\ Destroy(id) => IInv'
PROOF
  <1> SUFFICES ASSUME IInv, Destroy(id) PROVE IInv'
    OBVIOUS
  <1> DEFINE L == live \ {id}
  <1>1. /\ id \in live /\ live' = L /\ free' = <<id>> \o free /\ page_cnt' = page_cnt
        /\ alloc_cnt' = alloc_cnt - 1
    BY DEF Destroy
  <1>2. L \in SUBSET Nat /\ IsFiniteSet(live)
    BY LiveFinite
  <1>3. /\ NoneTwice(free) /\ live \subseteq SlotsBelow(page_cnt)
        /\ Ids(free) = SlotsBelow(page_cnt) \ live
    BY DEF IInv, FreeListOK, Slots, SlotsBelow, NoneTwice, Ids
  <1>4. /\ free' \in Seq(SlotId) /\ NoneTwice(free') /\ Ids(free') = Ids(free) \cup {id}
    BY <1>1, <1>3, PushProperties DEF IInv, TypeOK
  <1>5. alloc_cnt' = Cardinality(live') /\ alloc_cnt' \in Nat
    <2>1. IsFiniteSet(L) /\ Cardinality(L) = Cardinality(live) - 1
      BY <1>1, <1>2, FS_RemoveElement
    <2>2. Cardinality(L) \in Nat
      BY <2>1, FS_CardinalityType
    <2> QED BY <1>1, <2>1, <2>2 DEF IInv, BoundsOK
  <1>6. bottom_idx' = IF L = {} THEN 0 ELSE Least(L)
    <2>1. CASE id = bottom_idx
      BY <1>1, <2>1, FindBottomCorrect DEF Destroy
    <2>2. CASE id # bottom_idx
      <3>1. bottom_idx \in L /\ \A y \in L : bottom_idx <= y
        <4>1. live \in SUBSET Nat /\ live # {} /\ bottom_idx = Least(live)
          BY <1>1, LiveFinite DEF IInv, BoundsOK
        <4>2. bottom_idx \in live /\ \A y \in live : bottom_idx <= y
          BY <4>1, LeastExists
        <4> QED BY <2>2, <4>2
      <3> HIDE DEF L
      <3>2. Least(L) = bottom_idx
        BY <1>2, <3>1, LeastUnique
      <3> QED BY <2>2, <3>1, <3>2 DEF Destroy
    <2> QED BY <2>1, <2>2
  <1>7. top_idx' = IF L = {} THEN 0 ELSE Greatest(L)
    <2>1. CASE id = top_idx
      BY <1>1, <2>1, FindTopCorrect DEF Destroy
    <2>2. CASE id # top_idx
      <3>1. \A y \in live : y <= PageSize * MaxPages
        BY SlotIdProperties DEF IInv, TypeOK
      <3>2. top_idx \in L /\ \A y \in L : y <= top_idx
        BY <1>1, <2>2, <3>1, LiveFinite, SlotIdProperties, GreatestExists DEF IInv, BoundsOK
      <3> HIDE DEF L
      <3>3. Greatest(L) = top_idx
        BY <1>2, <3>2, GreatestUnique
      <3> QED BY <2>2, <3>2, <3>3 DEF Destroy
    <2> QED BY <2>1, <2>2
  <1>8. TypeOK'
    <2>1. L # {} => Least(L) \in Nat
      BY <1>2, LeastExists
    <2>2. L # {} => Greatest(L) \in Nat
      <3>1. \A y \in L : y <= PageSize * MaxPages
        BY SlotIdProperties DEF IInv, TypeOK
      <3>2. L # {} => Greatest(L) \in L
        BY <1>2, <3>1, SlotIdProperties, GreatestExists
      <3> QED BY <1>2, <3>2
    <2> QED BY <1>1, <1>4, <1>5, <1>6, <1>7, <2>1, <2>2 DEF IInv, TypeOK
  <1>9. FreeListOK'
    <2>1. \A j, k \in 1..Len(free') : free'[j] = free'[k] => j = k
      BY <1>4 DEF NoneTwice
    <2>2. {free'[k] : k \in 1..Len(free')} = SlotsBelow(page_cnt') \ live'
      BY <1>1, <1>3, <1>4 DEF Ids
    <2>3. live' \subseteq SlotsBelow(page_cnt')
      BY <1>1, <1>3
    <2> QED BY <2>1, <2>2, <2>3 DEF FreeListOK, Slots, SlotsBelow
  <1>10. BoundsOK'
    BY <1>1, <1>5, <1>6, <1>7 DEF BoundsOK
  <1> QED BY <1>8, <1>9, <1>10 DEF IInv

\* The table's invariant holds in every state: its variables have their types,
\* the free list and the live objects partition the slots of the pages, and
\* iteration bounds and count follow the objects, after any history of
\* creates and destroys, for any page size.
THEOREM TableInvariant == Spec => [](TypeOK /\ FreeListOK /\ BoundsOK)
PROOF
  <1>1. IInv /\ [Next]_vars => IInv'
    <2> SUFFICES ASSUME IInv, [Next]_vars PROVE IInv'
      OBVIOUS
    <2>1. CASE Create
      BY <2>1, CreateIInv
    <2>2. ASSUME NEW id \in SlotId, Destroy(id) PROVE IInv'
      BY <2>2, DestroyIInv
    <2>3. CASE UNCHANGED vars
      BY <2>3 DEF vars, IInv, TypeOK, FreeListOK, Slots, BoundsOK
    <2> QED BY <2>1, <2>2, <2>3 DEF Next
  <1>2. IInv => TypeOK /\ FreeListOK /\ BoundsOK
    BY DEF IInv
  <1> QED BY InitIInv, <1>1, <1>2, PTL DEF Spec

\* Whatever has been created and destroyed, every object lies between the
\* bounds that loops start and end at, both bounds are objects, and the count
\* is theirs: dbTable's findBottom and findTop search far enough.
THEOREM TableBounds == Spec => []BoundsOK
  BY TableInvariant, PTL

-----------------------------------------------------------------------------
(***************************************************************************)
(* The table implements the stack of ids.  The stack is the free list      *)
(* followed by the ids of the pages to come, so that adding a page moves   *)
(* ids from the second part to the first and the stack does not change.    *)
(***************************************************************************)

\* The ids of the pages from p on.
UnpagedFrom(p) ==
  [k \in 1..(IF p = 0 THEN PageSize * MaxPages - 1 ELSE PageSize * (MaxPages - p))
     |-> FirstOf(p) + k - 1]

\* They are the ids from the first of page p to the last of all.
LEMMA UnpagedProperties ==
  ASSUME NEW p \in 0..MaxPages
  PROVE  /\ UnpagedFrom(p) \in Seq(SlotId)
         /\ Len(UnpagedFrom(p)) = PageSize * MaxPages - FirstOf(p)
         /\ \A k \in 1..Len(UnpagedFrom(p)) : UnpagedFrom(p)[k] = FirstOf(p) + k - 1
         /\ FirstOf(p) \in Nat \ {0} /\ FirstOf(p) <= PageSize * MaxPages
PROOF
  <1> DEFINE n == IF p = 0 THEN PageSize * MaxPages - 1 ELSE PageSize * (MaxPages - p)
  <1>1. /\ PageSize * MaxPages \in Nat /\ p * PageSize \in Nat
        /\ PageSize * (MaxPages - p) = PageSize * MaxPages - p * PageSize
    OBVIOUS
  <1>2. p # 0 => 0 * PageSize + PageSize <= p * PageSize
    BY MulMono
  <1>3. p # MaxPages => p * PageSize + PageSize <= MaxPages * PageSize
    BY MulMono
  <1>4. 0 * PageSize + PageSize <= MaxPages * PageSize
    BY MulMono
  <1>5. 0 * PageSize = 0 /\ MaxPages * PageSize = PageSize * MaxPages
    OBVIOUS
  <1>6. FirstOf(p) \in Nat \ {0} /\ FirstOf(p) <= PageSize * MaxPages
    BY <1>1, <1>2, <1>3, <1>4, <1>5 DEF FirstOf
  <1>7. n = PageSize * MaxPages - FirstOf(p)
    BY <1>1 DEF FirstOf
  <1>8. UnpagedFrom(p) = [k \in 1..n |-> FirstOf(p) + k - 1]
    BY DEF UnpagedFrom
  <1> HIDE DEF n
  <1>9. n \in Nat /\ \A k \in 1..n : FirstOf(p) + k - 1 \in SlotId
    BY <1>1, <1>6, <1>7 DEF SlotId
  <1>10. UnpagedFrom(p) \in Seq(SlotId) /\ Len(UnpagedFrom(p)) = n
    BY <1>8, <1>9
  <1>11. \A k \in 1..n : UnpagedFrom(p)[k] = FirstOf(p) + k - 1
    BY <1>8
  <1> QED BY <1>6, <1>7, <1>10, <1>11

\* Adding a page leaves the stack as it is.
LEMMA NewPageStutters ==
  ASSUME NEW p \in Nat, p < MaxPages
  PROVE  PageIds(p) \o UnpagedFrom(p + 1) = UnpagedFrom(p)
PROOF
  <1> DEFINE s == PageIds(p)
             t == UnpagedFrom(p + 1)
             u == UnpagedFrom(p)
  <1>1. /\ s \in Seq(SlotId) /\ Len(s) = FirstOf(p + 1) - FirstOf(p) /\ Len(s) \in Nat
        /\ \A k \in 1..Len(s) : s[k] = FirstOf(p) + k - 1
    BY PageIdsProperties DEF FirstOf
  <1>2. /\ t \in Seq(SlotId) /\ Len(t) = PageSize * MaxPages - FirstOf(p + 1)
        /\ \A k \in 1..Len(t) : t[k] = FirstOf(p + 1) + k - 1
        /\ u \in Seq(SlotId) /\ Len(u) = PageSize * MaxPages - FirstOf(p)
        /\ \A k \in 1..Len(u) : u[k] = FirstOf(p) + k - 1
        /\ FirstOf(p) \in Nat /\ FirstOf(p + 1) \in Nat
    <2>1. p \in 0..MaxPages /\ p + 1 \in 0..MaxPages
      OBVIOUS
    <2>2. /\ t \in Seq(SlotId) /\ Len(t) = PageSize * MaxPages - FirstOf(p + 1)
          /\ \A k \in 1..Len(t) : t[k] = FirstOf(p + 1) + k - 1
          /\ FirstOf(p + 1) \in Nat
      BY <2>1, UnpagedProperties
    <2>3. /\ u \in Seq(SlotId) /\ Len(u) = PageSize * MaxPages - FirstOf(p)
          /\ \A k \in 1..Len(u) : u[k] = FirstOf(p) + k - 1
          /\ FirstOf(p) \in Nat
      BY <2>1, UnpagedProperties
    <2> QED BY <2>2, <2>3
  <1>3. /\ s \o t \in Seq(SlotId) /\ Len(s \o t) = Len(s) + Len(t)
        /\ \A i \in 1..(Len(s) + Len(t)) :
             (s \o t)[i] = IF i <= Len(s) THEN s[i] ELSE t[i - Len(s)]
    BY <1>1, <1>2, ConcatProperties
  <1>4. PageSize * MaxPages \in Nat
    BY SlotIdProperties
  <1> DEFINE N == PageSize * MaxPages
             f == FirstOf(p)
             g == FirstOf(p + 1)
  <1> HIDE DEF s, t, u, N, f, g
  <1>5. /\ Len(s) = g - f /\ Len(t) = N - g /\ Len(u) = N - f
        /\ f \in Nat /\ g \in Nat /\ N \in Nat
        /\ \A k \in 1..Len(s) : s[k] = f + k - 1
        /\ \A k \in 1..Len(t) : t[k] = g + k - 1
        /\ \A k \in 1..Len(u) : u[k] = f + k - 1
    BY <1>1, <1>2, <1>4 DEF N, f, g
  <1>6. Len(s \o t) = Len(u)
    BY <1>3, <1>5
  <1>7. ASSUME NEW i \in 1..Len(u) PROVE (s \o t)[i] = u[i]
    <2>1. i \in 1..(Len(s) + Len(t))
      BY <1>5
    <2>2. CASE i <= Len(s)
      BY <1>3, <1>5, <2>1, <2>2
    <2>3. CASE ~ (i <= Len(s))
      <3>1. i - Len(s) \in 1..Len(t)
        BY <1>5, <2>1, <2>3
      <3>2. (s \o t)[i] = g + (i - Len(s)) - 1
        BY <1>3, <1>5, <2>1, <2>3, <3>1
      <3> QED BY <1>5, <3>2
    <2> QED BY <2>2, <2>3
  <1>8. s \o t = u
    BY <1>2, <1>3, <1>6, <1>7, SeqEqual
  <1> QED BY <1>8 DEF s, t, u

\* create() takes the top of the stack.
LEMMA CreateIsAcquire == IInv /\ Create => Pool!Acquire
PROOF
  <1> SUFFICES ASSUME IInv, Create PROVE Pool!Acquire
    OBVIOUS
  <1> DEFINE u == UnpagedFrom(PagesThen)
  <1>1. /\ Popped \in Seq(SlotId) /\ Popped # <<>> /\ PagesThen \in 0..MaxPages
    BY PoppedProperties DEF Create
  <1>2. /\ free' = Tail(Popped) /\ live' = live \cup {Head(Popped)} /\ page_cnt' = PagesThen
    BY DEF Create, Popped, PagesThen
  <1>3. Unpaged = UnpagedFrom(page_cnt) /\ Unpaged' = u
    BY <1>2 DEF Unpaged, UnpagedFrom
  <1>4. u \in Seq(SlotId) /\ UnpagedFrom(page_cnt) \in Seq(SlotId)
    BY <1>1, UnpagedProperties DEF IInv, TypeOK
  <1> HIDE DEF u
  <1>5. free \o Unpaged = Popped \o u
    <2>1. CASE free # <<>>
      BY <1>3, <2>1 DEF Popped, PagesThen, u
    <2>2. CASE free = <<>>
      <3>1. page_cnt \in Nat /\ page_cnt < MaxPages
        BY <2>2 DEF Create, IInv, TypeOK
      <3>2. PageIds(page_cnt) \o u = Unpaged
        BY <1>3, <2>2, <3>1, NewPageStutters DEF PagesThen, u
      <3>3. free \o Unpaged = Unpaged
        BY <1>3, <1>4, <2>2, ConcatEmptySeq
      <3> QED BY <2>2, <3>2, <3>3 DEF Popped
    <2> QED BY <2>1, <2>2
  <1>6. /\ Popped \o u # <<>> /\ Head(Popped \o u) = Head(Popped)
        /\ Tail(Popped \o u) = Tail(Popped) \o u
    BY <1>1, <1>4
  <1> QED BY <1>2, <1>3, <1>5, <1>6 DEF Pool!Acquire

\* destroy() puts the id back on top.
LEMMA DestroyIsRelease ==
  ASSUME NEW id \in SlotId PROVE IInv /\ Destroy(id) => Pool!Release(id)
PROOF
  <1> SUFFICES ASSUME IInv, Destroy(id) PROVE Pool!Release(id)
    OBVIOUS
  <1>1. /\ id \in live /\ live' = live \ {id} /\ free' = <<id>> \o free
        /\ page_cnt' = page_cnt /\ free \in Seq(SlotId)
    BY DEF Destroy, IInv, TypeOK
  <1>2. Unpaged = UnpagedFrom(page_cnt) /\ Unpaged' = Unpaged
    BY <1>1 DEF Unpaged, UnpagedFrom
  <1>3. Unpaged \in Seq(SlotId)
    BY <1>2, UnpagedProperties DEF IInv, TypeOK
  <1>4. free' \o Unpaged' = <<id>> \o (free \o Unpaged)
    BY <1>1, <1>2, <1>3, ConcatAssociative
  <1> QED BY <1>1, <1>4 DEF Pool!Release

\* Whatever its page size, a table hands out ids as a stack does: the id of a
\* new object is the one released last.  The journal's undo rests on it.
THEOREM TableImplementsIdPool == Spec => ImplementsIdPool
PROOF
  <1>1. Init => Pool!Init
    <2> SUFFICES ASSUME Init PROVE Pool!Init
      OBVIOUS
    <2>1. free = <<>> /\ live = {} /\ page_cnt = 0
      BY DEF Init
    <2>2. Unpaged = UnpagedFrom(0) /\ UnpagedFrom(0) \in Seq(SlotId)
      BY <2>1, UnpagedProperties DEF Unpaged, UnpagedFrom
    <2>3. free \o Unpaged = Unpaged
      BY <2>1, <2>2, ConcatEmptySeq
    <2>4. Unpaged = [i \in 1..(PageSize * MaxPages - 1) |-> i]
      BY <2>1 DEF Unpaged, FirstOf
    <2> QED BY <2>1, <2>3, <2>4 DEF Pool!Init, Pool!Id
  <1>2. IInv /\ [Next]_vars => [Pool!Next]_Pool!poolVars
    <2> SUFFICES ASSUME IInv, [Next]_vars PROVE [Pool!Next]_Pool!poolVars
      OBVIOUS
    <2>1. CASE Create
      BY <2>1, CreateIsAcquire DEF Pool!Next
    <2>2. ASSUME NEW id \in SlotId, Destroy(id) PROVE Pool!Next
      BY <2>2, DestroyIsRelease DEF Pool!Next, Pool!Id, SlotId
    <2>3. CASE UNCHANGED vars
      BY <2>3 DEF vars, Pool!poolVars, Unpaged
    <2> QED BY <2>1, <2>2, <2>3 DEF Next
  <1>3. Spec => []IInv
    BY TableInvariant, PTL DEF IInv
  <1> QED BY <1>1, <1>2, <1>3, PTL DEF Spec, ImplementsIdPool, Pool!Spec

-----------------------------------------------------------------------------
(***************************************************************************)
(* Walks over the table, while their bodies create and destroy objects.    *)
(***************************************************************************)

\* The objects in front of an id.
Ahead(id) == {o \in live : o > id}

-----------------------------------------------------------------------------
\* The search of dbTable::next, in the page of id + 1 and then from page to
\* page, finds the next object in use, and 0 only when there is none.
LEMMA NextIdCorrect ==
  ASSUME IInv, NEW id \in Nat
  PROVE  NextId(id) = IF Ahead(id) = {} THEN 0 ELSE Least(Ahead(id))
PROOF
  <1> DEFINE p == PageOf(id + 1)
             here == {o \in live : PageOf(o) = p /\ o > id}
             later == {r \in (p + 1)..(page_cnt - 1) : ValidPage(live, r)}
             q == Least(later)
             there == {o \in live : PageOf(o) = q}
  <1>0. top_idx \in Nat
    BY DEF IInv, TypeOK
  <1>1. /\ live \in SUBSET Nat /\ p \in Nat /\ page_cnt \in Nat
        /\ Ahead(id) \in SUBSET Nat
        /\ \A o \in live : PageOf(o) \in Nat
    <2>1. live \in SUBSET Nat
      BY LiveFinite
    <2>2. p \in Nat /\ \A o \in live : PageOf(o) \in Nat
      BY <2>1, PageOfBounds
    <2>3. page_cnt \in Nat
      BY DEF IInv, TypeOK
    <2>4. Ahead(id) \in SUBSET Nat
      BY <2>1 DEF Ahead
    <2> QED BY <2>1, <2>2, <2>3, <2>4
  <1>2. \A o \in Ahead(id) : id + 1 <= o /\ p <= PageOf(o)
    <2> SUFFICES ASSUME NEW o \in Ahead(id) PROVE id + 1 <= o /\ p <= PageOf(o)
      OBVIOUS
    <2>1. o \in live /\ id + 1 <= o /\ o \in Nat
      BY <1>1 DEF Ahead
    <2>2. ~(PageOf(o) < PageOf(id + 1))
      BY <2>1, PageOfMonotonic
    <2> QED BY <1>1, <2>1, <2>2
  <1>3. CASE id + 1 > top_idx
    <2>1. ASSUME NEW o \in live PROVE o <= id
      <3>1. PageSize * MaxPages \in Nat /\ \A y \in live : y <= PageSize * MaxPages
        BY <1>1, SlotIdProperties DEF IInv, TypeOK
      <3>2. o <= Greatest(live)
        BY <1>1, <3>1, GreatestExists
      <3>3. top_idx = Greatest(live)
        BY DEF IInv, BoundsOK
      <3> QED BY <1>1, <1>3, <3>2, <3>3 DEF IInv, TypeOK
    <2>2. Ahead(id) = {}
      BY <1>1, <2>1 DEF Ahead
    <2> QED BY <1>3, <2>2 DEF NextId
  <1>4. CASE id + 1 <= top_idx /\ here # {}
    <2>1. NextId(id) = Least(here)
      BY <1>0, <1>4 DEF NextId
    <2>2. here \in SUBSET Nat /\ here \subseteq Ahead(id)
      BY <1>1 DEF Ahead
    <2>3. Least(here) \in here /\ \A o \in here : Least(here) <= o
      BY <1>4, <2>2, LeastExists
    <2>4. ASSUME NEW o \in Ahead(id) PROVE Least(here) <= o
      <3>1. CASE o \in here
        BY <2>3, <3>1
      <3>2. CASE o \notin here
        <4>1. p < PageOf(o) /\ PageOf(Least(here)) = p
          BY <1>1, <1>2, <2>3, <3>2 DEF Ahead
        <4> QED BY <1>1, <2>2, <2>3, <4>1, PageOfMonotonic
      <3> QED BY <3>1, <3>2
    <2>5. Least(here) \in Ahead(id)
      BY <2>2, <2>3
    <2> HIDE DEF here
    <2> QED BY <1>1, <2>1, <2>4, <2>5, LeastUnique
  <1>5. CASE id + 1 <= top_idx /\ here = {} /\ later # {}
    <2>1. NextId(id) = Least(there)
      BY <1>0, <1>5 DEF NextId
    <2>2. later \in SUBSET Nat
      BY <1>1
    <2>3. q \in later /\ \A r \in later : q <= r
      BY <1>5, <2>2, LeastExists
    <2>4. there \in SUBSET Nat /\ there # {}
      BY <1>1, <2>3 DEF ValidPage
    <2>5. Least(there) \in there /\ \A o \in there : Least(there) <= o
      BY <2>4, LeastExists
    <2>6. ASSUME NEW o \in Ahead(id) PROVE Least(there) <= o
      <3>1. PageOf(o) \in later
        BY <1>1, <1>2, <1>5, PageOfLive DEF Ahead, ValidPage
      <3>2. CASE PageOf(o) = q
        BY <2>5, <3>2 DEF Ahead
      <3>3. CASE PageOf(o) # q
        <4>1. PageOf(Least(there)) < PageOf(o)
          BY <1>1, <2>2, <2>3, <2>5, <3>1, <3>3
        <4> QED BY <1>1, <2>4, <2>5, <4>1, PageOfMonotonic
      <3> QED BY <3>2, <3>3
    <2>7. Least(there) \in Ahead(id)
      <3>1. Least(there) \in live /\ PageOf(Least(there)) = q /\ p < q
        BY <1>1, <2>3, <2>5
      <3>2. Least(there) \in Nat
        BY <1>1, <3>1
      <3>3. id + 1 < Least(there)
        BY <1>1, <3>1, <3>2, PageOfMonotonic
      <3> HIDE DEF there
      <3> QED BY <3>1, <3>2, <3>3 DEF Ahead
    <2> HIDE DEF there
    <2> QED BY <1>1, <2>1, <2>6, <2>7, LeastUnique
  <1>6. CASE id + 1 <= top_idx /\ here = {} /\ later = {}
    <2>1. NextId(id) = 0
      BY <1>6 DEF NextId
    <2>2. ASSUME NEW o \in Ahead(id) PROVE FALSE
      BY <1>1, <1>2, <1>6, PageOfLive DEF Ahead, ValidPage
    <2> QED BY <2>1, <2>2
  <1> QED BY <1>3, <1>4, <1>5, <1>6, <1>0

-----------------------------------------------------------------------------
\* While the loop runs, what it has visited lies behind it.
Behind ==
  /\ cursor \in Nat
  /\ visited \subseteq Nat \ {0}
  /\ looping => cursor # 0 /\ \A o \in visited : o <= cursor

WInv == IInv /\ lasting \subseteq live /\ Behind /\ VisitsAll

\* The loop moves to the next object in front of it, or ends behind them all.
LEMMA MovesProperties ==
  ASSUME IInv, cursor \in Nat, Moves
  PROVE  /\ looping' => cursor' \in live /\ cursor' > cursor
                          /\ \A o \in live : o > cursor => cursor' <= o
         /\ ~looping' => cursor' = 0 /\ \A o \in live : o <= cursor
PROOF
  <1>1. cursor' = IF Ahead(cursor) = {} THEN 0 ELSE Least(Ahead(cursor))
    BY NextIdCorrect DEF Moves
  <1>2. live \subseteq Nat \ {0} /\ Ahead(cursor) \in SUBSET Nat
    BY LiveFinite DEF Ahead
  <1>3. CASE Ahead(cursor) = {}
    <2>1. cursor' = 0 /\ ~looping'
      BY <1>1, <1>3 DEF Moves
    <2>2. \A o \in live : o <= cursor
      BY <1>2, <1>3 DEF Ahead
    <2> QED BY <2>1, <2>2
  <1>4. CASE Ahead(cursor) # {}
    <2>1. cursor' \in Ahead(cursor) /\ \A o \in Ahead(cursor) : cursor' <= o
      BY <1>1, <1>2, <1>4, LeastExists
    <2> QED BY <1>2, <2>1 DEF Moves, Ahead
  <1> QED BY <1>3, <1>4

\* Moving keeps the loop's part of the invariant, whatever becomes of the
\* objects other than lasting ones.
LEMMA MovesWInv ==
  ASSUME WInv, looping, Moves, lasting' \subseteq lasting
  PROVE  Behind' /\ VisitsAll'
PROOF
  <1>1. /\ cursor \in Nat /\ visited \subseteq Nat \ {0}
        /\ \A o \in visited : o <= cursor
        /\ lasting \subseteq live /\ live \subseteq Nat \ {0}
        /\ \A o \in lasting : o <= cursor => o \in visited
    BY LiveFinite DEF WInv, Behind, VisitsAll
  <1>2. visited' = visited \cup ({cursor'} \ {0})
    BY DEF Moves
  <1>3. CASE looping'
    <2>1. cursor' \in live /\ cursor' > cursor /\ \A o \in live : o > cursor => cursor' <= o
      BY <1>1, <1>3, MovesProperties DEF WInv
    <2>2. Behind'
      BY <1>1, <1>2, <2>1 DEF Behind
    <2>3. ASSUME NEW o \in lasting', o <= cursor' PROVE o \in visited'
      <3>1. o \in live /\ o \in Nat /\ (o <= cursor => o \in visited)
        BY <1>1, <2>3
      <3>2. CASE o <= cursor
        BY <1>2, <3>1, <3>2
      <3>3. CASE o > cursor
        BY <1>1, <1>2, <2>1, <2>3, <3>1, <3>3
      <3> QED BY <1>1, <3>1, <3>2, <3>3
    <2> QED BY <1>3, <2>2, <2>3 DEF VisitsAll
  <1>4. CASE ~looping'
    <2>1. cursor' = 0 /\ \A o \in live : o <= cursor
      BY <1>1, <1>4, MovesProperties DEF WInv
    <2>2. lasting' \subseteq visited'
      BY <1>1, <1>2, <2>1
    <2> QED BY <1>1, <1>2, <1>4, <2>1, <2>2 DEF Behind, VisitsAll
  <1> QED BY <1>3, <1>4

\* A loop starts at the smallest object.
LEMMA LoopBeginWInv == WInv /\ LoopBegin => WInv'
PROOF
  <1> SUFFICES ASSUME WInv, LoopBegin PROVE WInv'
    OBVIOUS
  <1>1. IInv'
    BY DEF WInv, LoopBegin, vars, IInv, TypeOK, FreeListOK, Slots, BoundsOK
  <1>2. live \subseteq Nat \ {0} /\ bottom_idx \in Nat
    BY LiveFinite DEF WInv, IInv, TypeOK
  <1>3. CASE live = {}
    BY <1>1, <1>2, <1>3 DEF WInv, LoopBegin, vars, IInv, BoundsOK, Behind, VisitsAll
  <1>4. CASE live # {}
    <2>1. bottom_idx \in live /\ \A o \in live : bottom_idx <= o
      BY <1>2, <1>4, LeastExists DEF WInv, IInv, BoundsOK
    <2>2. ASSUME NEW o \in lasting', o <= cursor' PROVE o \in visited'
      <3>1. o \in live /\ o = bottom_idx
        BY <1>2, <2>1, <2>2 DEF LoopBegin
      <3> QED BY <1>2, <3>1 DEF LoopBegin
    <2>3. looping' /\ Behind'
      BY <1>2, <2>1 DEF LoopBegin, Behind
    <2>4. lasting' \subseteq live'
      BY DEF LoopBegin, vars
    <2> QED BY <1>1, <2>2, <2>3, <2>4 DEF WInv, VisitsAll
  <1> QED BY <1>3, <1>4

\* Every step of a loop and of its body keeps the invariant.
LEMMA WInvInductive == WInv /\ [WalkNext]_walkVars => WInv'
PROOF
  <1> SUFFICES ASSUME WInv, [WalkNext]_walkVars PROVE WInv'
    OBVIOUS
  <1> USE DEF WInv
  <1>1. CASE LoopBegin
    BY <1>1, LoopBeginWInv
  <1>2. CASE LoopNext
    <2>1. IInv' /\ live' = live
      BY <1>2 DEF LoopNext, vars, IInv, TypeOK, FreeListOK, Slots, BoundsOK
    <2>2. Behind' /\ VisitsAll'
      BY <1>2, MovesWInv DEF LoopNext
    <2> QED BY <1>2, <2>1, <2>2 DEF LoopNext
  <1>3. CASE LoopDestroy
    <2>1. IInv'
      <3>1. cursor \in SlotId /\ Destroy(cursor)
        BY <1>3 DEF LoopDestroy, IInv, TypeOK
      <3> QED BY <3>1, DestroyIInv
    <2>2. Behind' /\ VisitsAll'
      BY <1>3, MovesWInv DEF LoopDestroy
    <2> QED BY <1>3, <2>1, <2>2 DEF LoopDestroy, Destroy
  <1>4. CASE BodyCreate
    <2>1. IInv' /\ live \subseteq live'
      BY <1>4, CreateIInv DEF BodyCreate, Create
    <2> QED BY <1>4, <2>1 DEF BodyCreate, walk, Behind, VisitsAll
  <1>5. ASSUME NEW id \in SlotId, BodyDestroy(id) PROVE WInv'
    <2>1. IInv' /\ live' = live \ {id}
      BY <1>5, DestroyIInv DEF BodyDestroy, Destroy
    <2> QED BY <1>5, <2>1 DEF BodyDestroy, Behind, VisitsAll
  <1>6. CASE UNCHANGED walkVars
    BY <1>6 DEF walkVars, vars, walk, IInv, TypeOK, FreeListOK, Slots, BoundsOK,
                Behind, VisitsAll
  <1> QED BY <1>1, <1>2, <1>3, <1>4, <1>5, <1>6 DEF WalkNext

LEMMA WInvHolds == WalkSpec => []WInv
PROOF
  <1>1. WalkInit => WInv
    BY InitIInv DEF WalkInit, Init, WInv, Behind, VisitsAll
  <1> QED BY <1>1, WInvInductive, PTL DEF WalkSpec

\* A loop over a table, of any page size, passes none of the objects that are
\* there from its beginning to its end, whatever its body creates and destroys.
THEOREM WalkVisitsAll == WalkSpec => []VisitsAll
PROOF
  <1>1. WInv => VisitsAll
    BY DEF WInv
  <1> QED BY <1>1, WInvHolds, PTL

\* It is never at the same id twice, even when the object there was destroyed
\* and another one created in its slot.
THEOREM WalkMeetsOnce == WalkSpec => EachOnce
PROOF
  <1>1. WInv /\ [WalkNext]_walkVars
          => [looping /\ cursor' # cursor => cursor' \notin visited]_walkVars
    <2> SUFFICES ASSUME WInv, WalkNext, looping, cursor' # cursor
                 PROVE  cursor' \notin visited
      OBVIOUS
    <2>1. Moves
      BY DEF WalkNext, LoopBegin, LoopNext, LoopDestroy, BodyCreate, BodyDestroy, walk
    <2>2. cursor' = 0 \/ cursor' > cursor
      BY <2>1, MovesProperties DEF WInv, Behind
    <2>3. /\ cursor \in Nat /\ visited \subseteq Nat \ {0}
          /\ \A o \in visited : o <= cursor
      BY DEF WInv, Behind
    <2>4. ASSUME cursor' \in visited PROVE FALSE
      <3>1. cursor' \in Nat \ {0} /\ cursor' <= cursor
        BY <2>3, <2>4
      <3> QED BY <2>2, <2>3, <3>1
    <2> QED BY <2>4
  <1> QED BY <1>1, WInvHolds, PTL DEF WalkSpec, EachOnce
=============================================================================
