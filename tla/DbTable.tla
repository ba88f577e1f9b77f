------------------------------- MODULE DbTable ------------------------------
(***************************************************************************)
(* One OpenDB object table (dbTable<T>, src/src/odb/src/db/dbTable.hpp):   *)
(* objects live in pages of PageSize slots, an object's id is its slot's   *)
(* number over all pages, slot 0 is never an object, and the free slots    *)
(* form a list that create() pops and destroy() pushes.  The table also    *)
(* keeps the number of objects and the smallest and the largest id in use, *)
(* between which every iteration over the table runs.                      *)
(*                                                                         *)
(* A slot's contents, the page directory and its doubling are left out:    *)
(* they hold no decision.  MaxPages bounds the table.                      *)
(***************************************************************************)
EXTENDS Naturals, Sequences, FiniteSets

CONSTANTS
  PageSize,     \* slots of a page (a power of two in the code)
  MaxPages      \* bound on the number of pages

ASSUME PageSizeAssumption == PageSize \in Nat \ {0, 1}
ASSUME MaxPagesAssumption == MaxPages \in Nat \ {0}

VARIABLES
  free,         \* _free_list, head first
  live,         \* the ids whose slot has DB_ALLOC_BIT set
  page_cnt,     \* _page_cnt
  alloc_cnt,    \* _alloc_cnt
  bottom_idx,   \* _bottom_idx, 0 when the table is empty
  top_idx       \* _top_idx, 0 when the table is empty

vars == <<free, live, page_cnt, alloc_cnt, bottom_idx, top_idx>>

SlotId == 1..(PageSize * MaxPages - 1)

PageOf(id) == id \div PageSize

Least(S) == CHOOSE x \in S : \A y \in S : x <= y
Greatest(S) == CHOOSE x \in S : \A y \in S : y <= x

\* Faulty: slot 0 of every page is left out.
FirstOfNone(p) == p * PageSize + 1

\* newPage links the slots of a page from the last to the first, so that they
\* are taken in ascending order; slot 0 of page 0 is not linked.
FirstOf(p) == IF p = 0 THEN 1 ELSE p * PageSize

\* Faulty: the slots are linked from the first to the last.
PageIdsLastFirst(p) ==
  [k \in 1..((p + 1) * PageSize - FirstOf(p)) |-> (p + 1) * PageSize - k]

PageIds(p) == [k \in 1..((p + 1) * PageSize - FirstOf(p)) |-> FirstOf(p) + k - 1]

\* valid_page(): the page's _alloccnt is not zero.
ValidPage(L, p) == \E id \in L : PageOf(id) = p

\* findBottom and findTop, with L the ids left after a destroy: the next
\* object of the same page, else the nearest page that has objects.
FindBottom(L, cnt) ==
  IF cnt = 0 THEN 0
  ELSE LET p == PageOf(bottom_idx)
           here == {id \in L : PageOf(id) = p /\ id > bottom_idx}
           q == Least({r \in (p + 1)..(page_cnt - 1) : ValidPage(L, r)})
       IN  IF ValidPage(L, p) THEN Least(here)
           ELSE Least({id \in L : PageOf(id) = q})

\* Faulty: the slot below the old top is taken to be in use.
FindTopNextSlot(L, cnt) == IF cnt = 0 THEN 0 ELSE top_idx - 1

FindTop(L, cnt) ==
  IF cnt = 0 THEN 0
  ELSE LET p == PageOf(top_idx)
           here == {id \in L : PageOf(id) = p /\ id < top_idx}
           q == Greatest({r \in 0..(page_cnt - 1) : r < p /\ ValidPage(L, r)})
       IN  IF ValidPage(L, p) THEN Greatest(here)
           ELSE Greatest({id \in L : PageOf(id) = q})

Init ==
  /\ free = <<>>
  /\ live = {}
  /\ page_cnt = 0
  /\ alloc_cnt = 0
  /\ bottom_idx = 0
  /\ top_idx = 0

\* dbTable::create, newPage included.
Create ==
  LET list == IF free = <<>> THEN PageIds(page_cnt) ELSE free
      id == Head(list)
  IN  /\ free = <<>> => page_cnt < MaxPages
      /\ page_cnt' = IF free = <<>> THEN page_cnt + 1 ELSE page_cnt
      /\ alloc_cnt' = alloc_cnt + 1
      /\ free' = Tail(list)
      /\ live' = live \cup {id}
      /\ top_idx' = IF id > top_idx THEN id ELSE top_idx
      /\ bottom_idx' = IF bottom_idx = 0 \/ id < bottom_idx THEN id ELSE bottom_idx

\* dbTable::destroy of an object of the table.
Destroy(id) ==
  /\ id \in live
  /\ alloc_cnt' = alloc_cnt - 1
  /\ live' = live \ {id}
  /\ free' = <<id>> \o free
  /\ bottom_idx' = IF id = bottom_idx THEN FindBottom(live \ {id}, alloc_cnt - 1)
                   ELSE bottom_idx
  /\ top_idx' = IF id = top_idx THEN FindTop(live \ {id}, alloc_cnt - 1)
                ELSE top_idx
  /\ UNCHANGED page_cnt

Next == Create \/ \E id \in SlotId : Destroy(id)

Spec == Init /\ [][Next]_vars

-----------------------------------------------------------------------------
(***************************************************************************)
(* Properties.                                                             *)
(***************************************************************************)

\* The ids the table has slots for.
Slots == {id \in SlotId : id < page_cnt * PageSize}

\* The variables have the types their declarations give them.
TypeOK ==
  /\ free \in Seq(SlotId)
  /\ live \subseteq SlotId
  /\ page_cnt \in 0..MaxPages
  /\ alloc_cnt \in Nat
  /\ bottom_idx \in Nat
  /\ top_idx \in Nat

\* No slot is both free and in use, none is free twice and none is lost: the
\* free list and the live objects partition the slots of the table.
FreeListOK ==
  /\ \A j, k \in 1..Len(free) : free[j] = free[k] => j = k
  /\ {free[k] : k \in 1..Len(free)} = Slots \ live
  /\ live \subseteq Slots

\* Iteration over a table runs from _bottom_idx to _top_idx: after any history
\* of creates and destroys these are the smallest and the largest id in use,
\* and the count agrees, so that an iteration visits every object and stops.
BoundsOK ==
  /\ alloc_cnt = Cardinality(live)
  /\ live = {} => bottom_idx = 0 /\ top_idx = 0
  /\ live # {} => bottom_idx = Least(live) /\ top_idx = Greatest(live)

\* The table is a stack of ids: its free list, with the ids of the pages not
\* yet allocated below it.  newPage is a stuttering step of the stack.
Unpaged == [k \in 1..(IF page_cnt = 0 THEN PageSize * MaxPages - 1
                      ELSE PageSize * (MaxPages - page_cnt))
              |-> FirstOf(page_cnt) + k - 1]

Pool == INSTANCE IdPool WITH
          MaxId <- PageSize * MaxPages - 1,
          avail <- free \o Unpaged,
          used  <- live

\* Every step of the table is a step of the id stack: create returns the id
\* released last, whatever pages it had to add.
ImplementsIdPool == Pool!Spec
=============================================================================
