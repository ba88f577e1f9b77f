------------------------------ MODULE TableWalk -----------------------------
(***************************************************************************)
(* A loop over an OpenDB table (dbSet's iterator: dbTable::begin and next) *)
(* whose body creates and destroys objects of the same table, as most of   *)
(* the tools' loops do.  The iterator is an id; next searches from it on,  *)
(* between the bounds the table has by then.                               *)
(***************************************************************************)
EXTENDS DbTable

VARIABLES
  cursor,     \* the object the loop is at; 0 before and after it
  looping,    \* the loop has begun and not ended
  visited,    \* history: the objects the loop has been at
  lasting     \* history: the objects that were there when the loop began and
              \* have not been destroyed since

walk == <<cursor, looping, visited, lasting>>
walkVars == <<vars, walk>>

\* Faulty: after the last object the first one is next.
NextAround(id) ==
  LET ahead == {o \in live : o > id}
  IN  IF ahead # {} THEN Least(ahead) ELSE IF bottom_idx = id THEN 0 ELSE bottom_idx

\* Faulty: the search ends with the page.
NextInPage(id) ==
  LET ahead == {o \in live : o > id /\ PageOf(o) = PageOf(id + 1)}
  IN  IF id + 1 > top_idx \/ ahead = {} THEN 0 ELSE Least(ahead)

\* dbTable::next: the next object in the page of id + 1, or else the first in
\* the nearest page that has any.
NextId(id) ==
  LET p == PageOf(id + 1)
      here == {o \in live : PageOf(o) = p /\ o > id}
      later == {r \in (p + 1)..(page_cnt - 1) : ValidPage(live, r)}
  IN  IF id + 1 > top_idx \/ (here = {} /\ later = {}) THEN 0
      ELSE IF here # {} THEN Least(here)
      ELSE Least({o \in live : PageOf(o) = Least(later)})

LoopBegin ==
  /\ ~looping
  /\ looping' = (bottom_idx # 0)
  /\ cursor' = bottom_idx
  /\ visited' = {bottom_idx} \ {0}
  /\ lasting' = live
  /\ UNCHANGED vars

\* The loop goes on to the next object, or ends.
Moves ==
  /\ cursor' = NextId(cursor)
  /\ looping' = (cursor' # 0)
  /\ visited' = visited \cup ({cursor'} \ {0})

LoopNext == looping /\ Moves /\ UNCHANGED <<vars, lasting>>

\* destroy(itr): the iterator is moved first, then its object destroyed.
LoopDestroy ==
  /\ looping /\ cursor \in live
  /\ Moves
  /\ Destroy(cursor)
  /\ lasting' = lasting \ {cursor}

\* The loop's body, or code it calls, creates an object, or destroys one: also
\* the one the loop is at, whose slot may then be given to another object.
BodyCreate == Create /\ UNCHANGED walk

BodyDestroy(id) ==
  /\ Destroy(id)
  /\ lasting' = lasting \ {id}
  /\ UNCHANGED <<cursor, looping, visited>>

WalkInit ==
  /\ Init
  /\ cursor = 0 /\ looping = FALSE /\ visited = {} /\ lasting = {}

WalkNext ==
  \/ LoopBegin \/ LoopNext \/ LoopDestroy
  \/ BodyCreate \/ \E id \in SlotId : BodyDestroy(id)

WalkSpec == WalkInit /\ [][WalkNext]_walkVars

-----------------------------------------------------------------------------
\* Whatever the body creates and destroys meanwhile, and however empty pages
\* come and go, the loop passes no object that was there all the time, and
\* when it has ended it has been at all of them.
VisitsAll ==
  /\ looping => \A id \in lasting : id <= cursor => id \in visited
  /\ ~looping => lasting \subseteq visited

\* No object is met twice, nor a new one in the place of one that was met:
\* what the body creates in freed slots behind the loop is not visited.
EachOnce == [][looping /\ cursor' # cursor => cursor' \notin visited]_walkVars
=============================================================================
