------------------------------- MODULE IdPool -------------------------------
(***************************************************************************)
(* What OpenDB's object tables promise their users about object ids: ids   *)
(* are handed out from a stack.  Creating an object takes the id on top,   *)
(* destroying one puts its id back on top, and the ids that were never     *)
(* used lie below in ascending order.  The journal's undo depends on it:   *)
(* undoing a deletion must give the object the id it had, since later log  *)
(* entries name objects by id.                                             *)
(*                                                                         *)
(* MaxId bounds the ids (the real ones end at 2^31).                       *)
(***************************************************************************)
EXTENDS Naturals, Sequences

CONSTANT MaxId      \* a natural number

VARIABLES
  avail,      \* the stack of ids that are not in use, top first
  used        \* the ids of the objects that exist

poolVars == <<avail, used>>

Id == 1..MaxId

Init ==
  /\ avail = [i \in Id |-> i]
  /\ used = {}

Acquire ==
  /\ avail # <<>>
  /\ used' = used \cup {Head(avail)}
  /\ avail' = Tail(avail)

Release(id) ==
  /\ id \in used
  /\ used' = used \ {id}
  /\ avail' = <<id>> \o avail

Next == Acquire \/ \E id \in Id : Release(id)

Spec == Init /\ [][Next]_poolVars
=============================================================================
