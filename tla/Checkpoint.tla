----------------------------- MODULE Checkpoint -----------------------------
(***************************************************************************)
(* What the ECO journal promises its users: begin takes a checkpoint of    *)
(* the block, end puts it aside, and undo, once it has started, brings     *)
(* back the block as it was at the checkpoint.  There is one checkpoint    *)
(* being taken and one put aside; taking another forgets the first.        *)
(***************************************************************************)

CONSTANTS
  Value,    \* the blocks
  None      \* no checkpoint

VARIABLES
  view,     \* the block
  base,     \* the block when the open ECO began, or None
  saved,    \* the checkpoint that undo goes back to, or None
  undoing   \* an undo is in progress

cpVars == <<view, base, saved, undoing>>

Init ==
  /\ view \in Value
  /\ base = None /\ saved = None
  /\ undoing = FALSE

Edit == ~undoing /\ view' # view /\ UNCHANGED <<base, saved, undoing>>

Begin == ~undoing /\ base' = view /\ UNCHANGED <<view, saved, undoing>>

End == ~undoing /\ saved' = base /\ base' = None /\ UNCHANGED <<view, undoing>>

\* An undo of an ECO that changed nothing ends at once.
Undo ==
  /\ ~undoing /\ saved # None
  /\ \/ undoing' = TRUE /\ UNCHANGED <<view, base, saved>>
     \/ view = saved /\ saved' = None /\ UNCHANGED <<view, base, undoing>>

Restored ==
  /\ undoing
  /\ view' = saved
  /\ saved' = None /\ undoing' = FALSE
  /\ UNCHANGED base

Next == Edit \/ Begin \/ End \/ Undo \/ Restored

Spec == Init /\ [][Next]_cpVars /\ WF_cpVars(Restored)
=============================================================================
