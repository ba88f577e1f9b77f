---------------------------- MODULE MC_TableWalk ----------------------------
(* A table of three pages of two slots. *)
EXTENDS TableWalk

=============================================================================
