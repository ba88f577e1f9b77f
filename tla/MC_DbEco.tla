------------------------------ MODULE MC_DbEco ------------------------------
(* DbEco on the blocks of MC_Blocks. *)
EXTENDS DbEco, MC_Blocks

=============================================================================
