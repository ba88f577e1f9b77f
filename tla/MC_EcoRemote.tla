---------------------------- MODULE MC_EcoRemote ----------------------------
(* EcoRemote on the blocks of MC_Blocks. *)
EXTENDS EcoRemote, MC_Blocks

=============================================================================
