--------------------------- MODULE MC_RepairTiming --------------------------
(***************************************************************************)
(* RepairTiming for TLC; a command for every loop fits into two.           *)
(***************************************************************************)
EXTENDS RepairTiming
=============================================================================
