--------------------------- MODULE MC_LoadBalancer --------------------------
(***************************************************************************)
(* Workers and connections for LoadBalancer, by name.                      *)
(***************************************************************************)
EXTENDS LoadBalancer

CONSTANTS w1, w2, c1, c2
=============================================================================
