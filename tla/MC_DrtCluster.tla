---------------------------- MODULE MC_DrtCluster ---------------------------
(***************************************************************************)
(* Workers for DrtCluster, named addresses.                                *)
(***************************************************************************)
EXTENDS DrtCluster

CONSTANTS w1, w2
=============================================================================
