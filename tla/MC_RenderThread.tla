-------------------------- MODULE MC_RenderThread ---------------------------
(* Three requests, one image saved meanwhile. *)
EXTENDS RenderThread

=============================================================================
