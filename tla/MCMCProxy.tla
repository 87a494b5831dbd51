----------------------------- MODULE MCMCProxy -----------------------------
(* MCProxy for TLC. *)
EXTENDS MCProxy
=============================================================================
