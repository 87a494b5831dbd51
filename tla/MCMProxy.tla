------------------------------ MODULE MCMProxy ------------------------------
(* Instances of MProxy for TLC. *)
EXTENDS MProxy, TLC

MCSymmetry == Permutations(Streams) \cup Permutations(Uids) \cup Permutations(Addrs)
=============================================================================
