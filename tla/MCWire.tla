------------------------------- MODULE MCWire -------------------------------
(* Instances of Wire for TLC. *)
EXTENDS Wire, TLC

\* Two askers and two groups, two users that log in and write to each other;
\* of the calls, where five things may be said, one less.
MCMaxSaid == [alloc |-> 4, group |-> 4, load |-> 4, call |-> 3, user |-> 4, push |-> 4]

Symmetry == Permutations(Ends)
=============================================================================
