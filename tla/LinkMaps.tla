------------------------------ MODULE LinkMaps ------------------------------
(* The std::map operations of the two LinkMgrs.  Restrict is Functions'. *)
EXTENDS Functions

Empty == [x \in {} |-> 0]

\* m[x] = v for each x of S.
With(m, S, v) == [x \in DOMAIN m \cup S |-> IF x \in S THEN v ELSE m[x]]

\* m.erase(x) for each x of S.
Without(m, S) == Restrict(m, DOMAIN m \ S)
=============================================================================
