------------------------------- MODULE Walks -------------------------------
(* What a walk over a std::list, or over an ArrayList, leaves of it. *)
EXTENDS Naturals, Sequences

\* list without the elements at the places in gone.
Remaining(list, gone) ==
    LET Left[i \in 0 .. Len(list)] ==
            IF i = 0 THEN <<>>
            ELSE IF i \in gone THEN Left[i - 1] ELSE Append(Left[i - 1], list[i])
    IN  Left[Len(list)]
=============================================================================
