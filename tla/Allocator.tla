----------------------------- MODULE Allocator -----------------------------
(***************************************************************************)
(* What a loadtable process promises whoever queries it: a service         *)
(* announces how many more calls it can take (none or fewer when it is     *)
(* overloaded), and until its next announcement no more calls than that    *)
(* are sent to it.                                                         *)
(***************************************************************************)
EXTENDS Integers

CONSTANT Services

VARIABLES
    announced,  \* announced[k]: the calls that k said it can take
    granted     \* granted[k]: the calls sent to k since it did

Init ==
    /\ announced = [k \in Services |-> 0]
    /\ granted = [k \in Services |-> 0]

Announce(k) ==
    /\ announced' \in [Services -> Int]
    /\ \A j \in Services \ {k} : announced'[j] = announced[j]
    /\ granted' = [granted EXCEPT ![k] = 0]

Grant(k) ==
    /\ granted[k] < announced[k]
    /\ granted' = [granted EXCEPT ![k] = @ + 1]
    /\ UNCHANGED announced

Next ==
    \/ \E k \in Services : Announce(k)
    \/ \E k \in Services : Grant(k)

Spec == Init /\ [][Next]_<<announced, granted>>
=============================================================================
