------------------------------- MODULE Deamon -------------------------------
(***************************************************************************)
(* The registry of one deamon process (packages/base/deamon_d/src), as a   *)
(* value: the SvcList of one service id, name |-> SvcInfo.  A name is its  *)
(* rank in the order of std::map.  The stamp is kept as an age in ticks,   *)
(* and of the address, load and place a service reports, as the address.   *)
(***************************************************************************)
EXTENDS Integers, LinkMaps

CONSTANTS
    Clients,        \* the names of the services, by rank
    Addrs,          \* the addresses that a service may have
    CHECK_INTERVAL, TIMER_EXPIRE

ASSUME ClientsAssumption == Clients \subseteq Nat
ASSUME AddrsAssumption == Addrs # {}
ASSUME TimerAssumption == CHECK_INTERVAL \in Nat \ {0} /\ TIMER_EXPIRE \in Nat \ {0}

SvcInfo == [addr : Addrs, age : Nat]

\* Mutant: what is known keeps its stamp.
SvcAdd_OldStamp(svcs, c, addr) ==
    With(svcs, {c}, [addr |-> addr, age |-> IF c \in DOMAIN svcs THEN svcs[c].age ELSE 0])

\* SvcMgr::add and SvcList::add: every field is overwritten.
SvcAdd(svcs, c, addr) == With(svcs, {c}, [addr |-> addr, age |-> 0])

Older(svcs) == [c \in DOMAIN svcs |-> [svcs[c] EXCEPT !.age = @ + 1]]

Expired(svcs) == {c \in DOMAIN svcs : svcs[c].age >= TIMER_EXPIRE}

\* Mutant: the loop breaks after its first turn.
RemoveExpire_First(svcs) ==
    LET first == {c \in DOMAIN svcs : \A d \in DOMAIN svcs : c <= d}
    IN  Without(svcs, first \cap Expired(svcs))

\* SvcList::removeExpire: the first of the expired, one at a time.
RemoveExpire(svcs) ==
    Without(svcs, {c \in Expired(svcs) : \A d \in Expired(svcs) : c <= d})
=============================================================================
