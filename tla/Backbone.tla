------------------------------ MODULE Backbone ------------------------------
(***************************************************************************)
(* Daemons that keep themselves known to a registry over a TCP link that   *)
(* they reconnect on a timer, in the three forms that the system has:      *)
(*   "deamon"  mcenters report to deamon every REPORT_INTERVAL seconds     *)
(*             (NetLoop's DM link), which forgets who falls silent;        *)
(*   "push"    routers register with push when they connect (NetLink),     *)
(*             which forgets them when their link closes;                  *)
(*   "mgroup"  mproxies report to mgroup with every tick of their timer    *)
(*             (NetLoop's MG link), which forgets nobody.                  *)
(* Init chooses the form.  A link id is a descriptor: deamon and mgroup    *)
(* close theirs and the kernel gives them again; push never frees a        *)
(* bufferevent, so that there a number comes again only when nothing       *)
(* refers to it any more, which stands for a number that is new.           *)
(*                                                                         *)
(* A link may break at any time with the end of what is on it, a process   *)
(* on either side may be started again, and each end learns of it in its   *)
(* own time.  A message on a link that does not break arrives before the   *)
(* next tick.  Ticks are seconds, the same for all.                        *)
(***************************************************************************)
EXTENDS Deamon, Push, MGroup

CONSTANTS
    Fds,                \* the descriptors of the registry's process
    Down,               \* a link that waits for its reconnect timer
    Deaf,               \* a link that has had EOF and is kept
    REPORT_INTERVAL,
    MaxFaults           \* bound: links broken and processes started again

ASSUME FdsAssumption == Fds \subseteq Nat /\ Down \notin Fds /\ Deaf \notin Fds /\ Down # Deaf
ASSUME ReportAssumption == REPORT_INTERVAL \in Nat \ {0} /\ MaxFaults \in Nat

VARIABLES
    kind,       \* the form
    reg,        \* what the registry knows: a value of Deamon, Push or MGroup
    conns,      \* the registry's links: fd |-> [who, msgs on the way, open]
    link,       \* link[c]: the descriptor of c's link at the registry
    addr,       \* addr[c]: the address of c
    phase,      \* phase[c]: m_nSeq of c, modulo Interval
    check,      \* m_nSeq of deamon, modulo CHECK_INTERVAL
    steady,     \* history: ticks since c's link was made, while it holds
    left,       \* history: c's registration was refused on its present link
    passed,     \* history: checks that took an earlier name while c was expired
    faults      \* the number of faults so far

vars == <<kind, reg, conns, link, addr, phase, check, steady, left, passed, faults>>

Conn == [who : Clients, msgs : Seq(Addrs), open : BOOLEAN]

Steady == REPORT_INTERVAL + 1

NoneKnown == IF kind = "push" THEN NoTopics ELSE Empty

\* The registry's end of c's link, if both ends still hold it.
Linked(c) == link[c] \in DOMAIN conns /\ conns[link[c]].who = c /\ conns[link[c]].open

Init ==
    /\ kind \in {"deamon", "push", "mgroup"}
    /\ reg = NoneKnown
    /\ conns = Empty
    /\ link = [c \in Clients |-> Down]
    /\ addr = [c \in Clients |-> CHOOSE a \in Addrs : TRUE]
    /\ phase = [c \in Clients |-> 0]
    /\ check = 0
    /\ steady = [c \in Clients |-> 0]
    /\ left = [c \in Clients |-> FALSE]
    /\ passed = [c \in Clients |-> 0]
    /\ faults = 0

-----------------------------------------------------------------------------
(* The clients *)

\* What push still refers to.
Referred == IF kind = "push" THEN {reg.consumers[n] : n \in DOMAIN reg.consumers} ELSE {}

FreeFds == Fds \ (DOMAIN conns \cup Referred)

\* Mutant: the timer goes on after the link is made.
Connect_Again(c) ==
    /\ link[c] \in Fds \cup {Down}
    /\ \E fd \in FreeFds :
        /\ link' = [link EXCEPT ![c] = fd]
        /\ conns' = With(conns, {fd}, [who |-> c, msgs |-> <<>>, open |-> TRUE])
    /\ UNCHANGED <<kind, reg, addr, phase, check, steady, left, passed, faults>>

\* connectDM, connectMG and NetLink::connect of the reconnect timer; the link is
\* accepted with the lowest descriptor that is free, and a router registers in
\* event_cb.
Connect(c) ==
    /\ link[c] = Down
    /\ \E fd \in FreeFds :
        /\ \A gd \in FreeFds : fd <= gd
        /\ link' = [link EXCEPT ![c] = fd]
        /\ conns' = With(conns, {fd},
            [who |-> c, msgs |-> IF kind = "push" THEN <<addr[c]>> ELSE <<>>, open |-> TRUE])
    /\ left' = [left EXCEPT ![c] = FALSE]
    /\ steady' = [steady EXCEPT ![c] = 0]
    /\ UNCHANGED <<kind, reg, addr, phase, check, passed, faults>>

\* Mutant: whichever way the link ends, it is kept.
OnLost_NoReconnect(c) ==
    /\ link[c] \in Fds /\ ~Linked(c)
    /\ link' = [link EXCEPT ![c] = Deaf]
    /\ UNCHANGED <<kind, reg, conns, addr, phase, check, steady, left, passed, faults>>

\* event_cb, mgroup_event_cb and dm_event_cb: the link is closed and the timer
\* started.  dm_event_cb does so of an error only.
OnLost(c) ==
    /\ link[c] \in Fds /\ ~Linked(c)
    /\ \/ link' = [link EXCEPT ![c] = Down]
       \/ kind = "deamon" /\ link' = [link EXCEPT ![c] = Deaf]
    /\ UNCHANGED <<kind, reg, conns, addr, phase, check, steady, left, passed, faults>>

\* Ticks between reports: MCMgr::onTimer, MPMgr::schedule.
Interval == IF kind = "deamon" THEN REPORT_INTERVAL ELSE 1

\* The report of every client whose link can carry it; on the others it is lost.
Reported ==
    [fd \in DOMAIN conns |->
        LET c == conns[fd].who
        IN  IF link[c] = fd /\ Linked(c) /\ phase[c] = 0
            THEN [conns[fd] EXCEPT !.msgs = Append(@, addr[c])] ELSE conns[fd]]

\* How often each service has been passed over once the registry is new.
Passed(new) ==
    [c \in Clients |->
        IF c \notin Expired(new) THEN 0
        ELSE (IF c \in Expired(reg) THEN passed[c] ELSE 0)
             + (IF \E d \in DOMAIN reg \ DOMAIN new : d < c THEN 1 ELSE 0)]

\* A second passes: the timers of the clients, and MDMgr::onTimer.
Tick ==
    /\ kind # "push"
    /\ \A fd \in DOMAIN conns : conns[fd].msgs = <<>>
    /\ conns' = Reported
    /\ phase' = [c \in Clients |-> (phase[c] + 1) % Interval]
    /\ check' = IF kind = "deamon" THEN (check + 1) % CHECK_INTERVAL ELSE check
    /\ reg' = IF kind = "mgroup" THEN reg
              ELSE IF check = 0 THEN RemoveExpire(Older(reg)) ELSE Older(reg)
    /\ steady' = [c \in Clients |->
            IF Linked(c) /\ steady[c] < Steady THEN steady[c] + 1 ELSE steady[c]]
    /\ passed' = IF kind = "deamon" THEN Passed(reg') ELSE passed
    /\ UNCHANGED <<kind, link, addr, left, faults>>

-----------------------------------------------------------------------------
(* The registry *)

\* read_cb, and the handler of what is read: onMDReport, onConsumerRegisterReq
\* or onReportReq.
Read(fd) ==
    /\ fd \in DOMAIN conns /\ conns[fd].msgs # <<>>
    /\ LET c == conns[fd].who
           a == Head(conns[fd].msgs)
       IN /\ reg' = CASE kind = "deamon" -> SvcAdd(reg, c, a)
                      [] kind = "push" -> Register(reg, fd, c, c)
                      [] kind = "mgroup" -> ProxyAdd(reg, fd, c, a)
          /\ left' = IF kind = "push" /\ link[c] = fd /\ Refused(reg, fd, c)
                     THEN [left EXCEPT ![c] = TRUE] ELSE left
    /\ conns' = [conns EXCEPT ![fd].msgs = Tail(@)]
    /\ UNCHANGED <<kind, link, addr, phase, check, steady, passed, faults>>

\* tcp_event_cb and mp_event_cb free the link; event_cb of push deletes the
\* consumer.  An error comes before what has not been read.
OnClosed(fd) ==
    /\ fd \in DOMAIN conns /\ ~conns[fd].open
    /\ conns' = Without(conns, {fd})
    /\ reg' = IF kind = "push" THEN DeleteConsumer(reg, fd) ELSE reg
    /\ UNCHANGED <<kind, link, addr, phase, check, steady, left, passed, faults>>

-----------------------------------------------------------------------------
(* Faults *)

Broken(c) == [fd \in DOMAIN conns |->
    IF conns[fd].who = c THEN [conns[fd] EXCEPT !.open = FALSE] ELSE conns[fd]]

\* The link of c breaks; what is on it arrives or is lost.
Break(c) ==
    /\ faults < MaxFaults /\ Linked(c)
    /\ faults' = faults + 1
    /\ \/ conns' = Broken(c)
       \/ conns' = With(Broken(c), {link[c]}, [who |-> c, msgs |-> <<>>, open |-> FALSE])
    /\ steady' = [steady EXCEPT ![c] = 0]
    /\ UNCHANGED <<kind, reg, link, addr, phase, check, left, passed>>

\* c is started again, perhaps at another address.
Restart(c) ==
    /\ faults < MaxFaults
    /\ faults' = faults + 1
    /\ conns' = Broken(c)
    /\ link' = [link EXCEPT ![c] = Down]
    /\ \E a \in Addrs : addr' = [addr EXCEPT ![c] = IF kind = "push" THEN @ ELSE a]
    /\ phase' = [phase EXCEPT ![c] = 0]
    /\ steady' = [steady EXCEPT ![c] = 0]
    /\ UNCHANGED <<kind, reg, check, left, passed>>

\* The registry is started again, empty.
RestartRegistry ==
    /\ faults < MaxFaults
    /\ faults' = faults + 1
    /\ reg' = NoneKnown
    /\ conns' = Empty
    /\ check' = 0
    /\ steady' = [c \in Clients |-> 0]
    /\ passed' = [c \in Clients |-> 0]
    /\ UNCHANGED <<kind, link, addr, phase, left>>

Next ==
    \/ \E c \in Clients : Connect(c) \/ OnLost(c) \/ Break(c) \/ Restart(c)
    \/ \E fd \in Fds : Read(fd) \/ OnClosed(fd)
    \/ Tick
    \/ RestartRegistry

\* Timers fire and callbacks are run; nothing need break.
Fairness ==
    /\ \A c \in Clients : WF_vars(Connect(c)) /\ WF_vars(OnLost(c))
    /\ \A fd \in Fds : WF_vars(Read(fd)) /\ WF_vars(OnClosed(fd))
    /\ WF_vars(Tick)

Spec == Init /\ [][Next]_vars /\ Fairness

-----------------------------------------------------------------------------
(* Properties *)

\* Every variable has its type; a process has one link that is not closed.
TypeOK ==
    /\ kind \in {"deamon", "push", "mgroup"}
    /\ kind = "deamon" => DOMAIN reg \subseteq Clients /\ \A c \in DOMAIN reg : reg[c] \in SvcInfo
    /\ kind = "push" => /\ DOMAIN reg.consumers \cup DOMAIN reg.topics \subseteq Clients
                        /\ \A t \in DOMAIN reg.topics :
                              reg.topics[t] \in Seq([name : Clients, fd : Fds])
    /\ kind = "mgroup" => DOMAIN reg \subseteq Clients
                          /\ \A c \in DOMAIN reg : reg[c] \in [fd : Fds, addr : Addrs]
    /\ DOMAIN conns \subseteq Fds /\ \A fd \in DOMAIN conns : conns[fd] \in Conn
    /\ link \in [Clients -> Fds \cup {Down, Deaf}]
    /\ addr \in [Clients -> Addrs]
    /\ phase \in [Clients -> 0 .. REPORT_INTERVAL - 1] /\ check \in 0 .. CHECK_INTERVAL - 1
    /\ steady \in [Clients -> 0 .. Steady] /\ left \in [Clients -> BOOLEAN]
    /\ passed \in [Clients -> Nat]
    /\ faults \in 0 .. MaxFaults
    /\ \A fd, gd \in DOMAIN conns :
        conns[fd].open /\ conns[gd].open /\ conns[fd].who = conns[gd].who => fd = gd

\* What is pushed for a topic is written to the link of the consumer that push
\* has for it, once, and to no other: the lists hold every consumer, and no
\* Consumer that has been deleted, whatever closes and registers again in which
\* order (registerConsumer, deleteConsumer, Store::subscribe and unsubscribe).
SubscribersInStep ==
    kind = "push" =>
        /\ \A n \in DOMAIN reg.consumers :
            LET fd == reg.consumers[n]
            IN  fd \in DOMAIN conns /\ conns[fd].who = n /\ Receivers(reg, n) = <<fd>>
        /\ \A t \in DOMAIN reg.topics \ DOMAIN reg.consumers : Receivers(reg, t) = <<>>

\* deamon lists no service that has been silent for longer than the expiry, one
\* check, and one check more for each that took an earlier name meanwhile:
\* SvcList::removeExpire takes one name a check, the first that has expired, and
\* no check is wasted and no later name comes first.  Earlier names that report
\* again and fall silent again keep a later one listed for as long as they do.
NothingStale ==
    kind = "deamon" =>
        \A c \in DOMAIN reg : reg[c].age < TIMER_EXPIRE + CHECK_INTERVAL * (1 + passed[c])

\* What the registry knows of c is what c last told it on its present link.
Known(c) ==
    CASE kind = "deamon" -> c \in DOMAIN reg /\ reg[c].addr = addr[c]
      [] kind = "push" -> c \in DOMAIN reg.consumers /\ reg.consumers[c] = link[c]
      [] kind = "mgroup" -> c \in DOMAIN reg

\* A service whose link has held for a report and the time it takes is listed by
\* deamon, where it is, and not expired; mgroup has a proxy to give.
KeptWhileReporting ==
    \A c \in Clients : steady[c] = Steady =>
        /\ Known(c)
        /\ kind = "mgroup" => \E d \in FreeProxy(reg) : c <= d

\* After the last fault every client is known again and stays known, however the
\* registry, the clients and their links were lost before.  Two clients are not:
\* a mcenter whose link to deamon ended in order, and a router that registered
\* before push had seen its old link close.
KnownAgain ==
    \A c \in Clients : <>[](Known(c) \/ left[c] \/ (kind = "deamon" /\ link[c] = Deaf))
=============================================================================
