------------------------------ MODULE MCProxy ------------------------------
(***************************************************************************)
(* mcproxy_d (packages/media/mcproxy_d/src): the cache in front of the     *)
(* media centre.  Access servers ask it for a media group for a pair of    *)
(* "isp:area"s, the key.  It answers from what mcenter preallocated for    *)
(* that key; on a miss it asks mcenter and keeps the asker's link id in    *)
(* PendList until mcenter answers.                                         *)
(*                                                                         *)
(* The process runs one libevent loop: every action below is one callback  *)
(* of it, or a step of a client or of mcenter.  Links are named by their   *)
(* descriptor, which the kernel gives again once it is closed.             *)
(***************************************************************************)
EXTENDS Integers, Sequences, SequencesExt

CONSTANTS
    Keys,               \* "isp1:area1:isp2:area2" strings
    Clients,            \* access servers
    Grps, NoGrp,        \* the groups that an answer may name; a refusal names none
    Fds,                \* descriptors of mcproxy_d
    Closed, Left,       \* other values of peer
    CacheSize,          \* CACHE_SIZE
    CacheMinimal,       \* CACHE_MINIMAL
    CacheExpire,        \* CACHE_EXPIRE_INTERVAL
    ClearInterval,      \* Cache::clearExpire runs every 3 ticks
    MaxRequests         \* bound: requests and answers between mcproxy and mcenter

ASSUME FdsAssumption == Fds \subseteq Nat
ASSUME SizesAssumption ==
    /\ CacheSize \in Nat \ {0}
    /\ CacheMinimal \in Nat /\ CacheExpire \in Nat
    /\ ClearInterval \in Nat \ {0}
    /\ MaxRequests \in Nat \ {0}
ASSUME NamesAssumption ==
    /\ Closed # Left /\ Closed \notin Clients /\ Left \notin Clients
    /\ NoGrp \notin Grps

VARIABLES
    peer,       \* NetLoop::m_mapLinks: who is at the other end of fd, or Closed;
                \* Left after EOF, for which tcp_event_cb does nothing
    cache,      \* Cache::m_mapCache[k]: [age, remain, grp] items in list order
    pend,       \* PendList::m_mapPendLinks[k]: the descriptors waiting for k
    mcLink,     \* m_pMCLink # NULL
    toMC,       \* requests on their way to mcenter
    fromMC,     \* its answers on their way back
    seq,        \* MCPMgr::m_nTimerSeq modulo ClearInterval
    removed,    \* a client's descriptor has been closed (NetLoop::remove)
    lost,       \* the link to mcenter has been lost (closeMC)
    owed,       \* the clients' view: owed[c][k] is 1 when c has asked for k, once or
                \* more often, and not been answered since; an answer takes 1 off
    given       \* the PMCAllocRes sent in the last step, with the keys asked for

vars == <<peer, cache, pend, mcLink, toMC, fromMC, seq, removed, lost, owed, given>>

\* Ages are counted up to the first at which an item has expired.
MaxAge == CacheExpire + 1
Item == [age : 0 .. MaxAge, remain : Nat, grp : Grps]
Answer == [key : Keys, grp : Grps \cup {NoGrp}]

Init ==
    /\ peer = [fd \in Fds |-> Closed]
    /\ cache = [k \in Keys |-> <<>>]
    /\ pend = [k \in Keys |-> {}]
    /\ mcLink = TRUE
    /\ toMC = <<>>
    /\ fromMC = <<>>
    /\ seq = 0
    /\ removed = FALSE /\ lost = FALSE
    /\ owed = [c \in Clients |-> [k \in Keys |-> 0]]
    /\ given = {}

-----------------------------------------------------------------------------
(* Cache *)

\* CacheList::size: what is left over all the items of a key.
CacheListSize(list) == FoldSeq(LAMBDA item, n : n + item.remain, 0, list)

\* Mutant: the last call takes an item to 0 and leaves it in the list.
CacheListGet_KeepsEmpty(list) == [list EXCEPT ![1].remain = @ - 1]

\* CacheList::get takes a call from the first item, and the item with its last.
CacheListGet(list) ==
    IF Head(list).remain - 1 <= 0 THEN Tail(list)
    ELSE [list EXCEPT ![1].remain = @ - 1]

\* Mutant: push_front.
CacheListAdd_Front(list, num, grp) == <<[age |-> 0, remain |-> num, grp |-> grp]>> \o list

CacheListAdd(list, num, grp) == Append(list, [age |-> 0, remain |-> num, grp |-> grp])

FirstExpired(list, i) ==
    /\ list[i].age > CacheExpire
    /\ \A j \in 1 .. i - 1 : list[j].age <= CacheExpire

\* CacheList::clearExpire removes the first expired item, and no second one.
CacheListClearExpire(list) ==
    IF \E i \in DOMAIN list : FirstExpired(list, i)
    THEN RemoveAt(list, CHOOSE i \in DOMAIN list : FirstExpired(list, i))
    ELSE list

CacheListAge(list) ==
    [i \in DOMAIN list |-> [list[i] EXCEPT !.age = IF @ < MaxAge THEN @ + 1 ELSE @]]

-----------------------------------------------------------------------------
(* MsgHandler *)

\* NetLoop::sendMC drops the message when there is no link.
SendMC(k) == toMC' = IF mcLink THEN Append(toMC, k) ELSE toMC

LinkOf(c) == {fd \in Fds : peer[fd] = c}

\* Mutant: a miss asks mcenter only when it has not been asked for anything.
OnMCAllocReq_OneAtATime(c, k) ==
    /\ Len(toMC) + Len(fromMC) < MaxRequests
    /\ \E fd \in LinkOf(c) :
        \/ /\ cache[k] = <<>>
           /\ IF toMC = <<>> /\ fromMC = <<>> THEN SendMC(k) ELSE UNCHANGED toMC
           /\ pend' = [pend EXCEPT ![k] = @ \cup {fd}]
           /\ owed' = [owed EXCEPT ![c][k] = 1]
           /\ given' = {}
           /\ UNCHANGED cache
        \/ /\ cache[k] # <<>>
           /\ cache' = [cache EXCEPT ![k] = CacheListGet(@)]
           /\ given' = {[key |-> k, grp |-> Head(cache[k]).grp]}
           /\ IF CacheListSize(cache'[k]) < CacheMinimal THEN SendMC(k) ELSE UNCHANGED toMC
           /\ UNCHANGED <<pend, owed>>
    /\ UNCHANGED <<peer, mcLink, fromMC, seq, removed, lost>>

\* An access server's request.  A hit is answered at once, and tops the cache
\* up when little is left; a miss asks mcenter, even if it has been asked for
\* the same key already, and remembers the link: once, however often it asks.
OnMCAllocReq(c, k) ==
    /\ Len(toMC) + Len(fromMC) < MaxRequests
    /\ \E fd \in LinkOf(c) :
        \/ /\ cache[k] = <<>>
           /\ SendMC(k)
           /\ pend' = [pend EXCEPT ![k] = @ \cup {fd}]
           /\ owed' = [owed EXCEPT ![c][k] = 1]
           /\ given' = {}
           /\ UNCHANGED cache
        \/ /\ cache[k] # <<>>
           /\ cache' = [cache EXCEPT ![k] = CacheListGet(@)]
           /\ given' = {[key |-> k, grp |-> Head(cache[k]).grp]}
           /\ IF CacheListSize(cache'[k]) < CacheMinimal THEN SendMC(k) ELSE UNCHANGED toMC
           /\ UNCHANGED <<pend, owed>>
    /\ UNCHANGED <<peer, mcLink, fromMC, seq, removed, lost>>

\* NetLoop::send to each of the links: nothing goes to one that is not in
\* m_mapLinks, and to one whose client has left it goes in vain.
AnswerAll(fds, res) ==
    /\ owed' = [c \in Clients |->
                  IF \E fd \in fds : peer[fd] = c THEN [owed[c] EXCEPT ![res.key] = @ - 1]
                  ELSE owed[c]]
    /\ given' = {res : fd \in fds}

\* Mutant: the pending links are answered and not forgotten.
OnMCPreAllocRes_KeepsPending ==
    /\ fromMC # <<>>
    /\ LET res == Head(fromMC)
       IN  /\ cache' = IF res.grp = NoGrp THEN cache
                       ELSE [cache EXCEPT ![res.key] = CacheListAdd(@, CacheSize, res.grp)]
           /\ AnswerAll(pend[res.key], res)
    /\ fromMC' = Tail(fromMC)
    /\ UNCHANGED <<peer, pend, mcLink, toMC, seq, removed, lost>>

\* Mutant: on a failure the pending links are forgotten and not answered.
OnMCPreAllocRes_SilentFailure ==
    /\ fromMC # <<>>
    /\ LET res == Head(fromMC)
       IN  /\ cache' = IF res.grp = NoGrp THEN cache
                       ELSE [cache EXCEPT ![res.key] = CacheListAdd(@, CacheSize, res.grp)]
           /\ IF res.grp = NoGrp THEN UNCHANGED <<owed, given>>
              ELSE AnswerAll(pend[res.key], res)
           /\ pend' = [pend EXCEPT ![res.key] = {}]
    /\ fromMC' = Tail(fromMC)
    /\ UNCHANGED <<peer, mcLink, toMC, seq, removed, lost>>

\* mcenter's answer: everyone who waits for the key gets it, a failure as well
\* as a group; the calls handed out here are not taken off the new item.
OnMCPreAllocRes ==
    /\ fromMC # <<>>
    /\ LET res == Head(fromMC)
       IN  /\ cache' = IF res.grp = NoGrp THEN cache
                       ELSE [cache EXCEPT ![res.key] = CacheListAdd(@, CacheSize, res.grp)]
           /\ AnswerAll(pend[res.key], res)
           /\ pend' = [pend EXCEPT ![res.key] = {}]
    /\ fromMC' = Tail(fromMC)
    /\ UNCHANGED <<peer, mcLink, toMC, seq, removed, lost>>

-----------------------------------------------------------------------------
(* Links *)

\* tcp_listener_cb; the kernel gives the lowest free descriptor.
OnConnect(c) ==
    /\ LinkOf(c) = {}
    /\ \E fd \in Fds :
          /\ peer[fd] = Closed
          /\ \A g \in Fds : g < fd => peer[g] # Closed
          /\ peer' = [peer EXCEPT ![fd] = c]
    /\ given' = {}
    /\ UNCHANGED <<cache, pend, mcLink, toMC, fromMC, seq, owed, removed, lost>>

ForgottenBy(c) == [owed EXCEPT ![c] = [k \in Keys |-> 0]]

\* tcp_event_cb for EOF: the branch is commented out, so the link stays, its
\* bufferevent is never freed and its descriptor never closed.
OnClientEof(c) ==
    /\ \E fd \in LinkOf(c) : peer' = [peer EXCEPT ![fd] = Left]
    /\ owed' = ForgottenBy(c)
    /\ given' = {}
    /\ UNCHANGED <<cache, pend, mcLink, toMC, fromMC, seq, removed, lost>>

\* tcp_event_cb for ERROR: NetLoop::remove.  PendList is not told.
OnClientError(fd) ==
    /\ peer[fd] # Closed
    /\ peer' = [peer EXCEPT ![fd] = Closed]
    /\ owed' = IF peer[fd] \in Clients THEN ForgottenBy(peer[fd]) ELSE owed
    /\ removed' = TRUE
    /\ given' = {}
    /\ UNCHANGED <<cache, pend, mcLink, toMC, fromMC, seq, lost>>

\* mc_event_cb: what was on its way in either direction is lost.
OnMCLost ==
    /\ mcLink
    /\ mcLink' = FALSE
    /\ lost' = TRUE
    /\ toMC' = <<>>
    /\ fromMC' = <<>>
    /\ given' = {}
    /\ UNCHANGED <<peer, cache, pend, seq, owed, removed>>

\* mc_reconn_cb, MC_RECONN_INTERVAL seconds later.
OnMCReconnect ==
    /\ ~mcLink
    /\ mcLink' = TRUE
    /\ given' = {}
    /\ UNCHANGED <<peer, cache, pend, toMC, fromMC, seq, owed, removed, lost>>

-----------------------------------------------------------------------------
(* MCPMgr::onTimer, and mcenter *)

OnTimer ==
    /\ cache' = [k \in Keys |->
                    IF seq = 0 THEN CacheListClearExpire(CacheListAge(cache[k]))
                    ELSE CacheListAge(cache[k])]
    /\ seq' = (seq + 1) % ClearInterval
    /\ given' = {}
    /\ UNCHANGED <<peer, pend, mcLink, toMC, fromMC, owed, removed, lost>>

\* mcenter's onMCPreAllocReq: the number asked for in a group, or no group.
MCenterAnswers(grp) ==
    /\ toMC # <<>>
    /\ fromMC' = Append(fromMC, [key |-> Head(toMC), grp |-> grp])
    /\ toMC' = Tail(toMC)
    /\ given' = {}
    /\ UNCHANGED <<peer, cache, pend, mcLink, seq, owed, removed, lost>>

-----------------------------------------------------------------------------
Next ==
    \/ \E c \in Clients :
          \/ \E k \in Keys : OnMCAllocReq(c, k)
          \/ OnConnect(c)
          \/ OnClientEof(c)
    \/ OnMCPreAllocRes
    \/ \E fd \in Fds : OnClientError(fd)
    \/ OnMCLost
    \/ OnMCReconnect
    \/ OnTimer
    \/ \E grp \in Grps \cup {NoGrp} : MCenterAnswers(grp)

Spec == Init /\ [][Next]_vars

\* The loop reads what has arrived, its reconnect timer fires, and mcenter
\* answers what it receives.
Fairness ==
    /\ WF_vars(OnMCPreAllocRes)
    /\ WF_vars(OnMCReconnect)
    /\ WF_vars(\E grp \in Grps \cup {NoGrp} : MCenterAnswers(grp))

FairSpec == Spec /\ Fairness

-----------------------------------------------------------------------------
(* Properties *)

TypeOK ==
    /\ peer \in [Fds -> {Closed, Left} \cup Clients]
    /\ cache \in [Keys -> Seq(Item)]
    /\ pend \in [Keys -> SUBSET Fds]
    /\ mcLink \in BOOLEAN
    /\ toMC \in Seq(Keys)
    /\ fromMC \in Seq(Answer)
    /\ seq \in 0 .. ClearInterval - 1
    /\ removed \in BOOLEAN /\ lost \in BOOLEAN
    /\ owed \in [Clients -> [Keys -> Int]]
    /\ given \subseteq Answer

\* The two "critical issue" branches of CacheList::get, which go on with an
\* erased iterator, are never taken: every cached item has a call left.
NoEmptyItem ==
    \A k \in Keys : \A i \in DOMAIN cache[k] : cache[k][i].remain \in 1 .. CacheSize

\* The first item of a list is its oldest, so that the one item clearExpire
\* removes is the one get would have answered with next.
OldestFirst ==
    \A k \in Keys : \A i, j \in DOMAIN cache[k] : i < j => cache[k][i].age >= cache[k][j].age

\* No client gets an answer for a key that it has not asked for since its last
\* one, until a descriptor is closed and may be given to another one (PendList
\* keeps descriptors, and NetLoop::send takes whatever is there).
NoAnswerUnasked == ~removed => \A c \in Clients, k \in Keys : owed[c][k] >= 0

\* A client that has asked for a key, once or several times, and has had no answer
\* for it since is pending for that key (PendList::add keeps it once).
WaitingIsPending ==
    \A c \in Clients, k \in Keys :
        owed[c][k] > 0 => \E fd \in pend[k] : peer[fd] = c

\* For every key someone waits for, mcenter has been asked and its answer has
\* not been handled yet, until the link to mcenter is lost: without that, nothing
\* will ever answer them.
PendingHasRequest ==
    ~lost => \A k \in Keys :
        pend[k] # {} => \/ k \in ToSet(toMC)
                        \/ \E i \in DOMAIN fromMC : fromMC[i].key = k

\* "等到mcenter返回PMCPreAllocRes，根据返回的信息处理缓存的请求" (the cached
\* requests are handled when mcenter answers): a client that asks for a key and
\* stays gets an answer for it, unless the link to mcenter is lost.  PendList has
\* its link once: requests for one key that are open together get one answer
\* between them, and it is the asker's business to take it for all.
EveryAskerAnswered ==
    \A c \in Clients, k \in Keys : owed[c][k] > 0 ~> (owed[c][k] = 0 \/ lost)
=============================================================================
