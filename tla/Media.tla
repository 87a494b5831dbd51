------------------------------- MODULE Media -------------------------------
(***************************************************************************)
(* mcproxy_d and mcenter_d together.  MCProxy leaves open what mcenter     *)
(* answers; here mcenter is there, with its groups, its lists and its own  *)
(* end of the connection.  A connection has an end at each process, which  *)
(* each closes in its own time: mcenter closes a link that has been silent *)
(* for LINK_EXPIRE, or that has failed, before mcproxy hears of it, and    *)
(* mcproxy may have a new connection before mcenter hears of the old one's *)
(* end.                                                                    *)
(*                                                                         *)
(* What mcproxy reads and writes are the variables of MCProxy, and what    *)
(* mcenter does are the actions of MCenter.                                *)
(***************************************************************************)
EXTENDS MCenter

CONSTANTS
    Keys,               \* "isp1:area1:isp2:area2" strings ...
    RequestOf,          \* ... and what they say
    NoGrp,              \* in a refusal, in the place of a group
    Clients, ProxyFds, HasLeft, CacheSize, CacheMinimal, CacheExpire,
    ClearInterval, MaxRequests,
    Waiting, Gone       \* other values of there

ASSUME RequestOfAssumption == RequestOf \in [Keys -> Requests]
ASSUME ThereAssumption == Waiting # Gone /\ {Waiting, Gone} \cap Fds = {}

VARIABLES
    peer, cache, pend, mcLink, toMC, fromMC, seq, removed, lost, owed, given,
    there,      \* mcenter's link id for mcproxy's present connection: Waiting before
                \* tcp_listener_cb has run for it, Gone once mcenter has closed it
    old         \* mcenter's link ids of connections that mcproxy has given up

\* What mcenter sends of a group is read from the object that its search found.
P == INSTANCE MCProxy WITH
        Fds <- ProxyFds, Left <- HasLeft, Grps <- Groups \cup {NoName}

ASSUME ProxyAssumption == P!FdsAssumption /\ P!SizesAssumption /\ P!NamesAssumption

proxyVars == <<peer, cache, pend, mcLink, toMC, fromMC, seq, removed, lost, owed, given>>
centerVars == <<groups, info, lists, isps, links, deleted, answer>>
mediaVars == <<proxyVars, centerVars, there, old>>

MediaInit ==
    /\ P!Init
    /\ Init
    /\ there = Waiting
    /\ old = {}

-----------------------------------------------------------------------------
(* mcproxy by itself, and its end of the connection *)

ProxySteps ==
    /\ \/ \E c \in Clients :
             \/ \E k \in Keys : P!OnMCAllocReq(c, k)
             \/ P!OnConnect(c)
             \/ P!OnClientEof(c)
       \/ P!OnMCPreAllocRes
       \/ \E fd \in ProxyFds : P!OnClientError(fd)
       \/ P!OnTimer
    /\ UNCHANGED <<centerVars, there, old>>

\* mcproxy's end fails, or reads that mcenter has closed.
ProxyLost ==
    /\ P!OnMCLost
    /\ there' = Waiting
    /\ old' = old \cup ({there} \cap Fds)
    /\ UNCHANGED centerVars

ProxyReconnect ==
    P!OnMCReconnect /\ UNCHANGED <<centerVars, there, old>>

-----------------------------------------------------------------------------
(* The connection at mcenter *)

Accept(fd) ==
    /\ mcLink /\ there = Waiting
    /\ OnConnect(fd)
    /\ there' = fd
    /\ UNCHANGED <<proxyVars, old>>

\* The group of the answer that is on its way: its ip and port stand for it.
GrpOf(res) == IF res.res = "ok" THEN info[res.obj].name ELSE NoGrp

\* Mutant: the answer is not of the first request, but of the next.
Answer_Next ==
    /\ there \in Fds /\ toMC # <<>>
    /\ OnMCPreAllocReq(there, RequestOf[toMC[Len(toMC)]])
    /\ toMC' = Tail(toMC)
    /\ fromMC' = Append(fromMC, [key |-> Head(toMC), grp |-> GrpOf(answer')])
    /\ given' = {}
    /\ UNCHANGED <<peer, cache, pend, mcLink, seq, removed, lost, owed, there, old>>

\* Mutant: a request for which there is no group is not answered.
Answer_OkOnly ==
    /\ there \in Fds /\ toMC # <<>>
    /\ OnMCPreAllocReq(there, RequestOf[Head(toMC)])
    /\ toMC' = Tail(toMC)
    /\ fromMC' = IF answer'.res = "ok"
                 THEN Append(fromMC, [key |-> Head(toMC), grp |-> GrpOf(answer')])
                 ELSE fromMC
    /\ given' = {}
    /\ UNCHANGED <<peer, cache, pend, mcLink, seq, removed, lost, owed, there, old>>

\* mcenter reads mcproxy's next request, and answers on the same link, with the
\* isps and areas of the request.
Answer ==
    /\ there \in Fds /\ toMC # <<>>
    /\ OnMCPreAllocReq(there, RequestOf[Head(toMC)])
    /\ toMC' = Tail(toMC)
    /\ fromMC' = Append(fromMC, [key |-> Head(toMC), grp |-> GrpOf(answer')])
    /\ given' = {}
    /\ UNCHANGED <<peer, cache, pend, mcLink, seq, removed, lost, owed, there, old>>

\* mcproxy's timer sends a ping each second.
Pinged == there \in Fds /\ OnMCPing(there) /\ UNCHANGED <<proxyVars, there, old>>

\* mcenter's end fails.
Failed ==
    /\ there \in Fds /\ OnLinkClosed(there)
    /\ there' = Gone
    /\ UNCHANGED <<proxyVars, old>>

\* mcenter reads the end of a connection that mcproxy has given up.
OldClosed(fd) ==
    /\ fd \in old
    /\ OnLinkClosed(fd)
    /\ old' = old \ {fd}
    /\ UNCHANGED <<proxyVars, there>>

-----------------------------------------------------------------------------
(* mcenter by itself *)

\* The second that passes may be one too many for a link.
CenterTimer ==
    /\ OnTimer
    /\ there' = IF there \in Fds /\ links'[there] = Closed THEN Gone ELSE there
    /\ old' = {fd \in old : links'[fd] # Closed}
    /\ UNCHANGED proxyVars

\* The links of mgroups and of other mcproxies, whose requests change as much as
\* a ping does.  Bound: they leave a descriptor to mcproxy.
Others(fd) ==
    /\ fd # there /\ fd \notin old
    /\ \/ \E g \in Groups, r \in Reports : OnMCReportReq(fd, g, r)
       \/ OnMCPing(fd)
       \/ OnLinkClosed(fd)
       \/ (there \in Fds \/ \E g \in Fds \ {fd} : links[g] = Closed) /\ OnConnect(fd)
    /\ UNCHANGED <<proxyVars, there, old>>

-----------------------------------------------------------------------------
MediaNext ==
    \/ ProxySteps \/ ProxyLost \/ ProxyReconnect
    \/ Answer \/ Pinged \/ Failed \/ CenterTimer
    \/ \E fd \in Fds : Accept(fd) \/ OldClosed(fd) \/ Others(fd)

MediaSpec == MediaInit /\ [][MediaNext]_mediaVars

\* mcproxy reads what has arrived, its reconnect timer fires, and it hears that
\* mcenter has closed; mcenter accepts, reads and hears of closed connections.
MediaFairSpec ==
    /\ MediaSpec
    /\ WF_mediaVars(P!OnMCPreAllocRes /\ ProxySteps)
    /\ WF_mediaVars(ProxyReconnect)
    /\ WF_mediaVars(there = Gone /\ ProxyLost)
    /\ WF_mediaVars(\E fd \in Fds : Accept(fd))
    /\ WF_mediaVars(Answer)
    /\ WF_mediaVars(\E fd \in Fds : OldClosed(fd))

-----------------------------------------------------------------------------
(* Properties *)

\* What the components have, they say themselves.
MediaTypeOK ==
    /\ there \in Fds \cup {Waiting, Gone}
    /\ old \subseteq Fds

\* What an access server is given for two users serves both, whenever mcenter
\* was asked, and whatever was pending or cached for other keys meanwhile; until
\* mcenter has deleted a group, whose memory it may answer from.
GivenServesBoth ==
    ~deleted => \A res \in given :
        LET req == RequestOf[res.key]
        IN  res.grp # NoGrp => res.grp \in Groups /\ req.isp1 \cup req.isp2 \subseteq IspOf[res.grp]

\* With mcenter as it is, mcproxy behaves as MCProxy says, which takes mcenter
\* for something that turns requests into answers.
ProxyAsSpecified == P!Spec

\* ... and that answers in the end unless the link is lost.
CenterAnswers == P!Fairness
=============================================================================
