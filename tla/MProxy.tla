------------------------------- MODULE MProxy -------------------------------
(***************************************************************************)
(* mproxy (packages/media/mproxy_d/src): sessions, their users, and the    *)
(* relay of stream data to every user of a session.                        *)
(*                                                                         *)
(* One thread reads one UDP socket.  A datagram may come late, twice or    *)
(* never, so every handler may run with any datagram at any time; what the *)
(* proxy sends may be lost too.  The clients are not in the repository:    *)
(* member is what a client may rely on once PMPJoinRes has reached it, and *)
(* joined what every join said, which the proxy does not keep.  A join is  *)
(* handled before its sender changes its address, if at all.               *)
(*                                                                         *)
(* handle() has no case for PMPLeaveReq, and nothing is ever put into      *)
(* MsgCacheMgr, so that leaves and requests to resend change nothing and   *)
(* are not answered.  Nicknames are left out, and of stream data only the  *)
(* session, the sender and whether it fits a Msg are kept.                 *)
(***************************************************************************)
EXTENDS LinkMaps, Naturals, FiniteSets, Sequences

CONSTANTS
    Streams, Uids, Addrs,
    MSG_POOL_SIZE,
    LoadMax,        \* load_max of the configuration; main refuses 0
    MaxSessions,    \* bound: sessions ever created
    Blank,          \* what a Msg holds before the first assign: no bytes
    NotIn           \* a client that cannot rely on being in a session

ASSUME MProxyAssumption ==
    /\ MSG_POOL_SIZE \in Nat \ {0}
    /\ LoadMax \in Nat \ {0}
    /\ MaxSessions \in Nat

VARIABLES
    sessIds,    \* SessMgr::m_mapSessIds: stream |-> sid
    sessions,   \* SessMgr::m_mapSessions: sid |-> (uid |-> address)
    nextSid,    \* SessMgr::m_nLastSessId
    pool,       \* MsgPool::m_arrMsgs: what the pooled Msgs hold
    out,        \* the datagrams that the last handler sent
    member,     \* member[u]: the session and address of the last PMPJoinRes
    joined      \* the sessions that users joined, and the addresses they joined from

vars == <<sessIds, sessions, nextSid, pool, out, member, joined>>

\* Sids that have been given, and one that has not.
Sids == 0 .. MaxSessions
Sizes == {"fits", "long"}

Joins == [sid : Sids, addr : Addrs]
Data == [type : {"data"}, sid : Sids, from : Uids]
Reject == [type : {"reject"}, sid : Sids, from : Uids]
Joined == [type : {"joined"}, sid : Sids, from : Uids]
Answers == [type : {"created"}] \cup [type : {"pong"}, sid : Sids, users : SUBSET Uids]
    \cup [type : {"joinRes"}, ok : BOOLEAN]
Bytes == Data \cup Reject \cup Joined \cup {Blank}

UserMaps == UNION {[U -> Addrs] : U \in SUBSET Uids}

TypeOK ==
    /\ sessIds \in [DOMAIN sessIds -> 0 .. nextSid - 1] /\ DOMAIN sessIds \subseteq Streams
    /\ sessions \in [0 .. nextSid - 1 -> UserMaps]
    /\ nextSid \in 0 .. MaxSessions
    /\ pool \in Seq(Data \cup {Blank}) /\ Len(pool) <= MSG_POOL_SIZE
    /\ out \subseteq [to : Addrs, msg : Bytes \cup Answers]
    /\ member \in [Uids -> Joins \cup {NotIn}]
    /\ joined \subseteq Joins

Init ==
    /\ sessIds = Empty
    /\ sessions = Empty
    /\ nextSid = 0
    /\ pool = [i \in 1 .. MSG_POOL_SIZE |-> Blank]
    /\ out = {}
    /\ member = [u \in Uids |-> NotIn]
    /\ joined = {}

-----------------------------------------------------------------------------
(* Sessions and messages *)

\* Mutant: the session of the stream is found, and deleted.
CreateSession_Deletes(stream) ==
    /\ nextSid < MaxSessions
    /\ nextSid' = nextSid + 1
    /\ sessIds' = With(sessIds, {stream}, nextSid)
    /\ sessions' = With(IF stream \in DOMAIN sessIds THEN Without(sessions, {sessIds[stream]})
                        ELSE sessions, {nextSid}, Empty)

\* Mutant: the counter stays.
CreateSession_SameSid(stream) ==
    /\ nextSid < MaxSessions
    /\ nextSid' = nextSid
    /\ sessIds' = With(sessIds, {stream}, nextSid)
    /\ sessions' = With(sessions, {nextSid}, Empty)

\* createSession and deleteSession.  Of a known stream the old session is looked
\* up, found, and kept.
CreateSession(stream) ==
    /\ nextSid < MaxSessions
    /\ nextSid' = nextSid + 1
    /\ sessIds' = With(sessIds, {stream}, nextSid)
    /\ sessions' = With(sessions, {nextSid}, Empty)

\* LoadMgr: the load is always 0.
HasLoad == LoadMax > 0

\* Msg::assign: what is longer than MSG_SIZE leaves the Msg as it was.
Assign(old, d, size) == IF size = "fits" THEN d ELSE old

\* MsgPool::fetch: the first pooled Msg, or a new one.
Fetched == IF pool = <<>> THEN Blank ELSE Head(pool)
Rest == IF pool = <<>> THEN <<>> ELSE Tail(pool)

\* Mutant: free takes back as many as are given.
Free_Unbounded(msgs, msg) == <<msg, msg>> \o msgs

\* MsgPool::free.
Free(msgs, msg) == IF Len(msgs) > MSG_POOL_SIZE THEN msgs ELSE Append(msgs, msg)

\* Session::onMsg: one datagram for each user of sid, the sender too.
ToUsers(sid, msg) == {[to |-> sessions[sid][u], msg |-> msg] : u \in DOMAIN sessions[sid]}

-----------------------------------------------------------------------------
(* MsgHandler *)

OnCreateReq(stream, from) ==
    /\ CreateSession(stream)
    /\ out' = {[to |-> from, msg |-> [type |-> "created"]]}
    /\ UNCHANGED <<pool, member, joined>>

\* getSession fails, or there is no load: res.res is never assigned.
RejectJoin(sid, u, from) ==
    /\ ~HasLoad \/ sid \notin DOMAIN sessions
    /\ \E ok \in BOOLEAN : out' = {[to |-> from, msg |-> [type |-> "joinRes", ok |-> ok]]}
    /\ UNCHANGED <<sessIds, sessions, nextSid, pool, member, joined>>

\* onUserJoin, PMPNotifyJoined to everybody in the session, and the answer.
\* answered: does the answer reach the client?
AcceptJoin(sid, u, from, answered) ==
    /\ HasLoad /\ sid \in DOMAIN sessions
    /\ sessions' = [sessions EXCEPT ![sid] = With(sessions[sid], {u}, from)]
    /\ out' = {[to |-> sessions'[sid][v], msg |-> [type |-> "joined", sid |-> sid, from |-> u]]
                 : v \in DOMAIN sessions'[sid]}
              \cup {[to |-> from, msg |-> [type |-> "joinRes", ok |-> TRUE]]}
    /\ member' = [member EXCEPT ![u] = IF answered THEN [sid |-> sid, addr |-> from] ELSE NotIn]
    /\ joined' = joined \cup {[sid |-> sid, addr |-> from]}
    /\ UNCHANGED <<sessIds, nextSid, pool>>

OnMPJoinReq(sid, u, from) ==
    \/ RejectJoin(sid, u, from)
    \/ \E answered \in BOOLEAN : AcceptJoin(sid, u, from, answered)

OnMPPing(sid, from) ==
    /\ sid \in DOMAIN sessions
    /\ out' = {[to |-> from, msg |-> [type |-> "pong", sid |-> sid, users |-> DOMAIN sessions[sid]]]}
    /\ UNCHANGED <<sessIds, sessions, nextSid, pool, member, joined>>

\* A Msg of its own, which is blank when the datagram does not fit.
OnMPRejectInvite(sid, u, size) ==
    /\ sid \in DOMAIN sessions
    /\ out' = ToUsers(sid, Assign(Blank, [type |-> "reject", sid |-> sid, from |-> u], size))
    /\ UNCHANGED <<sessIds, sessions, nextSid, pool, member, joined>>

\* Mutant: the Msg goes back before it is written.
OnMPStreamData_FreeFirst(sid, u, size) ==
    LET msgs == Free(Rest, Fetched)
    IN  /\ pool' = msgs
        /\ out' = IF sid \in DOMAIN sessions THEN ToUsers(sid, Fetched) ELSE {}
        /\ UNCHANGED <<sessIds, sessions, nextSid, member, joined>>

\* MPMgr::push: without a session the Msg never returns to the pool.
OnMPStreamData(sid, u, size) ==
    LET msg == Assign(Fetched, [type |-> "data", sid |-> sid, from |-> u], size)
    IN  /\ IF sid \in DOMAIN sessions
           THEN pool' = Free(Rest, msg) /\ out' = ToUsers(sid, msg)
           ELSE pool' = Rest /\ out' = {}
        /\ UNCHANGED <<sessIds, sessions, nextSid, member, joined>>

Next ==
    \/ \E stream \in Streams, from \in Addrs : OnCreateReq(stream, from)
    \/ \E sid \in Sids, u \in Uids, from \in Addrs : OnMPJoinReq(sid, u, from)
    \/ \E sid \in Sids, from \in Addrs : OnMPPing(sid, from)
    \/ \E sid \in Sids, u \in Uids, size \in Sizes :
          OnMPRejectInvite(sid, u, size) \/ OnMPStreamData(sid, u, size)

Spec == Init /\ [][Next]_vars

-----------------------------------------------------------------------------
(* Properties *)

\* A stream that is known has a session, and no other stream has the same one.
\* deleteSession erases end() when it is given a sid that is not there
\* (sessmgr.cpp:51), and two streams on one sid hear each other.
StreamsOwnSessions ==
    /\ \A s \in DOMAIN sessIds : sessIds[s] \in DOMAIN sessions
    /\ \A s, t \in DOMAIN sessIds : sessIds[s] = sessIds[t] => s = t

\* A client that has been told that it is in a session is sent the session's
\* stream at the address it joined from, whatever others have created, joined or
\* sent since: creating the stream again keeps the old session's users.
MembersReached ==
    \A u \in Uids : member[u] # NotIn =>
        /\ member[u].sid \in DOMAIN sessions
        /\ u \in DOMAIN sessions[member[u].sid]
        /\ sessions[member[u].sid][u] = member[u].addr

\* Stream data that fits a Msg goes, as it came, to every client that is in its
\* session, and nothing else goes out with it; and data of any size goes only to
\* addresses that somebody joined that very session from.  The Msgs are reused
\* from session to session, and hold what other users sent.  What does not fit
\* is relayed as whatever the Msg held before (msg.cpp:13), about which nothing
\* is promised here.
RelaysWhatFits ==
    [][\A sid \in Sids, u \in Uids, size \in Sizes : OnMPStreamData(sid, u, size) =>
        LET data == [type |-> "data", sid |-> sid, from |-> u]
        IN  /\ \A o \in out' : [sid |-> sid, addr |-> o.to] \in joined
            /\ size = "fits" =>
                  /\ \A v \in Uids : member[v] # NotIn /\ member[v].sid = sid =>
                        [to |-> member[v].addr, msg |-> data] \in out'
                  /\ \A o \in out' : o.msg = data]_vars
=============================================================================
