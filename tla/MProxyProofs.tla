---------------------------- MODULE MProxyProofs ----------------------------
(***************************************************************************)
(* Theorems about MProxy, for any number of streams, users, addresses and  *)
(* sessions and any size of the pool.                                      *)
(*                                                                         *)
(* The types are inductive, and say already that the sids given so far are *)
(* the sessions; the three other invariants are inductive relative to them. *)
(***************************************************************************)
EXTENDS MProxy, SequenceTheorems, TLAPS

\* m[x] = v keeps a map of users typed.
LEMMA WithUser ==
    ASSUME NEW m \in UserMaps, NEW u \in Uids, NEW a \in Addrs
    PROVE  /\ With(m, {u}, a) \in UserMaps
           /\ DOMAIN With(m, {u}, a) = DOMAIN m \cup {u}
           /\ With(m, {u}, a)[u] = a
           /\ \A v \in DOMAIN m : v # u => With(m, {u}, a)[v] = m[v]
<1>1. PICK U \in SUBSET Uids : m \in [U -> Addrs]
  BY DEF UserMaps
<1>2. With(m, {u}, a) \in [U \cup {u} -> Addrs]
  BY <1>1 DEF With
<1>3. U \cup {u} \in SUBSET Uids
  BY <1>1
<1>4. With(m, {u}, a) \in UserMaps
  BY <1>2, <1>3 DEF UserMaps
<1> QED BY <1>1, <1>4 DEF With

LEMMA EmptyUsers == Empty \in UserMaps /\ DOMAIN Empty = {}
<1>1. Empty \in [{} -> Addrs] /\ {} \in SUBSET Uids
  BY DEF Empty
<1> QED BY <1>1 DEF UserMaps, Empty

\* The users of a session and their addresses.
LEMMA UsersTyped ==
    ASSUME NEW m \in UserMaps
    PROVE  DOMAIN m \subseteq Uids /\ \A u \in DOMAIN m : m[u] \in Addrs
BY DEF UserMaps

\* What is fetched, and what is left in the pool.
LEMMA FetchTyped ==
    ASSUME TypeOK
    PROVE  /\ Fetched \in Data \cup {Blank}
           /\ Rest \in Seq(Data \cup {Blank})
           /\ Len(Rest) < MSG_POOL_SIZE
<1>1. pool \in Seq(Data \cup {Blank}) /\ Len(pool) <= MSG_POOL_SIZE /\ Len(pool) \in Nat
  BY LenProperties DEF TypeOK
<1>2. CASE pool = <<>>
  BY <1>1, <1>2, MProxyAssumption, EmptySeq DEF Fetched, Rest
<1>3. CASE pool # <<>>
  BY <1>1, <1>3, MProxyAssumption, HeadTailProperties DEF Fetched, Rest
<1> QED BY <1>2, <1>3

LEMMA FreeTyped ==
    ASSUME NEW msgs \in Seq(Data \cup {Blank}), Len(msgs) < MSG_POOL_SIZE,
           NEW msg \in Data \cup {Blank}
    PROVE  Free(msgs, msg) \in Seq(Data \cup {Blank}) /\ Len(Free(msgs, msg)) <= MSG_POOL_SIZE
<1>1. Len(msgs) \in Nat
  BY LenProperties
<1>2. Free(msgs, msg) = Append(msgs, msg)
  BY <1>1, MProxyAssumption DEF Free
<1> QED BY <1>1, <1>2, MProxyAssumption, AppendProperties

LEMMA InitTyped == ASSUME Init PROVE TypeOK
<1>1. nextSid = 0 /\ 0 .. nextSid - 1 = {} /\ nextSid \in 0 .. MaxSessions
  BY MProxyAssumption DEF Init
<1>2. sessIds \in [DOMAIN sessIds -> 0 .. nextSid - 1] /\ DOMAIN sessIds = {}
  BY DEF Init, Empty
<1>3. sessions \in [0 .. nextSid - 1 -> UserMaps]
  BY <1>1 DEF Init, Empty
<1>4. pool \in Seq(Data \cup {Blank}) /\ Len(pool) = MSG_POOL_SIZE
  BY MProxyAssumption DEF Init
<1>5. Len(pool) <= MSG_POOL_SIZE
  BY <1>4, MProxyAssumption
<1>6. out \subseteq [to : Addrs, msg : Bytes \cup Answers]
  BY DEF Init
<1>7. member \in [Uids -> Joins \cup {NotIn}] /\ joined \subseteq Joins
  BY DEF Init
<1> QED BY <1>1, <1>2, <1>3, <1>4, <1>5, <1>6, <1>7 DEF TypeOK

\* What onMsg sends is typed when the message is.
LEMMA ToUsersTyped ==
    ASSUME TypeOK, NEW sid \in DOMAIN sessions, NEW msg \in Bytes
    PROVE  ToUsers(sid, msg) \subseteq [to : Addrs, msg : Bytes \cup Answers]
<1>1. sessions[sid] \in UserMaps
  BY DEF TypeOK
<1> QED BY <1>1, UsersTyped DEF ToUsers

\* createSession adds the next sid, and leaves the sessions as they are.
LEMMA CreateKeeps ==
    ASSUME TypeOK, NEW stream \in Streams, CreateSession(stream)
    PROVE  /\ nextSid' = nextSid + 1 /\ nextSid \in Nat /\ nextSid' \in 0 .. MaxSessions
           /\ DOMAIN sessions = 0 .. nextSid - 1
           /\ DOMAIN sessions' = 0 .. nextSid
           /\ sessions'[nextSid] = Empty
           /\ \A sid \in DOMAIN sessions : sid # nextSid /\ sessions'[sid] = sessions[sid]
           /\ DOMAIN sessIds' = DOMAIN sessIds \cup {stream}
           /\ sessIds'[stream] = nextSid
           /\ \A s \in DOMAIN sessIds : s # stream => sessIds'[s] = sessIds[s]
<1>1. nextSid \in Nat /\ nextSid < MaxSessions /\ nextSid' = nextSid + 1
  BY MProxyAssumption DEF TypeOK, CreateSession
<1>2. DOMAIN sessions = 0 .. nextSid - 1
  BY DEF TypeOK
<1>3. (0 .. nextSid - 1) \cup {nextSid} = 0 .. nextSid /\ nextSid \notin 0 .. nextSid - 1
  BY <1>1
<1>4. sessions' = [x \in DOMAIN sessions \cup {nextSid} |->
                     IF x \in {nextSid} THEN Empty ELSE sessions[x]]
  BY DEF CreateSession, With
<1>5. sessIds' = [x \in DOMAIN sessIds \cup {stream} |->
                     IF x \in {stream} THEN nextSid ELSE sessIds[x]]
  BY DEF CreateSession, With
<1>6. DOMAIN sessions' = 0 .. nextSid /\ sessions'[nextSid] = Empty
      /\ \A sid \in DOMAIN sessions : sid # nextSid /\ sessions'[sid] = sessions[sid]
  BY <1>2, <1>3, <1>4
<1>7. nextSid' \in 0 .. MaxSessions
  BY <1>1, MProxyAssumption
<1> QED BY <1>1, <1>2, <1>5, <1>6, <1>7

LEMMA CreateTyped ==
    ASSUME TypeOK, NEW stream \in Streams, NEW from \in Addrs, OnCreateReq(stream, from)
    PROVE  TypeOK'
<1>1. CreateSession(stream) /\ pool' = pool /\ member' = member /\ joined' = joined
  BY DEF OnCreateReq
<1>2. nextSid' = nextSid + 1 /\ nextSid \in Nat /\ nextSid' - 1 = nextSid
      /\ nextSid' \in 0 .. MaxSessions
  <2>1. nextSid' = nextSid + 1 /\ nextSid \in Nat /\ nextSid' \in 0 .. MaxSessions
    BY <1>1, CreateKeeps
  <2> QED BY <2>1
<1>3. sessions' \in [0 .. nextSid -> UserMaps]
  <2>1. sessions' = With(sessions, {nextSid}, Empty)
    BY <1>1 DEF CreateSession
  <2>2. /\ DOMAIN sessions = 0 .. nextSid - 1 /\ DOMAIN sessions' = 0 .. nextSid
        /\ sessions'[nextSid] = Empty
        /\ \A sid \in DOMAIN sessions : sessions'[sid] = sessions[sid]
    BY <1>1, CreateKeeps
  <2>3. \A sid \in 0 .. nextSid - 1 : sessions[sid] \in UserMaps
    BY DEF TypeOK
  <2>4. \A sid \in 0 .. nextSid : sid \in 0 .. nextSid - 1 \/ sid = nextSid
    BY <1>2
  <2>5. \A sid \in 0 .. nextSid : sessions'[sid] \in UserMaps
    BY <2>2, <2>3, <2>4, EmptyUsers
  <2> QED BY <2>1, <2>2, <2>5 DEF With
<1>4. sessIds' \in [DOMAIN sessIds' -> 0 .. nextSid] /\ DOMAIN sessIds' \subseteq Streams
  <2>1. sessIds' = With(sessIds, {stream}, nextSid)
    BY <1>1 DEF CreateSession
  <2>2. \A s \in DOMAIN sessIds' : sessIds'[s] \in 0 .. nextSid
    <3>1. \A s \in DOMAIN sessIds : sessIds[s] \in 0 .. nextSid - 1
      BY DEF TypeOK
    <3>2. \A s \in DOMAIN sessIds : sessIds[s] \in 0 .. nextSid
      BY <1>2, <3>1
    <3>3. nextSid \in 0 .. nextSid
      BY <1>2
    <3> QED BY <1>1, <3>2, <3>3, CreateKeeps
  <2> QED BY <1>1, <2>1, <2>2, CreateKeeps DEF TypeOK, With
<1>5. out' \subseteq [to : Addrs, msg : Bytes \cup Answers]
  BY DEF OnCreateReq, Answers
<1>6. 0 .. nextSid' - 1 = 0 .. nextSid
  BY <1>2
<1>7. member' \in [Uids -> Joins \cup {NotIn}] /\ joined' \subseteq Joins
      /\ pool' \in Seq(Data \cup {Blank}) /\ Len(pool') <= MSG_POOL_SIZE
  BY <1>1 DEF TypeOK
<1> QED BY <1>2, <1>3, <1>4, <1>5, <1>6, <1>7 DEF TypeOK

LEMMA AcceptTyped ==
    ASSUME TypeOK, NEW sid \in Sids, NEW u \in Uids, NEW from \in Addrs, NEW answered \in BOOLEAN,
           AcceptJoin(sid, u, from, answered)
    PROVE  TypeOK'
<1>1. sid \in DOMAIN sessions /\ sessions[sid] \in UserMaps
  BY DEF TypeOK, AcceptJoin
<1> DEFINE m == With(sessions[sid], {u}, from)
<1>2. sessions' = [sessions EXCEPT ![sid] = m] /\ UNCHANGED <<sessIds, nextSid, pool>>
  BY DEF AcceptJoin
<1>3. m \in UserMaps
  BY <1>1, WithUser
<1> HIDE DEF m
<1>4. sessions' \in [0 .. nextSid - 1 -> UserMaps] /\ sessions'[sid] = m
  BY <1>1, <1>2, <1>3 DEF TypeOK
<1>5. out' \subseteq [to : Addrs, msg : Bytes \cup Answers]
  <2>1. out' = {[to |-> m[v], msg |-> [type |-> "joined", sid |-> sid, from |-> u]]
                 : v \in DOMAIN m}
              \cup {[to |-> from, msg |-> [type |-> "joinRes", ok |-> TRUE]]}
    BY <1>4 DEF AcceptJoin
  <2>2. \A v \in DOMAIN m : m[v] \in Addrs
    BY <1>3, UsersTyped
  <2>3. [type |-> "joined", sid |-> sid, from |-> u] \in Bytes
    BY DEF Bytes, Joined
  <2>4. [type |-> "joinRes", ok |-> TRUE] \in Answers
    BY DEF Answers
  <2> DEFINE j == [type |-> "joined", sid |-> sid, from |-> u]
             r == [type |-> "joinRes", ok |-> TRUE]
  <2>5. out' = {[to |-> m[v], msg |-> j] : v \in DOMAIN m} \cup {[to |-> from, msg |-> r]}
    BY <2>1
  <2>6. j \in Bytes /\ r \in Answers
    BY <2>3, <2>4
  <2> HIDE DEF j, r
  <2> QED BY <2>2, <2>5, <2>6
<1>6. member' \in [Uids -> Joins \cup {NotIn}] /\ joined' \subseteq Joins
  BY DEF TypeOK, AcceptJoin, Joins
<1> QED BY <1>2, <1>4, <1>5, <1>6 DEF TypeOK

LEMMA StreamTyped ==
    ASSUME TypeOK, NEW sid \in Sids, NEW u \in Uids, NEW size \in Sizes,
           OnMPStreamData(sid, u, size)
    PROVE  TypeOK'
<1> DEFINE d == [type |-> "data", sid |-> sid, from |-> u]
           msg == Assign(Fetched, d, size)
<1>1. UNCHANGED <<sessIds, sessions, nextSid, member, joined>>
  BY DEF OnMPStreamData
<1>2. msg \in Data \cup {Blank}
  BY FetchTyped DEF Assign, Data
<1>3. msg \in Bytes
  BY <1>2 DEF Bytes
<1> HIDE DEF msg
<1>4. CASE sid \in DOMAIN sessions
  <2>1. pool' = Free(Rest, msg) /\ out' = ToUsers(sid, msg)
    BY <1>4 DEF OnMPStreamData, msg
  <2> QED BY <1>1, <1>2, <1>3, <1>4, <2>1, FetchTyped, FreeTyped, ToUsersTyped DEF TypeOK
<1>5. CASE sid \notin DOMAIN sessions
  <2>1. pool' = Rest /\ out' = {}
    BY <1>5 DEF OnMPStreamData
  <2>2. Rest \in Seq(Data \cup {Blank}) /\ Len(Rest) <= MSG_POOL_SIZE
    BY FetchTyped, LenProperties, MProxyAssumption
  <2> QED BY <1>1, <2>1, <2>2 DEF TypeOK
<1> QED BY <1>4, <1>5

LEMMA NextTyped == ASSUME TypeOK, [Next]_vars PROVE TypeOK'
<1>1. ASSUME NEW stream \in Streams, NEW from \in Addrs, OnCreateReq(stream, from)
      PROVE  TypeOK'
  BY <1>1, CreateTyped
<1>2. ASSUME NEW sid \in Sids, NEW u \in Uids, NEW from \in Addrs, OnMPJoinReq(sid, u, from)
      PROVE  TypeOK'
  <2>1. CASE RejectJoin(sid, u, from)
    <3>1. out' \subseteq [to : Addrs, msg : Bytes \cup Answers]
      BY <2>1 DEF RejectJoin, Answers
    <3> QED BY <2>1, <3>1 DEF RejectJoin, TypeOK
  <2>2. CASE \E answered \in BOOLEAN : AcceptJoin(sid, u, from, answered)
    BY <2>2, AcceptTyped
  <2> QED BY <1>2, <2>1, <2>2 DEF OnMPJoinReq
<1>3. ASSUME NEW sid \in Sids, NEW from \in Addrs, OnMPPing(sid, from)
      PROVE  TypeOK'
  <2>1. sessions[sid] \in UserMaps
    BY <1>3 DEF OnMPPing, TypeOK
  <2>2. out' \subseteq [to : Addrs, msg : Bytes \cup Answers]
    BY <1>3, <2>1, UsersTyped DEF OnMPPing, Answers
  <2> QED BY <1>3, <2>2 DEF OnMPPing, TypeOK
<1>4. ASSUME NEW sid \in Sids, NEW u \in Uids, NEW size \in Sizes, OnMPRejectInvite(sid, u, size)
      PROVE  TypeOK'
  <2>1. Assign(Blank, [type |-> "reject", sid |-> sid, from |-> u], size) \in Bytes
    BY DEF Assign, Bytes, Reject
  <2>2. out' \subseteq [to : Addrs, msg : Bytes \cup Answers]
    BY <1>4, <2>1, ToUsersTyped DEF OnMPRejectInvite
  <2> QED BY <1>4, <2>2 DEF OnMPRejectInvite, TypeOK
<1>5. ASSUME NEW sid \in Sids, NEW u \in Uids, NEW size \in Sizes, OnMPStreamData(sid, u, size)
      PROVE  TypeOK'
  BY <1>5, StreamTyped
<1>6. CASE UNCHANGED vars
  BY <1>6 DEF vars, TypeOK
<1> QED BY <1>1, <1>2, <1>3, <1>4, <1>5, <1>6 DEF Next

\* The types of the sessions, the pool and what is sent.
THEOREM TypeCorrect == Spec => []TypeOK
<1> QED BY InitTyped, NextTyped, PTL DEF Spec

-----------------------------------------------------------------------------
(* Sessions and members *)

\* Every sid given so far is a session's, and no stream has another's.
LEMMA SessionsKept ==
    ASSUME TypeOK, StreamsOwnSessions, [Next]_vars
    PROVE  StreamsOwnSessions'
<1>1. ASSUME NEW stream \in Streams, NEW from \in Addrs, OnCreateReq(stream, from)
      PROVE  StreamsOwnSessions'
  <2>1. CreateSession(stream)
    BY <1>1 DEF OnCreateReq
  <2>2. \A s \in DOMAIN sessIds : sessIds[s] \in DOMAIN sessions /\ sessIds[s] # nextSid
    BY <2>1, CreateKeeps DEF StreamsOwnSessions
  <2>3. \A s \in DOMAIN sessIds' : s = stream \/ (s \in DOMAIN sessIds /\ s # stream)
    BY <2>1, CreateKeeps
  <2>4. nextSid \in DOMAIN sessions' /\ DOMAIN sessions \subseteq DOMAIN sessions'
    <3>1. nextSid \in Nat /\ DOMAIN sessions = 0 .. nextSid - 1 /\ DOMAIN sessions' = 0 .. nextSid
      BY <2>1, CreateKeeps
    <3> QED BY <3>1
  <2>5. /\ sessIds'[stream] = nextSid
        /\ \A s \in DOMAIN sessIds : s # stream => sessIds'[s] = sessIds[s]
    BY <2>1, CreateKeeps
  <2> QED BY <2>2, <2>3, <2>4, <2>5 DEF StreamsOwnSessions
<1>2. ASSUME UNCHANGED sessIds, DOMAIN sessions' = DOMAIN sessions
      PROVE  StreamsOwnSessions'
  BY <1>2 DEF StreamsOwnSessions
<1>3. ASSUME NEW sid \in Sids, NEW u \in Uids, NEW from \in Addrs, OnMPJoinReq(sid, u, from)
      PROVE  UNCHANGED sessIds /\ DOMAIN sessions' = DOMAIN sessions
  BY <1>3 DEF OnMPJoinReq, RejectJoin, AcceptJoin, TypeOK
<1> QED BY <1>1, <1>2, <1>3 DEF Next, vars, OnMPPing, OnMPRejectInvite, OnMPStreamData

\* The members of every session stay in it.
LEMMA MembersKept ==
    ASSUME TypeOK, MembersReached, [Next]_vars
    PROVE  MembersReached'
<1>1. ASSUME NEW stream \in Streams, NEW from \in Addrs, OnCreateReq(stream, from)
      PROVE  MembersReached'
  <2>1. CreateSession(stream) /\ member' = member
    BY <1>1 DEF OnCreateReq
  <2>2. /\ DOMAIN sessions \subseteq DOMAIN sessions'
        /\ \A sid \in DOMAIN sessions : sessions'[sid] = sessions[sid]
    <3>1. nextSid \in Nat /\ DOMAIN sessions = 0 .. nextSid - 1 /\ DOMAIN sessions' = 0 .. nextSid
      BY <2>1, CreateKeeps
    <3>2. DOMAIN sessions \subseteq DOMAIN sessions'
      BY <3>1
    <3> QED BY <2>1, <3>2, CreateKeeps
  <2> QED BY <2>1, <2>2 DEF MembersReached
<1>2. ASSUME NEW sid \in Sids, NEW u \in Uids, NEW from \in Addrs, NEW answered \in BOOLEAN,
             AcceptJoin(sid, u, from, answered)
      PROVE  MembersReached'
  <2> DEFINE m == With(sessions[sid], {u}, from)
  <2>1. sid \in DOMAIN sessions /\ sessions[sid] \in UserMaps
    BY <1>2 DEF TypeOK, AcceptJoin
  <2>2. /\ DOMAIN m = DOMAIN sessions[sid] \cup {u} /\ m[u] = from
        /\ \A v \in DOMAIN sessions[sid] : v # u => m[v] = sessions[sid][v]
    BY <2>1, WithUser
  <2> HIDE DEF m
  <2>3. sessions' = [sessions EXCEPT ![sid] = m]
    BY <1>2 DEF AcceptJoin, m
  <2>4. /\ DOMAIN sessions' = DOMAIN sessions /\ sessions'[sid] = m
        /\ \A s \in DOMAIN sessions : s # sid => sessions'[s] = sessions[s]
    BY <2>1, <2>3 DEF TypeOK
  <2>5. /\ member'[u] \in {[sid |-> sid, addr |-> from], NotIn}
        /\ \A v \in Uids : v # u => member'[v] = member[v]
    BY <1>2 DEF AcceptJoin, TypeOK
  <2>6. ASSUME NEW v \in Uids, member'[v] # NotIn
        PROVE  /\ member'[v].sid \in DOMAIN sessions'
               /\ v \in DOMAIN sessions'[member'[v].sid]
               /\ sessions'[member'[v].sid][v] = member'[v].addr
    <3>1. CASE v = u
      BY <2>1, <2>2, <2>4, <2>5, <2>6, <3>1
    <3>2. CASE v # u
      <4>1. /\ member'[v] = member[v] /\ member[v].sid \in DOMAIN sessions
            /\ v \in DOMAIN sessions[member[v].sid]
            /\ sessions[member[v].sid][v] = member[v].addr
        BY <2>5, <2>6, <3>2 DEF MembersReached
      <4> QED BY <2>2, <2>4, <3>2, <4>1
    <3> QED BY <3>1, <3>2
  <2> QED BY <2>6 DEF MembersReached
<1>3. ASSUME UNCHANGED <<sessions, member>>
      PROVE  MembersReached'
  BY <1>3 DEF MembersReached
<1> QED BY <1>1, <1>2, <1>3
        DEF Next, vars, OnMPJoinReq, RejectJoin, OnMPPing, OnMPRejectInvite, OnMPStreamData

LEMMA InitSessions == ASSUME Init PROVE StreamsOwnSessions /\ MembersReached
BY DEF Init, StreamsOwnSessions, MembersReached, Empty

\* A known stream has a session of its own, whatever has been created again.
THEOREM SessionsOwned == Spec => []StreamsOwnSessions
<1> QED BY TypeCorrect, InitSessions, SessionsKept, PTL DEF Spec

\* A client that has been told that it is in a session stays there, at the
\* address it joined from.
THEOREM MembersAreReached == Spec => []MembersReached
<1> QED BY TypeCorrect, InitSessions, MembersKept, PTL DEF Spec

\* Whoever a session holds joined it, from the address that is held.
SessionsJoined ==
    \A sid \in DOMAIN sessions : \A u \in DOMAIN sessions[sid] :
        [sid |-> sid, addr |-> sessions[sid][u]] \in joined

LEMMA JoinedKept ==
    ASSUME TypeOK, SessionsJoined, [Next]_vars
    PROVE  SessionsJoined'
<1>1. ASSUME NEW stream \in Streams, NEW from \in Addrs, OnCreateReq(stream, from)
      PROVE  SessionsJoined'
  <2>1. CreateSession(stream) /\ joined' = joined
    BY <1>1 DEF OnCreateReq
  <2>2. \A sid \in DOMAIN sessions' : sid \in DOMAIN sessions \/ sid = nextSid
    <3>1. nextSid \in Nat /\ DOMAIN sessions = 0 .. nextSid - 1 /\ DOMAIN sessions' = 0 .. nextSid
      BY <2>1, CreateKeeps
    <3> QED BY <3>1
  <2>3. /\ DOMAIN sessions'[nextSid] = {}
        /\ \A sid \in DOMAIN sessions : sessions'[sid] = sessions[sid]
    BY <2>1, CreateKeeps, EmptyUsers
  <2> QED BY <2>1, <2>2, <2>3 DEF SessionsJoined
<1>2. ASSUME NEW sid \in Sids, NEW u \in Uids, NEW from \in Addrs, NEW answered \in BOOLEAN,
             AcceptJoin(sid, u, from, answered)
      PROVE  SessionsJoined'
  <2> DEFINE m == With(sessions[sid], {u}, from)
  <2>1. sid \in DOMAIN sessions /\ sessions[sid] \in UserMaps
    BY <1>2 DEF TypeOK, AcceptJoin
  <2>2. /\ DOMAIN m = DOMAIN sessions[sid] \cup {u} /\ m[u] = from
        /\ \A v \in DOMAIN sessions[sid] : v # u => m[v] = sessions[sid][v]
    BY <2>1, WithUser
  <2> HIDE DEF m
  <2>3. /\ sessions' = [sessions EXCEPT ![sid] = m]
        /\ joined' = joined \cup {[sid |-> sid, addr |-> from]}
    BY <1>2 DEF AcceptJoin, m
  <2>4. /\ DOMAIN sessions' = DOMAIN sessions /\ sessions'[sid] = m
        /\ \A s \in DOMAIN sessions : s # sid => sessions'[s] = sessions[s]
    BY <2>1, <2>3 DEF TypeOK
  <2>5. ASSUME NEW v \in DOMAIN m PROVE [sid |-> sid, addr |-> m[v]] \in joined'
    BY <2>1, <2>2, <2>3 DEF SessionsJoined
  <2> QED BY <2>3, <2>4, <2>5 DEF SessionsJoined
<1>3. ASSUME UNCHANGED <<sessions, joined>>
      PROVE  SessionsJoined'
  BY <1>3 DEF SessionsJoined
<1> QED BY <1>1, <1>2, <1>3
        DEF Next, vars, OnMPJoinReq, RejectJoin, OnMPPing, OnMPRejectInvite, OnMPStreamData

\* Data that fits goes out as it came, to every member and to nobody who never
\* joined its session, whatever the Msg held before.
THEOREM RelayIsExact == Spec => RelaysWhatFits
<1> DEFINE d(sid, u) == [type |-> "data", sid |-> sid, from |-> u]
           Exact == \A sid \in Sids, u \in Uids, size \in Sizes : OnMPStreamData(sid, u, size) =>
             /\ \A o \in out' : [sid |-> sid, addr |-> o.to] \in joined
             /\ size = "fits" =>
                   /\ \A v \in Uids : member[v] # NotIn /\ member[v].sid = sid =>
                         [to |-> member[v].addr, msg |-> d(sid, u)] \in out'
                   /\ \A o \in out' : o.msg = d(sid, u)
<1>1. ASSUME MembersReached, SessionsJoined, NEW sid \in Sids, NEW u \in Uids, NEW size \in Sizes,
             OnMPStreamData(sid, u, size)
      PROVE  /\ \A o \in out' : [sid |-> sid, addr |-> o.to] \in joined
             /\ size = "fits" =>
                   /\ \A v \in Uids : member[v] # NotIn /\ member[v].sid = sid =>
                         [to |-> member[v].addr, msg |-> d(sid, u)] \in out'
                   /\ \A o \in out' : o.msg = d(sid, u)
  <2>1. out' = IF sid \in DOMAIN sessions THEN ToUsers(sid, Assign(Fetched, d(sid, u), size)) ELSE {}
    BY <1>1 DEF OnMPStreamData
  <2>2. size = "fits" => Assign(Fetched, d(sid, u), size) = d(sid, u)
    BY DEF Assign
  <2> HIDE DEF d
  <2>3. \A o \in out' : [sid |-> sid, addr |-> o.to] \in joined
    BY <1>1, <2>1 DEF ToUsers, SessionsJoined
  <2>4. ASSUME size = "fits"
        PROVE  /\ \A v \in Uids : member[v] # NotIn /\ member[v].sid = sid =>
                     [to |-> member[v].addr, msg |-> d(sid, u)] \in out'
               /\ \A o \in out' : o.msg = d(sid, u)
    BY <1>1, <2>1, <2>2, <2>4 DEF ToUsers, MembersReached
  <2> QED BY <2>3, <2>4
<1>2. MembersReached /\ SessionsJoined => [Exact]_vars
  BY <1>1
<1>3. Init => SessionsJoined
  BY DEF Init, SessionsJoined, Empty
<1>4. Spec => [][Exact]_vars
  BY <1>2, <1>3, TypeCorrect, JoinedKept, MembersAreReached, PTL DEF Spec
<1> QED BY <1>4 DEF RelaysWhatFits
=============================================================================
