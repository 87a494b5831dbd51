-------------------------------- MODULE Wire --------------------------------
(***************************************************************************)
(* What the processes make of each other's messages, byte by byte: who     *)
(* writes what into which field, what the receiver's handler reads out of  *)
(* the bytes, which of it goes into the messages that it sends in turn,    *)
(* and what of it all is still true at the end.                            *)
(*                                                                         *)
(* Nothing is forgotten and messages come in any order: a process may use  *)
(* whatever it was ever told.  Which of it a process still has, and whom   *)
(* it answers when, is the matter of MCProxy, MCenter, MGroup, LoadTable,  *)
(* MProxy, Signal and Push; what is done here is done by one of them.      *)
(***************************************************************************)
EXTENDS Messages, FiniteSets

CONSTANTS
    Ends,       \* the clients of the services, and the groups' processes
    Seeds,      \* bound: the different contents that a writer may give a message
    MaxSaid     \* bound: messages of each service written of somebody's own accord

ASSUME SeedsAssumption == Seeds \subseteq 1 .. 2

VARIABLES
    service,    \* whose messages are spoken in this behaviour; it never changes
    net,        \* the messages under way
    said,       \* history: what was written of somebody's own accord
    told        \* what each process and each end has read

vars == <<service, net, said, told>>

-----------------------------------------------------------------------------
(* What a writer puts into the fields: of every field something else, and
   something else again with the other seed. *)

FieldNames ==
    FoldSet(LAMBDA f, seq : Append(seq, f), <<>>,
            UNION {{f.name : f \in Range(c.writes)} : c \in Classes})
Letter(name, seed) == 2 * (CHOOSE i \in DOMAIN FieldNames : FieldNames[i] = name) + seed

\* udp is a flag, all calls are of one session, and the strings of one seed are
\* longer than those of the other.
Content(field, seed) ==
    IF field.name = "udp" THEN Bytes(seed - 1, field.width)
    ELSE IF field.name = "sid" THEN Bytes(1, field.width)
    ELSE [i \in 1 .. IF field.kind = "int" THEN field.width ELSE 2 * seed - 1
              |-> Letter(field.name, seed)]

\* A user writes to the user with the other seed.
Words(class, seed) ==
    LET names == {f.name : f \in Range(class.writes)}
        Named(n) == CHOOSE f \in Range(class.writes) : f.name = n
    IN  [n \in names |-> IF n = "peer" THEN Content(Int32("uid"), 3 - seed)
                         ELSE Content(Named(n), seed)]

\* The users in the database of login_d; their uids are not those that the
\* clients with the same passport write.
Records ==
    {[passport |-> Content(Str("passport"), s), uid |-> Content(Int32("uid"), 3 - s),
      cookie |-> Content(Str("cookie"), s)] : s \in Seeds}

-----------------------------------------------------------------------------
(* Messages *)

Message(from, to, class, vals) ==
    [from |-> from, to |-> to, svid |-> class.svid, uri |-> class.uri,
     body |-> Marshall(class, vals)]

\* The same bytes, sent on.
Relayed(m, by, to) == [m EXCEPT !.from = by, !.to = to]

\* handle() of four processes looks at the svid first.
Admits == [mcenter |-> {5}, mcproxy |-> {5}, mgroup |-> {4}, mproxy |-> {2, 4}]

\* The cases of the handle() of each process, by the class that it reads.
\* router looks for the uri in the svid and finds no case for what it is sent.
Cases ==
    [mcenter |-> {PMCReportReq, PMCPreAllocReq},
     mcproxy |-> {PMCAllocReq, PMCPreAllocRes},
     mgroup |-> {PMGReportReq, PMGAllocReq},
     loadtable |-> {PLTReport, PLTRegSlaveReq},
     slave |-> {PLTReport, PLTRegSlaveReq},
     mproxy |-> {PMPCreateReq, PMPJoinReq, PMPPing, PMPStreamData, PMPRejectInvite},
     login |-> {PRegProxyRes, PLoginReq, PSendReq},
     dispatcher |-> {PRegProxyReq, PSendReq, PSyncUidsReq},
     router |-> {},
     push |-> {PConsumerRegisterReq, PPushMsg}]

Hears(p, class, m) ==
    /\ m.to = p
    /\ class \in Cases[p] /\ m.uri = class.uri
    /\ p \in DOMAIN Admits => m.svid \in Admits[p]

\* p has read m as one of class.
Tells(p, class, m) ==
    {[at |-> p, by |-> m.from, class |-> class.name, vals |-> Unmarshall(class, m.body)]}

Told(p, class) == {t \in told : t.at = p /\ t.class = class.name}
Known(p, class) == {t.vals : t \in Told(p, class)}

\* A handler: p reads a message as class and sends one of the sets of messages
\* that Sends has for it.
Handle(p, class, Sends(_, _)) ==
    /\ \E m \in net :
        /\ Hears(p, class, m)
        /\ \E out \in Sends(m, Unmarshall(class, m.body)) : net' = (net \ {m}) \cup out
        /\ told' = told \cup Tells(p, class, m)
    /\ UNCHANGED <<service, said>>

Nothing(m, req) == {{}}

RES_OK == 0
RES_FAIL == 1
RES_INVAID_ISP == 3
RES_NO_GROUP == 4
Ok(vals) == \A i \in DOMAIN vals.res : vals.res[i] = 0

-----------------------------------------------------------------------------
(* mcenter and mcproxy *)

OnMCReportReq == Handle("mcenter", PMCReportReq, Nothing)

\* A refusal, or a group that has reported.
OnMCPreAllocReq ==
    LET Res(m, req, code, num, ip, port) ==
            {Message("mcenter", m.from, PMCPreAllocRes,
                [req EXCEPT !.num = num] @@
                [res |-> Bytes(code, 2), ip |-> ip, port |-> port])}
        Sends(m, req) ==
            {Res(m, req, code, Bytes(0, 4), <<>>, Bytes(0, 2)) :
                code \in {RES_INVAID_ISP, RES_NO_GROUP}}
            \cup {Res(m, req, RES_OK, req.num, g.ip, g.port) : g \in Known("mcenter", PMCReportReq)}
    IN  Handle("mcenter", PMCPreAllocReq, Sends)

CACHE_SIZE == 300
Key(req) == <<req.isp1, req.area1, req.isp2, req.area2>>

\* The pack for the cache; the second user gets the isp and area of the first.
AllocRes(to, res) ==
    Message("mcproxy", to, PMCAllocRes,
        [res |-> Bytes(RES_OK, 2), ip |-> res.ip, port |-> res.port,
         isp1 |-> res.isp1, area1 |-> res.area1, isp2 |-> res.isp1, area2 |-> res.area1])

\* m_badGrpPack, whose isps and areas are not set.
BadGrp(to) ==
    Message("mcproxy", to, PMCAllocRes,
        [res |-> Bytes(RES_FAIL, 2), ip |-> <<>>, port |-> Bytes(0, 2),
         isp1 |-> Unset(4), area1 |-> Unset(4), isp2 |-> Unset(4), area2 |-> Unset(4)])

\* Nothing in the cache: mcenter is asked.  Otherwise the answer is one of the
\* cache, and mcenter is asked for more if it is nearly empty.
OnMCAllocReq ==
    LET Fetch(req) ==
            Message("mcproxy", "mcenter", PMCPreAllocReq, req @@ [num |-> Bytes(CACHE_SIZE, 4)])
        Cached(req) ==
            {res \in Known("mcproxy", PMCPreAllocRes) : Ok(res) /\ Key(res) = Key(req)}
        Sends(m, req) ==
            {{Fetch(req)}}
            \cup {{AllocRes(m.from, res)} : res \in Cached(req)}
            \cup {{AllocRes(m.from, res), Fetch(req)} : res \in Cached(req)}
    IN  Handle("mcproxy", PMCAllocReq, Sends)

\* The answer for the links that wait for the key.
OnMCPreAllocRes ==
    LET Asked(res) == {t.by : t \in {u \in Told("mcproxy", PMCAllocReq) : Key(u.vals) = Key(res)}}
        Answer(link, res) == IF Ok(res) THEN AllocRes(link, res) ELSE BadGrp(link)
        Sends(m, res) == {{Answer(l, res) : l \in waiting} : waiting \in SUBSET Asked(res)}
    IN  Handle("mcproxy", PMCPreAllocRes, Sends)

-----------------------------------------------------------------------------
(* mgroup and loadtable *)

\* The report goes on to loadtable under other names, with no ext.
OnReportReq ==
    LET Sends(m, req) ==
            {{Message("mgroup", "loadtable", PLTReport,
                [key |-> req.name, ip |-> req.ip, port |-> req.port, load |-> req.load,
                 load_max |-> req.load_max, ext |-> <<>>])}}
    IN  Handle("mgroup", PMGReportReq, Sends)

\* A report of a known name changes its loads and nothing else.  The answer
\* goes to the link that asked and to that of the proxy.  Its uid is not set,
\* and in a refusal nothing is but the stream.
OnAllocProxyReq ==
    LET Proxies ==
            {[link |-> p[1].by,
              info |-> [p[1].vals EXCEPT !.udp = Bytes(IF @ = Bytes(1, 2) THEN 1 ELSE 0, 2),
                                         !.load = p[2].vals.load,
                                         !.load_max = p[2].vals.load_max]] :
                p \in {q \in Told("mgroup", PMGReportReq) \X Told("mgroup", PMGReportReq) :
                        q[1].vals.name = q[2].vals.name}}
        Refused(req) ==
            [res |-> Bytes(RES_FAIL, 4), uid |-> Unset(4), stream |-> req.stream, cookie |-> <<>>,
             name |-> <<>>, ip |-> <<>>, port |-> Unset(2), udp |-> Unset(2),
             load |-> Unset(4), load_max |-> Unset(4)]
        Given(req, info) ==
            info @@ [res |-> Bytes(RES_OK, 4), uid |-> Unset(4), stream |-> req.stream,
                     cookie |-> req.stream]
        Sends(m, req) ==
            {{Message("mgroup", m.from, PMGAllocRes, Refused(req))}}
            \cup {{Message("mgroup", to, PMGAllocRes, Given(req, p.info)) : to \in {m.from, p.link}} :
                    p \in Proxies}
    IN  Handle("mgroup", PMGAllocReq, Sends)

\* The same bytes for every slave.
OnLTReport(p) ==
    LET Sends(m, req) == {{Relayed(m, p, t.by) : t \in Told(p, PLTRegSlaveReq)}}
    IN  Handle(p, PLTReport, Sends)

OnLTRegSlaveReq(p) == Handle(p, PLTRegSlaveReq, Nothing)

-----------------------------------------------------------------------------
(* mproxy *)

\* The clients that joined what they took for session sid.
Joined(sid) == {t \in Told("mproxy", PMPJoinReq) : t.vals.sid = sid}
UsersOf(joins) == SetToSeq({[uid |-> t.vals.uid, nickname |-> t.vals.nick] : t \in joins})

\* Session::onMsg
ToUsers(m, joins) == {Relayed(m, "mproxy", t.by) : t \in joins}

\* The sid of the session is not set.
OnCreateReq ==
    LET Sends(m, req) ==
            {{Message("mproxy", m.from, PMPCreateRes,
                [res |-> Bytes(RES_OK, 4), sid |-> Unset(4), uid |-> req.uid,
                 nick |-> req.nick, stream |-> req.stream])}}
    IN  Handle("mproxy", PMPCreateReq, Sends)

\* No load or no session: nothing in the answer is set.  Otherwise the user is
\* in the list that it is sent, and the users, itself included, are told.
OnMPJoinReq ==
    LET Refused(m) ==
            Message("mproxy", m.from, PMPJoinRes,
                [res |-> Unset(4), sid |-> Unset(4), uid |-> Unset(4), onlineUsers |-> <<>>])
        JoinRes(m, req, joins) ==
            Message("mproxy", m.from, PMPJoinRes,
                [res |-> Bytes(RES_OK, 4), sid |-> req.sid, uid |-> req.uid,
                 onlineUsers |-> UsersOf(joins)])
        Notify(m, req) ==
            Message("mproxy", m.from, PMPNotifyJoined,
                [sid |-> req.sid, uid |-> req.uid, nickname |-> req.nick])
        Sends(m, req) ==
            {{Refused(m)}}
            \cup {{JoinRes(m, req, joins)} \cup ToUsers(Notify(m, req), joins) :
                    joins \in {Tells("mproxy", PMPJoinReq, m) \cup others :
                                    others \in SUBSET Joined(req.sid)}}
    IN  Handle("mproxy", PMPJoinReq, Sends)

OnMPPing ==
    LET Sends(m, req) ==
            {{}} \cup {{Message("mproxy", m.from, PMPPong,
                            [sid |-> req.sid, from |-> req.from, users |-> UsersOf(joins)])} :
                        joins \in SUBSET Joined(req.sid)}
    IN  Handle("mproxy", PMPPing, Sends)

\* Stream data and rejections go to the users as they came.
ToSession(m, req) == {ToUsers(m, joins) : joins \in SUBSET Joined(req.sid)}
OnMPStreamData == Handle("mproxy", PMPStreamData, ToSession)
OnMPRejectInvite == Handle("mproxy", PMPRejectInvite, ToSession)

-----------------------------------------------------------------------------
(* login and dispatcher *)

\* The answer has the uid of the record, whatever uid the client wrote.
OnLoginReq ==
    LET Sends(m, req) ==
            {{Message("login", m.from, PLoginRes,
                [res |-> Bytes(RES_FAIL, 4), uid |-> Unset(4), cookie |-> <<>>])}}
            \cup {{Message("login", m.from, PLoginRes,
                    [res |-> Bytes(RES_OK, 4), uid |-> r.uid, cookie |-> r.cookie])} :
                    r \in {s \in Records : s.passport = req.passport}}
    IN  Handle("login", PLoginReq, Sends)

\* From the link that logged in with the uid: to the peer's link as it came,
\* or to dispatcher.  What comes from dispatcher is from no such link.
OnSendReq ==
    LET LoggedIn(link, uid) ==
            \E t \in Told("login", PLoginReq) : t.by = link /\ t.vals.uid = uid
        Links(uid) == {t.by : t \in {u \in Told("login", PLoginReq) : u.vals.uid = uid}}
        Sends(m, req) ==
            IF LoggedIn(m.from, req.uid)
            THEN {{Relayed(m, "login", to)} : to \in Links(req.peer) \cup {"dispatcher"}}
            ELSE {{}}
    IN  Handle("login", PSendReq, Sends)

OnRegProxyRes == Handle("login", PRegProxyRes, Nothing)

\* dispatcher: the peer's login, if a sync has named it, or router.
DispatcherOnSendReq ==
    LET Synced(uid) ==
            \E req \in Known("dispatcher", PSyncUidsReq) : \E i \in DOMAIN req.adds :
                req.adds[i].uid = uid
        Sends(m, req) ==
            {{Relayed(m, "dispatcher", "router")}}
            \cup {{Relayed(m, "dispatcher", to)} : to \in {l \in {"login"} : Synced(req.peer)}}
    IN  Handle("dispatcher", PSendReq, Sends)

OnRegProxyReq ==
    LET Sends(m, req) ==
            {{Message("dispatcher", m.from, PRegProxyRes,
                [proxy |-> req.proxy, dispatcher |-> Content(Str("dispatcher"), 1),
                 router |-> Content(Str("router"), 1)])}}
    IN  Handle("dispatcher", PRegProxyReq, Sends)

OnSyncUidsReq == Handle("dispatcher", PSyncUidsReq, Nothing)

-----------------------------------------------------------------------------
(* push *)

OnConsumerRegisterReq == Handle("push", PConsumerRegisterReq, Nothing)

\* The same bytes for the consumers of the topic.
OnPushMsg ==
    LET Consumers(topic) ==
            {t.by : t \in {u \in Told("push", PConsumerRegisterReq) : u.vals.topic = topic}}
        Sends(m, req) == {{Relayed(m, "push", l) : l \in links} : links \in SUBSET Consumers(req.topic)}
    IN  Handle("push", PPushMsg, Sends)

-----------------------------------------------------------------------------
(* What is written of somebody's own accord *)

Speaks(who, to, classes) == {[by |-> w, to |-> to, class |-> c] : w \in who, c \in classes}

Speech ==
    [alloc |-> Speaks(Ends, "mcenter", {PMCReportReq}) \cup Speaks(Ends, "mcproxy", {PMCAllocReq}),
     group |-> Speaks({"mproxy"}, "mgroup", {PMGReportReq}) \cup Speaks(Ends, "mgroup", {PMGAllocReq}),
     load |-> Speaks({"mproxy"}, "mgroup", {PMGReportReq})
        \cup Speaks(Ends, "loadtable", {PLTReport}) \cup Speaks({"slave"}, "loadtable", {PLTRegSlaveReq}),
     call |-> Speaks(Ends, "mproxy",
        {PMPCreateReq, PMPJoinReq, PMPPing, PMPStreamData, PMPRejectInvite}),
     user |-> Speaks(Ends, "login", {PLoginReq, PSendReq})
        \cup Speaks({"login"}, "dispatcher", {PRegProxyReq}),
     push |-> Speaks(Ends, "push", {PConsumerRegisterReq, PPushMsg})]

Write(by, to, class, vals) ==
    LET words == [by |-> by, class |-> class.name, vals |-> vals]
    IN  /\ Cardinality(said) < MaxSaid[service] /\ words \notin said
        /\ said' = said \cup {words}
        /\ net' = net \cup {Message(by, to, class, vals)}
        /\ UNCHANGED <<service, told>>

Say ==
    \E s \in Speech[service], seed \in Seeds :
        Write(s.by, s.to, s.class, Words(s.class, seed))

\* UidSync::sync of login: the uids of records that logged in, and those of
\* links that were lost or expired, which are the ones that the clients wrote.
Sync ==
    LET In == Known("login", PLoginReq)
        Uids == {r.uid : r \in {s \in Records : \E req \in In : req.passport = s.passport}}
        List(uids) == SetToSeq({[uid |-> u] : u \in uids})
    IN  /\ In # {}
        /\ \E adds \in SUBSET Uids, removes \in SUBSET {req.uid : req \in In} :
            Write("login", "dispatcher", PSyncUidsReq,
                  [adds |-> List(adds), removes |-> List(removes)])

\* An end reads what comes as the class that it is.
EndReads ==
    /\ \E m \in {k \in net : k.to \in Ends} :
        LET class == CHOOSE c \in Classes : c.svid = m.svid /\ c.uri = m.uri
        IN  /\ told' = told \cup Tells(m.to, class, m)
            /\ net' = net \ {m}
    /\ UNCHANGED <<service, said>>

\* No case of the receiver's handle().
Unheard ==
    /\ \E m \in {k \in net : k.to \notin Ends} :
        /\ \A c \in Cases[m.to] : ~Hears(m.to, c, m)
        /\ net' = net \ {m}
    /\ UNCHANGED <<service, said, told>>

Init ==
    /\ service \in DOMAIN Speech
    /\ net = {} /\ said = {} /\ told = {}

Next ==
    \/ Say \/ EndReads \/ Unheard
    \/ OnMCReportReq \/ OnMCPreAllocReq \/ OnMCAllocReq \/ OnMCPreAllocRes
    \/ OnReportReq \/ OnAllocProxyReq
    \/ \E p \in {"loadtable", "slave"} : OnLTReport(p) \/ OnLTRegSlaveReq(p)
    \/ OnCreateReq \/ OnMPJoinReq \/ OnMPPing \/ OnMPStreamData \/ OnMPRejectInvite
    \/ OnLoginReq \/ Sync \/ OnSendReq \/ OnRegProxyRes
    \/ DispatcherOnSendReq \/ OnRegProxyReq \/ OnSyncUidsReq
    \/ OnConsumerRegisterReq \/ OnPushMsg

Spec == Init /\ [][Next]_vars

-----------------------------------------------------------------------------
(* What may be relied on *)

From(class, fields) == [class |-> class.name, fields |-> fields]
Same(names) == {<<n, n>> : n \in names}
ReadNames(class) == {f.name : f \in Range(class.reads)}

\* The records count as written, by the database.
Record == [name |-> "record"]
Written == said \cup {[by |-> "database", class |-> Record.name, vals |-> r] : r \in Records}

\* Of a message that was read, or of every item of one of its lists: one of
\* these was written, by the reader itself if own, and its fields are those.
Owed(class, list, own, sources) ==
    [class |-> class.name, list |-> list, own |-> own, sources |-> sources]

Truths ==
    {Owed(PMCAllocRes, "", TRUE, {From(PMCAllocReq, Same({"isp1", "area1"}))}),
     Owed(PMCAllocRes, "", FALSE, {From(PMCReportReq, Same({"ip", "port"}))}),
     Owed(PMGAllocRes, "", TRUE,
        {From(PMGAllocReq, {<<"stream", "stream">>, <<"cookie", "stream">>})}),
     Owed(PMGAllocRes, "", FALSE, {From(PMGReportReq, Same({"name", "ip", "port", "udp"}))}),
     Owed(PMGAllocRes, "", FALSE, {From(PMGReportReq, Same({"name", "load", "load_max"}))}),
     Owed(PLTReport, "", FALSE,
        {From(PLTReport, Same(ReadNames(PLTReport))),
         From(PMGReportReq, {<<"key", "name">>} \cup Same({"ip", "port", "load", "load_max"}))}),
     Owed(PMPCreateRes, "", TRUE, {From(PMPCreateReq, Same({"uid", "nick", "stream"}))}),
     Owed(PMPJoinRes, "", TRUE, {From(PMPJoinReq, Same({"sid", "uid"}))}),
     Owed(PMPPong, "", TRUE, {From(PMPPing, Same({"sid", "from"}))}),
     Owed(PMPNotifyJoined, "", FALSE,
        {From(PMPJoinReq, Same({"sid", "uid"}) \cup {<<"nickname", "nick">>})}),
     Owed(PSyncUidsReq, "removes", FALSE, {From(PLoginReq, Same({"uid"}))}),
     Owed(PSyncUidsReq, "adds", FALSE, {From(Record, Same({"uid"}))}),
     Owed(PLoginRes, "", FALSE, {From(Record, Same({"uid", "cookie"}))}),
     Owed(PRegProxyRes, "", TRUE, {From(PRegProxyReq, Same({"proxy"}))})}
    \cup {Owed(u[1], u[2], FALSE, {From(PMPJoinReq, {<<"uid", "uid">>, <<"nickname", "nick">>})}) :
            u \in {<<PMPJoinRes, "onlineUsers">>, <<PMPPong, "users">>}}
    \cup {Owed(c, "", FALSE, {From(c, Same(ReadNames(c)))}) :
            c \in {PMCReportReq, PMCAllocReq, PMGReportReq, PMGAllocReq, PMPCreateReq, PMPJoinReq,
                   PMPPing, PMPStreamData, PMPRejectInvite, PLoginReq, PSendReq, PPushMsg}}

Items(t, list) == IF list = "" THEN {t.vals} ELSE Range(t.vals[list])
Granted(t) == "res" \in DOMAIN t.vals => Ok(t.vals)

\* Whatever a client or a process reads in a message that grants something is
\* what others wrote, byte for byte and all of it in one message: the address
\* that mcproxy gives out is that of a group's report, three messages and two
\* translations earlier, and comes with the isp and area that were asked about;
\* mgroup's proxy and a slave's row are as they were reported, under whatever
\* names; the users of a call are those that joined it; a login and what
\* dispatcher hears of it have the uid of one record; a relayed message is the
\* one that was sent.  What the code itself sends wrong or unset is left out:
\* isp2 and area2 of PMCAllocRes, uid of PMGAllocRes, sid of PMPCreateRes.
AnswersAreTrue ==
    \A t \in told : \A owed \in {o \in Truths : o.class = t.class} :
        Granted(t) =>
            \A item \in Items(t, owed.list) : \E s \in Written, from \in owed.sources :
                /\ s.class = from.class
                /\ owed.own => s.by = t.at
                /\ \A f \in from.fields : item[f[1]] = s.vals[f[2]]
=============================================================================
