------------------------------- MODULE Signal -------------------------------
(***************************************************************************)
(* The signalling system: users' clients at login processes, and the login *)
(* processes at one dispatcher, which carries messages between them.       *)
(*                                                                         *)
(* A login process keeps one link to the dispatcher: none while it waits   *)
(* for the reconnect timer, connecting from NetLink::connect on (what is   *)
(* sent then is buffered), and up.  A login process that has gone leaves   *)
(* its old link at the dispatcher until the dispatcher is told.            *)
(*                                                                         *)
(* The registrations exchange names only, and the dispatcher knows no uri  *)
(* for the requests to create a room and drops them: both are left out, as *)
(* are the answers to clients and the count of users.  The router is       *)
(* outside: what is sent there leaves the model.                           *)
(***************************************************************************)
EXTENDS Login, Dispatcher, SequencesExt

CONSTANTS
    Logins, Gone,
    DispFds,        \* the descriptors that the dispatcher gives login processes
    AskedUids,      \* bound: the uids that clients write into their requests
    MaxInFlight     \* bound: messages on the way in one direction of a link

ASSUME DispFdsAssumption == DispFds \subseteq Nat
ASSUME LoginsAssumption == Gone \notin Logins
ASSUME AskedUidsAssumption == AskedUids \subseteq Uids

VARIABLES
    login,      \* login[p]: the state of process p
    behind,     \* history: behind[p] are the uids still known at p that were at a
                \* link when its client closed it or logged in as another, and under
                \* which nobody has logged in there since
    disp,       \* the state of the dispatcher
    dlink,      \* dlink[p]: "none", "connecting" or "up"
    toDisp,     \* toDisp[p]: messages on their way from p
    toLogin     \* toLogin[p]: messages on their way to p

PSyncUidsReq == [type : {"sync"}, adds : SUBSET Users, removes : SUBSET Users]
PSendReq == [type : {"send"}, uid : Uids, peer : Uids]

vars == <<login, behind, disp, dlink, toDisp, toLogin>>
linkVars == <<disp, dlink, toDisp, toLogin>>

Init ==
    /\ login = [p \in Logins |-> NewLogin]
    /\ behind = [p \in Logins |-> {}]
    /\ disp = NewDispatcher
    /\ dlink = [p \in Logins |-> "connecting"]
    /\ toDisp = [p \in Logins |-> <<>>]
    /\ toLogin = [p \in Logins |-> <<>>]

\* NetLoop::sendDispatcher: lost while there is no link.  The bound leaves room
\* for a sync, so that no client holds up the timer.
SendDispatcher(p, msg) ==
    IF dlink[p] = "none" THEN UNCHANGED toDisp
    ELSE /\ Len(toDisp[p]) < IF msg.type = "sync" THEN MaxInFlight ELSE MaxInFlight - 1
         /\ toDisp' = [toDisp EXCEPT ![p] = Append(@, msg)]

-----------------------------------------------------------------------------
(* Clients *)

OnClientConnect(p) ==
    /\ FreeFds(login[p]) # {}
    /\ login' = [login EXCEPT ![p] = AddLink(@, Min(FreeFds(login[p])))]
    /\ UNCHANGED <<behind, linkVars>>

UidsAt(l, fd) == {u \in DOMAIN l.uidLinks : l.uidLinks[u] = fd}

\* A client logs in under any uid, with the passport of any user or of none.
OnLogin(p, fd, uid, record) ==
    /\ fd \in DOMAIN login[p].links
    /\ login' = [login EXCEPT ![p] = OnLoginReq(@, fd, uid, record)]
    /\ behind' = [behind EXCEPT ![p] = (@ \cup UidsAt(login[p], fd)) \ {uid}]
    /\ UNCHANGED linkVars

\* onSendReq of msg from descriptor fd.  A peer at the same process gets it at
\* once.
SendReq(p, msg, fd) ==
    IF Check(login[p], msg.uid, fd) /\ ~HasUid(login[p], msg.peer)
    THEN SendDispatcher(p, msg)
    ELSE UNCHANGED toDisp

OnSendReq(p, fd, uid, peer) ==
    /\ fd \in DOMAIN login[p].links
    /\ SendReq(p, [type |-> "send", uid |-> uid, peer |-> peer], fd)
    /\ UNCHANGED <<login, behind, disp, dlink, toLogin>>

OnPing(p, fd) ==
    /\ fd \in DOMAIN login[p].links
    /\ login' = [login EXCEPT ![p] = Update(@, fd)]
    /\ UNCHANGED <<behind, linkVars>>

\* event_cb, EOF or ERROR.
OnLinkClosed(p, fd) ==
    /\ fd \in DOMAIN login[p].links
    /\ login' = [login EXCEPT ![p] = RemoveLinks(@, {fd})]
    /\ behind' = [behind EXCEPT ![p] = @ \cup UidsAt(login[p], fd)]
    /\ UNCHANGED linkVars

-----------------------------------------------------------------------------
(* The timer and the link to the dispatcher *)

\* LoginMgr::onTimer: UidSync::sync, and the check of the links.
OnTimer(p) ==
    /\ SendDispatcher(p, [type |-> "sync", adds |-> login[p].adds,
                          removes |-> login[p].removes])
    /\ login' = [login EXCEPT ![p] = LoginTick(@)]
    /\ behind' = [behind EXCEPT ![p] = @ \cap DOMAIN LoginTick(login[p]).uidLinks]
    /\ UNCHANGED <<disp, dlink, toLogin>>

\* reconn_cb.
OnReconnect(p) ==
    /\ dlink[p] = "none"
    /\ dlink' = [dlink EXCEPT ![p] = "connecting"]
    /\ UNCHANGED <<login, behind, disp, toDisp, toLogin>>

\* event_cb CONNECTED at p, and listener_cb at the dispatcher.
OnConnected(p) ==
    /\ dlink[p] = "connecting"
    /\ DispFds \ DOMAIN disp.links # {}
    /\ dlink' = [dlink EXCEPT ![p] = "up"]
    /\ disp' = AddLogin(disp, Min(DispFds \ DOMAIN disp.links), p)
    /\ UNCHANGED <<login, behind, toDisp, toLogin>>

\* The dispatcher's links of p, from which p has gone.
Deserted(p) ==
    [disp EXCEPT !.links = [fd \in DOMAIN disp.links |->
                                IF disp.links[fd] = p THEN Gone ELSE disp.links[fd]]]

\* event_cb, EOF or ERROR at p: what is under way is lost.
OnDispLost(p) ==
    /\ dlink[p] # "none"
    /\ dlink' = [dlink EXCEPT ![p] = "none"]
    /\ disp' = Deserted(p)
    /\ toDisp' = [toDisp EXCEPT ![p] = <<>>]
    /\ toLogin' = [toLogin EXCEPT ![p] = <<>>]
    /\ UNCHANGED <<login, behind>>

\* The process is started again, with nothing of what it knew.
LoginRestart(p) ==
    /\ login' = [login EXCEPT ![p] = NewLogin]
    /\ behind' = [behind EXCEPT ![p] = {}]
    /\ dlink' = [dlink EXCEPT ![p] = "connecting"]
    /\ disp' = Deserted(p)
    /\ toDisp' = [toDisp EXCEPT ![p] = <<>>]
    /\ toLogin' = [toLogin EXCEPT ![p] = <<>>]

-----------------------------------------------------------------------------
(* The dispatcher *)

\* event_cb at the dispatcher, for a login process that has gone.
OnLoginClosed(fd) ==
    /\ fd \in DOMAIN disp.links
    /\ disp.links[fd] = Gone
    /\ disp' = RemoveLogin(disp, fd)
    /\ UNCHANGED <<login, behind, dlink, toDisp, toLogin>>

\* The dispatcher's links to p.
LinksOf(p) == {fd \in DOMAIN disp.links : disp.links[fd] = p}

\* What is written to p when msg is handled.
WrittenTo(p, msg) ==
    IF msg.type = "send" /\ SendLinks(disp, msg.peer) \cap LinksOf(p) # {}
    THEN <<msg>> ELSE <<>>

\* MsgHandler::handle at the dispatcher, of the next message of p.
OnDispMessage(p) ==
    /\ dlink[p] = "up"
    /\ toDisp[p] # <<>>
    /\ LET msg == Head(toDisp[p])
       IN  /\ \A q \in Logins : Len(toLogin[q] \o WrittenTo(q, msg)) <= MaxInFlight
           /\ toLogin' = [q \in Logins |-> toLogin[q] \o WrittenTo(q, msg)]
           /\ IF msg.type = "send" THEN UNCHANGED disp
              ELSE \E fd \in LinksOf(p) :
                     disp' = OnSyncUidsReq(disp, msg.adds, msg.removes, fd)
    /\ toDisp' = [toDisp EXCEPT ![p] = Tail(@)]
    /\ UNCHANGED <<login, behind, dlink>>

\* A message from the dispatcher is handled as one from a client would be.
OnRelayed(p) ==
    /\ toLogin[p] # <<>>
    /\ SendReq(p, Head(toLogin[p]), DispFd)
    /\ toLogin' = [toLogin EXCEPT ![p] = Tail(@)]
    /\ UNCHANGED <<login, behind, disp, dlink>>

Next ==
    \/ \E p \in Logins : OnClientConnect(p)
    \/ \E p \in Logins, fd \in LoginFds, uid \in AskedUids, record \in Uids :
            OnLogin(p, fd, uid, record)
    \/ \E p \in Logins, fd \in LoginFds, uid, peer \in AskedUids :
            OnSendReq(p, fd, uid, peer)
    \/ \E p \in Logins, fd \in LoginFds : OnPing(p, fd)
    \/ \E p \in Logins, fd \in LoginFds : OnLinkClosed(p, fd)
    \/ \E p \in Logins : OnTimer(p)
    \/ \E p \in Logins : OnReconnect(p)
    \/ \E p \in Logins : OnConnected(p)
    \/ \E p \in Logins : OnDispLost(p)
    \/ \E p \in Logins : LoginRestart(p)
    \/ \E fd \in DispFds : OnLoginClosed(fd)
    \/ \E p \in Logins : OnDispMessage(p)
    \/ \E p \in Logins : OnRelayed(p)

Spec == Init /\ [][Next]_vars

\* Timers fire, connections that can be made are, and what has arrived is read:
\* the dispatcher's loop comes round to every link, whatever the others bring.
FairSpec ==
    /\ Spec
    /\ \A p \in Logins : /\ WF_vars(OnTimer(p))
                         /\ SF_vars(OnDispMessage(p))
                         /\ WF_vars(OnRelayed(p))

-----------------------------------------------------------------------------

TypeOK ==
    /\ DOMAIN login = Logins /\ \A p \in Logins : LoginTypeOK(login[p])
    /\ behind \in [Logins -> SUBSET Uids]
    /\ disp = [links |-> disp.links, uidLinks |-> disp.uidLinks]
    /\ DOMAIN disp.links \subseteq DispFds
    /\ \A fd \in DOMAIN disp.links : disp.links[fd] \in Logins \cup {Gone}
    /\ DOMAIN disp.uidLinks \subseteq Users
    /\ \A u \in DOMAIN disp.uidLinks : disp.uidLinks[u] \in DispFds
    /\ dlink \in [Logins -> {"none", "connecting", "up"}]
    /\ toDisp \in [Logins -> Seq(PSyncUidsReq \cup PSendReq)]
    /\ toLogin \in [Logins -> Seq(PSendReq)]

\* Whoever sends to a uid at the same process reaches an open link whose client last
\* asked to log in under it, and never the next client on the descriptor: setUid and
\* removeExpire keep the two maps in step although many links may take the same uid,
\* and expire in any order.  Only a uid whose link is closed by its client
\* (LinkMgr::remove) or logs in under another (setUid) is left behind, until somebody
\* logs in under it.  Whether the client has the uid's password nothing has checked.
ReachesUser ==
    \A p \in Logins : \A u \in DOMAIN login[p].uidLinks \ behind[p] : LeadsToLink(login[p], u)

KnownAt(u, p) ==
    /\ u \in DOMAIN disp.uidLinks
    /\ disp.uidLinks[u] \in DOMAIN disp.links
    /\ disp.links[disp.uidLinks[u]] = p

\* A login process that keeps announcing a uid, and whose link holds at last, is
\* again and again where the dispatcher knows the uid to be, whatever was lost
\* before: the additions are sent every second and never forgotten.
DispatcherLearns ==
    \A p \in Logins, u \in Users :
        <>[](dlink[p] = "up" /\ u \in login[p].adds /\ u \notin login[p].removes)
            => []<>KnownAt(u, p)
=============================================================================
