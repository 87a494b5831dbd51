------------------------------- MODULE Login -------------------------------
(***************************************************************************)
(* One login process (packages/signal/login_d/src) as a value l:           *)
(*   l.links     LinkMgr::m_mapLinks: descriptor |-> Link                  *)
(*   l.uidLinks  LinkMgr::m_mapUidLinks: uid |-> descriptor                *)
(*   l.adds      UidSync::m_arrAdds, l.removes UidSync::m_arrRemoves       *)
(*   l.seq       LoginMgr::m_nSeq, modulo LinkCheckInterval                *)
(* Links are told apart by their descriptor; any client may ask to log in  *)
(* under any uid, and again.  adds and removes are vectors that only grow; *)
(* what is done with them does not depend on order or repetition, so they  *)
(* are sets.  NoUid is left out of removes: the dispatcher learns only the *)
(* uids of records, and has no NoUid to remove.  MsgResender keeps         *)
(* nothing: add never puts the list it has made into its map.              *)
(***************************************************************************)
EXTENDS Integers, LinkMaps

CONSTANTS
    Users,              \* the uids of those the database knows
    LoginFds,           \* the descriptors that a login process gives clients
    DispFd,             \* the descriptor of its link to the dispatcher
    LinkCheckInterval,  \* LINK_CHECK_INTERVAL
    LinkExpire          \* LINK_EXPIRE

\* Link::uid before a login, for new Link() is all zeroes; and what a client that
\* does not know its uid sends, for PLoginReq::uid is zero until it is set.
NoUid == 0

ASSUME UsersAssumption == Users \subseteq Nat \ {NoUid}
ASSUME LoginFdsAssumption == LoginFds \subseteq Nat /\ DispFd \notin LoginFds
ASSUME LoginTimeAssumption == LinkCheckInterval \in Nat \ {0} /\ LinkExpire \in Nat

Uids == Users \cup {NoUid}

\* age is the time since stamp, counted up to what expires.
Link == [uid : Uids, age : 0 .. LinkExpire + 1]

NewLogin == [links |-> Empty, uidLinks |-> Empty, adds |-> {}, removes |-> {}, seq |-> 0]

FreeFds(l) == LoginFds \ DOMAIN l.links

\* listener_cb.
AddLink(l, fd) == [l EXCEPT !.links = With(l.links, {fd}, [uid |-> NoUid, age |-> 0])]

\* LinkMgr::remove: the uid keeps its entry in uidLinks.
RemoveLinks(l, fds) == [l EXCEPT !.links = Without(l.links, fds)]

\* LinkMgr::update.
Update(l, fd) == [l EXCEPT !.links = With(l.links, {fd}, [l.links[fd] EXCEPT !.age = 0])]

SetUid(l, u, fd) ==
    [l EXCEPT !.uidLinks = With(l.uidLinks, {u}, fd),
              !.links = With(l.links, {fd}, [l.links[fd] EXCEPT !.uid = u])]

\* MsgHandler::onLoginReq of a request for uid: what is announced is the uid of the
\* record that the passport has led to, or none if the login fails, and what the link
\* is known by is in any case the one that the client has written.
OnLoginReq(l, fd, uid, record) ==
    SetUid([l EXCEPT !.adds = l.adds \cup ({record} \ {NoUid})], uid, fd)

HasUid(l, u) == u \in DOMAIN l.uidLinks

\* LinkMgr::check.
Check(l, u, fd) == HasUid(l, u) /\ l.uidLinks[u] = fd

\* One second later.
Aged(l) ==
    [l EXCEPT !.links = [fd \in DOMAIN l.links |->
        [l.links[fd] EXCEPT !.age = IF l.links[fd].age <= LinkExpire
                                    THEN l.links[fd].age + 1 ELSE l.links[fd].age]]]

ExpiredFds(l) == {fd \in DOMAIN l.links : l.links[fd].age > LinkExpire}

\* Of a link that never logged in, NoUid.
ExpiredUids(l) == {l.links[fd].uid : fd \in ExpiredFds(l)}

\* Mutant: the links go, and their uids stay.
RemoveExpire_KeepsUid(l) ==
    RemoveLinks([l EXCEPT !.removes = l.removes \cup (ExpiredUids(l) \ {NoUid})],
                ExpiredFds(l))

\* LinkMgr::removeExpire.
RemoveExpire(l) ==
    RemoveLinks([l EXCEPT !.uidLinks = Without(l.uidLinks, ExpiredUids(l)),
                     !.removes = l.removes \cup (ExpiredUids(l) \ {NoUid})],
           ExpiredFds(l))

\* What is left of LoginMgr::onTimer after sync.
LoginTick(l) ==
    LET checked == IF l.seq = 0 THEN RemoveExpire(Aged(l)) ELSE Aged(l)
    IN  [checked EXCEPT !.seq = (l.seq + 1) % LinkCheckInterval]

-----------------------------------------------------------------------------
(* What a login process owes its users *)

LoginTypeOK(l) ==
    /\ l = [links |-> l.links, uidLinks |-> l.uidLinks, adds |-> l.adds,
            removes |-> l.removes, seq |-> l.seq]
    /\ DOMAIN l.links \subseteq LoginFds /\ \A fd \in DOMAIN l.links : l.links[fd] \in Link
    /\ DOMAIN l.uidLinks \subseteq Uids
    /\ \A u \in DOMAIN l.uidLinks : l.uidLinks[u] \in LoginFds
    /\ l.adds \subseteq Users /\ l.removes \subseteq Users
    /\ l.seq \in 0 .. LinkCheckInterval - 1

\* A uid leads to an open link that is known by it.
LeadsToLink(l, u) ==
    /\ l.uidLinks[u] \in DOMAIN l.links
    /\ l.links[l.uidLinks[u]].uid = u
=============================================================================
