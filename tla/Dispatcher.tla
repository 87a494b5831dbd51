----------------------------- MODULE Dispatcher -----------------------------
(***************************************************************************)
(* The dispatcher (packages/signal/dispatcher_d/src) as a value d:         *)
(*   d.links     LinkMgr::m_mapLinks: descriptor |-> the login process at  *)
(*               the other end, or Gone, which the dispatcher is not told  *)
(*   d.uidLinks  LinkMgr::m_mapUidLinks: uid |-> descriptor                *)
(* Its LinkMgr never expires a link, and closing one leaves the uids.      *)
(***************************************************************************)
EXTENDS LinkMaps

NewDispatcher == [links |-> Empty, uidLinks |-> Empty]

\* listener_cb.
AddLogin(d, fd, p) == [d EXCEPT !.links = With(d.links, {fd}, p)]

\* LinkMgr::remove.
RemoveLogin(d, fd) == [d EXCEPT !.links = Without(d.links, {fd})]

\* setUid for each of uids.
SetUids(d, uids, fd) == [d EXCEPT !.uidLinks = With(d.uidLinks, uids, fd)]

RemoveUids(d, uids) ==
    [d EXCEPT !.uidLinks = Without(d.uidLinks, uids)]

\* Mutant: what is known already is left alone.
OnSyncUidsReq_NewOnly(d, adds, removes, fd) ==
    RemoveUids(SetUids(d, adds \ DOMAIN d.uidLinks, fd), removes)

\* MsgHandler::onSyncUidsReq: the additions, then the removals.
OnSyncUidsReq(d, adds, removes, fd) == RemoveUids(SetUids(d, adds, fd), removes)

\* onSendReq: the link that a message for u is written to, or none.  The uid is
\* looked up, and then used as a descriptor itself.
SendLinks(d, u) == {u} \cap DOMAIN d.uidLinks \cap DOMAIN d.links
=============================================================================
