------------------------------- MODULE MGroup -------------------------------
(***************************************************************************)
(* The mproxies that one mgroup process knows (ProxyMgr,                   *)
(* packages/media/mgroup_d/src), as a value: name |-> ProxyInfo.  A name   *)
(* is its rank in the order of std::map.  LoadMgr of mproxy reports a load *)
(* of 0 always, so that load and load_max are left out.  No caller has     *)
(* ProxyMgr::remove: what has reported once is known for ever.             *)
(***************************************************************************)
EXTENDS LinkMaps, Naturals, FiniteSets

\* ProxyMgr::add: a known name keeps its first link and address.
ProxyAdd(proxies, fd, name, addr) ==
    IF name \in DOMAIN proxies THEN proxies
    ELSE With(proxies, {name}, [fd |-> fd, addr |-> addr])

\* ProxyMgr::getFreeProxy: no score is above 0, so that the loop ends at the
\* last name, whoever that is.
FreeProxy(proxies) == {c \in DOMAIN proxies : \A d \in DOMAIN proxies : d <= c}
=============================================================================
