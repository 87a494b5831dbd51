----------------------------- MODULE LoadTable -----------------------------
(***************************************************************************)
(* A loadtable cluster (packages/base/loadtable_d/src): one master process *)
(* that services report to, and slave processes that each keep a TCP       *)
(* connection to it.  The master copies every report to its registered     *)
(* slaves; each process answers queries from its own table.                *)
(*                                                                         *)
(* A connection is named at the master by its file descriptor, which the   *)
(* kernel gives again as soon as it is closed.  peer is the master's       *)
(* LinkMgr::m_mapLinks, and says who is at the other end: a slave, some    *)
(* other client, or a host that is gone without the master knowing.        *)
(* slaves is SlaveMgr::m_mapSlaves, with the seconds since the stamp in    *)
(* place of the stamp, counted up to LinkExpire.                           *)
(***************************************************************************)
EXTENDS LTable, Sequences, SequencesExt

CONSTANTS
    Master, Slaves,
    Fds,                    \* the descriptors of the master's process
    Closed, Client, Gone,   \* the other values of peer
    LinkCheckInterval,      \* LINK_CHECK_INTERVAL
    LinkExpire,             \* LINK_EXPIRE
    MaxInFlight,            \* bound: messages in one direction of a connection
    FreedId                 \* what removeExpired reads out of the node it has
                            \* freed: "intact", the id, or "overwritten"

ASSUME FdsAssumption == Fds \subseteq Nat
ASSUME IntervalsAssumption ==
    /\ LinkCheckInterval \in Nat \ {0}
    /\ LinkExpire \in Nat \ {0}
ASSUME NamesAssumption ==
    /\ Master \notin Slaves
    /\ {Closed, Client, Gone} \cap Slaves = {}
    /\ Closed # Client /\ Closed # Gone /\ Client # Gone
    /\ FreedId \subseteq {"intact", "overwritten"}

Procs == {Master} \cup Slaves

VARIABLES
    table,      \* table[p]: the LTable of process p
    peer,       \* peer[fd]: the other end of the master's link fd, or Closed
    slaves,     \* the master's registered slaves: fd |-> seconds since its stamp
    seq,        \* LTMgr::m_nSeq of the master, modulo LinkCheckInterval
    up,         \* up[s]: s holds a connection (m_pEvent of its master link)
    toMaster,   \* toMaster[s]: messages on their way from s
    toSlave,    \* toSlave[s]: reports on their way to s
    copied,     \* history: the keys copied to s on its present connection
    orphans     \* history: the open links whose slaves were removed without them

vars == <<table, peer, slaves, seq, up, toMaster, toSlave, copied, orphans>>
netVars == <<peer, slaves, seq, up, toMaster, toSlave, copied, orphans>>

\* The copy of a report.
ReportMsg == [key : Keys, load : Nat, max : Nat]

Registered == DOMAIN slaves

\* The master's link to s.
LinkOf(s) == {fd \in Fds : peer[fd] = s}

Init ==
    /\ table = [p \in Procs |-> EmptyTable]
    /\ peer = [fd \in Fds |-> Closed]
    /\ slaves = [fd \in {} |-> 0]
    /\ seq = 0
    /\ up = [s \in Slaves |-> FALSE]
    /\ toMaster = [s \in Slaves |-> <<>>]
    /\ toSlave = [s \in Slaves |-> <<>>]
    /\ copied = [s \in Slaves |-> {}]
    /\ orphans = {}

-----------------------------------------------------------------------------
(* MsgHandler: reports and queries *)

\* SlaveMgr::send writes to every registered slave whose link LinkMgr has.
Receivers == {s \in Slaves : \E fd \in Registered : peer[fd] = s}

\* Mutant: a report that leaves the row in its list is not copied.
OnLTReport_OnlyMoves(k, load, max) ==
    /\ \A s \in Receivers : Len(toSlave[s]) < MaxInFlight
    /\ table' = [table EXCEPT ![Master] = AddRow(@, k, load, max)]
    /\ LET moves == table'[Master].list # table[Master].list
       IN  /\ toSlave' = [s \in Slaves |->
                           IF s \in Receivers /\ moves
                           THEN Append(toSlave[s], [key |-> k, load |-> load, max |-> max])
                           ELSE toSlave[s]]
           /\ copied' = [s \in Slaves |->
                           IF s \in Receivers /\ moves THEN copied[s] \cup {k} ELSE copied[s]]
    /\ UNCHANGED <<peer, slaves, seq, up, toMaster, orphans>>

\* A service's report reaches the master: addRow, then a copy to the slaves.
OnLTReport(k, load, max) ==
    /\ \A s \in Receivers : Len(toSlave[s]) < MaxInFlight
    /\ table' = [table EXCEPT ![Master] = AddRow(@, k, load, max)]
    /\ toSlave' = [s \in Slaves |->
                    IF s \in Receivers
                    THEN Append(toSlave[s], [key |-> k, load |-> load, max |-> max])
                    ELSE toSlave[s]]
    /\ copied' = [s \in Slaves |->
                    IF s \in Receivers THEN copied[s] \cup {k} ELSE copied[s]]
    /\ UNCHANGED <<peer, slaves, seq, up, toMaster, orphans>>

\* The copy reaches a slave, whose own SlaveMgr is empty.
OnLTReportCopy(s) ==
    /\ up[s]
    /\ toSlave[s] # <<>>
    /\ LET r == Head(toSlave[s])
       IN  table' = [table EXCEPT ![s] = AddRow(@, r.key, r.load, r.max)]
    /\ toSlave' = [toSlave EXCEPT ![s] = Tail(@)]
    /\ UNCHANGED <<peer, slaves, seq, up, toMaster, copied, orphans>>

\* A query at any process of the cluster.  onLTQueryReq reserves as
\* onLTQueryJsonReq does, and differs in that it sends no answer.
OnLTQuery(p) ==
    /\ \/ \E k \in Keys : /\ Picks(table[p], k)
                          /\ table' = [table EXCEPT ![p] = Reserve(@, k)]
       \/ NonePicked(table[p]) /\ UNCHANGED table
    /\ UNCHANGED netVars

-----------------------------------------------------------------------------
(* Connections *)

\* The kernel gives the lowest free descriptor; listener_cb adds the link.
Accept(who) ==
    \E fd \in Fds :
        /\ peer[fd] = Closed
        /\ \A g \in Fds : g < fd => peer[g] # Closed
        /\ peer' = [peer EXCEPT ![fd] = who]

OnClientConnect ==
    /\ Accept(Client)
    /\ UNCHANGED <<table, slaves, seq, up, toMaster, toSlave, copied, orphans>>

\* NetLink::connect or reconn_cb of the slave; its event_cb sends the
\* registration as soon as it is connected.
OnSlaveConnect(s) ==
    /\ ~up[s]
    /\ LinkOf(s) = {}
    /\ Accept(s)
    /\ up' = [up EXCEPT ![s] = TRUE]
    /\ toMaster' = [toMaster EXCEPT ![s] = <<"reg">>]
    /\ toSlave' = [toSlave EXCEPT ![s] = <<>>]
    /\ copied' = [copied EXCEPT ![s] = {}]
    /\ UNCHANGED <<table, slaves, seq, orphans>>

\* LTMgr::onTimer of a slave, every LINK_CHECK_INTERVAL seconds.
SlavePings(s) ==
    /\ up[s]
    /\ LinkOf(s) # {}
    /\ Len(toMaster[s]) < MaxInFlight
    /\ toMaster' = [toMaster EXCEPT ![s] = Append(@, "ping")]
    /\ UNCHANGED <<table, peer, slaves, seq, up, toSlave, copied, orphans>>

\* SlaveMgr::add leaves the stamp of a slave it knows alone.
OnLTRegSlaveReq(fd) ==
    slaves' = IF fd \in Registered THEN slaves
              ELSE [f \in Registered \cup {fd} |-> IF f = fd THEN 0 ELSE slaves[f]]

\* SlaveMgr::update ignores a link that is not registered.
OnLTPing(fd) ==
    slaves' = IF fd \in Registered THEN [slaves EXCEPT ![fd] = 0] ELSE slaves

OnSlaveMessage(s) ==
    /\ toMaster[s] # <<>>
    /\ \E fd \in LinkOf(s) :
          \/ Head(toMaster[s]) = "reg" /\ OnLTRegSlaveReq(fd)
          \/ Head(toMaster[s]) = "ping" /\ OnLTPing(fd)
    /\ toMaster' = [toMaster EXCEPT ![s] = Tail(@)]
    /\ UNCHANGED <<table, peer, seq, up, toSlave, copied, orphans>>

\* bufferevent_free of the master's side: what is on its way to it is lost.
CloseLink(fd) ==
    /\ peer' = [peer EXCEPT ![fd] = Closed]
    /\ toMaster' = [s \in Slaves |-> IF peer[fd] = s THEN <<>> ELSE toMaster[s]]
    /\ orphans' = orphans \ {fd}

Unregister(fd) == [f \in Registered \ {fd} |-> slaves[f]]

\* Mutant: the slave stays registered under its closed link.
OnLinkClosed_KeepsSlave(fd) ==
    /\ peer[fd] # Closed
    /\ CloseLink(fd)
    /\ UNCHANGED <<table, slaves, seq, up, toSlave, copied>>

\* event_cb of the master's listener: LinkMgr::remove and SlaveMgr::remove.
OnLinkClosed(fd) ==
    /\ peer[fd] # Closed
    /\ CloseLink(fd)
    /\ slaves' = Unregister(fd)
    /\ UNCHANGED <<table, seq, up, toSlave, copied>>

\* What the master's links are when s is no longer at the end of one.
Deserted(s) == [fd \in Fds |-> IF peer[fd] = s THEN Gone ELSE peer[fd]]

\* event_cb of the slave's link: close it and wait to connect again.  The
\* master may have closed its side, or not know yet.
OnMasterLost(s) ==
    /\ up[s]
    /\ up' = [up EXCEPT ![s] = FALSE]
    /\ peer' = Deserted(s)
    /\ toMaster' = [toMaster EXCEPT ![s] = <<>>]
    /\ toSlave' = [toSlave EXCEPT ![s] = <<>>]
    /\ UNCHANGED <<table, slaves, seq, copied, orphans>>

\* The slave's host goes down; it comes back with an empty table, and the
\* master's old link is half open.
SlaveCrash(s) ==
    /\ table' = [table EXCEPT ![s] = EmptyTable]
    /\ peer' = Deserted(s)
    /\ up' = [up EXCEPT ![s] = FALSE]
    /\ toMaster' = [toMaster EXCEPT ![s] = <<>>]
    /\ toSlave' = [toSlave EXCEPT ![s] = <<>>]
    /\ UNCHANGED <<slaves, seq, copied, orphans>>

-----------------------------------------------------------------------------
(* LTMgr::onTimer of the master *)

Aged == [fd \in Registered |-> IF slaves[fd] < LinkExpire THEN slaves[fd] + 1 ELSE LinkExpire]

Expired == {fd \in Registered : Aged[fd] >= LinkExpire}

\* Mutant: all who have expired are removed, and one link.
RemoveExpired_ClosesOne(fd) ==
    /\ fd \in Expired
    /\ \A g \in Expired : fd <= g
    /\ slaves' = [f \in Registered \ Expired |-> Aged[f]]
    /\ CloseLink(fd)

\* Mutant: nothing is removed while more than one slave has expired.
RemoveExpired_OnlyAlone(fd) ==
    /\ fd \in Expired
    /\ slaves' = IF Expired = {fd} THEN [f \in Registered \ {fd} |-> Aged[f]] ELSE Aged
    /\ IF Expired = {fd} THEN CloseLink(fd) ELSE UNCHANGED <<peer, toMaster, orphans>>

\* removeExpired ends at the first slave it removes.  It erases the slave's
\* node and then reads the link's id out of it; an overwritten id is taken
\* to be no link's.
RemoveExpired(fd) ==
    /\ fd \in Expired
    /\ \A g \in Expired : fd <= g
    /\ slaves' = [f \in Registered \ {fd} |-> Aged[f]]
    /\ \/ "intact" \in FreedId /\ CloseLink(fd)
       \/ /\ "overwritten" \in FreedId
          /\ orphans' = orphans \cup {fd}
          /\ UNCHANGED <<peer, toMaster>>

OnTimer ==
    /\ \/ \E fd \in Registered : seq = 0 /\ RemoveExpired(fd)
       \/ /\ seq = 0 => Expired = {}
          /\ slaves' = Aged
          /\ UNCHANGED <<peer, toMaster, orphans>>
    /\ seq' = (seq + 1) % LinkCheckInterval
    /\ UNCHANGED <<table, up, toSlave, copied>>

-----------------------------------------------------------------------------
Next ==
    \/ \E k \in Keys, r \in Reports : OnLTReport(k, r[1], r[2])
    \/ \E p \in Procs : OnLTQuery(p)
    \/ \E s \in Slaves :
          \/ OnLTReportCopy(s)
          \/ OnSlaveConnect(s)
          \/ SlavePings(s)
          \/ OnSlaveMessage(s)
          \/ OnMasterLost(s)
          \/ SlaveCrash(s)
    \/ OnClientConnect
    \/ \E fd \in Fds : OnLinkClosed(fd)
    \/ OnTimer

Spec == Init /\ [][Next]_vars

\* The master's event loop keeps calling its timer.
FairSpec == Spec /\ WF_vars(OnTimer)

-----------------------------------------------------------------------------
(* Properties *)

NetTypeOK ==
    /\ peer \in [Fds -> {Closed, Client, Gone} \cup Slaves]
    /\ Registered \subseteq Fds
    /\ slaves \in [Registered -> 0 .. LinkExpire]
    /\ seq \in 0 .. LinkCheckInterval - 1
    /\ up \in [Slaves -> BOOLEAN]
    /\ toMaster \in [Slaves -> Seq({"reg", "ping"})]
    /\ toSlave \in [Slaves -> Seq(ReportMsg)]
    /\ copied \in [Slaves -> SUBSET Keys]
    /\ orphans \subseteq Fds

TypeOK ==
    /\ table = [p \in Procs |-> table[p]]
    /\ \A p \in Procs : TableTypeOK(table[p])
    /\ NetTypeOK

\* Whatever the order of reports, copies and queries, every process has each
\* row in the list of its current score and in no other (LTable::addRow moves
\* an item between lists only when its score changes).
EveryRowListedOnce == \A p \in Procs : ListedByScore(table[p])

\* No process reserves a service beyond the load_max of its last report
\* (queryInList tests load + reserve, and addRow starts the count again).
NoRowOverbooked == \A p \in Procs : WithinCapacity(table[p])

\* A registered link is open and has, or had, a slave at its other end:
\* a descriptor the kernel gives to another client is never sent the copies
\* (the two removes of event_cb, and the two of removeExpired, go together).
CopiesGoToSlaves == \A fd \in Registered : peer[fd] \in Slaves \cup {Gone}

InFlight(s) == {r.key : r \in ToSet(toSlave[s])}

LastInFlight(s, k) ==
    toSlave[s][CHOOSE i \in DOMAIN toSlave[s] :
                 /\ toSlave[s][i].key = k
                 /\ \A j \in DOMAIN toSlave[s] : toSlave[s][j].key = k => j <= i]

SameLoad(row, r) == row.load = r.load /\ row.max = r.max

\* A registered slave is never further behind the master than what is on its
\* way: once that has arrived, every key copied to it on this connection shows
\* the master's load ("每个load_table进程的分配表数据是完全一样的", the design
\* document's promise that the tables are the same).
ReplicaInStep ==
    \A s \in Receivers : \A k \in copied[s] :
        SameLoad(table[Master].rows[k],
                 IF k \in InFlight(s) THEN LastInFlight(s, k) ELSE table[s].rows[k])

\* "yeah, copy the same thing to all slaves" (onLTReport): a slave that has
\* registered and is still connected is among those the copies go to, unless
\* removeExpired took it off the list and missed its link, whose id it read out
\* of freed memory.
EverySlaveCopied ==
    \A s \in Slaves :
        LinkOf(s) \ orphans # {} /\ "reg" \notin ToSet(toMaster[s]) => s \in Receivers

\* A slave that vanished is taken off the list in the end, although each check
\* removes at most one slave, unless at check after check it is the turn of another
\* on a lower link: slaves that reconnect and vanish often enough, on links that the
\* kernel gives again, keep one above them on the list for ever (removeExpired
\* always starts from the lowest link).
GoneSlaveForgotten ==
    \A fd \in Fds :
        <>[](fd \in Registered /\ peer[fd] = Gone)
            => []<>(seq = 0 /\ \E g \in Expired : g < fd)

\* Each process on its own is an Allocator: what a service announces is the
\* room that its last report left, and what was granted is the reserve.
Announced(t) ==
    [k \in Keys |-> IF k \in DOMAIN t.rows THEN t.rows[k].max - t.rows[k].load ELSE 0]

Granted(t) == [k \in Keys |-> IF k \in DOMAIN t.rows THEN t.rows[k].reserve ELSE 0]

Promise == INSTANCE Allocator WITH
    Services <- Keys,
    announced <- Announced(table[Master]),
    granted <- Granted(table[Master])

\* The master keeps the Allocator's promise at every step of the cluster.
MasterAllocates == Promise!Spec
=============================================================================
