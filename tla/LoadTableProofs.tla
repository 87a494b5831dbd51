-------------------------- MODULE LoadTableProofs --------------------------
(***************************************************************************)
(* Theorems about LTable and LoadTable, for any number of services,        *)
(* slaves and descriptors.                                                 *)
(*                                                                         *)
(* The inductive invariant is about one table at a time (TableInv): the    *)
(* type, the agreement of the lists with the scores, and the capacity.     *)
(* addRow and query preserve it whatever process runs them, so the theorem *)
(* about the cluster has one step for the actions that touch a table and   *)
(* one for all the others.                                                 *)
(*                                                                         *)
(* That the slaves follow the master is about the copies on their way:     *)
(* WillShow says what a queue of them will make of a row, and RepInv that  *)
(* it is what the master has, on a link that started with nothing copied.  *)
(* Every slave that registered is copied as long as its link and its       *)
(* registration end together, which needs the erased node to be intact.    *)
(***************************************************************************)
EXTENDS LoadTable, SequenceTheorems, TLAPS

TableInv(t) == TableTypeOK(t) /\ ListedByScore(t) /\ WithinCapacity(t)

TablesInv ==
    /\ table = [p \in Procs |-> table[p]]
    /\ \A p \in Procs : TableInv(table[p])

-----------------------------------------------------------------------------
(* Lemmas about the operators of LTable *)

\* calcScore always answers one of its five scores.
LEMMA CalcScoreType ==
    ASSUME NEW load, NEW max
    PROVE  CalcScore(load, max) \in Scores
BY DEF CalcScore, Scores, ListScores, SCORE_NONE, SCORE_BAD, SCORE_OK, SCORE_GOOD, SCORE_BEST

\* A table with no rows satisfies the invariant.
LEMMA EmptyTableInv == TableInv(EmptyTable)
BY DEF EmptyTable, TableInv, TableTypeOK, ListedByScore, WithinCapacity

\* addRow leaves every row in the list of its score, and reserves nothing.
LEMMA AddRowInv ==
    ASSUME NEW t, TableInv(t), NEW k \in Keys, NEW load \in Nat, NEW max \in Nat
    PROVE  TableInv(AddRow(t, k, load, max))
<1> DEFINE score == CalcScore(load, max)
           row == [load |-> load, max |-> max, reserve |-> 0, score |-> score]
           u == AddRow(t, k, load, max)
           rows == [x \in DOMAIN t.rows \cup {k} |-> IF x = k THEN row ELSE t.rows[x]]
<1>1. score \in Scores
  BY CalcScoreType
<1>2. row \in Row
  BY <1>1 DEF Row
<1>3. DOMAIN u = {"rows", "list"} /\ u.rows = rows
  BY DEF AddRow
<1>4. u.list = IF k \notin DOMAIN t.rows THEN PushItem(t.list, score, k)
               ELSE IF t.rows[k].score = score THEN t.list
               ELSE PushItem(PopItem(t.list, t.rows[k].score, k), score, k)
  BY DEF AddRow
<1>5. DOMAIN rows = DOMAIN t.rows \cup {k} /\ DOMAIN rows \subseteq Keys
  BY DEF TableInv, TableTypeOK
<1>6. \A x \in DOMAIN rows : rows[x] \in Row
  BY <1>2 DEF TableInv, TableTypeOK
<1>7. \A s \in ListScores : u.list[s] = {x \in DOMAIN rows : rows[x].score = s}
  <2> SUFFICES ASSUME NEW s \in ListScores
               PROVE  u.list[s] = {x \in DOMAIN rows : rows[x].score = s}
    OBVIOUS
  <2>0. t.list[s] = {x \in DOMAIN t.rows : t.rows[x].score = s}
    BY DEF TableInv, ListedByScore
  <2>1. rows[k].score = score /\ \A x \in DOMAIN t.rows \ {k} : rows[x] = t.rows[x]
    OBVIOUS
  <2>2. CASE k \notin DOMAIN t.rows
    <3>1. u.list[s] = IF s = score THEN t.list[s] \cup {k} ELSE t.list[s]
      BY <1>4, <2>2 DEF PushItem
    <3>2. QED
      BY <3>1, <2>0, <2>1, <2>2, <1>5
  <2>3. CASE k \in DOMAIN t.rows /\ t.rows[k].score = score
    <3>1. u.list[s] = t.list[s]
      BY <1>4, <2>3
    <3>2. QED
      BY <3>1, <2>0, <2>1, <2>3, <1>5
  <2>4. CASE k \in DOMAIN t.rows /\ t.rows[k].score # score
    <3>1. u.list[s] = IF s = score THEN PopItem(t.list, t.rows[k].score, k)[s] \cup {k}
                      ELSE PopItem(t.list, t.rows[k].score, k)[s]
      BY <1>4, <2>4 DEF PushItem
    <3>2. PopItem(t.list, t.rows[k].score, k)[s] =
            IF s = t.rows[k].score THEN t.list[s] \ {k} ELSE t.list[s]
      BY DEF PopItem
    <3>3. QED
      BY <3>1, <3>2, <2>0, <2>1, <2>4, <1>5
  <2>5. QED
    BY <2>2, <2>3, <2>4
<1>8. u.list \in [ListScores -> SUBSET Keys]
  <2>1. u.list = [s \in ListScores |-> u.list[s]]
    BY <1>4 DEF PushItem, TableInv, TableTypeOK
  <2>2. \A s \in ListScores : u.list[s] \subseteq Keys
    BY <1>7, <1>5
  <2>3. QED
    BY <2>1, <2>2
<1>9. TableTypeOK(u)
  BY <1>3, <1>5, <1>6, <1>8 DEF TableTypeOK
<1>10. ListedByScore(u)
  <2>1. \A x \in DOMAIN rows : rows[x].score = CalcScore(rows[x].load, rows[x].max)
    BY DEF TableInv, ListedByScore
  <2>2. QED
    BY <1>3, <1>7, <2>1 DEF ListedByScore
<1>11. WithinCapacity(u)
  <2>1. \A x \in DOMAIN rows :
           rows[x].reserve > 0 => rows[x].load + rows[x].reserve <= rows[x].max
    BY DEF TableInv, WithinCapacity
  <2>2. QED
    BY <1>3, <2>1 DEF WithinCapacity
<1>12. QED
  BY <1>9, <1>10, <1>11 DEF TableInv

\* query only ever answers a row that has room.
LEMMA PicksHasRoom ==
    ASSUME NEW t, TableInv(t), NEW k, Picks(t, k)
    PROVE  /\ k \in DOMAIN t.rows
           /\ t.rows[k].load + t.rows[k].reserve < t.rows[k].max
<1>1. PICK s \in QueryScores : k \in Free(t, s)
  BY DEF Picks, QueryInList
<1>2. s \in ListScores
  BY DEF QueryScores, ListScores
<1>3. k \in t.list[s] /\ t.rows[k].load + t.rows[k].reserve < t.rows[k].max
  BY <1>1 DEF Free
<1>4. QED
  BY <1>2, <1>3 DEF TableInv, ListedByScore

\* reserving what query answered keeps the row in its list and within load_max.
LEMMA ReserveInv ==
    ASSUME NEW t, TableInv(t), NEW k \in Keys, Picks(t, k)
    PROVE  TableInv(Reserve(t, k))
<1> DEFINE u == Reserve(t, k)
<1>1. k \in DOMAIN t.rows /\ t.rows[k].load + t.rows[k].reserve < t.rows[k].max
  BY PicksHasRoom
<1>2. t.rows[k] \in Row
  BY <1>1 DEF TableInv, TableTypeOK
<1>3. /\ DOMAIN u = {"rows", "list"}
      /\ u.list = t.list
      /\ DOMAIN u.rows = DOMAIN t.rows
      /\ \A x \in DOMAIN t.rows \ {k} : u.rows[x] = t.rows[x]
  BY DEF Reserve, TableInv, TableTypeOK
<1>4. u.rows[k] = [t.rows[k] EXCEPT !.reserve = @ + 1]
  BY <1>1 DEF Reserve, TableInv, TableTypeOK
<1>5. /\ u.rows[k] \in Row
      /\ u.rows[k].score = t.rows[k].score
      /\ u.rows[k].load = t.rows[k].load
      /\ u.rows[k].max = t.rows[k].max
      /\ u.rows[k].reserve = t.rows[k].reserve + 1
  BY <1>2, <1>4 DEF Row
<1>6. TableTypeOK(u)
  BY <1>3, <1>5 DEF TableTypeOK, TableInv
<1>7. ListedByScore(u)
  <2>1. \A s \in ListScores : {x \in DOMAIN u.rows : u.rows[x].score = s}
                              = {x \in DOMAIN t.rows : t.rows[x].score = s}
    BY <1>1, <1>3, <1>5
  <2>2. \A x \in DOMAIN u.rows : u.rows[x].score = CalcScore(u.rows[x].load, u.rows[x].max)
    BY <1>1, <1>3, <1>5 DEF TableInv, ListedByScore
  <2>3. QED
    BY <1>3, <2>1, <2>2 DEF ListedByScore, TableInv
<1>8. WithinCapacity(u)
  <2>1. u.rows[k].load + u.rows[k].reserve <= u.rows[k].max
    BY <1>1, <1>2, <1>5 DEF Row
  <2>2. QED
    BY <1>3, <2>1 DEF WithinCapacity, TableInv
<1>9. QED
  BY <1>6, <1>7, <1>8 DEF TableInv

\* What a report carries.
LEMMA ReportType == ASSUME NEW r \in Reports PROVE r[1] \in Nat /\ r[2] \in Nat
BY ReportsAssumption

-----------------------------------------------------------------------------
(* The links of the cluster *)

LEMMA NetTypeInit == Init => NetTypeOK
BY IntervalsAssumption DEF Init, NetTypeOK, Registered

LEMMA EmptyIsSeq == ASSUME NEW S PROVE <<>> \in Seq(S)
OBVIOUS

\* Init and every step keep the types of the links, messages and registrations.
LEMMA NetTypeStep == NetTypeOK /\ [Next]_vars => NetTypeOK'
<1> SUFFICES ASSUME NetTypeOK, [Next]_vars
             PROVE  NetTypeOK'
  OBVIOUS
<1> USE IntervalsAssumption DEF NetTypeOK, Registered
<1>1. ASSUME NEW k \in Keys, NEW r \in Reports, OnLTReport(k, r[1], r[2])
      PROVE  NetTypeOK'
  <2> DEFINE m == [key |-> k, load |-> r[1], max |-> r[2]]
  <2>1. m \in ReportMsg
    BY ReportType DEF ReportMsg
  <2>2. \A s \in Slaves : Append(toSlave[s], m) \in Seq(ReportMsg)
    BY <2>1, AppendProperties
  <2>3. toSlave' \in [Slaves -> Seq(ReportMsg)]
    BY <1>1, <2>2 DEF OnLTReport
  <2>4. QED
    BY <1>1, <2>3 DEF OnLTReport
<1>2. ASSUME NEW p \in Procs, OnLTQuery(p)
      PROVE  NetTypeOK'
  BY <1>2 DEF OnLTQuery, netVars
<1>3. ASSUME NEW s \in Slaves, OnLTReportCopy(s)
      PROVE  NetTypeOK'
  <2>1. Tail(toSlave[s]) \in Seq(ReportMsg)
    BY <1>3, HeadTailProperties DEF OnLTReportCopy
  <2>2. QED
    BY <1>3, <2>1 DEF OnLTReportCopy
<1>4. ASSUME NEW s \in Slaves, OnSlaveConnect(s)
      PROVE  NetTypeOK'
  <2>1. <<"reg">> \in Seq({"reg", "ping"})
    OBVIOUS
  <2>2. QED
    BY <1>4, <2>1, EmptyIsSeq DEF OnSlaveConnect, Accept
<1>5. ASSUME NEW s \in Slaves, SlavePings(s)
      PROVE  NetTypeOK'
  <2>1. Append(toMaster[s], "ping") \in Seq({"reg", "ping"})
    BY AppendProperties
  <2>2. QED
    BY <1>5, <2>1 DEF SlavePings
<1>6. ASSUME NEW s \in Slaves, OnSlaveMessage(s)
      PROVE  NetTypeOK'
  <2>1. Tail(toMaster[s]) \in Seq({"reg", "ping"})
    BY <1>6, HeadTailProperties DEF OnSlaveMessage
  <2>2. PICK fd \in Fds : OnLTRegSlaveReq(fd) \/ OnLTPing(fd)
    BY <1>6 DEF OnSlaveMessage, LinkOf
  <2>3. DOMAIN slaves' \subseteq Fds /\ slaves' \in [DOMAIN slaves' -> 0 .. LinkExpire]
    <3>1. 0 \in 0 .. LinkExpire
      OBVIOUS
    <3>2. CASE slaves' = slaves
      BY <3>2
    <3>3. CASE slaves' = [f \in Registered \cup {fd} |-> IF f = fd THEN 0 ELSE slaves[f]]
      BY <3>1, <3>3
    <3>4. CASE fd \in Registered /\ slaves' = [slaves EXCEPT ![fd] = 0]
      BY <3>1, <3>4
    <3>5. QED
      BY <2>2, <3>2, <3>3, <3>4 DEF OnLTRegSlaveReq, OnLTPing
  <2>4. QED
    BY <1>6, <2>1, <2>3 DEF OnSlaveMessage
<1>7. ASSUME NEW s \in Slaves, OnMasterLost(s)
      PROVE  NetTypeOK'
  BY <1>7, EmptyIsSeq DEF OnMasterLost, Deserted
<1>8. ASSUME NEW s \in Slaves, SlaveCrash(s)
      PROVE  NetTypeOK'
  BY <1>8, EmptyIsSeq DEF SlaveCrash, Deserted
<1>9. ASSUME OnClientConnect
      PROVE  NetTypeOK'
  BY <1>9 DEF OnClientConnect, Accept
<1>10. ASSUME NEW fd \in Fds, OnLinkClosed(fd)
       PROVE  NetTypeOK'
  BY <1>10, EmptyIsSeq DEF OnLinkClosed, CloseLink, Unregister
<1>11. ASSUME OnTimer
       PROVE  NetTypeOK'
  <2>1. Aged \in [Registered -> 0 .. LinkExpire]
    BY DEF Aged
  <2>2. DOMAIN slaves' \subseteq Fds /\ slaves' \in [DOMAIN slaves' -> 0 .. LinkExpire]
    BY <1>11, <2>1 DEF OnTimer, RemoveExpired
  <2>3. /\ peer' \in [Fds -> {Closed, Client, Gone} \cup Slaves]
        /\ toMaster' \in [Slaves -> Seq({"reg", "ping"})]
    <3>1. \A fd \in Fds : CloseLink(fd) => /\ peer' \in [Fds -> {Closed, Client, Gone} \cup Slaves]
                                          /\ toMaster' \in [Slaves -> Seq({"reg", "ping"})]
      BY EmptyIsSeq DEF CloseLink
    <3>2. QED
      BY <1>11, <3>1 DEF OnTimer, RemoveExpired
  <2>4. seq' \in 0 .. LinkCheckInterval - 1
    BY <1>11 DEF OnTimer
  <2>5. orphans' \subseteq Fds
    <3>1. \A fd \in Fds : CloseLink(fd) => orphans' \subseteq Fds
      BY DEF CloseLink
    <3>2. QED
      BY <1>11, <3>1 DEF OnTimer, RemoveExpired
  <2>6. QED
    BY <1>11, <2>2, <2>3, <2>4, <2>5 DEF OnTimer
<1>12. CASE UNCHANGED vars
  BY <1>12 DEF vars
<1>13. QED
  BY <1>1, <1>2, <1>3, <1>4, <1>5, <1>6, <1>7, <1>8, <1>9, <1>10, <1>11, <1>12 DEF Next

\* No step leaves a registration behind on a descriptor that is then closed.
LEMMA CopiesStep == NetTypeOK /\ CopiesGoToSlaves /\ [Next]_vars => CopiesGoToSlaves'
<1> SUFFICES ASSUME NetTypeOK, CopiesGoToSlaves, [Next]_vars
             PROVE  CopiesGoToSlaves'
  OBVIOUS
<1> USE NamesAssumption DEF NetTypeOK, Registered, CopiesGoToSlaves
<1>1. ASSUME NEW s \in Slaves, OnSlaveConnect(s)
      PROVE  CopiesGoToSlaves'
  BY <1>1 DEF OnSlaveConnect, Accept
<1>2. ASSUME OnClientConnect
      PROVE  CopiesGoToSlaves'
  BY <1>2 DEF OnClientConnect, Accept
<1>3. ASSUME NEW s \in Slaves, OnSlaveMessage(s)
      PROVE  CopiesGoToSlaves'
  BY <1>3 DEF OnSlaveMessage, LinkOf, OnLTRegSlaveReq, OnLTPing
<1>4. ASSUME NEW s \in Slaves, OnMasterLost(s) \/ SlaveCrash(s)
      PROVE  CopiesGoToSlaves'
  BY <1>4 DEF OnMasterLost, SlaveCrash, Deserted
<1>5. ASSUME NEW fd \in Fds, OnLinkClosed(fd)
      PROVE  CopiesGoToSlaves'
  BY <1>5 DEF OnLinkClosed, CloseLink, Unregister
<1>6. ASSUME OnTimer
      PROVE  CopiesGoToSlaves'
  <2>1. ASSUME NEW fd \in Registered, RemoveExpired(fd)
        PROVE  CopiesGoToSlaves'
    BY <2>1 DEF RemoveExpired, CloseLink
  <2>2. CASE slaves' = Aged /\ peer' = peer
    BY <2>2 DEF Aged
  <2>3. QED
    BY <1>6, <2>1, <2>2 DEF OnTimer
<1>7. CASE peer' = peer /\ slaves' = slaves
  BY <1>7
<1>8. QED
  BY <1>1, <1>2, <1>3, <1>4, <1>5, <1>6, <1>7
     DEF Next, vars, netVars, OnLTReport, OnLTQuery, OnLTReportCopy, SlavePings

-----------------------------------------------------------------------------
(* The tables of the cluster *)

LEMMA TablesInvInit == Init => TablesInv
BY EmptyTableInv DEF Init, TablesInv

\* Init and every step keep the invariant of every table.
LEMMA TablesInvStep == NetTypeOK /\ TablesInv /\ [Next]_vars => TablesInv'
<1> SUFFICES ASSUME NetTypeOK, TablesInv, [Next]_vars
             PROVE  TablesInv'
  OBVIOUS
<1> USE DEF TablesInv, Procs
<1>1. ASSUME NEW k \in Keys, NEW r \in Reports, OnLTReport(k, r[1], r[2])
      PROVE  TablesInv'
  <2>1. r[1] \in Nat /\ r[2] \in Nat
    BY ReportType
  <2>2. TableInv(AddRow(table[Master], k, r[1], r[2]))
    BY <2>1, AddRowInv
  <2>3. table' = [table EXCEPT ![Master] = AddRow(table[Master], k, r[1], r[2])]
    BY <1>1 DEF OnLTReport
  <2>4. QED
    BY <2>2, <2>3
<1>2. ASSUME NEW p \in Procs, OnLTQuery(p)
      PROVE  TablesInv'
  <2>1. CASE UNCHANGED table
    BY <2>1
  <2>2. ASSUME NEW k \in Keys, Picks(table[p], k),
               table' = [table EXCEPT ![p] = Reserve(table[p], k)]
        PROVE  TablesInv'
    <3>1. TableInv(Reserve(table[p], k))
      BY <2>2, ReserveInv
    <3>2. QED
      BY <2>2, <3>1
  <2>3. QED
    BY <1>2, <2>1, <2>2 DEF OnLTQuery
<1>3. ASSUME NEW s \in Slaves, OnLTReportCopy(s)
      PROVE  TablesInv'
  <2> DEFINE r == Head(toSlave[s])
  <2>1. r \in ReportMsg
    <3>1. toSlave[s] \in Seq(ReportMsg) /\ toSlave[s] # <<>>
      BY <1>3 DEF OnLTReportCopy, NetTypeOK
    <3>2. QED
      BY <3>1, HeadTailProperties
  <2>2. TableInv(AddRow(table[s], r.key, r.load, r.max))
    BY <2>1, AddRowInv DEF ReportMsg
  <2>3. table' = [table EXCEPT ![s] = AddRow(table[s], r.key, r.load, r.max)]
    BY <1>3 DEF OnLTReportCopy
  <2>4. QED
    BY <2>2, <2>3
<1>4. ASSUME NEW s \in Slaves, SlaveCrash(s)
      PROVE  TablesInv'
  BY <1>4, EmptyTableInv DEF SlaveCrash
<1>5. CASE UNCHANGED table
  BY <1>5
<1>6. QED
  BY <1>1, <1>2, <1>3, <1>4, <1>5
     DEF Next, vars, OnSlaveConnect, SlavePings, OnSlaveMessage, OnMasterLost,
         OnClientConnect, OnLinkClosed, OnTimer

-----------------------------------------------------------------------------
(* Theorems *)

IInv == NetTypeOK /\ TablesInv /\ CopiesGoToSlaves

\* The inductive invariant.
THEOREM Inductive == Spec => []IInv
<1>1. Init => IInv
  <2>1. Init => CopiesGoToSlaves
    BY DEF Init, CopiesGoToSlaves, Registered
  <2>2. QED
    BY <2>1, NetTypeInit, TablesInvInit DEF IInv
<1>2. IInv /\ [Next]_vars => IInv'
  BY NetTypeStep, TablesInvStep, CopiesStep DEF IInv
<1>3. QED
  BY <1>1, <1>2, PTL DEF Spec

\* Every variable keeps its type, in a cluster of any size.
THEOREM TypeCorrect == Spec => []TypeOK
<1>1. IInv => TypeOK
  BY DEF IInv, TypeOK, TablesInv, TableInv
<1>2. QED
  BY <1>1, Inductive, PTL

\* In every process of the cluster, each row is in the list of its current
\* score and in no other.
THEOREM RowsListedOnce == Spec => []EveryRowListedOnce
<1>1. IInv => EveryRowListedOnce
  BY DEF IInv, EveryRowListedOnce, TablesInv, TableInv
<1>2. QED
  BY <1>1, Inductive, PTL

\* No process of the cluster reserves a service beyond its load_max.
THEOREM RowsNotOverbooked == Spec => []NoRowOverbooked
<1>1. IInv => NoRowOverbooked
  BY DEF IInv, NoRowOverbooked, TablesInv, TableInv
<1>2. QED
  BY <1>1, Inductive, PTL

\* The master never copies a report to a link that is closed or was opened by
\* another client since.
THEOREM CopiesReachSlavesOnly == Spec => []CopiesGoToSlaves
<1>1. IInv => CopiesGoToSlaves
  BY DEF IInv
<1>2. QED
  BY <1>1, Inductive, PTL

\* Every step of the cluster is, for the master's table, an announcement, a
\* grant of room there is, or no step at all: the master implements Allocator.
THEOREM MasterImplementsAllocator == Spec => MasterAllocates
<1>1. Init => Promise!Init
  BY DEF Init, Promise!Init, Announced, Granted, EmptyTable, Procs
<1>2. IInv /\ [Next]_vars => [Promise!Next]_<<Announced(table[Master]), Granted(table[Master])>>
  <2> SUFFICES ASSUME IInv, [Next]_vars
               PROVE  Promise!Next \/ UNCHANGED <<Announced(table[Master]), Granted(table[Master])>>
    OBVIOUS
  <2>0. /\ table = [p \in Procs |-> table[p]]
        /\ Master \in Procs
        /\ TableInv(table[Master])
    BY DEF IInv, TablesInv, Procs
  <2>1. ASSUME NEW k \in Keys, NEW load \in Nat, NEW max \in Nat,
               table'[Master] = AddRow(table[Master], k, load, max)
        PROVE  Promise!Next
    <3> DEFINE t == table[Master]
               u == table'[Master]
    <3>1. /\ DOMAIN u.rows = DOMAIN t.rows \cup {k}
          /\ \A j \in DOMAIN t.rows \ {k} : u.rows[j] = t.rows[j]
          /\ u.rows[k] \in Row
      BY <2>1, CalcScoreType DEF AddRow, Row
    <3>2. /\ u.rows[k].reserve = 0
          /\ \A j \in Keys \ {k} : Announced(u)[j] = Announced(t)[j]
      BY <2>1, <3>1 DEF Announced, AddRow
    <3>3. Granted(u) = [Granted(t) EXCEPT ![k] = 0]
      BY <3>1, <3>2 DEF Granted
    <3>4. TableInv(u)
      BY <2>0, <2>1, AddRowInv
    <3>5. \A j \in DOMAIN u.rows : u.rows[j].max - u.rows[j].load \in Int
      BY <3>4 DEF TableInv, TableTypeOK, Row
    <3>6. Announced(u) \in [Keys -> Int]
      BY <3>5 DEF Announced
    <3>7. QED
      BY <3>2, <3>3, <3>6 DEF Promise!Next, Promise!Announce
  <2>2. ASSUME NEW k \in Keys, Picks(table[Master], k),
               table'[Master] = Reserve(table[Master], k)
        PROVE  Promise!Next
    <3> DEFINE t == table[Master]
               u == table'[Master]
    <3>1. k \in DOMAIN t.rows /\ t.rows[k].load + t.rows[k].reserve < t.rows[k].max
      BY <2>0, <2>2, PicksHasRoom
    <3>2. t.rows[k] \in Row
      BY <2>0, <3>1 DEF TableInv, TableTypeOK
    <3>3. /\ DOMAIN u.rows = DOMAIN t.rows
          /\ \A j \in DOMAIN t.rows \ {k} : u.rows[j] = t.rows[j]
          /\ u.rows[k] = [t.rows[k] EXCEPT !.reserve = @ + 1]
      BY <2>0, <2>2, <3>1 DEF Reserve, TableInv, TableTypeOK
    <3>4. /\ u.rows[k].load = t.rows[k].load
          /\ u.rows[k].max = t.rows[k].max
          /\ u.rows[k].reserve = t.rows[k].reserve + 1
      BY <3>2, <3>3 DEF Row
    <3>5. Granted(t)[k] < Announced(t)[k]
      BY <3>1, <3>2 DEF Announced, Granted, Row
    <3>6. Announced(u) = Announced(t)
      BY <3>3, <3>4 DEF Announced
    <3>7. Granted(u) = [Granted(t) EXCEPT ![k] = @ + 1]
      BY <3>1, <3>3, <3>4 DEF Granted
    <3>8. QED
      BY <3>5, <3>6, <3>7 DEF Promise!Next, Promise!Grant
  <2>3. CASE table'[Master] = table[Master]
    BY <2>3
  <2>4. ASSUME NEW k \in Keys, NEW r \in Reports, OnLTReport(k, r[1], r[2])
        PROVE  Promise!Next
    <3>1. table'[Master] = AddRow(table[Master], k, r[1], r[2])
      BY <2>0, <2>4 DEF OnLTReport
    <3>2. QED
      BY <2>1, <3>1, ReportType
  <2>5. ASSUME NEW p \in Procs, OnLTQuery(p)
        PROVE  Promise!Next \/ table'[Master] = table[Master]
    <3>1. CASE UNCHANGED table
      BY <3>1
    <3>2. ASSUME NEW k \in Keys, Picks(table[p], k),
                 table' = [table EXCEPT ![p] = Reserve(table[p], k)]
          PROVE  Promise!Next \/ table'[Master] = table[Master]
      BY <2>0, <2>2, <3>2
    <3>3. QED
      BY <2>5, <3>1, <3>2 DEF OnLTQuery
  <2>6. ASSUME NEW s \in Slaves, OnLTReportCopy(s) \/ SlaveCrash(s)
        PROVE  table'[Master] = table[Master]
    BY <2>0, <2>6, NamesAssumption DEF OnLTReportCopy, SlaveCrash
  <2>7. QED
    BY <2>3, <2>4, <2>5, <2>6
       DEF Next, vars, OnSlaveConnect, SlavePings, OnSlaveMessage, OnMasterLost,
           OnClientConnect, OnLinkClosed, OnTimer
<1>3. QED
  BY <1>1, <1>2, Inductive, PTL DEF Spec, MasterAllocates, Promise!Spec
-----------------------------------------------------------------------------
(* The messages between the master and its slaves *)

\* q[i] is the newest copy of k in q.
Newest(q, k, i) ==
    /\ i \in DOMAIN q /\ q[i].key = k
    /\ \A j \in DOMAIN q : q[j].key = k => j <= i

\* What a slave with these rows, and q on its way to it, will show of k is r.
WillShow(q, rows, k, r) ==
    \/ \E i \in DOMAIN q : Newest(q, k, i) /\ SameLoad(r, q[i])
    \/ /\ \A i \in DOMAIN q : q[i].key # k
       /\ k \in DOMAIN rows /\ SameLoad(r, rows[k])

\* A copy that is sent is the newest, and leaves the other keys as they were.
LEMMA AppendShows ==
    ASSUME NEW q \in Seq(ReportMsg), NEW m \in ReportMsg, NEW rows, NEW k, NEW r
    PROVE  /\ k = m.key /\ SameLoad(r, m) => WillShow(Append(q, m), rows, k, r)
           /\ k # m.key /\ WillShow(q, rows, k, r) => WillShow(Append(q, m), rows, k, r)
<1> DEFINE p == Append(q, m)
           n == Len(q) + 1
<1>1. /\ n \in Nat /\ Len(q) \in Nat /\ DOMAIN q = 1 .. Len(q) /\ DOMAIN p = 1 .. n
      /\ p[n] = m /\ \A i \in DOMAIN q : p[i] = q[i]
  <2>1. Append(q, m) \in Seq(ReportMsg) /\ Len(Append(q, m)) = n
    BY AppendProperties
  <2> QED BY <2>1, AppendProperties, LenProperties
<1> HIDE DEF p
<1>2. n \in DOMAIN p /\ \A i \in DOMAIN q : i \in DOMAIN p /\ i < n
  BY <1>1
<1>3. \A i \in DOMAIN p : i \in DOMAIN q \/ i = n
  BY <1>1
<1>4. k = m.key /\ SameLoad(r, m) => WillShow(p, rows, k, r)
  <2> SUFFICES ASSUME k = m.key, SameLoad(r, m)
               PROVE  WillShow(p, rows, k, r)
    OBVIOUS
  <2>1. Newest(p, k, n)
    BY <1>1, <1>2 DEF Newest
  <2> QED BY <1>1, <1>2, <2>1 DEF WillShow
<1>5. k # m.key /\ WillShow(q, rows, k, r) => WillShow(p, rows, k, r)
  <2> SUFFICES ASSUME k # m.key, WillShow(q, rows, k, r)
               PROVE  WillShow(p, rows, k, r)
    OBVIOUS
  <2>1. ASSUME NEW i \in DOMAIN q, Newest(q, k, i), SameLoad(r, q[i])
        PROVE  Newest(p, k, i) /\ SameLoad(r, p[i]) /\ i \in DOMAIN p
    BY <1>1, <1>2, <1>3, <2>1 DEF Newest
  <2>2. CASE \A i \in DOMAIN q : q[i].key # k
    <3>1. \A i \in DOMAIN p : p[i].key # k
      BY <1>1, <1>3, <2>2
    <3> QED BY <2>2, <3>1 DEF WillShow, Newest
  <2> QED BY <2>1, <2>2 DEF WillShow
<1> QED BY <1>4, <1>5 DEF p

\* A copy that arrives is shown from then on, unless a newer one follows.
LEMMA TailShows ==
    ASSUME NEW q \in Seq(ReportMsg), q # <<>>, NEW rows, NEW arrived, NEW k, NEW r,
           Head(q).key \in DOMAIN arrived, SameLoad(Head(q), arrived[Head(q).key]),
           \A j \in DOMAIN rows \ {Head(q).key} : j \in DOMAIN arrived /\ arrived[j] = rows[j],
           WillShow(q, rows, k, r)
    PROVE  WillShow(Tail(q), arrived, k, r)
<1> DEFINE p == Tail(q)
<1>1. /\ Len(q) \in Nat \ {0} /\ DOMAIN q = 1 .. Len(q) /\ DOMAIN p = 1 .. Len(q) - 1
      /\ q[1] = Head(q) /\ \A i \in DOMAIN p : p[i] = q[i + 1]
  <2>1. p \in Seq(ReportMsg) /\ Len(p) = Len(q) - 1 /\ \A i \in 1 .. Len(p) : p[i] = q[i + 1]
    BY HeadTailProperties
  <2> QED BY <2>1, LenProperties, EmptySeq
<1> HIDE DEF p
<1>2. \A i \in DOMAIN p : i + 1 \in DOMAIN q /\ i \in Nat
  BY <1>1
<1>3. \A i \in DOMAIN q : i # 1 => i - 1 \in DOMAIN p /\ (i - 1) + 1 = i /\ i \in Nat
  BY <1>1
<1>4. 1 \in DOMAIN q
  BY <1>1
<1>5. ASSUME NEW i \in DOMAIN q, Newest(q, k, i), SameLoad(r, q[i])
      PROVE  WillShow(p, arrived, k, r)
  <2>1. CASE i = 1
    <3>1. \A j \in DOMAIN p : p[j].key # k
      BY <1>1, <1>2, <1>5, <2>1 DEF Newest
    <3> QED BY <1>1, <1>5, <2>1, <3>1 DEF Newest, WillShow, SameLoad
  <2>2. CASE i # 1
    <3>1. i - 1 \in DOMAIN p /\ p[i - 1] = q[i]
      BY <1>1, <1>3, <2>2
    <3>2. \A j \in DOMAIN p : p[j].key = k => j <= i - 1
      BY <1>1, <1>2, <1>3, <1>5, <2>2 DEF Newest
    <3>3. Newest(p, k, i - 1)
      BY <1>5, <3>1, <3>2 DEF Newest
    <3> QED BY <1>5, <3>1, <3>3 DEF WillShow
  <2> QED BY <2>1, <2>2
<1>6. CASE /\ \A i \in DOMAIN q : q[i].key # k
           /\ k \in DOMAIN rows /\ SameLoad(r, rows[k])
  <2>1. \A i \in DOMAIN p : p[i].key # k
    BY <1>1, <1>2, <1>6
  <2>2. k # Head(q).key
    BY <1>1, <1>4, <1>6
  <2> QED BY <1>6, <2>1, <2>2 DEF WillShow
<1> QED BY <1>5, <1>6 DEF WillShow, p

-----------------------------------------------------------------------------
(* The slaves *)

Asks(s) == \E i \in DOMAIN toMaster[s] : toMaster[s][i] = "reg"

\* A slave has one link at most.  Its registration is the first message on it,
\* and before it has arrived nothing has been copied.
SlavesInv ==
    \A s \in Slaves :
        /\ \A fd, gd \in LinkOf(s) : fd = gd
        /\ \A i \in DOMAIN toMaster[s] : toMaster[s][i] = "reg" => i = 1
        /\ LinkOf(s) # {} /\ Asks(s) => copied[s] = {} /\ s \notin Receivers

\* A slave that is copied to will show of every key copied what the master shows.
SyncInv ==
    \A s \in Receivers : \A k \in copied[s] :
        /\ k \in DOMAIN table[Master].rows
        /\ WillShow(toSlave[s], table[s].rows, k, table[Master].rows[k])

RepInv == SlavesInv /\ SyncInv

\* The row that addRow writes has what was reported; the others stay.
LEMMA AddRowShows ==
    ASSUME NEW t, NEW k, NEW load, NEW max
    PROVE  LET rows == AddRow(t, k, load, max).rows
           IN  /\ DOMAIN rows = DOMAIN t.rows \cup {k}
               /\ rows[k].load = load /\ rows[k].max = max
               /\ \A j \in DOMAIN t.rows \ {k} : rows[j] = t.rows[j]
<1> DEFINE row == [load |-> load, max |-> max, reserve |-> 0, score |-> CalcScore(load, max)]
           rows == [x \in DOMAIN t.rows \cup {k} |-> IF x = k THEN row ELSE t.rows[x]]
<1>1. AddRow(t, k, load, max).rows = rows
  BY DEF AddRow
<1>2. row.load = load /\ row.max = max
  OBVIOUS
<1> HIDE DEF row
<1>3. DOMAIN rows = DOMAIN t.rows \cup {k} /\ rows[k] = row
  OBVIOUS
<1>4. \A j \in DOMAIN t.rows \ {k} : rows[j] = t.rows[j]
  OBVIOUS
<1> HIDE DEF rows
<1> QED BY <1>1, <1>2, <1>3, <1>4

\* Links that go, and take the messages on them along, disturb nobody.
LEMMA FewerLinks ==
    ASSUME RepInv,
           \A s \in Slaves : /\ LinkOf(s)' \subseteq LinkOf(s)
                             /\ toMaster'[s] = toMaster[s] \/ toMaster'[s] = <<>>,
           Receivers' \subseteq Receivers,
           \A s \in Receivers' : toSlave'[s] = toSlave[s] /\ table'[s] = table[s],
           table'[Master] = table[Master],
           copied' = copied
    PROVE  RepInv'
<1>1. DOMAIN <<>> = {}
  OBVIOUS
<1>2. \A s \in Slaves : Asks(s)' => Asks(s) /\ toMaster'[s] = toMaster[s]
  BY <1>1 DEF Asks
<1>3. SlavesInv'
  <2> SUFFICES ASSUME NEW s \in Slaves
               PROVE  /\ \A fd, gd \in LinkOf(s)' : fd = gd
                      /\ \A i \in DOMAIN toMaster'[s] : toMaster'[s][i] = "reg" => i = 1
                      /\ LinkOf(s)' # {} /\ Asks(s)' => copied'[s] = {} /\ s \notin Receivers'
    BY DEF SlavesInv
  <2>1. \A fd, gd \in LinkOf(s)' : fd = gd
    BY DEF RepInv, SlavesInv
  <2>2. \A i \in DOMAIN toMaster'[s] : toMaster'[s][i] = "reg" => i = 1
    BY <1>1 DEF RepInv, SlavesInv
  <2>3. LinkOf(s)' # {} /\ Asks(s)' => copied'[s] = {} /\ s \notin Receivers'
    BY <1>2 DEF RepInv, SlavesInv
  <2> QED BY <2>1, <2>2, <2>3
<1>4. SyncInv'
  BY DEF RepInv, SyncInv
<1> QED BY <1>3, <1>4 DEF RepInv

\* With these, nobody new is copied to.
LEMMA FewerReceivers ==
    ASSUME \A s \in Slaves : LinkOf(s)' \subseteq LinkOf(s), Registered' \subseteq Registered,
           NetTypeOK
    PROVE  Receivers' \subseteq Receivers
<1> SUFFICES ASSUME NEW s \in Slaves, NEW fd \in Registered', peer'[fd] = s
             PROVE  s \in Receivers
  BY DEF Receivers
<1>1. fd \in LinkOf(s)'
  BY DEF LinkOf, NetTypeOK
<1>2. fd \in LinkOf(s) /\ fd \in Registered
  BY <1>1
<1> QED BY <1>2 DEF LinkOf, Receivers

\* closeLink of the master's side.
LEMMA CloseLinkFewer ==
    ASSUME NetTypeOK, NEW fd \in Fds, CloseLink(fd), NEW s \in Slaves
    PROVE  /\ LinkOf(s)' \subseteq LinkOf(s)
           /\ toMaster'[s] = toMaster[s] \/ toMaster'[s] = <<>>
BY NamesAssumption DEF CloseLink, LinkOf, NetTypeOK

\* A slave that is no longer at the other end of its link.
LEMMA DesertedFewer ==
    ASSUME NetTypeOK, NEW t \in Slaves, peer' = Deserted(t), NEW s \in Slaves
    PROVE  LinkOf(s)' \subseteq LinkOf(s) /\ LinkOf(t)' = {}
BY NamesAssumption DEF Deserted, LinkOf, NetTypeOK

\* The copies, and those that they go to, stay as they are.
LEMMA SameCopies ==
    ASSUME SlavesInv, UNCHANGED <<peer, slaves, toMaster>>,
           \A s \in Slaves \ Receivers : copied'[s] = copied[s]
    PROVE  SlavesInv' /\ Receivers' = Receivers
<1>1. /\ Receivers' = Receivers
      /\ \A s \in Slaves : LinkOf(s)' = LinkOf(s) /\ (Asks(s)' <=> Asks(s))
  BY DEF Receivers, Registered, LinkOf, Asks
<1>2. ASSUME NEW s \in Slaves, LinkOf(s)' # {}, Asks(s)'
      PROVE  copied'[s] = {} /\ s \notin Receivers'
  BY <1>1, <1>2 DEF SlavesInv
<1> QED BY <1>1, <1>2 DEF SlavesInv

LEMMA RepReport ==
    ASSUME IInv, RepInv, NEW k \in Keys, NEW r \in Reports, OnLTReport(k, r[1], r[2])
    PROVE  RepInv'
<1> DEFINE m == [key |-> k, load |-> r[1], max |-> r[2]]
           old == table[Master].rows
           new == table'[Master].rows
<1>1. m \in ReportMsg /\ m.key = k
  BY ReportType DEF ReportMsg
<1>2. /\ SlavesInv' /\ Receivers' = Receivers
      /\ Receivers \subseteq Slaves
  <2>1. \A s \in Slaves \ Receivers : copied'[s] = copied[s]
    BY DEF OnLTReport
  <2> QED BY <2>1, SameCopies DEF OnLTReport, RepInv, Receivers
<1>3. /\ DOMAIN new = DOMAIN old \cup {k} /\ SameLoad(new[k], m)
      /\ \A j \in DOMAIN old \ {k} : new[j] = old[j]
  <2>1. table'[Master] = AddRow(table[Master], k, r[1], r[2])
    BY DEF OnLTReport, IInv, TablesInv, Procs
  <2> QED BY <2>1, AddRowShows DEF SameLoad
<1>4. ASSUME NEW s \in Receivers
      PROVE  /\ toSlave[s] \in Seq(ReportMsg)
             /\ toSlave'[s] = Append(toSlave[s], m) /\ copied'[s] = copied[s] \cup {k}
             /\ table'[s].rows = table[s].rows
  <2>1. s \in Slaves /\ s # Master /\ s \in Procs
    BY <1>2, NamesAssumption DEF Procs
  <2> QED BY <2>1 DEF OnLTReport, IInv, NetTypeOK, TablesInv
<1>5. SyncInv'
  <2> SUFFICES ASSUME NEW s \in Receivers, NEW j \in copied'[s]
               PROVE  /\ j \in DOMAIN new
                      /\ WillShow(toSlave'[s], table'[s].rows, j, new[j])
    BY <1>2 DEF SyncInv
  <2>1. CASE j = k
    <3>1. SameLoad(new[j], m) /\ j \in DOMAIN new
      BY <1>3, <2>1
    <3> HIDE DEF m, old, new
    <3>2. WillShow(Append(toSlave[s], m), table[s].rows, j, new[j])
      BY <1>1, <1>4, <2>1, <3>1, AppendShows
    <3> QED BY <1>4, <3>1, <3>2
  <2>2. CASE j # k
    <3>1. j \in copied[s]
      BY <1>4, <2>2
    <3>2. j \in DOMAIN old /\ WillShow(toSlave[s], table[s].rows, j, old[j])
      BY <3>1 DEF RepInv, SyncInv
    <3>3. j \in DOMAIN new /\ new[j] = old[j]
      BY <1>3, <2>2, <3>2
    <3> HIDE DEF m, old, new
    <3>4. WillShow(Append(toSlave[s], m), table[s].rows, j, old[j])
      BY <1>1, <1>4, <2>2, <3>2, AppendShows
    <3> QED BY <1>4, <3>3, <3>4
  <2> QED BY <2>1, <2>2
<1> QED BY <1>2, <1>5 DEF RepInv

LEMMA RepCopy ==
    ASSUME IInv, RepInv, NEW t \in Slaves, OnLTReportCopy(t)
    PROVE  RepInv'
<1> DEFINE h == Head(toSlave[t])
<1>1. SlavesInv' /\ Receivers' = Receivers /\ copied' = copied /\ Receivers \subseteq Slaves
  BY SameCopies DEF OnLTReportCopy, RepInv, Receivers
<1>2. /\ toSlave[t] \in Seq(ReportMsg) /\ toSlave[t] # <<>>
      /\ \A s \in Slaves : toSlave'[s] = IF s = t THEN Tail(toSlave[t]) ELSE toSlave[s]
  BY DEF OnLTReportCopy, IInv, NetTypeOK
<1>3. table'[Master] = table[Master]
  BY NamesAssumption DEF OnLTReportCopy, IInv, TablesInv, Procs
<1>4. /\ table'[t] = AddRow(table[t], h.key, h.load, h.max)
      /\ \A s \in Slaves : s # t => table'[s] = table[s]
  BY DEF OnLTReportCopy, IInv, TablesInv, Procs
<1>5. /\ h.key \in DOMAIN table'[t].rows /\ SameLoad(h, table'[t].rows[h.key])
      /\ \A j \in DOMAIN table[t].rows \ {h.key} :
            j \in DOMAIN table'[t].rows /\ table'[t].rows[j] = table[t].rows[j]
  BY <1>4, AddRowShows DEF SameLoad
<1> HIDE DEF h
<1>6. SyncInv'
  <2> SUFFICES ASSUME NEW s \in Receivers, NEW k \in copied[s]
               PROVE  WillShow(toSlave'[s], table'[s].rows, k, table[Master].rows[k])
    BY <1>1, <1>3 DEF RepInv, SyncInv
  <2>1. WillShow(toSlave[s], table[s].rows, k, table[Master].rows[k])
    BY DEF RepInv, SyncInv
  <2>2. CASE s = t
    <3>1. WillShow(Tail(toSlave[t]), table'[t].rows, k, table[Master].rows[k])
      BY <1>2, <1>5, <2>1, <2>2, TailShows DEF h
    <3> QED BY <1>2, <2>2, <3>1
  <2>3. CASE s # t
    BY <1>1, <1>2, <1>4, <2>1, <2>3
  <2> QED BY <2>2, <2>3
<1> QED BY <1>1, <1>6 DEF RepInv

LEMMA RepQuery ==
    ASSUME IInv, RepInv, NEW p \in Procs, OnLTQuery(p)
    PROVE  RepInv'
<1>1. /\ SlavesInv' /\ Receivers' = Receivers /\ copied' = copied /\ toSlave' = toSlave
      /\ Receivers \subseteq Slaves
  <2>1. UNCHANGED <<peer, slaves, toMaster, toSlave, copied>>
    BY DEF OnLTQuery, netVars
  <2> QED BY <2>1, SameCopies DEF RepInv, Receivers
<1>2. ASSUME NEW q \in Procs
      PROVE  /\ DOMAIN table'[q].rows = DOMAIN table[q].rows
             /\ \A k \in DOMAIN table[q].rows : SameLoad(table'[q].rows[k], table[q].rows[k])
  <2>1. CASE UNCHANGED table
    BY <2>1 DEF SameLoad
  <2>2. ASSUME NEW k \in Keys, Picks(table[p], k),
               table' = [table EXCEPT ![p] = Reserve(table[p], k)]
        PROVE  /\ DOMAIN table'[q].rows = DOMAIN table[q].rows
               /\ \A j \in DOMAIN table[q].rows : SameLoad(table'[q].rows[j], table[q].rows[j])
    <3> DEFINE t == table[p]
               u == Reserve(t, k)
    <3>1. TableInv(t)
      BY DEF IInv, TablesInv
    <3>2. k \in DOMAIN t.rows /\ t.rows[k] \in Row
      BY <2>2, <3>1, PicksHasRoom DEF TableInv, TableTypeOK
    <3>3. /\ DOMAIN u.rows = DOMAIN t.rows
          /\ \A x \in DOMAIN t.rows \ {k} : u.rows[x] = t.rows[x]
          /\ u.rows[k] = [t.rows[k] EXCEPT !.reserve = @ + 1]
      BY <3>1, <3>2 DEF Reserve, TableInv, TableTypeOK
    <3>4. SameLoad(u.rows[k], t.rows[k])
      BY <3>2, <3>3 DEF SameLoad, Row
    <3>5. table'[q] = IF q = p THEN u ELSE table[q]
      BY <2>2 DEF IInv, TablesInv
    <3> HIDE DEF t, u
    <3>6. CASE q = p
      BY <3>2, <3>3, <3>4, <3>5, <3>6 DEF SameLoad, t
    <3>7. CASE q # p
      BY <3>5, <3>7 DEF SameLoad
    <3> QED BY <3>6, <3>7
  <2> QED BY <2>1, <2>2 DEF OnLTQuery
<1>3. SyncInv'
  <2> SUFFICES ASSUME NEW s \in Receivers, NEW k \in copied[s]
               PROVE  /\ k \in DOMAIN table'[Master].rows
                      /\ WillShow(toSlave[s], table'[s].rows, k, table'[Master].rows[k])
    BY <1>1 DEF SyncInv
  <2>1. /\ k \in DOMAIN table[Master].rows
        /\ WillShow(toSlave[s], table[s].rows, k, table[Master].rows[k])
    BY DEF RepInv, SyncInv
  <2>2. s \in Procs /\ Master \in Procs
    BY <1>1 DEF Procs
  <2>3. SameLoad(table'[Master].rows[k], table[Master].rows[k])
    BY <1>2, <2>1, <2>2
  <2> QED BY <1>2, <2>1, <2>2, <2>3 DEF WillShow, SameLoad
<1> QED BY <1>1, <1>3 DEF RepInv

LEMMA RepConnect ==
    ASSUME IInv, RepInv, NEW t \in Slaves, OnSlaveConnect(t)
    PROVE  RepInv'
<1>1. PICK fd \in Fds : peer[fd] = Closed /\ peer' = [peer EXCEPT ![fd] = t]
  BY DEF OnSlaveConnect, Accept
<1>2. /\ LinkOf(t)' = {fd}
      /\ \A s \in Slaves : s # t => LinkOf(s)' = LinkOf(s)
  BY <1>1, NamesAssumption DEF OnSlaveConnect, LinkOf, IInv, NetTypeOK
<1>3. fd \notin Registered
  BY <1>1, NamesAssumption DEF IInv, CopiesGoToSlaves
<1>4. Receivers' \subseteq Receivers \ {t}
  <2>1. ASSUME NEW s \in Slaves, NEW gd \in Registered, peer'[gd] = s
        PROVE  s \in Receivers \ {t}
    <3>1. gd # fd
      BY <1>3
    <3>2. peer[gd] = s /\ gd \in Fds
      BY <1>1, <2>1, <3>1 DEF IInv, NetTypeOK
    <3>3. s # t
      BY <3>2 DEF OnSlaveConnect, LinkOf
    <3> QED BY <3>2, <3>3 DEF Receivers
  <2>2. Registered' = Registered
    BY DEF OnSlaveConnect, Registered
  <2> QED BY <2>1, <2>2 DEF Receivers
<1>5. /\ toMaster'[t] = <<"reg">> /\ copied'[t] = {}
      /\ \A s \in Slaves : s # t => /\ toMaster'[s] = toMaster[s] /\ copied'[s] = copied[s]
                                   /\ toSlave'[s] = toSlave[s]
      /\ table' = table
  BY DEF OnSlaveConnect, IInv, NetTypeOK
<1>6. SlavesInv'
  <2> SUFFICES ASSUME NEW s \in Slaves
               PROVE  /\ \A f, g \in LinkOf(s)' : f = g
                      /\ \A i \in DOMAIN toMaster'[s] : toMaster'[s][i] = "reg" => i = 1
                      /\ LinkOf(s)' # {} /\ Asks(s)' => copied'[s] = {} /\ s \notin Receivers'
    BY DEF SlavesInv
  <2>1. CASE s = t
    BY <1>2, <1>4, <1>5, <2>1
  <2>2. CASE s # t
    BY <1>2, <1>4, <1>5, <2>2 DEF RepInv, SlavesInv, Asks
  <2> QED BY <2>1, <2>2
<1>7. SyncInv'
  <2>1. Receivers \subseteq Slaves
    BY DEF Receivers
  <2> QED BY <1>4, <1>5, <2>1 DEF RepInv, SyncInv
<1> QED BY <1>6, <1>7 DEF RepInv

LEMMA RepPings ==
    ASSUME IInv, RepInv, NEW t \in Slaves, SlavePings(t)
    PROVE  RepInv'
<1>1. /\ Receivers' = Receivers /\ \A s \in Slaves : LinkOf(s)' = LinkOf(s)
      /\ UNCHANGED <<table, toSlave, copied>>
  BY DEF SlavePings, Receivers, Registered, LinkOf
<1>2. ASSUME NEW s \in Slaves, NEW i \in DOMAIN toMaster'[s], toMaster'[s][i] = "reg"
      PROVE  i \in DOMAIN toMaster[s] /\ toMaster[s][i] = "reg"
  <2>1. toMaster[s] \in Seq({"reg", "ping"})
    BY DEF IInv, NetTypeOK
  <2>2. toMaster'[s] = IF s = t THEN Append(toMaster[s], "ping") ELSE toMaster[s]
    BY DEF SlavePings, IInv, NetTypeOK
  <2> QED BY <1>2, <2>1, <2>2
<1>3. \A s \in Slaves : Asks(s)' => Asks(s)
  BY <1>2 DEF Asks
<1> QED BY <1>1, <1>2, <1>3 DEF RepInv, SlavesInv, SyncInv

LEMMA RepMessage ==
    ASSUME IInv, RepInv, NEW t \in Slaves, OnSlaveMessage(t)
    PROVE  RepInv'
<1> DEFINE q == toMaster[t]
<1>1. q \in Seq({"reg", "ping"}) /\ q # <<>>
  BY DEF OnSlaveMessage, IInv, NetTypeOK
<1>2. /\ DOMAIN q = 1 .. Len(q) /\ Len(q) \in Nat \ {0} /\ q[1] = Head(q)
      /\ DOMAIN Tail(q) = 1 .. Len(q) - 1 /\ \A i \in 1 .. Len(q) - 1 : Tail(q)[i] = q[i + 1]
  <2>1. /\ Tail(q) \in Seq({"reg", "ping"}) /\ Len(Tail(q)) = Len(q) - 1
        /\ \A i \in 1 .. Len(Tail(q)) : Tail(q)[i] = q[i + 1]
    BY <1>1, HeadTailProperties
  <2> QED BY <1>1, <2>1, LenProperties, EmptySeq
<1>3. \A s \in Slaves : toMaster'[s] = IF s = t THEN Tail(q) ELSE toMaster[s]
  BY DEF OnSlaveMessage, IInv, NetTypeOK
<1>4. \A i \in DOMAIN Tail(q) : Tail(q)[i] # "reg"
  BY <1>2 DEF RepInv, SlavesInv
<1>5. /\ \A s \in Slaves : LinkOf(s)' = LinkOf(s)
      /\ UNCHANGED <<peer, table, toSlave, copied>>
  BY DEF OnSlaveMessage, LinkOf
<1>6. PICK fd \in LinkOf(t) :
        \/ Head(q) = "reg" /\ OnLTRegSlaveReq(fd)
        \/ Head(q) = "ping" /\ OnLTPing(fd)
  BY DEF OnSlaveMessage
<1>7. CASE Registered' = Registered
  <2>1. Receivers' = Receivers
    BY <1>5, <1>7 DEF Receivers
  <2>2. \A s \in Slaves : /\ Asks(s)' => Asks(s)
                         /\ \A i \in DOMAIN toMaster'[s] : toMaster'[s][i] = "reg" => i = 1
    BY <1>3, <1>4 DEF Asks, RepInv, SlavesInv
  <2> QED BY <1>5, <2>1, <2>2 DEF RepInv, SlavesInv, SyncInv
<1>8. CASE Registered' = Registered \cup {fd} /\ Head(q) = "reg"
  <2>1. fd \in Fds /\ peer[fd] = t
    BY DEF LinkOf
  <2>2. Receivers' = Receivers \cup {t}
    BY <1>5, <1>8, <2>1 DEF Receivers
  <2>3. copied'[t] = {} /\ copied' = copied
    <3>1. 1 \in DOMAIN q /\ q[1] = "reg"
      BY <1>2, <1>8
    <3>2. Asks(t) /\ LinkOf(t) # {}
      BY <1>6, <3>1 DEF Asks
    <3> QED BY <1>5, <3>2 DEF RepInv, SlavesInv
  <2>4. ~Asks(t)'
    BY <1>3, <1>4 DEF Asks
  <2>5. \A s \in Slaves : s # t => (Asks(s)' <=> Asks(s))
    BY <1>3 DEF Asks
  <2>6. SlavesInv'
    <3> SUFFICES ASSUME NEW s \in Slaves
                 PROVE  /\ \A f, g \in LinkOf(s)' : f = g
                        /\ \A i \in DOMAIN toMaster'[s] : toMaster'[s][i] = "reg" => i = 1
                        /\ LinkOf(s)' # {} /\ Asks(s)' => copied'[s] = {} /\ s \notin Receivers'
      BY DEF SlavesInv
    <3>1. CASE s = t
      <4>1. \A f, g \in LinkOf(s)' : f = g
        BY <1>5 DEF RepInv, SlavesInv
      <4>2. \A i \in DOMAIN toMaster'[s] : toMaster'[s][i] = "reg" => i = 1
        BY <1>3, <1>4, <3>1
      <4> QED BY <2>4, <3>1, <4>1, <4>2
    <3>2. CASE s # t
      BY <1>3, <1>5, <2>2, <2>5, <3>2 DEF RepInv, SlavesInv
    <3> QED BY <3>1, <3>2
  <2>7. SyncInv'
    <3> SUFFICES ASSUME NEW s \in Receivers \cup {t}, NEW k \in copied[s]
                 PROVE  /\ k \in DOMAIN table[Master].rows
                        /\ WillShow(toSlave[s], table[s].rows, k, table[Master].rows[k])
      BY <1>5, <2>2 DEF SyncInv
    <3>1. s \in Receivers
      BY <2>3
    <3> QED BY <3>1 DEF RepInv, SyncInv
  <2> QED BY <2>6, <2>7 DEF RepInv
<1>9. Registered' = Registered \/ (Registered' = Registered \cup {fd} /\ Head(q) = "reg")
  BY <1>6 DEF OnLTRegSlaveReq, OnLTPing, Registered
<1> QED BY <1>7, <1>8, <1>9

\* The steps that only take links away.
LEMMA RepFewer ==
    ASSUME IInv, RepInv,
           \/ \E s \in Slaves : OnMasterLost(s) \/ SlaveCrash(s)
           \/ OnClientConnect
           \/ \E fd \in Fds : OnLinkClosed(fd)
           \/ OnTimer
    PROVE  RepInv'
<1>0. NetTypeOK
  BY DEF IInv
<1>1. ASSUME NEW t \in Slaves, OnMasterLost(t) \/ SlaveCrash(t)
      PROVE  RepInv'
  <2>1. /\ peer' = Deserted(t) /\ Registered' = Registered /\ copied' = copied
        /\ \A s \in Slaves : s # t => toSlave'[s] = toSlave[s]
        /\ \A s \in Slaves : toMaster'[s] = toMaster[s] \/ toMaster'[s] = <<>>
    BY <1>0, <1>1 DEF OnMasterLost, SlaveCrash, Registered, NetTypeOK
  <2>2. \A p \in Procs \ {t} : table'[p] = table[p]
    BY <1>1 DEF OnMasterLost, SlaveCrash, IInv, TablesInv
  <2>3. \A s \in Slaves : LinkOf(s)' \subseteq LinkOf(s) /\ LinkOf(t)' = {}
    BY <1>0, <2>1, DesertedFewer
  <2>4. Receivers' \subseteq Receivers
    BY <1>0, <2>1, <2>3, FewerReceivers
  <2>5. t \notin Receivers' /\ Receivers \subseteq Slaves
    BY <1>0, <2>1, <2>3 DEF Receivers, LinkOf, NetTypeOK
  <2>6. /\ \A s \in Receivers' : toSlave'[s] = toSlave[s] /\ table'[s] = table[s]
        /\ table'[Master] = table[Master]
    BY <2>1, <2>2, <2>4, <2>5, NamesAssumption DEF Procs
  <2> QED BY <2>1, <2>3, <2>4, <2>6, FewerLinks
<1>2. ASSUME \A s \in Slaves : /\ LinkOf(s)' \subseteq LinkOf(s)
                               /\ toMaster'[s] = toMaster[s] \/ toMaster'[s] = <<>>,
             Registered' \subseteq Registered, UNCHANGED <<table, toSlave, copied>>
      PROVE  RepInv'
  <2>1. Receivers' \subseteq Receivers
    BY <1>0, <1>2, FewerReceivers
  <2> QED BY <1>2, <2>1, FewerLinks
<1>3. CASE OnClientConnect
  <2>1. \A s \in Slaves : LinkOf(s)' \subseteq LinkOf(s)
    BY <1>0, <1>3, NamesAssumption DEF OnClientConnect, Accept, LinkOf, NetTypeOK
  <2> QED BY <1>2, <1>3, <2>1 DEF OnClientConnect, Registered
<1>4. ASSUME NEW fd \in Fds, OnLinkClosed(fd)
      PROVE  RepInv'
  <2>1. \A s \in Slaves : /\ LinkOf(s)' \subseteq LinkOf(s)
                          /\ toMaster'[s] = toMaster[s] \/ toMaster'[s] = <<>>
    BY <1>0, <1>4, CloseLinkFewer DEF OnLinkClosed
  <2>2. Registered' \subseteq Registered
    BY <1>4 DEF OnLinkClosed, Unregister, Registered
  <2> QED BY <1>2, <1>4, <2>1, <2>2 DEF OnLinkClosed
<1>5. CASE OnTimer
  <2>1. /\ UNCHANGED <<table, toSlave, copied>> /\ Registered' \subseteq Registered
        /\ UNCHANGED <<peer, toMaster>> \/ \E fd \in Registered : CloseLink(fd)
    BY <1>5 DEF OnTimer, RemoveExpired, Aged, Registered
  <2>2. Registered \subseteq Fds
    BY <1>0 DEF NetTypeOK
  <2>3. \A s \in Slaves : /\ LinkOf(s)' \subseteq LinkOf(s)
                          /\ toMaster'[s] = toMaster[s] \/ toMaster'[s] = <<>>
    <3>1. CASE UNCHANGED <<peer, toMaster>>
      BY <3>1 DEF LinkOf
    <3> QED BY <1>0, <2>1, <2>2, <3>1, CloseLinkFewer
  <2> QED BY <1>2, <2>1, <2>3
<1> QED BY <1>1, <1>3, <1>4, <1>5

LEMMA RepInductive == Spec => []RepInv
<1>1. Init => RepInv
  <2> SUFFICES ASSUME Init PROVE RepInv
    OBVIOUS
  <2>1. Receivers = {}
    BY DEF Init, Receivers, Registered
  <2>2. \A s \in Slaves : LinkOf(s) = {} /\ toMaster[s] = <<>> /\ DOMAIN toMaster[s] = {}
    BY NamesAssumption DEF Init, LinkOf
  <2> QED BY <2>1, <2>2 DEF RepInv, SlavesInv, SyncInv
<1>2. IInv /\ RepInv /\ [Next]_vars => RepInv'
  <2> SUFFICES ASSUME IInv, RepInv, [Next]_vars PROVE RepInv'
    OBVIOUS
  <2>1. CASE UNCHANGED vars
    <3>1. UNCHANGED <<table, peer, slaves, seq, up, toMaster, toSlave, copied, orphans>>
      BY <2>1 DEF vars
    <3> QED BY <3>1, SameCopies DEF RepInv, SyncInv
  <2> QED BY <2>1, RepReport, RepQuery, RepCopy, RepConnect, RepPings, RepMessage, RepFewer DEF Next
<1> QED BY <1>1, <1>2, Inductive, PTL DEF Spec

\* A slave that is copied to is behind the master by what is on its way to it and
\* no more, for any number of services, slaves and copies on their way, whichever
\* links close and are opened again (onLTReport of both, SlaveMgr::send).
THEOREM ReplicasInStep == Spec => []ReplicaInStep
<1>1. IInv /\ RepInv => ReplicaInStep
  <2> SUFFICES ASSUME IInv, RepInv, NEW s \in Receivers, NEW k \in copied[s]
               PROVE  SameLoad(table[Master].rows[k],
                               IF k \in InFlight(s) THEN LastInFlight(s, k)
                               ELSE table[s].rows[k])
    BY DEF ReplicaInStep
  <2>1. WillShow(toSlave[s], table[s].rows, k, table[Master].rows[k])
    BY DEF RepInv, SyncInv
  <2>2. k \in InFlight(s) <=> \E i \in DOMAIN toSlave[s] : toSlave[s][i].key = k
    BY DEF InFlight, ToSet
  <2>3. ASSUME NEW i \in DOMAIN toSlave[s], Newest(toSlave[s], k, i)
        PROVE  LastInFlight(s, k) = toSlave[s][i]
    <3> DEFINE c == CHOOSE j \in DOMAIN toSlave[s] :
                      /\ toSlave[s][j].key = k
                      /\ \A l \in DOMAIN toSlave[s] : toSlave[s][l].key = k => l <= j
    <3>1. c \in DOMAIN toSlave[s] /\ c <= i /\ i <= c
      BY <2>3 DEF Newest
    <3>2. i \in Int /\ c \in Int
      <4>1. s \in Slaves
        BY DEF Receivers
      <4>2. DOMAIN toSlave[s] = 1 .. Len(toSlave[s])
        BY <4>1, LenProperties DEF IInv, NetTypeOK
      <4> QED BY <3>1, <4>2
    <3> HIDE DEF c
    <3>3. c = i
      BY <3>1, <3>2
    <3> QED BY <3>3 DEF LastInFlight, c
  <2> QED BY <2>1, <2>2, <2>3 DEF WillShow, Newest
<1> QED BY <1>1, Inductive, RepInductive, PTL

-----------------------------------------------------------------------------
(* Every slave *)

\* A link with which its slave's registration goes.
LEMMA ClosedTogether ==
    ASSUME NetTypeOK, SlavesInv, EverySlaveCopied, NEW fd \in Fds, CloseLink(fd),
           Registered' = Registered \ {fd}
    PROVE  EverySlaveCopied'
<1> SUFFICES ASSUME NEW s \in Slaves, NEW gd \in (LinkOf(s) \ orphans)',
                    "reg" \notin ToSet(toMaster'[s])
             PROVE  s \in Receivers'
  BY DEF EverySlaveCopied
<1>1. gd \in Fds /\ peer'[gd] = s /\ gd # fd /\ peer[gd] = s /\ gd \notin orphans
  BY NamesAssumption DEF LinkOf, CloseLink, NetTypeOK
<1>2. gd \in LinkOf(s)
  BY <1>1 DEF LinkOf
<1>3. peer[fd] # s
  BY <1>1, <1>2 DEF LinkOf, SlavesInv
<1>4. toMaster'[s] = toMaster[s]
  BY <1>3 DEF CloseLink
<1>5. PICK hd \in Registered : peer[hd] = s
  BY <1>1, <1>2, <1>4 DEF EverySlaveCopied, Receivers
<1>6. hd \in Registered' /\ peer'[hd] = s
  BY <1>3, <1>5 DEF CloseLink, NetTypeOK
<1> QED BY <1>6 DEF Receivers

\* A link that stays without its slave.
LEMMA LinkMissed ==
    ASSUME NetTypeOK, SlavesInv, EverySlaveCopied, NEW fd \in Fds,
           UNCHANGED <<peer, toMaster>>, orphans' = orphans \cup {fd},
           Registered' = Registered \ {fd}
    PROVE  EverySlaveCopied'
<1> SUFFICES ASSUME NEW s \in Slaves, NEW gd \in (LinkOf(s) \ orphans)',
                    "reg" \notin ToSet(toMaster'[s])
             PROVE  s \in Receivers'
  BY DEF EverySlaveCopied
<1>1. gd \in LinkOf(s) \ orphans /\ gd # fd
  BY DEF LinkOf
<1>2. PICK hd \in Registered : peer[hd] = s
  BY <1>1 DEF EverySlaveCopied, Receivers
<1>3. hd = gd
  BY <1>1, <1>2 DEF LinkOf, SlavesInv, NetTypeOK
<1> QED BY <1>1, <1>2, <1>3 DEF Receivers

LEMMA EveryCopiedStep ==
    ASSUME IInv, SlavesInv, EverySlaveCopied, [Next]_vars
    PROVE  EverySlaveCopied'
<1>0. NetTypeOK
  BY DEF IInv
<1>1. CASE UNCHANGED <<peer, slaves, toMaster, orphans>>
  BY <1>1 DEF EverySlaveCopied, Receivers, Registered, LinkOf
<1>2. ASSUME NEW t \in Slaves, OnSlaveConnect(t)
      PROVE  EverySlaveCopied'
  <2> SUFFICES ASSUME NEW s \in Slaves, (LinkOf(s) \ orphans)' # {},
                      "reg" \notin ToSet(toMaster'[s])
               PROVE  s \in Receivers'
    BY DEF EverySlaveCopied
  <2>1. PICK fd \in Fds : peer[fd] = Closed /\ peer' = [peer EXCEPT ![fd] = t]
    BY <1>2 DEF OnSlaveConnect, Accept
  <2>2. s # t
    <3>1. toMaster'[t] = <<"reg">>
      BY <1>0, <1>2 DEF OnSlaveConnect, NetTypeOK
    <3>2. "reg" \in ToSet(<<"reg">>)
      <4>1. 1 \in DOMAIN <<"reg">> /\ <<"reg">>[1] = "reg"
        OBVIOUS
      <4> QED BY <4>1 DEF ToSet
    <3> QED BY <3>1, <3>2
  <2>3. toMaster'[s] = toMaster[s] /\ LinkOf(s) \ orphans # {}
    BY <1>0, <1>2, <2>1, <2>2 DEF OnSlaveConnect, LinkOf, NetTypeOK
  <2>4. PICK hd \in Registered : peer[hd] = s
    BY <2>3 DEF EverySlaveCopied, Receivers
  <2>5. hd \in Registered' /\ peer'[hd] = s
    BY <1>0, <1>2, <2>1, <2>4, NamesAssumption DEF OnSlaveConnect, Registered, NetTypeOK
  <2> QED BY <2>5 DEF Receivers
<1>3. ASSUME NEW t \in Slaves, SlavePings(t)
      PROVE  EverySlaveCopied'
  <2>1. \A s \in Slaves : ToSet(toMaster[s]) \subseteq ToSet(toMaster'[s])
    <3> SUFFICES ASSUME NEW s \in Slaves, NEW i \in DOMAIN toMaster[s]
                 PROVE  i \in DOMAIN toMaster'[s] /\ toMaster'[s][i] = toMaster[s][i]
      BY DEF ToSet
    <3>1. toMaster[s] \in Seq({"reg", "ping"})
      BY <1>0 DEF NetTypeOK
    <3>2. toMaster'[s] = IF s = t THEN Append(toMaster[s], "ping") ELSE toMaster[s]
      BY <1>0, <1>3 DEF SlavePings, NetTypeOK
    <3> QED BY <3>1, <3>2
  <2>2. UNCHANGED <<peer, slaves, orphans>>
    BY <1>3 DEF SlavePings
  <2> QED BY <2>1, <2>2 DEF EverySlaveCopied, Receivers, Registered, LinkOf
<1>4. ASSUME NEW t \in Slaves, OnSlaveMessage(t)
      PROVE  EverySlaveCopied'
  <2>1. PICK fd \in LinkOf(t) :
          \/ Head(toMaster[t]) = "reg" /\ OnLTRegSlaveReq(fd)
          \/ Head(toMaster[t]) = "ping" /\ OnLTPing(fd)
    BY <1>4 DEF OnSlaveMessage
  <2>2. peer' = peer /\ orphans' = orphans /\ \A s \in Slaves : s # t => toMaster'[s] = toMaster[s]
    BY <1>0, <1>4 DEF OnSlaveMessage, NetTypeOK
  <2>3. Receivers \subseteq Receivers'
    BY <2>1, <2>2 DEF Receivers, Registered, OnLTRegSlaveReq, OnLTPing
  <2>4. \A s \in Slaves : (LinkOf(s) \ orphans)' = LinkOf(s) \ orphans
    BY <2>2 DEF LinkOf
  <2>5. LinkOf(t) \ orphans # {} /\ "reg" \notin ToSet(toMaster'[t]) => t \in Receivers'
    <3> HAVE LinkOf(t) \ orphans # {} /\ "reg" \notin ToSet(toMaster'[t])
    <3>1. CASE Head(toMaster[t]) = "reg"
      <4>1. fd \in Registered' /\ peer'[fd] = t
        BY <2>1, <2>2, <3>1 DEF OnLTRegSlaveReq, Registered, LinkOf
      <4> QED BY <4>1 DEF Receivers
    <3>2. CASE Head(toMaster[t]) = "ping"
      <4>1. toMaster[t] \in Seq({"reg", "ping"}) /\ toMaster[t] # <<>>
        BY <1>0, <1>4 DEF OnSlaveMessage, NetTypeOK
      <4>2. \A i \in DOMAIN toMaster[t] : toMaster[t][i] # "reg"
        BY <3>2, <4>1 DEF SlavesInv
      <4>3. t \in Receivers
        BY <2>1, <4>2 DEF ToSet, EverySlaveCopied
      <4> QED BY <2>3, <4>3
    <3> QED BY <2>1, <3>1, <3>2
  <2> QED BY <2>2, <2>3, <2>4, <2>5 DEF EverySlaveCopied
<1>5. ASSUME NEW t \in Slaves, OnMasterLost(t) \/ SlaveCrash(t)
      PROVE  EverySlaveCopied'
  <2> SUFFICES ASSUME NEW s \in Slaves, (LinkOf(s) \ orphans)' # {},
                      "reg" \notin ToSet(toMaster'[s])
               PROVE  s \in Receivers'
    BY DEF EverySlaveCopied
  <2>1. /\ peer' = Deserted(t) /\ Registered' = Registered /\ orphans' = orphans
        /\ toMaster' = [toMaster EXCEPT ![t] = <<>>]
    BY <1>5 DEF OnMasterLost, SlaveCrash, Registered
  <2>2. s # t /\ LinkOf(s) \ orphans # {}
    BY <1>0, <2>1, DesertedFewer DEF LinkOf, Deserted
  <2>3. PICK hd \in Registered : peer[hd] = s
    BY <1>0, <2>1, <2>2 DEF EverySlaveCopied, Receivers, NetTypeOK
  <2>4. hd \in Registered' /\ peer'[hd] = s
    BY <1>0, <2>1, <2>2, <2>3 DEF Deserted, NetTypeOK
  <2> QED BY <2>4 DEF Receivers
<1>6. CASE OnClientConnect
  <2>1. PICK fd \in Fds : peer[fd] = Closed /\ peer' = [peer EXCEPT ![fd] = Client]
    BY <1>6 DEF OnClientConnect, Accept
  <2>2. Registered' = Registered /\ toMaster' = toMaster /\ orphans' = orphans
    BY <1>6 DEF OnClientConnect, Registered
  <2>3. \A gd \in Fds, s \in Slaves : peer'[gd] = s <=> peer[gd] = s
    BY <1>0, <2>1, NamesAssumption DEF NetTypeOK
  <2>4. Receivers' = Receivers /\ \A s \in Slaves : LinkOf(s)' = LinkOf(s)
    BY <1>0, <2>2, <2>3 DEF Receivers, LinkOf, NetTypeOK
  <2> QED BY <2>2, <2>4 DEF EverySlaveCopied
<1>7. ASSUME NEW fd \in Fds, OnLinkClosed(fd)
      PROVE  EverySlaveCopied'
  <2>1. CloseLink(fd) /\ Registered' = Registered \ {fd}
    BY <1>7 DEF OnLinkClosed, Unregister, Registered
  <2> QED BY <1>0, <2>1, ClosedTogether
<1>8. CASE OnTimer
  <2>1. ASSUME NEW fd \in Registered, RemoveExpired(fd)
        PROVE  EverySlaveCopied'
    <3>1. Registered' = Registered \ {fd} /\ fd \in Fds
      BY <1>0, <2>1 DEF RemoveExpired, Registered, NetTypeOK
    <3>2. CASE CloseLink(fd)
      BY <1>0, <3>1, <3>2, ClosedTogether
    <3>3. CASE orphans' = orphans \cup {fd} /\ UNCHANGED <<peer, toMaster>>
      BY <1>0, <3>1, <3>3, LinkMissed
    <3> QED BY <2>1, <3>2, <3>3 DEF RemoveExpired
  <2>2. CASE slaves' = Aged /\ UNCHANGED <<peer, toMaster, orphans>>
    BY <2>2 DEF Aged, EverySlaveCopied, Receivers, Registered, LinkOf
  <2> QED BY <1>8, <2>1, <2>2 DEF OnTimer
<1> QED
  BY <1>1, <1>2, <1>3, <1>4, <1>5, <1>6, <1>7, <1>8
     DEF Next, vars, netVars, OnLTReport, OnLTQuery, OnLTReportCopy

\* A slave that has registered and is connected is among those that are copied to,
\* unless removeExpired has removed it and left its link, whose id it reads out of
\* memory that it has freed; then that slave alone is not copied to, until it
\* connects again.
THEOREM SlavesAreCopied == Spec => []EverySlaveCopied
<1>1. Init => EverySlaveCopied
  BY NamesAssumption DEF Init, EverySlaveCopied, LinkOf
<1>2. IInv /\ RepInv /\ EverySlaveCopied /\ [Next]_vars => EverySlaveCopied'
  BY EveryCopiedStep DEF RepInv
<1> QED BY <1>1, <1>2, Inductive, RepInductive, PTL DEF Spec
=============================================================================
