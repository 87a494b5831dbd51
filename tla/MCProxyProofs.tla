---------------------------- MODULE MCProxyProofs ----------------------------
(***************************************************************************)
(* Theorems about MCProxy, for any number of clients, keys and             *)
(* descriptors, and any sizes and intervals.                               *)
(*                                                                         *)
(* The state falls into two parts that no action relates: the cache lists, *)
(* and who waits for what.  CacheInv is the inductive invariant of the     *)
(* first and rests on one lemma for each method of CacheList; AskInv is    *)
(* that of the second.  What AskInv says of clients that get no answer     *)
(* they did not ask for, or wait without a request, holds under the        *)
(* assumption that names the links that do not fail.                       *)
(***************************************************************************)
EXTENDS MCProxy, BasicFacts

\* What the lists of the cache are made of.
LiveItem == [age : 0 .. MaxAge, remain : 1 .. CacheSize, grp : Grps]

Sorted(list) == \A i, j \in DOMAIN list : i < j => list[i].age >= list[j].age

GoodList(list) == list \in Seq(LiveItem) /\ Sorted(list)

CacheInv == cache \in [Keys -> Seq(LiveItem)] /\ \A k \in Keys : Sorted(cache[k])

\* The rest of the state; a client has one connection, and is owed at most one
\* answer for a key.
AskInv ==
    /\ peer \in [Fds -> {Closed, Left} \cup Clients]
    /\ \A f, g \in Fds : peer[f] \in Clients /\ peer[f] = peer[g] => f = g
    /\ pend \in [Keys -> SUBSET Fds]
    /\ mcLink \in BOOLEAN
    /\ toMC \in Seq(Keys)
    /\ fromMC \in Seq(Answer)
    /\ seq \in 0 .. ClearInterval - 1
    /\ owed \in [Clients -> [Keys -> Int]]
    /\ given \subseteq Answer
    /\ \A c \in Clients, k \in Keys : owed[c][k] <= 1

-----------------------------------------------------------------------------
(* Lemmas about the methods of CacheList *)

LEMMA MaxAgeType == MaxAge \in Nat /\ MaxAge > CacheExpire
BY SizesAssumption DEF MaxAge

\* No item, no order to keep.
LEMMA EmptyGood == GoodList(<<>>)
BY EmptySeq DEF GoodList, Sorted

\* push_back of a new item keeps the oldest in front.
LEMMA AddGood ==
    ASSUME NEW list, GoodList(list), NEW num \in 1 .. CacheSize, NEW grp \in Grps
    PROVE  GoodList(CacheListAdd(list, num, grp))
<1> DEFINE item == [age |-> 0, remain |-> num, grp |-> grp]
           new == Append(list, item)
<1>1. item \in LiveItem
  BY MaxAgeType DEF LiveItem
<1>2. /\ new \in Seq(LiveItem)
      /\ Len(new) = Len(list) + 1
      /\ \A i \in 1 .. Len(list) : new[i] = list[i]
      /\ new[Len(list) + 1] = item
  BY <1>1, AppendProperties DEF GoodList
<1>3. Len(list) \in Nat /\ DOMAIN list = 1 .. Len(list) /\ DOMAIN new = 1 .. Len(list) + 1
  BY <1>2, LenProperties DEF GoodList
<1>4. ASSUME NEW i \in DOMAIN new, NEW j \in DOMAIN new, i < j
      PROVE  new[i].age >= new[j].age
  <2>1. i \in DOMAIN list /\ new[i] = list[i]
    BY <1>2, <1>3, <1>4
  <2>2. list[i] \in LiveItem
    BY <2>1, <1>3, ElementOfSeq DEF GoodList
  <2>3. CASE j = Len(list) + 1
    BY <1>2, <2>1, <2>2, <2>3, MaxAgeType DEF LiveItem
  <2>4. CASE j \in DOMAIN list
    BY <1>2, <1>3, <1>4, <2>1, <2>4 DEF GoodList, Sorted
  <2> QED BY <1>3, <2>3, <2>4
<1> QED BY <1>2, <1>4 DEF GoodList, Sorted, CacheListAdd

\* Taking a call from the first item, or that item with its last call.
LEMMA GetGood ==
    ASSUME NEW list, GoodList(list), list # <<>>
    PROVE  GoodList(CacheListGet(list))
<1>1. /\ Len(list) \in Nat /\ DOMAIN list = 1 .. Len(list) /\ list \in Seq(LiveItem)
      /\ Head(list) = list[1]
  BY LenProperties DEF GoodList
<1>1a. 1 \in DOMAIN list
  BY <1>1, EmptySeq
<1>2. list[1] \in LiveItem
  BY <1>1, <1>1a, ElementOfSeq
<1>3. CASE Head(list).remain - 1 <= 0
  <2>1. /\ Tail(list) \in Seq(LiveItem)
        /\ Len(Tail(list)) = Len(list) - 1
        /\ \A i \in 1 .. Len(Tail(list)) : Tail(list)[i] = list[i + 1]
    BY <1>1, HeadTailProperties
  <2>2. DOMAIN Tail(list) = 1 .. Len(list) - 1
    BY <2>1, LenProperties
  <2>3. ASSUME NEW i \in DOMAIN Tail(list), NEW j \in DOMAIN Tail(list), i < j
        PROVE  Tail(list)[i].age >= Tail(list)[j].age
    <3>1. i + 1 \in DOMAIN list /\ j + 1 \in DOMAIN list /\ i + 1 < j + 1
      BY <1>1, <2>2, <2>3
    <3>2. Tail(list)[i] = list[i + 1] /\ Tail(list)[j] = list[j + 1]
      BY <2>1, <2>2
    <3> QED BY <3>1, <3>2 DEF GoodList, Sorted
  <2> QED BY <1>3, <2>1, <2>3 DEF GoodList, Sorted, CacheListGet
<1>4. CASE ~(Head(list).remain - 1 <= 0)
  <2> DEFINE item == [list[1] EXCEPT !.remain = @ - 1]
             new == [list EXCEPT ![1] = item]
  <2>0. PICK a \in 0 .. MaxAge, r \in 1 .. CacheSize, g \in Grps :
                list[1] = [age |-> a, remain |-> r, grp |-> g]
    BY <1>2 DEF LiveItem
  <2>1. item \in LiveItem /\ item.age = list[1].age
    <3>1. item = [age |-> a, remain |-> r - 1, grp |-> g]
      BY <2>0
    <3>2. r - 1 \in 1 .. CacheSize
      BY <1>1, <1>4, <2>0, SizesAssumption
    <3> QED BY <2>0, <3>1, <3>2 DEF LiveItem
  <2>2. new \in Seq(LiveItem) /\ Len(new) = Len(list)
    BY <1>1, <1>1a, <2>1, ExceptSeq
  <2>3. DOMAIN new = DOMAIN list /\ \A i \in DOMAIN list : new[i].age = list[i].age
    BY <1>1, <1>1a, <2>1, <2>2, ExceptSeq, LenProperties
  <2>4. CacheListGet(list) = new
    BY <1>4, <1>1a DEF CacheListGet
  <2> QED BY <2>2, <2>3, <2>4 DEF GoodList, Sorted
<1> QED BY <1>3, <1>4

\* A second passes for every item alike.
LEMMA AgeGood ==
    ASSUME NEW list, GoodList(list)
    PROVE  GoodList(CacheListAge(list))
<1> DEFINE Older(item) == [item EXCEPT !.age = IF @ < MaxAge THEN @ + 1 ELSE @]
           new == CacheListAge(list)
<1>1. Len(list) \in Nat /\ DOMAIN list = 1 .. Len(list) /\ list \in Seq(LiveItem)
  BY LenProperties DEF GoodList
<1>2. new = [i \in 1 .. Len(list) |-> Older(list[i])]
  BY <1>1 DEF CacheListAge
<1>3. ASSUME NEW i \in 1 .. Len(list)
      PROVE  /\ list[i] \in LiveItem
             /\ Older(list[i]) \in LiveItem
             /\ Older(list[i]).age = IF list[i].age < MaxAge THEN list[i].age + 1 ELSE list[i].age
  <2>1. list[i] \in LiveItem
    BY <1>1, ElementOfSeq
  <2> QED BY <2>1, MaxAgeType DEF LiveItem
<1>4. new \in [1 .. Len(list) -> LiveItem]
  BY <1>2, <1>3
<1>5. new \in Seq(LiveItem)
  BY <1>1, <1>4, SeqDef
<1>6. ASSUME NEW i \in DOMAIN new, NEW j \in DOMAIN new, i < j
      PROVE  new[i].age >= new[j].age
  <2>1. i \in 1 .. Len(list) /\ j \in 1 .. Len(list)
    BY <1>2
  <2>2. list[i].age >= list[j].age
    BY <1>1, <2>1, <1>6 DEF GoodList, Sorted
  <2>3. new[i] = Older(list[i]) /\ new[j] = Older(list[j])
    BY <1>2, <2>1
  <2>4. list[i].age \in 0 .. MaxAge /\ list[j].age \in 0 .. MaxAge
    BY <1>3, <2>1 DEF LiveItem
  <2>5. /\ new[i].age = IF list[i].age < MaxAge THEN list[i].age + 1 ELSE list[i].age
        /\ new[j].age = IF list[j].age < MaxAge THEN list[j].age + 1 ELSE list[j].age
    BY <1>3, <2>1, <2>3
  <2> QED BY <2>2, <2>4, <2>5, MaxAgeType
<1> QED BY <1>5, <1>6 DEF GoodList, Sorted

\* A list without one of its items is still in order.
LEMMA RemoveGood ==
    ASSUME NEW list, GoodList(list), NEW n \in DOMAIN list
    PROVE  GoodList(RemoveAt(list, n))
<1> DEFINE front == SubSeq(list, 1, n - 1)
           back == SubSeq(list, n + 1, Len(list))
           new == front \o back
           Old(i) == IF i < n THEN i ELSE i + 1
<1>1. Len(list) \in Nat /\ DOMAIN list = 1 .. Len(list) /\ list \in Seq(LiveItem)
      /\ n \in 1 .. Len(list)
  BY LenProperties DEF GoodList
<1>2. \A i \in 1 .. Len(list) : list[i] \in LiveItem
  BY <1>1, ElementOfSeq
<1>3. /\ front \in Seq(LiveItem)
      /\ Len(front) = n - 1
      /\ \A i \in 1 .. n - 1 : front[i] = list[i]
  <2>1. \A i \in 1 .. n - 1 : list[i] \in LiveItem
    BY <1>1, <1>2
  <2> QED BY <1>1, <2>1, SubSeqProperties
<1>4. /\ back \in Seq(LiveItem)
      /\ Len(back) = Len(list) - n
      /\ \A i \in 1 .. Len(list) - n : back[i] = list[n + i]
  <2>1. \A i \in n + 1 .. Len(list) : list[i] \in LiveItem
    BY <1>1, <1>2
  <2> DEFINE m == n + 1
             e == Len(list)
  <2>2. m \in Int /\ e \in Int /\ \A i \in m .. e : list[i] \in LiveItem
    BY <1>1, <2>1
  <2>3. e - m + 1 = Len(list) - n /\ (m <= e \/ Len(list) - n = 0)
    BY <1>1
  <2>4. \A i \in 1 .. Len(list) - n : m + i - 1 = n + i
    BY <1>1
  <2>5. back = SubSeq(list, m, e)
    OBVIOUS
  <2> HIDE DEF m, e, back
  <2>6. /\ SubSeq(list, m, e) \in Seq(LiveItem)
        /\ Len(SubSeq(list, m, e)) = IF m <= e THEN e - m + 1 ELSE 0
        /\ \A i \in 1 .. e - m + 1 : SubSeq(list, m, e)[i] = list[m + i - 1]
    BY <2>2, SubSeqProperties
  <2> QED BY <1>1, <2>2, <2>3, <2>4, <2>5, <2>6
<1>5. /\ new \in Seq(LiveItem)
      /\ Len(new) = Len(list) - 1
      /\ \A i \in 1 .. Len(list) - 1 : new[i] = IF i <= n - 1 THEN front[i] ELSE back[i - (n - 1)]
  <2>1. Len(front) + Len(back) = Len(list) - 1
    BY <1>1, <1>3, <1>4
  <2> HIDE DEF front, back
  <2>2. /\ front \o back \in Seq(LiveItem)
        /\ Len(front \o back) = Len(front) + Len(back)
        /\ \A i \in 1 .. Len(front) + Len(back) :
              (front \o back)[i] = IF i <= Len(front) THEN front[i] ELSE back[i - Len(front)]
    BY <1>3, <1>4, ConcatProperties
  <2> QED BY <1>3, <2>1, <2>2
<1>6. DOMAIN new = 1 .. Len(list) - 1
  BY <1>5, LenProperties
<1> HIDE DEF front, back, new
<1>7. ASSUME NEW i \in 1 .. Len(list) - 1
      PROVE  Old(i) \in DOMAIN list /\ new[i] = list[Old(i)]
  <2>1. CASE i < n
    <3>1. i <= n - 1 /\ i \in 1 .. n - 1 /\ i \in 1 .. Len(list)
      BY <1>1, <2>1
    <3>2. new[i] = front[i] /\ front[i] = list[i]
      BY <1>3, <1>5, <3>1
    <3> QED BY <1>1, <2>1, <3>1, <3>2
  <2>2. CASE ~(i < n)
    <3>1. i - (n - 1) \in 1 .. Len(list) - n /\ n + (i - (n - 1)) = i + 1
      BY <1>1, <2>2
    <3> QED BY <1>1, <1>4, <1>5, <2>2, <3>1
  <2> QED BY <2>1, <2>2
<1>8. ASSUME NEW i \in DOMAIN new, NEW j \in DOMAIN new, i < j
      PROVE  new[i].age >= new[j].age
  <2>1. i \in 1 .. Len(list) - 1 /\ j \in 1 .. Len(list) - 1
    BY <1>6
  <2>2. Old(i) < Old(j)
    BY <1>1, <1>8, <2>1
  <2>3. Old(i) \in DOMAIN list /\ Old(j) \in DOMAIN list
    BY <1>7, <2>1
  <2>4. new[i] = list[Old(i)] /\ new[j] = list[Old(j)]
    BY <1>7, <2>1
  <2> HIDE DEF Old
  <2> QED BY <2>2, <2>3, <2>4 DEF GoodList, Sorted
<1>9. RemoveAt(list, n) = new
  BY DEF RemoveAt, new, front, back
<1> QED BY <1>5, <1>8, <1>9 DEF GoodList, Sorted

\* clearExpire removes one item, or none.
LEMMA ClearExpireGood ==
    ASSUME NEW list, GoodList(list)
    PROVE  GoodList(CacheListClearExpire(list))
<1>1. CASE \E i \in DOMAIN list : FirstExpired(list, i)
  <2> DEFINE n == CHOOSE i \in DOMAIN list : FirstExpired(list, i)
  <2>1. n \in DOMAIN list
    BY <1>1
  <2> QED BY <1>1, <2>1, RemoveGood DEF CacheListClearExpire
<1>2. CASE ~\E i \in DOMAIN list : FirstExpired(list, i)
  BY <1>2 DEF CacheListClearExpire
<1> QED BY <1>1, <1>2

-----------------------------------------------------------------------------
(* The cache *)

LEMMA CacheInvInit == Init => CacheInv
BY EmptyGood DEF Init, CacheInv, GoodList

\* The next answer is about a key, and leaves answers behind.
LEMMA HeadAnswer ==
    ASSUME AskInv, fromMC # <<>>
    PROVE  /\ Head(fromMC) \in Answer /\ Head(fromMC).key \in Keys
           /\ Head(fromMC).grp \in Grps \cup {NoGrp}
           /\ Tail(fromMC) \in Seq(Answer)
<1>1. fromMC \in Seq(Answer)
  BY DEF AskInv
<1>2. Head(fromMC) \in Answer /\ Tail(fromMC) \in Seq(Answer)
  BY <1>1, HeadTailProperties
<1> QED BY <1>2 DEF Answer

\* Whatever a step does, each list it touches went through one method.
LEMMA CacheInvNext == CacheInv /\ AskInv /\ [Next]_vars => CacheInv'
<1> SUFFICES ASSUME CacheInv, AskInv, [Next]_vars
             PROVE  CacheInv'
  OBVIOUS
<1>1. \A k \in Keys : GoodList(cache[k])
  BY DEF CacheInv, GoodList
<1>2. CASE UNCHANGED cache
  BY <1>2 DEF CacheInv
<1>3. ASSUME NEW c \in Clients, NEW k \in Keys, OnMCAllocReq(c, k)
      PROVE  CacheInv'
  <2>1. CASE cache[k] # <<>> /\ cache' = [cache EXCEPT ![k] = CacheListGet(@)]
    <3>1. GoodList(CacheListGet(cache[k]))
      BY <1>1, <2>1, GetGood
    <3> QED BY <2>1, <3>1 DEF CacheInv, GoodList
  <2> QED BY <1>2, <1>3, <2>1 DEF OnMCAllocReq
<1>4. CASE OnMCPreAllocRes
  <2> DEFINE k == Head(fromMC).key
             g == Head(fromMC).grp
  <2>1. CASE g # NoGrp /\ cache' = [cache EXCEPT ![k] = CacheListAdd(@, CacheSize, g)]
    <3>1. k \in Keys /\ g \in Grps
      BY <1>4, <2>1, HeadAnswer DEF OnMCPreAllocRes
    <3>2. GoodList(CacheListAdd(cache[k], CacheSize, g))
      BY <1>1, <3>1, AddGood, SizesAssumption
    <3> HIDE DEF k, g
    <3> QED BY <2>1, <3>1, <3>2 DEF CacheInv, GoodList
  <2>2. \/ g # NoGrp /\ cache' = [cache EXCEPT ![k] = CacheListAdd(@, CacheSize, g)]
        \/ UNCHANGED cache
    BY <1>4 DEF OnMCPreAllocRes
  <2> QED BY <1>2, <2>1, <2>2
<1>5. CASE OnTimer
  <2>1. \A k \in Keys : /\ GoodList(CacheListAge(cache[k]))
                        /\ GoodList(CacheListClearExpire(CacheListAge(cache[k])))
    BY <1>1, AgeGood, ClearExpireGood
  <2> QED BY <1>5, <2>1 DEF OnTimer, CacheInv, GoodList
<1> QED BY <1>2, <1>3, <1>4, <1>5 DEF Next, vars, OnConnect, OnClientEof, OnClientError,
        OnMCLost, OnMCReconnect, MCenterAnswers

-----------------------------------------------------------------------------
(* Who waits for what *)

\* Nothing is said of an empty queue but its type.
LEMMA EmptyQueues == <<>> \in Seq(Keys) /\ <<>> \in Seq(Answer)
BY EmptySeq

LEMMA AskInvInit == Init => AskInv
BY EmptyQueues, SizesAssumption, NamesAssumption DEF Init, AskInv

LEMMA SendMCType ==
    ASSUME AskInv, NEW k \in Keys, SendMC(k)
    PROVE  toMC' \in Seq(Keys)
BY AppendProperties DEF AskInv, SendMC

LEMMA AskInvNext == CacheInv /\ AskInv /\ [Next]_vars => AskInv'
<1> SUFFICES ASSUME CacheInv, AskInv, [Next]_vars
             PROVE  AskInv'
  OBVIOUS
<1>1. ASSUME NEW c \in Clients, NEW k \in Keys, OnMCAllocReq(c, k)
      PROVE  AskInv'
  <2>1. toMC' \in Seq(Keys)
    <3>1. SendMC(k) \/ UNCHANGED toMC
      BY <1>1 DEF OnMCAllocReq
    <3> QED BY <3>1, SendMCType DEF AskInv
  <2>2. PICK fd \in Fds : UNCHANGED pend \/ pend' = [pend EXCEPT ![k] = @ \cup {fd}]
    BY <1>1 DEF OnMCAllocReq, LinkOf
  <2>3. pend' \in [Keys -> SUBSET Fds]
    <3>1. pend[k] \cup {fd} \in SUBSET Fds
      BY DEF AskInv
    <3> QED BY <2>2, <3>1 DEF AskInv
  <2>4. UNCHANGED owed \/ owed' = [owed EXCEPT ![c][k] = 1]
    BY <1>1 DEF OnMCAllocReq
  <2>5. /\ owed' \in [Clients -> [Keys -> Int]]
        /\ \A d \in Clients, j \in Keys : owed'[d][j] <= 1
    <3>1. CASE UNCHANGED owed
      BY <3>1 DEF AskInv
    <3>2. CASE owed' = [owed EXCEPT ![c][k] = 1]
      BY <3>2 DEF AskInv
    <3> QED BY <2>4, <3>1, <3>2
  <2>6. given' \subseteq Answer
    <3>1. CASE given' = {}
      BY <3>1
    <3>2. CASE cache[k] # <<>> /\ given' = {[key |-> k, grp |-> Head(cache[k]).grp]}
      <4>1. Head(cache[k]) \in LiveItem
        BY <3>2, HeadTailProperties DEF CacheInv
      <4> QED BY <3>2, <4>1 DEF LiveItem, Answer
    <3> QED BY <1>1, <3>1, <3>2 DEF OnMCAllocReq
  <2> QED BY <1>1, <2>1, <2>3, <2>5, <2>6 DEF OnMCAllocReq, AskInv
<1>2. CASE OnMCPreAllocRes
  <2> DEFINE k == Head(fromMC).key
  <2>1. k \in Keys /\ Tail(fromMC) \in Seq(Answer) /\ Head(fromMC) \in Answer
    BY <1>2, HeadAnswer DEF OnMCPreAllocRes
  <2>2. /\ AnswerAll(pend[k], Head(fromMC)) /\ k = Head(fromMC).key
        /\ pend' = [pend EXCEPT ![k] = {}]
        /\ fromMC' = Tail(fromMC)
        /\ UNCHANGED <<peer, mcLink, toMC, seq>>
    BY <1>2 DEF OnMCPreAllocRes
  <2> HIDE DEF k
  <2>3. /\ owed' \in [Clients -> [Keys -> Int]]
        /\ \A d \in Clients, j \in Keys : owed'[d][j] <= 1
    BY <2>1, <2>2, SizesAssumption DEF AnswerAll, AskInv
  <2>4. given' \subseteq Answer
    BY <2>1, <2>2 DEF AnswerAll
  <2> QED BY <2>1, <2>2, <2>3, <2>4 DEF AskInv
<1>3. ASSUME NEW c \in Clients, OnConnect(c)
      PROVE  AskInv'
  <2>1. PICK fd \in Fds : peer[fd] = Closed /\ peer' = [peer EXCEPT ![fd] = c]
    BY <1>3 DEF OnConnect
  <2>2. \A g \in Fds : peer[g] # c
    BY <1>3 DEF OnConnect, LinkOf
  <2>3. peer' \in [Fds -> {Closed, Left} \cup Clients]
    BY <2>1 DEF AskInv
  <2>4. \A f, g \in Fds : peer'[f] \in Clients /\ peer'[f] = peer'[g] => f = g
    <3> SUFFICES ASSUME NEW f \in Fds, NEW g \in Fds, peer'[f] \in Clients, peer'[f] = peer'[g]
                 PROVE  f = g
      OBVIOUS
    <3> QED BY <2>1, <2>2, NamesAssumption DEF AskInv
  <2>5. UNCHANGED <<pend, mcLink, toMC, fromMC, seq, owed>> /\ given' = {}
    BY <1>3 DEF OnConnect
  <2> QED BY <2>3, <2>4, <2>5 DEF AskInv
<1>4. ASSUME NEW c \in Clients, OnClientEof(c)
      PROVE  AskInv'
  <2>1. PICK fd \in Fds : peer' = [peer EXCEPT ![fd] = Left]
    BY <1>4 DEF OnClientEof, LinkOf
  <2>2. /\ peer' \in [Fds -> {Closed, Left} \cup Clients]
        /\ \A f, g \in Fds : peer'[f] \in Clients /\ peer'[f] = peer'[g] => f = g
    BY <2>1, NamesAssumption DEF AskInv
  <2>3. /\ owed' \in [Clients -> [Keys -> Int]]
        /\ \A d \in Clients, j \in Keys : owed'[d][j] <= 1
    <3>1. owed' = ForgottenBy(c)
      BY <1>4 DEF OnClientEof
    <3> QED BY <3>1, SizesAssumption DEF AskInv, ForgottenBy
  <2>4. UNCHANGED <<pend, mcLink, toMC, fromMC, seq>> /\ given' = {}
    BY <1>4 DEF OnClientEof
  <2> QED BY <2>2, <2>3, <2>4 DEF AskInv
<1>5. ASSUME NEW fd \in Fds, OnClientError(fd)
      PROVE  AskInv'
  BY <1>5, NamesAssumption, SizesAssumption DEF OnClientError, AskInv, ForgottenBy
<1>6. CASE OnMCLost
  BY <1>6, EmptyQueues DEF OnMCLost, AskInv
<1>7. CASE OnMCReconnect
  BY <1>7 DEF OnMCReconnect, AskInv
<1>8. CASE OnTimer
  BY <1>8, SizesAssumption DEF OnTimer, AskInv
<1>9. ASSUME NEW grp \in Grps \cup {NoGrp}, MCenterAnswers(grp)
      PROVE  AskInv'
  <2>1. Head(toMC) \in Keys /\ Tail(toMC) \in Seq(Keys)
    BY <1>9, HeadTailProperties DEF MCenterAnswers, AskInv
  <2>2. [key |-> Head(toMC), grp |-> grp] \in Answer
    BY <2>1 DEF Answer
  <2>3. fromMC' \in Seq(Answer)
    BY <1>9, <2>2, AppendProperties DEF MCenterAnswers, AskInv
  <2> QED BY <1>9, <2>1, <2>3 DEF MCenterAnswers, AskInv
<1>10. CASE UNCHANGED vars
  BY <1>10 DEF vars, AskInv
<1> QED BY <1>1, <1>2, <1>3, <1>4, <1>5, <1>6, <1>7, <1>8, <1>9, <1>10 DEF Next

-----------------------------------------------------------------------------
(* The theorems that hold whatever fails *)

LEMMA Inductive == Spec => [](CacheInv /\ AskInv)
<1>1. Init => CacheInv /\ AskInv
  BY CacheInvInit, AskInvInit
<1>2. CacheInv /\ AskInv /\ [Next]_vars => (CacheInv /\ AskInv)'
  BY CacheInvNext, AskInvNext
<1> QED BY <1>1, <1>2, PTL DEF Spec

HistoryInv == removed \in BOOLEAN /\ lost \in BOOLEAN

LEMMA History == Spec => []HistoryInv
<1>1. Init => HistoryInv
  BY DEF Init, HistoryInv
<1>2. HistoryInv /\ [Next]_vars => HistoryInv'
  BY DEF HistoryInv, Next, vars, OnMCAllocReq, OnMCPreAllocRes, OnConnect, OnClientEof,
         OnClientError, OnMCLost, OnMCReconnect, OnTimer, MCenterAnswers
<1> QED BY <1>1, <1>2, PTL DEF Spec

\* The state of mcproxy_d is always of the types that its maps and lists have.
THEOREM TypeCorrect == Spec => []TypeOK
<1>1. CacheInv /\ AskInv /\ HistoryInv => TypeOK
  <2>1. LiveItem \subseteq Item
    BY SizesAssumption DEF LiveItem, Item
  <2>2. \A list \in Seq(LiveItem) : list \in Seq(Item)
    BY <2>1, SeqMonotonic
  <2> QED BY <2>2 DEF CacheInv, AskInv, HistoryInv, TypeOK
<1> QED BY <1>1, Inductive, History, PTL

\* CacheList::get never meets an item without a call left, the branch that
\* its own log calls a critical issue.
THEOREM NoItemIsEmpty == Spec => []NoEmptyItem
<1>1. CacheInv => NoEmptyItem
  <2> SUFFICES ASSUME CacheInv, NEW k \in Keys, NEW i \in DOMAIN cache[k]
               PROVE  cache[k][i].remain \in 1 .. CacheSize
    BY DEF NoEmptyItem
  <2>1. cache[k] \in Seq(LiveItem)
    BY DEF CacheInv
  <2>2. cache[k][i] \in LiveItem
    BY <2>1, LenProperties, ElementOfSeq
  <2> QED BY <2>2 DEF LiveItem
<1> QED BY <1>1, Inductive, PTL

\* Each list of the cache has its oldest item first, so that what clearExpire
\* finds first is what has been kept longest.
THEOREM OldestIsFirst == Spec => []OldestFirst
<1>1. CacheInv => OldestFirst
  BY DEF CacheInv, OldestFirst, Sorted
<1> QED BY <1>1, Inductive, PTL

-----------------------------------------------------------------------------
(* The theorems about who is answered *)

\* Who is pending stays so while the links of the clients stay.
LEMMA StillPending ==
    ASSUME AskInv, WaitingIsPending, UNCHANGED <<pend, owed>>,
           \A g \in Fds : peer[g] \in Clients => peer'[g] = peer[g]
    PROVE  WaitingIsPending'
<1> SUFFICES ASSUME NEW c \in Clients, NEW k \in Keys, owed[c][k] > 0
             PROVE  \E g \in pend[k] : peer'[g] = c
  BY DEF WaitingIsPending
<1>1. PICK g \in pend[k] : peer[g] = c
  BY DEF WaitingIsPending
<1>2. g \in Fds
  BY DEF AskInv
<1>3. peer'[g] = c
  BY <1>1, <1>2
<1> QED BY <1>3

LEMMA WaitingNext ==
    ASSUME AskInv, WaitingIsPending, [Next]_vars
    PROVE  WaitingIsPending'
<1>1. ASSUME NEW c \in Clients, NEW k \in Keys, OnMCAllocReq(c, k)
      PROVE  WaitingIsPending'
  <2>1. CASE UNCHANGED <<pend, owed>>
    BY <1>1, <2>1 DEF OnMCAllocReq, WaitingIsPending
  <2>2. ASSUME NEW fd \in LinkOf(c),
               pend' = [pend EXCEPT ![k] = @ \cup {fd}],
               owed' = [owed EXCEPT ![c][k] = 1]
        PROVE  WaitingIsPending'
    <3>1. UNCHANGED peer /\ peer[fd] = c /\ fd \in Fds
      BY <1>1 DEF OnMCAllocReq, LinkOf
    <3>2. \A d \in Clients, j \in Keys :
            owed'[d][j] = IF d = c /\ j = k THEN 1 ELSE owed[d][j]
      BY <2>2 DEF AskInv
    <3>3. \A j \in Keys : pend'[j] = IF j = k THEN pend[k] \cup {fd} ELSE pend[j]
      BY <2>2 DEF AskInv
    <3> QED BY <3>1, <3>2, <3>3 DEF WaitingIsPending
  <2> QED BY <1>1, <2>1, <2>2 DEF OnMCAllocReq
<1>2. CASE OnMCPreAllocRes
  <2> DEFINE k == Head(fromMC).key
  <2>1. k \in Keys /\ AnswerAll(pend[k], Head(fromMC)) /\ k = Head(fromMC).key
        /\ pend' = [pend EXCEPT ![k] = {}] /\ UNCHANGED peer
    BY <1>2, HeadAnswer DEF OnMCPreAllocRes
  <2> HIDE DEF k
  <2> SUFFICES ASSUME NEW c \in Clients, NEW j \in Keys, owed'[c][j] > 0
               PROVE  \E fd \in pend'[j] : peer'[fd] = c
    BY DEF WaitingIsPending
  <2>2. CASE j = k
    <3>1. owed[c][k] \in Int /\ owed[c][k] <= 1
      BY <2>1 DEF AskInv
    <3>2. owed'[c][k] = IF \E fd \in pend[k] : peer[fd] = c THEN owed[c][k] - 1 ELSE owed[c][k]
      BY <2>1 DEF AnswerAll, AskInv
    <3>3. owed[c][k] > 0 => \E fd \in pend[k] : peer[fd] = c
      BY <2>1 DEF WaitingIsPending
    <3> QED BY <2>2, <3>1, <3>2, <3>3
  <2>3. CASE j # k
    <3>1. owed'[c][j] = owed[c][j] /\ pend'[j] = pend[j]
      BY <2>1, <2>3 DEF AnswerAll, AskInv
    <3> QED BY <2>1, <3>1 DEF WaitingIsPending
  <2> QED BY <2>2, <2>3
<1>3. ASSUME NEW c \in Clients, OnConnect(c)
      PROVE  WaitingIsPending'
  <2>1. PICK fd \in Fds : peer[fd] = Closed /\ peer' = [peer EXCEPT ![fd] = c]
    BY <1>3 DEF OnConnect
  <2>2. \A g \in Fds : peer[g] \in Clients => peer'[g] = peer[g]
    BY <2>1, NamesAssumption DEF AskInv
  <2>3. UNCHANGED <<pend, owed>>
    BY <1>3 DEF OnConnect
  <2> QED BY <2>2, <2>3, StillPending
<1>4. ASSUME NEW c \in Clients, NEW fd \in Fds, NEW w, peer[fd] = c,
             peer' = [peer EXCEPT ![fd] = w], owed' = ForgottenBy(c), UNCHANGED pend
      PROVE  WaitingIsPending'
  <2> SUFFICES ASSUME NEW d \in Clients, NEW j \in Keys, owed'[d][j] > 0
               PROVE  \E g \in pend'[j] : peer'[g] = d
    BY DEF WaitingIsPending
  <2>1. d # c /\ owed[d][j] > 0
    <3>1. owed'[d][j] = IF d = c THEN 0 ELSE owed[d][j]
      BY <1>4 DEF ForgottenBy, AskInv
    <3> QED BY <3>1
  <2>2. PICK g \in pend[j] : peer[g] = d
    BY <2>1 DEF WaitingIsPending
  <2>3. g \in Fds /\ peer'[g] = d
    BY <1>4, <2>1, <2>2 DEF AskInv
  <2>4. g \in pend'[j]
    BY <1>4, <2>2
  <2> QED BY <2>3, <2>4
<1>5. ASSUME NEW c \in Clients, OnClientEof(c)
      PROVE  WaitingIsPending'
  BY <1>4, <1>5 DEF OnClientEof, LinkOf
<1>6. ASSUME NEW fd \in Fds, OnClientError(fd)
      PROVE  WaitingIsPending'
  <2>1. CASE peer[fd] \in Clients
    BY <1>4, <1>6, <2>1 DEF OnClientError
  <2>2. CASE peer[fd] \notin Clients
    <3>1. UNCHANGED <<pend, owed>> /\ peer' = [peer EXCEPT ![fd] = Closed]
      BY <1>6, <2>2 DEF OnClientError
    <3>2. \A g \in Fds : peer[g] \in Clients => peer'[g] = peer[g]
      BY <2>2, <3>1 DEF AskInv
    <3> QED BY <3>1, <3>2, StillPending
  <2> QED BY <2>1, <2>2
<1>7. CASE UNCHANGED <<peer, pend, owed>>
  BY <1>7 DEF WaitingIsPending
<1> QED BY <1>1, <1>2, <1>3, <1>5, <1>6, <1>7 DEF Next, vars, OnMCLost, OnMCReconnect,
        OnTimer, MCenterAnswers

\* A client is in PendList for a key from the first request for it that misses the
\* cache until it is answered, however often it asks meanwhile.
THEOREM WaitingArePending == Spec => []WaitingIsPending
<1>1. Init => WaitingIsPending
  BY DEF Init, WaitingIsPending
<1>2. AskInv /\ WaitingIsPending /\ [Next]_vars => WaitingIsPending'
  BY WaitingNext
<1> QED BY <1>1, <1>2, Inductive, PTL DEF Spec

\* What keeps answers with those who asked: a descriptor in PendList is open,
\* and the client at its other end waits for the key.
PendingInv ==
    \A k \in Keys : \A fd \in pend[k] :
        /\ peer[fd] # Closed
        /\ \A c \in Clients : peer[fd] = c => owed[c][k] >= 1

OwedInv == \A c \in Clients, k \in Keys : owed[c][k] >= 0

\* A descriptor that has been closed is not taken back.
LEMMA RemovedStays == [Next]_vars => (removed => removed')
BY DEF Next, vars, OnMCAllocReq, OnMCPreAllocRes, OnConnect, OnClientEof, OnClientError,
       OnMCLost, OnMCReconnect, OnTimer, MCenterAnswers

LEMMA AnswersNext ==
    ASSUME ~removed', AskInv, OwedInv, PendingInv, [Next]_vars
    PROVE  OwedInv' /\ PendingInv'
<1>1. ASSUME NEW c \in Clients, NEW k \in Keys, OnMCAllocReq(c, k)
      PROVE  OwedInv' /\ PendingInv'
  <2>1. CASE UNCHANGED <<pend, owed>>
    BY <1>1, <2>1 DEF OnMCAllocReq, OwedInv, PendingInv
  <2>2. ASSUME NEW fd \in LinkOf(c),
               pend' = [pend EXCEPT ![k] = @ \cup {fd}],
               owed' = [owed EXCEPT ![c][k] = 1]
        PROVE  OwedInv' /\ PendingInv'
    <3>1. UNCHANGED peer /\ peer[fd] = c /\ fd \in Fds
      BY <1>1 DEF OnMCAllocReq, LinkOf
    <3>2. \A d \in Clients, j \in Keys :
            owed'[d][j] = IF d = c /\ j = k THEN 1 ELSE owed[d][j]
      BY <2>2 DEF AskInv
    <3>3. \A j \in Keys : pend'[j] = IF j = k THEN pend[k] \cup {fd} ELSE pend[j]
      BY <2>2 DEF AskInv
    <3>4. \A d \in Clients, j \in Keys : owed[d][j] \in Int /\ owed[d][j] >= 0
      BY DEF AskInv, OwedInv
    <3>5. \A d \in Clients, j \in Keys : owed'[d][j] \in Int /\ owed'[d][j] >= owed[d][j]
      BY <3>2, <3>4 DEF AskInv
    <3>6. owed'[c][k] >= 1
      BY <3>2, <3>4
    <3>7. OwedInv'
      BY <3>4, <3>5 DEF OwedInv
    <3>8. ASSUME NEW j \in Keys, NEW g \in pend[j]
          PROVE  /\ peer[g] # Closed
                 /\ \A d \in Clients : peer[g] = d => owed'[d][j] >= 1
      BY <3>4, <3>5, <3>8 DEF PendingInv
    <3> QED BY <3>1, <3>3, <3>6, <3>7, <3>8, NamesAssumption DEF PendingInv
  <2> QED BY <1>1, <2>1, <2>2 DEF OnMCAllocReq
<1>2. CASE OnMCPreAllocRes
  <2> DEFINE k == Head(fromMC).key
  <2>1. k \in Keys /\ AnswerAll(pend[k], Head(fromMC)) /\ k = Head(fromMC).key
        /\ pend' = [pend EXCEPT ![k] = {}] /\ UNCHANGED peer
    BY <1>2, HeadAnswer DEF OnMCPreAllocRes
  <2> HIDE DEF k
  <2>2. \A c \in Clients, j \in Keys :
          owed'[c][j] = IF j = k /\ \E fd \in pend[k] : peer[fd] = c THEN owed[c][j] - 1
                        ELSE owed[c][j]
    BY <2>1 DEF AnswerAll, AskInv
  <2>3. \A c \in Clients, j \in Keys : owed[c][j] \in Int /\ owed[c][j] >= 0
    BY DEF AskInv, OwedInv
  <2>4. OwedInv'
    <3> SUFFICES ASSUME NEW c \in Clients, NEW j \in Keys
                 PROVE  owed'[c][j] >= 0
      BY DEF OwedInv
    <3>1. CASE j = k /\ \E fd \in pend[k] : peer[fd] = c
      <4>1. owed[c][k] >= 1
        BY <2>1, <3>1 DEF PendingInv
      <4> QED BY <2>2, <2>3, <3>1, <4>1
    <3>2. CASE ~(j = k /\ \E fd \in pend[k] : peer[fd] = c)
      BY <2>2, <2>3, <3>2
    <3> QED BY <3>1, <3>2
  <2>5. \A j \in Keys : pend'[j] = IF j = k THEN {} ELSE pend[j]
    BY <2>1 DEF AskInv
  <2>6. \A c \in Clients, j \in Keys : j # k => owed'[c][j] = owed[c][j]
    BY <2>2
  <2> QED BY <2>1, <2>4, <2>5, <2>6 DEF PendingInv
<1>3. ASSUME NEW c \in Clients, OnConnect(c)
      PROVE  OwedInv' /\ PendingInv'
  <2>1. PICK fd \in Fds : peer[fd] = Closed /\ peer' = [peer EXCEPT ![fd] = c]
    BY <1>3 DEF OnConnect
  <2>2. UNCHANGED <<pend, owed>>
    BY <1>3 DEF OnConnect
  <2>3. \A j \in Keys : \A g \in pend[j] : g \in Fds /\ peer'[g] = peer[g]
    BY <2>1 DEF PendingInv, AskInv
  <2> QED BY <2>2, <2>3 DEF OwedInv, PendingInv
<1>4. ASSUME NEW c \in Clients, OnClientEof(c)
      PROVE  OwedInv' /\ PendingInv'
  <2>1. PICK fd \in Fds : peer[fd] = c /\ peer' = [peer EXCEPT ![fd] = Left]
    BY <1>4 DEF OnClientEof, LinkOf
  <2>2. \A d \in Clients, j \in Keys : owed'[d][j] = IF d = c THEN 0 ELSE owed[d][j]
    BY <1>4 DEF OnClientEof, ForgottenBy, AskInv
  <2>3. UNCHANGED pend
    BY <1>4 DEF OnClientEof
  <2>4. ASSUME NEW j \in Keys, NEW g \in pend[j], NEW d \in Clients, peer'[g] = d
        PROVE  d # c /\ peer[g] = d
    <3>1. g \in Fds
      BY DEF AskInv
    <3>2. g # fd /\ peer[g] = d
      BY <2>1, <2>4, <3>1, NamesAssumption DEF AskInv
    <3> QED BY <2>1, <3>1, <3>2 DEF AskInv
  <2>5. \A j \in Keys : \A g \in pend[j] : peer'[g] # Closed
    BY <2>1, NamesAssumption DEF PendingInv, AskInv
  <2>6. OwedInv'
    BY <2>2 DEF OwedInv
  <2> QED BY <2>2, <2>3, <2>4, <2>5, <2>6 DEF PendingInv
<1>5. CASE UNCHANGED <<peer, pend, owed>>
  BY <1>5 DEF OwedInv, PendingInv
<1> QED BY <1>1, <1>2, <1>3, <1>4, <1>5 DEF Next, vars, OnMCLost, OnMCReconnect,
        OnTimer, MCenterAnswers, OnClientError

\* Until a descriptor is closed, and may be given to somebody else, nobody gets
\* an answer that was not asked for (NetLoop::remove leaves PendList alone).
THEOREM AnswersWereAsked == Spec => []NoAnswerUnasked
<1>1. Init => OwedInv /\ PendingInv
  BY DEF Init, OwedInv, PendingInv
<1>2. AskInv /\ (~removed => OwedInv /\ PendingInv) /\ [Next]_vars
        => (~removed => OwedInv /\ PendingInv)'
  BY AnswersNext, RemovedStays
<1>3. (~removed => OwedInv /\ PendingInv) => NoAnswerUnasked
  BY DEF OwedInv, NoAnswerUnasked
<1> QED BY <1>1, <1>2, <1>3, Inductive, PTL DEF Spec

\* The keys that mcenter has been asked for and whose answers are not handled.
Asked == ToSet(toMC) \cup {r.key : r \in ToSet(fromMC)}

RequestInv == mcLink /\ \A k \in Keys : pend[k] # {} => k \in Asked

\* A link that has been lost has been lost.
LEMMA LostStays == [Next]_vars => (lost => lost')
BY DEF Next, vars, OnMCAllocReq, OnMCPreAllocRes, OnConnect, OnClientEof, OnClientError,
       OnMCLost, OnMCReconnect, OnTimer, MCenterAnswers

LEMMA RequestNext ==
    ASSUME ~lost', AskInv, RequestInv, [Next]_vars
    PROVE  RequestInv'
<1>1. toMC \in Seq(Keys) /\ fromMC \in Seq(Answer)
  BY DEF AskInv
<1>2. ASSUME NEW c \in Clients, NEW k \in Keys, OnMCAllocReq(c, k)
      PROVE  RequestInv'
  <2>1. UNCHANGED <<mcLink, fromMC>> /\ (SendMC(k) \/ UNCHANGED toMC)
    BY <1>2 DEF OnMCAllocReq
  <2>2. SendMC(k) => ToSet(toMC)' = ToSet(toMC) \cup {k}
    BY <1>1, AppendHolds DEF SendMC, RequestInv
  <2>3. Asked \subseteq Asked'
    BY <2>1, <2>2 DEF Asked
  <2>4. CASE UNCHANGED pend
    BY <2>1, <2>3, <2>4 DEF RequestInv
  <2>5. ASSUME SendMC(k), NEW fd, pend' = [pend EXCEPT ![k] = @ \cup {fd}]
        PROVE  RequestInv'
    <3>1. k \in Asked'
      BY <2>2, <2>5 DEF Asked
    <3>2. \A j \in Keys : j # k => pend'[j] = pend[j]
      BY <2>5 DEF AskInv
    <3> QED BY <2>1, <2>3, <3>1, <3>2 DEF RequestInv
  <2> QED BY <1>2, <2>4, <2>5 DEF OnMCAllocReq
<1>3. CASE OnMCPreAllocRes
  <2> DEFINE k == Head(fromMC).key
  <2>1. /\ pend' = [pend EXCEPT ![k] = {}]
        /\ fromMC # <<>> /\ fromMC' = Tail(fromMC) /\ UNCHANGED <<mcLink, toMC>>
    BY <1>3 DEF OnMCPreAllocRes
  <2>2. ToSet(fromMC) = ToSet(fromMC') \cup {Head(fromMC)}
    BY <1>1, <2>1, TailHolds
  <2>3. Asked \subseteq Asked' \cup {k}
    BY <2>1, <2>2 DEF Asked
  <2> HIDE DEF k
  <2>4. \A j \in Keys : pend'[j] = IF j = k THEN {} ELSE pend[j]
    BY <2>1 DEF AskInv
  <2> QED BY <2>1, <2>3, <2>4 DEF RequestInv
<1>4. ASSUME NEW grp \in Grps \cup {NoGrp}, MCenterAnswers(grp)
      PROVE  RequestInv'
  <2> DEFINE res == [key |-> Head(toMC), grp |-> grp]
  <2>1. /\ toMC # <<>> /\ toMC' = Tail(toMC) /\ fromMC' = Append(fromMC, res)
        /\ UNCHANGED <<mcLink, pend>>
    BY <1>4 DEF MCenterAnswers
  <2>2. ToSet(toMC) = ToSet(toMC') \cup {Head(toMC)}
    BY <1>1, <2>1, TailHolds
  <2>3. res \in Answer /\ res.key = Head(toMC)
    BY <1>1, <2>1, HeadTailProperties DEF Answer
  <2>4. ToSet(fromMC') = ToSet(fromMC) \cup {res}
    BY <1>1, <2>1, <2>3, AppendHolds
  <2>5. Asked \subseteq Asked'
    BY <2>2, <2>3, <2>4 DEF Asked
  <2> QED BY <2>1, <2>5 DEF RequestInv
<1>5. CASE UNCHANGED <<pend, mcLink, toMC, fromMC>>
  BY <1>5 DEF RequestInv, Asked
<1> QED BY <1>2, <1>3, <1>4, <1>5 DEF Next, vars, OnMCLost, OnMCReconnect, OnTimer,
        OnConnect, OnClientEof, OnClientError, RequestInv

\* Until the link to mcenter is first lost, whoever waits for a key has a request
\* or an answer for it under way (NetLoop::sendMC drops nothing).
THEOREM PendingAreAsked == Spec => []PendingHasRequest
<1>1. Init => RequestInv
  BY DEF Init, RequestInv
<1>2. AskInv /\ (~lost => RequestInv) /\ [Next]_vars => (~lost => RequestInv)'
  BY RequestNext, LostStays
<1>3. (~lost => RequestInv) => PendingHasRequest
  BY DEF RequestInv, Asked, PendingHasRequest, ToSet
<1> QED BY <1>1, <1>2, <1>3, Inductive, PTL DEF Spec
=============================================================================
