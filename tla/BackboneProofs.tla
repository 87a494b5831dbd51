--------------------------- MODULE BackboneProofs ---------------------------
(***************************************************************************)
(* Theorems about Backbone, for any number of clients, descriptors and     *)
(* faults.                                                                 *)
(*                                                                         *)
(* InStep says of a value of push that every topic lists its own consumer, *)
(* if there is one, and nothing else: the lists need not be searched.      *)
(*                                                                         *)
(* QueueInv says of a service that has expired that every check since has  *)
(* taken an earlier name.  Reports relates, for a client whose link holds, *)
(* the age of what is known of it to the ticks since it last reported.     *)
(***************************************************************************)
EXTENDS Backbone, BasicFacts

Entries == [name : Clients, fd : Fds]

Lists == Seq(Entries)

\* The maps of clients to values.
Maps(S) == UNION {[C -> S] : C \in SUBSET Clients}

Listed(s, t) == IF t \in DOMAIN s.consumers THEN <<[name |-> t, fd |-> s.consumers[t]]>> ELSE <<>>

InStep(s) ==
    /\ s \in [consumers : Maps(Fds), topics : Maps(Lists)]
    /\ DOMAIN s.consumers \subseteq DOMAIN s.topics
    /\ \A t \in DOMAIN s.topics : s.topics[t] = Listed(s, t)

-----------------------------------------------------------------------------
(* Maps *)

LEMMA MapsAre ==
    ASSUME NEW S, NEW m
    PROVE  m \in Maps(S) <=> DOMAIN m \subseteq Clients /\ m \in [DOMAIN m -> S]
BY DEF Maps

LEMMA WithMap ==
    ASSUME NEW S, NEW m \in Maps(S), NEW c \in Clients, NEW v \in S
    PROVE  With(m, {c}, v) \in Maps(S)
<1>1. PICK C \in SUBSET Clients : m \in [C -> S]
  BY DEF Maps
<1>2. With(m, {c}, v) \in [C \cup {c} -> S]
  BY <1>1 DEF With
<1>3. C \cup {c} \in SUBSET Clients
  BY <1>1
<1> QED BY <1>2, <1>3 DEF Maps

LEMMA WithoutMap ==
    ASSUME NEW S, NEW m \in Maps(S), NEW D
    PROVE  Without(m, D) \in Maps(S)
<1>1. PICK C \in SUBSET Clients : m \in [C -> S]
  BY DEF Maps
<1>2. Without(m, D) \in [C \ D -> S]
  BY <1>1 DEF Without, Restrict
<1>3. C \ D \in SUBSET Clients
  BY <1>1
<1> QED BY <1>2, <1>3 DEF Maps

LEMMA EmptyMap == \A S : Empty \in Maps(S) /\ DOMAIN Empty = {}
<1> SUFFICES ASSUME NEW S PROVE Empty \in Maps(S) /\ DOMAIN Empty = {}
  OBVIOUS
<1>1. Empty \in [{} -> S] /\ {} \in SUBSET Clients
  BY DEF Empty
<1> QED BY <1>1 DEF Maps, Empty

\* The two fields of what push knows.
LEMMA FieldsAre ==
    ASSUME NEW a, NEW b, NEW x, NEW s, s = [consumers |-> a, topics |-> b]
    PROVE  /\ [s EXCEPT !.topics = x] = [consumers |-> a, topics |-> x]
           /\ [s EXCEPT !.consumers = x] = [consumers |-> x, topics |-> b]
OBVIOUS

LEMMA TwoFields ==
    ASSUME NEW A, NEW B, NEW s \in [consumers : A, topics : B]
    PROVE  s.consumers \in A /\ s.topics \in B /\ s = [consumers |-> s.consumers, topics |-> s.topics]
OBVIOUS

-----------------------------------------------------------------------------
(* Push *)

LEMMA NoneInStep == InStep(NoTopics)
BY EmptyMap DEF InStep, NoTopics

LEMMA CreateInStep ==
    ASSUME NEW s, InStep(s), NEW c \in Clients
    PROVE  /\ InStep(CreateTopic(s, c)) /\ c \in DOMAIN CreateTopic(s, c).topics
           /\ CreateTopic(s, c).consumers = s.consumers
<1>1. CASE c \in DOMAIN s.topics
  BY <1>1 DEF CreateTopic
<1>2. CASE c \notin DOMAIN s.topics
  <2> DEFINE T == With(s.topics, {c}, <<>>)
             r == CreateTopic(s, c)
  <2>1. /\ s.consumers \in Maps(Fds) /\ s.topics \in Maps(Lists)
        /\ s = [consumers |-> s.consumers, topics |-> s.topics]
    BY TwoFields DEF InStep
  <2>2. <<>> \in Lists
    BY DEF Lists
  <2>3. /\ T \in Maps(Lists) /\ DOMAIN T = DOMAIN s.topics \cup {c} /\ T[c] = <<>>
        /\ \A d \in DOMAIN s.topics : d # c => T[d] = s.topics[d]
    <3>1. T \in Maps(Lists)
      BY <2>1, <2>2, WithMap, Zenon
    <3> QED BY <2>1, <2>2, <3>1 DEF With
  <2>4. r = [s EXCEPT !.topics = T]
    BY <1>2 DEF CreateTopic
  <2> HIDE DEF T, r
  <2>5. r = [consumers |-> s.consumers, topics |-> T]
    BY <2>1, <2>4, FieldsAre
  <2>6. r.consumers = s.consumers /\ r.topics = T /\ r \in [consumers : Maps(Fds), topics : Maps(Lists)]
    BY <2>1, <2>3, <2>5
  <2>7. \A t \in DOMAIN T : T[t] = Listed(r, t)
    BY <1>2, <2>3, <2>6 DEF InStep, Listed
  <2>8. InStep(r)
    BY <2>3, <2>6, <2>7 DEF InStep
  <2> QED BY <2>3, <2>6, <2>8 DEF r
<1> QED BY <1>1, <1>2

\* A consumer that registers is listed, once, unless it is refused.
LEMMA RegisterInStep ==
    ASSUME NEW s, InStep(s), NEW c \in Clients, NEW fd \in Fds
    PROVE  /\ InStep(Register(s, fd, c, c))
           /\ Register(s, fd, c, c).consumers =
                IF Refused(s, fd, c) THEN s.consumers ELSE With(s.consumers, {c}, fd)
<1> DEFINE t == CreateTopic(s, c)
<1>1. InStep(t) /\ c \in DOMAIN t.topics /\ t.consumers = s.consumers
  BY CreateInStep
<1>2. CASE Refused(s, fd, c)
  BY <1>1, <1>2 DEF Register
<1>3. CASE ~Refused(s, fd, c)
  <2> DEFINE M == With(t.consumers, {c}, fd)
             u == [t EXCEPT !.consumers = M]
             e == [name |-> c, fd |-> fd]
             T == With(u.topics, {c}, Append(u.topics[c], e))
             r == Subscribe(u, c, fd, c)
  <2>0. Register(s, fd, c, c) = r
    BY <1>3 DEF Register
  <2> HIDE DEF t
  <2>1. /\ t.consumers \in Maps(Fds) /\ t.topics \in Maps(Lists)
        /\ t = [consumers |-> t.consumers, topics |-> t.topics]
    BY <1>1, TwoFields DEF InStep
  <2>2. /\ M \in Maps(Fds) /\ DOMAIN M = DOMAIN t.consumers \cup {c} /\ M[c] = fd
        /\ \A d \in DOMAIN t.consumers : d # c => M[d] = t.consumers[d]
    <3>1. M \in Maps(Fds)
      BY <2>1, WithMap, Zenon
    <3> QED BY <2>1, <3>1 DEF With
  <2> HIDE DEF M
  <2>3. u = [consumers |-> M, topics |-> t.topics]
    BY <2>1, FieldsAre
  <2> HIDE DEF u
  <2>4. u.consumers = M /\ u.topics = t.topics
    BY <2>3
  <2>5. e \in Entries
    BY DEF Entries
  <2>6. \A d \in DOMAIN t.topics : d # c => t.topics[d] = Listed(u, d)
    BY <1>1, <2>2, <2>4 DEF InStep, Listed
  <2>7. CASE c \in DOMAIN t.consumers
    <3>1. t.consumers[c] = fd /\ t.topics[c] = <<e>>
      BY <1>1, <1>3, <2>7 DEF Refused, InStep, Listed
    <3>2. r = u
      <4>1. 1 \in DOMAIN u.topics[c] /\ u.topics[c][1].fd = fd
        BY <2>4, <3>1
      <4> QED BY <4>1 DEF Subscribe
    <3>3. \A d \in DOMAIN t.topics : t.topics[d] = Listed(u, d)
      BY <2>2, <2>4, <2>6, <3>1 DEF Listed
    <3>4. InStep(u)
      <4>1. u \in [consumers : Maps(Fds), topics : Maps(Lists)]
        BY <2>1, <2>2, <2>3
      <4> QED BY <1>1, <2>2, <2>4, <3>3, <4>1 DEF InStep
    <3> QED BY <1>1, <1>3, <2>0, <2>4, <3>2, <3>4 DEF M
  <2>8. CASE c \notin DOMAIN t.consumers
    <3>1. t.topics[c] = <<>>
      BY <1>1, <2>8 DEF InStep, Listed
    <3>2. r = [u EXCEPT !.topics = T]
      BY <2>4, <3>1 DEF Subscribe
    <3>3. Append(u.topics[c], e) = <<e>> /\ <<e>> \in Lists
      BY <2>4, <2>5, <3>1 DEF Lists
    <3>4. /\ T \in Maps(Lists) /\ DOMAIN T = DOMAIN t.topics /\ T[c] = <<e>>
          /\ \A d \in DOMAIN t.topics : d # c => T[d] = t.topics[d]
      <4>1. T \in Maps(Lists)
        BY <1>1, <2>1, <2>4, <3>3, WithMap, Zenon
      <4> QED BY <1>1, <2>1, <2>4, <3>3, <4>1 DEF With
    <3> HIDE DEF T, r
    <3>5. r = [consumers |-> M, topics |-> T]
      BY <2>3, <3>2, FieldsAre
    <3>6. r.consumers = M /\ r.topics = T /\ r \in [consumers : Maps(Fds), topics : Maps(Lists)]
      BY <2>2, <3>4, <3>5
    <3>7. \A d \in DOMAIN T : T[d] = Listed(r, d)
      BY <2>2, <2>4, <2>6, <3>4, <3>6 DEF Listed
    <3>8. InStep(r)
      BY <1>1, <2>2, <3>4, <3>6, <3>7 DEF InStep
    <3> QED BY <1>1, <1>3, <2>0, <3>6, <3>8 DEF M
  <2> QED BY <2>7, <2>8
<1> QED BY <1>2, <1>3

\* The consumer of a link goes, from the map and from the topics.
LEMMA DeleteInStep ==
    ASSUME NEW s, InStep(s), NEW n \in DOMAIN s.consumers, NEW fd,
           \A m \in DOMAIN s.consumers : s.consumers[m] = fd <=> m = n
    PROVE  /\ InStep(DeleteConsumer(s, fd))
           /\ DeleteConsumer(s, fd).consumers = Without(s.consumers, {n})
<1> DEFINE of == {m \in DOMAIN s.consumers : s.consumers[m] = fd}
           first == {m \in of : \A k \in of : m <= k}
           M == Without(s.consumers, {n})
           Its(e) == e.name = n
           T == [t \in DOMAIN s.topics |-> IF t = n THEN <<>> ELSE s.topics[t]]
           u == Unsubscribe(s, n)
           r == DeleteConsumer(s, fd)
<1>1. /\ s.consumers \in Maps(Fds) /\ s.topics \in Maps(Lists)
      /\ s = [consumers |-> s.consumers, topics |-> s.topics]
  BY TwoFields DEF InStep
<1>2. n \in Clients /\ n \in Nat /\ n \in DOMAIN s.topics
  BY <1>1, ClientsAssumption, MapsAre DEF InStep
<1>3. of = {n} /\ first = {n} /\ (CHOOSE m \in first : TRUE) = n
  <2>1. of = {n}
    OBVIOUS
  <2>2. first = {n}
    BY <1>2, <2>1
  <2> QED BY <2>1, <2>2
<1>4. r = [u EXCEPT !.consumers = Without(@, {n})]
  BY <1>3 DEF DeleteConsumer
<1>5. u = [s EXCEPT !.topics = T]
  <2> DEFINE listing == {t \in DOMAIN s.topics : \E i \in DOMAIN s.topics[t] : s.topics[t][i].name = n}
             fst == {t \in listing : \A k \in listing : t <= k}
  <2>1. s.topics[n] = <<[name |-> n, fd |-> s.consumers[n]]>>
    BY <1>2 DEF InStep, Listed
  <2>2. n \in listing
    BY <1>2, <2>1
  <2>3. ASSUME NEW t \in DOMAIN s.topics, t # n
        PROVE  \A i \in DOMAIN s.topics[t] : s.topics[t][i].name # n
    <3>1. CASE t \in DOMAIN s.consumers
      <4>1. s.topics[t] = <<[name |-> t, fd |-> s.consumers[t]]>>
        BY <3>1 DEF InStep, Listed
      <4> QED BY <2>3, <4>1
    <3>2. CASE t \notin DOMAIN s.consumers
      <4>1. s.topics[t] = <<>>
        BY <3>2 DEF InStep, Listed
      <4> QED BY <4>1
    <3> QED BY <3>1, <3>2
  <2>4. listing = {n}
    BY <2>2, <2>3
  <2> HIDE DEF listing
  <2>5. fst = {n}
    BY <1>2, <2>4
  <2>6. RemoveFirstMatch(s.topics[n], Its) = <<>>
    <3> DEFINE e == [name |-> n, fd |-> s.consumers[n]]
               I == {i \in 1 .. Len(<<e>>) : Its(<<e>>[i])}
    <3>1. I = {1}
      OBVIOUS
    <3>2. SelectInSeq(<<e>>, Its) = 1
      <4>1. 1 <= 1 /\ \A x \in I : x = 1
        BY <3>1
      <4>2. Min(I) = 1
        BY <3>1 DEF Min
      <4> QED BY <3>1, <4>2 DEF SelectInSeq
    <3>3. SubSeq(<<e>>, 1, 0) = <<>> /\ SubSeq(<<e>>, 2, 1) = <<>>
      BY SubSeqEmpty
    <3>4. RemoveAt(<<e>>, 1) = <<>>
      BY <3>3 DEF RemoveAt
    <3>5. \E i \in 1 .. Len(<<e>>) : Its(<<e>>[i])
      BY <3>1
    <3> QED BY <2>1, <3>2, <3>4, <3>5 DEF RemoveFirstMatch
  <2>7. [t \in DOMAIN s.topics |-> IF t \in fst THEN RemoveFirstMatch(s.topics[t], Its) ELSE s.topics[t]] = T
    BY <2>5, <2>6
  <2> QED BY <2>7 DEF Unsubscribe, listing
<1>6. T \in Maps(Lists) /\ DOMAIN T = DOMAIN s.topics
  <2>1. <<>> \in Lists
    BY DEF Lists
  <2> QED BY <1>1, <2>1, MapsAre
<1>7. M \in Maps(Fds)
  BY <1>1, WithoutMap, Zenon
<1> HIDE DEF T, u, r
<1>8. u = [consumers |-> s.consumers, topics |-> T]
  BY <1>1, <1>5, FieldsAre
<1>9. r = [consumers |-> M, topics |-> T]
  <2>1. u.consumers = s.consumers
    BY <1>8
  <2>2. r = [u EXCEPT !.consumers = M]
    BY <1>4, <2>1
  <2> HIDE DEF M
  <2> QED BY <1>8, <2>2, FieldsAre
<1>10. DOMAIN M = DOMAIN s.consumers \ {n} /\ \A m \in DOMAIN s.consumers \ {n} : M[m] = s.consumers[m]
  BY DEF Without, Restrict
<1> HIDE DEF M
<1>11. r.consumers = M /\ r.topics = T /\ r \in [consumers : Maps(Fds), topics : Maps(Lists)]
  BY <1>6, <1>7, <1>9
<1>12. \A t \in DOMAIN T : T[t] = Listed(r, t)
  BY <1>6, <1>10, <1>11 DEF InStep, Listed, T
<1>13. InStep(r)
  BY <1>6, <1>10, <1>11, <1>12 DEF InStep
<1> QED BY <1>11, <1>13 DEF M, r

\* A link that no consumer has leaves all as it is.
LEMMA DeleteNone ==
    ASSUME NEW s, NEW fd, \A m \in DOMAIN s.consumers : s.consumers[m] # fd
    PROVE  DeleteConsumer(s, fd) = s
BY DEF DeleteConsumer

-----------------------------------------------------------------------------
(* The invariant *)

PlainTyped ==
    /\ kind \in {"deamon", "push", "mgroup"}
    /\ link \in [Clients -> Fds \cup {Down, Deaf}]
    /\ addr \in [Clients -> Addrs]
    /\ phase \in [Clients -> 0 .. REPORT_INTERVAL - 1] /\ check \in 0 .. CHECK_INTERVAL - 1
    /\ steady \in [Clients -> 0 .. Steady] /\ left \in [Clients -> BOOLEAN]
    /\ passed \in [Clients -> Nat] /\ faults \in 0 .. MaxFaults

ConnsTyped == DOMAIN conns \subseteq Fds /\ conns \in [DOMAIN conns -> Conn]

RegTyped ==
    /\ kind = "deamon" => reg \in Maps(SvcInfo)
    /\ kind = "push" => InStep(reg)
    /\ kind = "mgroup" => reg \in Maps([fd : Fds, addr : Addrs])

\* A link that is open is the one that its client has.
OpenIsLink == \A fd \in DOMAIN conns : conns[fd].open => link[conns[fd].who] = fd

\* A consumer has the link that it registered on.
ConsumersLinked ==
    kind = "push" =>
        \A n \in DOMAIN reg.consumers :
            reg.consumers[n] \in DOMAIN conns /\ conns[reg.consumers[n]].who = n

IInv == PlainTyped /\ ConnsTyped /\ RegTyped /\ OpenIsLink /\ ConsumersLinked

LEMMA ConnIs ==
    ASSUME NEW k \in Conn, NEW m \in Seq(Addrs), NEW b \in BOOLEAN
    PROVE  /\ k.who \in Clients /\ k.msgs \in Seq(Addrs) /\ k.open \in BOOLEAN
           /\ [k EXCEPT !.msgs = m] \in Conn
           /\ [k EXCEPT !.msgs = m].who = k.who /\ [k EXCEPT !.msgs = m].open = k.open
           /\ [k EXCEPT !.open = b] \in Conn
           /\ [k EXCEPT !.open = b].who = k.who /\ [k EXCEPT !.open = b].open = b
BY DEF Conn

\* What has been opened by a client that has none.
LEMMA NoOtherOpen ==
    ASSUME IInv, NEW c \in Clients, ~Linked(c)
    PROVE  \A fd \in DOMAIN conns : conns[fd].who = c => ~conns[fd].open
BY DEF IInv, OpenIsLink, Linked, ConnsTyped, Conn

\* The links of c are broken; no other changes.
LEMMA BrokenIs ==
    ASSUME IInv, NEW c \in Clients
    PROVE  /\ DOMAIN Broken(c) = DOMAIN conns
           /\ Broken(c) \in [DOMAIN conns -> Conn]
           /\ \A fd \in DOMAIN conns :
                /\ Broken(c)[fd].who = conns[fd].who
                /\ Broken(c)[fd].open => conns[fd].open /\ conns[fd].who # c
<1>1. /\ DOMAIN Broken(c) = DOMAIN conns
      /\ \A fd \in DOMAIN conns :
            Broken(c)[fd] = IF conns[fd].who = c THEN [conns[fd] EXCEPT !.open = FALSE] ELSE conns[fd]
  BY DEF Broken
<1>2. ASSUME NEW fd \in DOMAIN conns
      PROVE  /\ Broken(c)[fd] \in Conn /\ Broken(c)[fd].who = conns[fd].who
             /\ Broken(c)[fd].open => conns[fd].open /\ conns[fd].who # c
  <2>1. conns[fd] \in Conn
    BY DEF IInv, ConnsTyped
  <2> QED BY <1>1, <2>1 DEF Conn
<1>3. Broken(c) \in [DOMAIN conns -> Conn]
  BY <1>2 DEF Broken
<1> QED BY <1>1, <1>2, <1>3

LEMMA InitRight == Init => IInv
<1> SUFFICES ASSUME Init PROVE IInv
  OBVIOUS
<1>1. PlainTyped
  <2>1. (CHOOSE a \in Addrs : TRUE) \in Addrs
    BY AddrsAssumption
  <2> QED BY <2>1, TimerAssumption, ReportAssumption DEF Init, PlainTyped, Steady
<1>2. conns = Empty /\ DOMAIN conns = {}
  BY EmptyMap DEF Init
<1>3. ConnsTyped
  BY <1>2 DEF ConnsTyped, Empty
<1>4. RegTyped
  BY EmptyMap, NoneInStep DEF Init, RegTyped, NoneKnown
<1>5. ConsumersLinked
  BY EmptyMap DEF Init, NoneKnown, NoTopics, ConsumersLinked
<1> QED BY <1>1, <1>2, <1>3, <1>4, <1>5 DEF IInv, OpenIsLink

LEMMA ConnectRight == ASSUME IInv, NEW c \in Clients, Connect(c) PROVE IInv'
<1>1. PICK fd \in FreeFds :
        /\ link' = [link EXCEPT ![c] = fd]
        /\ conns' = With(conns, {fd},
            [who |-> c, msgs |-> IF kind = "push" THEN <<addr[c]>> ELSE <<>>, open |-> TRUE])
  BY DEF Connect
<1>2. /\ fd \in Fds /\ fd \notin DOMAIN conns /\ UNCHANGED <<kind, reg, addr, phase, check, passed, faults>>
      /\ left' = [left EXCEPT ![c] = FALSE] /\ steady' = [steady EXCEPT ![c] = 0]
      /\ link[c] = Down
  BY <1>1 DEF Connect, FreeFds
<1> DEFINE k == [who |-> c, msgs |-> IF kind = "push" THEN <<addr[c]>> ELSE <<>>, open |-> TRUE]
<1>3. k \in Conn
  <2>1. addr[c] \in Addrs
    BY DEF IInv, PlainTyped
  <2>2. <<addr[c]>> \in Seq(Addrs) /\ <<>> \in Seq(Addrs)
    BY <2>1
  <2> QED BY <2>2 DEF Conn
<1>4. k.who = c
  OBVIOUS
<1> HIDE DEF k
<1>5. /\ DOMAIN conns' = DOMAIN conns \cup {fd} /\ conns'[fd] = k
      /\ \A gd \in DOMAIN conns : conns'[gd] = conns[gd]
  BY <1>1, <1>2 DEF With, k
<1>6. PlainTyped'
  <2>1. link' \in [Clients -> Fds \cup {Down, Deaf}]
    BY <1>1, <1>2 DEF IInv, PlainTyped
  <2>2. left' \in [Clients -> BOOLEAN] /\ steady' \in [Clients -> 0 .. Steady]
    BY <1>2, ReportAssumption DEF IInv, PlainTyped, Steady
  <2> QED BY <1>2, <2>1, <2>2 DEF IInv, PlainTyped, Steady
<1>7. ConnsTyped'
  <2>1. \A gd \in DOMAIN conns' : conns'[gd] \in Conn
    BY <1>3, <1>5 DEF IInv, ConnsTyped
  <2>2. conns' = [gd \in DOMAIN conns' |-> conns'[gd]]
    BY <1>1 DEF With
  <2> QED BY <1>2, <1>5, <2>1, <2>2 DEF IInv, ConnsTyped
<1>8. RegTyped'
  BY <1>2 DEF IInv, RegTyped, InStep, Listed
<1>9. OpenIsLink'
  <2> SUFFICES ASSUME NEW gd \in DOMAIN conns', conns'[gd].open PROVE link'[conns'[gd].who] = gd
    BY DEF OpenIsLink
  <2>1. link \in [Clients -> Fds \cup {Down, Deaf}]
    BY DEF IInv, PlainTyped
  <2>2. CASE gd = fd
    BY <1>1, <1>4, <1>5, <2>1, <2>2
  <2>3. CASE gd # fd
    <3>1. gd \in DOMAIN conns /\ conns'[gd] = conns[gd] /\ conns[gd].who \in Clients /\ gd \in Fds
      BY <1>5, <2>3 DEF IInv, ConnsTyped, Conn
    <3>2. link[conns[gd].who] = gd
      BY <3>1 DEF IInv, OpenIsLink
    <3>3. conns[gd].who # c
      BY <1>2, <3>1, <3>2, FdsAssumption
    <3> QED BY <1>1, <2>1, <3>1, <3>2, <3>3
  <2> QED BY <2>2, <2>3
<1>10. ConsumersLinked'
  BY <1>2, <1>5 DEF IInv, ConsumersLinked
<1> QED BY <1>6, <1>7, <1>8, <1>9, <1>10 DEF IInv

LEMMA OnLostRight == ASSUME IInv, NEW c \in Clients, OnLost(c) PROVE IInv'
<1>1. /\ UNCHANGED <<kind, reg, conns, addr, phase, check, steady, left, passed, faults>> /\ ~Linked(c)
      /\ link' = [link EXCEPT ![c] = Down] \/ link' = [link EXCEPT ![c] = Deaf]
  BY DEF OnLost
<1>2. \A fd \in DOMAIN conns : conns[fd].open => conns[fd].who # c
  BY <1>1, NoOtherOpen
<1>3. PlainTyped' /\ ConnsTyped' /\ RegTyped' /\ ConsumersLinked'
  <2>1. link' \in [Clients -> Fds \cup {Down, Deaf}]
    BY <1>1 DEF IInv, PlainTyped
  <2>2. PlainTyped'
    BY <1>1, <2>1 DEF IInv, PlainTyped, Steady
  <2>3. ConnsTyped'
    BY <1>1 DEF IInv, ConnsTyped
  <2>4. RegTyped' /\ ConsumersLinked'
    BY <1>1 DEF IInv, RegTyped, InStep, Listed, ConsumersLinked
  <2> QED BY <2>2, <2>3, <2>4
<1>4. OpenIsLink'
  <2> SUFFICES ASSUME NEW fd \in DOMAIN conns, conns[fd].open PROVE link'[conns[fd].who] = fd
    BY <1>1 DEF OpenIsLink
  <2>1. link \in [Clients -> Fds \cup {Down, Deaf}] /\ conns[fd].who \in Clients /\ link[conns[fd].who] = fd
    BY DEF IInv, PlainTyped, ConnsTyped, Conn, OpenIsLink
  <2> QED BY <1>1, <1>2, <2>1
<1> QED BY <1>3, <1>4 DEF IInv

\* Time makes what deamon knows older; what it removes goes.
LEMMA OlderTyped == ASSUME NEW svcs \in Maps(SvcInfo) PROVE Older(svcs) \in Maps(SvcInfo)
<1>1. PICK C \in SUBSET Clients : svcs \in [C -> SvcInfo]
  BY DEF Maps
<1>2. ASSUME NEW c \in C PROVE [svcs[c] EXCEPT !.age = @ + 1] \in SvcInfo
  <2>1. svcs[c] \in SvcInfo /\ svcs[c].age + 1 \in Nat
    BY <1>1 DEF SvcInfo
  <2> QED BY <2>1 DEF SvcInfo
<1>3. Older(svcs) \in [C -> SvcInfo]
  BY <1>1, <1>2 DEF Older
<1> QED BY <1>3 DEF Maps

LEMMA TickRight == ASSUME IInv, Tick PROVE IInv'
<1>0. /\ kind # "push" /\ kind \in {"deamon", "mgroup"} /\ conns' = Reported
      /\ UNCHANGED <<kind, link, addr, left, faults>>
  BY DEF Tick, IInv, PlainTyped
<1>1. /\ DOMAIN conns' = DOMAIN conns
      /\ conns' \in [DOMAIN conns -> Conn]
      /\ \A fd \in DOMAIN conns : conns'[fd].who = conns[fd].who /\ conns'[fd].open = conns[fd].open
  <2>1. ASSUME NEW fd \in DOMAIN conns
        PROVE  /\ Reported[fd] \in Conn
               /\ Reported[fd].who = conns[fd].who /\ Reported[fd].open = conns[fd].open
    <3> DEFINE c == conns[fd].who
               m == Append(conns[fd].msgs, addr[c])
    <3>1. conns[fd] \in Conn /\ c \in Clients /\ addr[c] \in Addrs /\ conns[fd].msgs \in Seq(Addrs)
      BY DEF IInv, ConnsTyped, PlainTyped, Conn
    <3>2. m \in Seq(Addrs)
      BY <3>1, AppendProperties
    <3>3. Reported[fd] = [conns[fd] EXCEPT !.msgs = m] \/ Reported[fd] = conns[fd]
      BY DEF Reported
    <3> HIDE DEF m
    <3>4. CASE Reported[fd] = [conns[fd] EXCEPT !.msgs = m]
      <4> DEFINE k == conns[fd]
      <4>1. k \in Conn
        BY <3>1
      <4> HIDE DEF k
      <4>2. [k EXCEPT !.msgs = m] \in Conn /\ [k EXCEPT !.msgs = m].who = k.who /\ [k EXCEPT !.msgs = m].open = k.open
        BY <3>2, <4>1 DEF Conn
      <4> QED BY <3>4, <4>2 DEF k
    <3> QED BY <3>1, <3>3, <3>4
  <2>2. DOMAIN Reported = DOMAIN conns /\ Reported = [fd \in DOMAIN conns |-> Reported[fd]]
    BY DEF Reported
  <2> QED BY <1>0, <2>1, <2>2
<1>2. PlainTyped'
  <2>1. Interval \in 1 .. REPORT_INTERVAL
    BY ReportAssumption DEF Interval
  <2>2. phase' \in [Clients -> 0 .. REPORT_INTERVAL - 1]
    <3>1. \A c \in Clients : phase[c] + 1 \in Nat
      BY ReportAssumption DEF IInv, PlainTyped
    <3>2. \A x \in Nat : x % Interval \in 0 .. REPORT_INTERVAL - 1
      BY <2>1, ReportAssumption
    <3> QED BY <3>1, <3>2 DEF Tick
  <2>3. check' \in 0 .. CHECK_INTERVAL - 1
    BY <1>0, TimerAssumption DEF IInv, PlainTyped, Tick
  <2>4. steady' \in [Clients -> 0 .. Steady]
    <3>1. \A c \in Clients : steady[c] \in 0 .. Steady /\ (steady[c] < Steady => steady[c] + 1 \in 0 .. Steady)
      BY ReportAssumption DEF IInv, PlainTyped, Steady
    <3> QED BY <3>1 DEF Tick
  <2>5. passed' \in [Clients -> Nat]
    BY DEF Tick, Passed, IInv, PlainTyped
  <2> QED BY <1>0, <2>2, <2>3, <2>4, <2>5 DEF IInv, PlainTyped, Steady
<1>3. ConnsTyped'
  BY <1>1 DEF IInv, ConnsTyped
<1>4. RegTyped'
  <2>1. CASE kind = "mgroup"
    BY <1>0, <2>1 DEF IInv, RegTyped, Tick
  <2>2. CASE kind = "deamon"
    <3>1. Older(reg) \in Maps(SvcInfo)
      BY <2>2, OlderTyped DEF IInv, RegTyped
    <3>2. RemoveExpire(Older(reg)) \in Maps(SvcInfo)
      BY <3>1, WithoutMap, Zenon DEF RemoveExpire
    <3> QED BY <1>0, <2>2, <3>1, <3>2 DEF RegTyped, Tick
  <2> QED BY <1>0, <2>1, <2>2
<1>5. OpenIsLink'
  BY <1>0, <1>1 DEF IInv, OpenIsLink
<1>6. ConsumersLinked'
  BY <1>0 DEF ConsumersLinked
<1> QED BY <1>2, <1>3, <1>4, <1>5, <1>6 DEF IInv

\* A step after which every link has the client it had, and only links that were
\* open are.
LEMMA SameLinks ==
    ASSUME IInv, UNCHANGED link,
           \A fd \in DOMAIN conns' :
                fd \in DOMAIN conns /\ conns'[fd].who = conns[fd].who /\ (conns'[fd].open => conns[fd].open)
    PROVE  OpenIsLink'
BY DEF IInv, OpenIsLink

LEMMA ReadRight == ASSUME IInv, NEW fd \in Fds, Read(fd) PROVE IInv'
<1> DEFINE c == conns[fd].who
           a == Head(conns[fd].msgs)
           m == Tail(conns[fd].msgs)
<1>0. /\ fd \in DOMAIN conns /\ conns[fd].msgs # <<>> /\ conns[fd] \in Conn
      /\ c \in Clients /\ conns[fd].msgs \in Seq(Addrs)
      /\ UNCHANGED <<kind, link, addr, phase, check, steady, passed, faults>>
      /\ conns' = [conns EXCEPT ![fd].msgs = m]
  BY DEF Read, IInv, ConnsTyped, Conn
<1>1. a \in Addrs /\ m \in Seq(Addrs)
  BY <1>0, HeadTailProperties
<1>2. /\ kind = "deamon" => reg' = SvcAdd(reg, c, a)
      /\ kind = "push" => reg' = Register(reg, fd, c, c)
      /\ kind = "mgroup" => reg' = ProxyAdd(reg, fd, c, a)
  BY DEF Read
<1>3. left' \in [Clients -> BOOLEAN]
  <2>1. left' = left \/ left' = [left EXCEPT ![c] = TRUE]
    BY DEF Read
  <2> QED BY <1>0, <2>1 DEF IInv, PlainTyped
<1> HIDE DEF a, m
<1>4. /\ DOMAIN conns' = DOMAIN conns
      /\ conns' \in [DOMAIN conns -> Conn]
      /\ \A gd \in DOMAIN conns : conns'[gd].who = conns[gd].who /\ conns'[gd].open = conns[gd].open
  <2> DEFINE k == [conns[fd] EXCEPT !.msgs = m]
  <2>1. k \in Conn /\ k.who = conns[fd].who /\ k.open = conns[fd].open
    BY <1>0, <1>1, ConnIs
  <2>2. conns' = [conns EXCEPT ![fd] = k]
    BY <1>0
  <2> HIDE DEF k
  <2>3. conns \in [DOMAIN conns -> Conn]
    BY DEF IInv, ConnsTyped
  <2> QED BY <1>0, <2>1, <2>2, <2>3
<1> HIDE DEF c
<1>5. PlainTyped'
  BY <1>0, <1>3 DEF IInv, PlainTyped, Steady
<1>6. ConnsTyped'
  BY <1>4 DEF IInv, ConnsTyped
<1>7. RegTyped'
  <2>1. CASE kind = "deamon"
    <3>1. [addr |-> a, age |-> 0] \in SvcInfo
      BY <1>1 DEF SvcInfo
    <3>2. With(reg, {c}, [addr |-> a, age |-> 0]) \in Maps(SvcInfo)
      BY <1>0, <2>1, <3>1, WithMap, Zenon DEF IInv, RegTyped
    <3> QED BY <1>0, <1>2, <2>1, <3>2 DEF RegTyped, SvcAdd
  <2>2. CASE kind = "push"
    BY <1>0, <1>2, <2>2, RegisterInStep DEF IInv, RegTyped
  <2>3. CASE kind = "mgroup"
    <3>1. [fd |-> fd, addr |-> a] \in [fd : Fds, addr : Addrs]
      BY <1>1
    <3>2. With(reg, {c}, [fd |-> fd, addr |-> a]) \in Maps([fd : Fds, addr : Addrs])
      BY <1>0, <2>3, <3>1, WithMap, Zenon DEF IInv, RegTyped
    <3>3. reg \in Maps([fd : Fds, addr : Addrs])
      BY <2>3 DEF IInv, RegTyped
    <3> QED BY <1>0, <1>2, <2>3, <3>2, <3>3 DEF RegTyped, ProxyAdd
  <2> QED BY <1>0, <2>1, <2>2, <2>3 DEF IInv, PlainTyped
<1>8. OpenIsLink'
  BY <1>0, <1>4, SameLinks
<1>9. ConsumersLinked'
  <2> SUFFICES ASSUME kind = "push", NEW n \in DOMAIN reg'.consumers
               PROVE  reg'.consumers[n] \in DOMAIN conns' /\ conns'[reg'.consumers[n]].who = n
    BY <1>0 DEF ConsumersLinked
  <2>1. reg'.consumers = reg.consumers \/ reg'.consumers = With(reg.consumers, {c}, fd)
    BY <1>0, <1>2, RegisterInStep DEF IInv, RegTyped
  <2>2. \A d \in DOMAIN reg.consumers : reg.consumers[d] \in DOMAIN conns /\ conns[reg.consumers[d]].who = d
    BY DEF IInv, ConsumersLinked
  <2>3. CASE reg'.consumers = reg.consumers
    BY <1>4, <2>2, <2>3
  <2>4. CASE reg'.consumers = With(reg.consumers, {c}, fd)
    <3>1. (n = c /\ reg'.consumers[n] = fd) \/ (n \in DOMAIN reg.consumers /\ reg'.consumers[n] = reg.consumers[n])
      BY <2>4 DEF With
    <3> QED BY <1>0, <1>4, <2>2, <3>1 DEF c
  <2> QED BY <2>1, <2>3, <2>4
<1> QED BY <1>5, <1>6, <1>7, <1>8, <1>9 DEF IInv

LEMMA OnClosedRight == ASSUME IInv, NEW fd \in Fds, OnClosed(fd) PROVE IInv'
<1>0. /\ fd \in DOMAIN conns /\ UNCHANGED <<kind, link, addr, phase, check, steady, left, passed, faults>>
      /\ conns' = Without(conns, {fd})
      /\ reg' = IF kind = "push" THEN DeleteConsumer(reg, fd) ELSE reg
  BY DEF OnClosed
<1>1. /\ DOMAIN conns' = DOMAIN conns \ {fd}
      /\ \A gd \in DOMAIN conns \ {fd} : conns'[gd] = conns[gd]
      /\ conns' \in [DOMAIN conns' -> Conn]
  BY <1>0 DEF IInv, ConnsTyped, Without, Restrict
<1>2. PlainTyped' /\ ConnsTyped' /\ OpenIsLink'
  <2>1. PlainTyped'
    BY <1>0 DEF IInv, PlainTyped, Steady
  <2>2. ConnsTyped'
    BY <1>1 DEF IInv, ConnsTyped
  <2>3. OpenIsLink'
    BY <1>0, <1>1, SameLinks
  <2> QED BY <2>1, <2>2, <2>3
<1>3. CASE kind # "push"
  <2>1. RegTyped' /\ ConsumersLinked'
    BY <1>0, <1>3 DEF IInv, RegTyped, ConsumersLinked
  <2> QED BY <1>2, <2>1 DEF IInv
<1>4. CASE kind = "push"
  <2>1. InStep(reg)
    BY <1>4 DEF IInv, RegTyped
  <2>2. \A d \in DOMAIN reg.consumers : reg.consumers[d] \in DOMAIN conns /\ conns[reg.consumers[d]].who = d
    BY <1>4 DEF IInv, ConsumersLinked
  <2>3. \A d, e \in DOMAIN reg.consumers : reg.consumers[d] = reg.consumers[e] => d = e
    BY <2>2
  <2>4. CASE \E n \in DOMAIN reg.consumers : reg.consumers[n] = fd
    <3>1. PICK n \in DOMAIN reg.consumers : reg.consumers[n] = fd
      BY <2>4
    <3>2. \A d \in DOMAIN reg.consumers : reg.consumers[d] = fd <=> d = n
      BY <2>3, <3>1
    <3>3. InStep(DeleteConsumer(reg, fd)) /\ DeleteConsumer(reg, fd).consumers = Without(reg.consumers, {n})
      BY <2>1, <3>2, DeleteInStep
    <3>4. InStep(reg') /\ reg'.consumers = Without(reg.consumers, {n})
      BY <1>0, <1>4, <3>3
    <3>5. /\ DOMAIN reg'.consumers = DOMAIN reg.consumers \ {n}
          /\ \A d \in DOMAIN reg.consumers \ {n} : reg'.consumers[d] = reg.consumers[d]
      BY <3>4 DEF Without, Restrict
    <3>6. ConsumersLinked'
      BY <1>1, <2>2, <3>2, <3>5 DEF ConsumersLinked
    <3>7. RegTyped'
      BY <1>0, <1>4, <3>4 DEF RegTyped
    <3> QED BY <1>2, <3>6, <3>7 DEF IInv
  <2>5. CASE \A n \in DOMAIN reg.consumers : reg.consumers[n] # fd
    <3>1. reg' = reg
      BY <1>0, <1>4, <2>5, DeleteNone
    <3>2. RegTyped'
      BY <1>0, <1>4, <2>1, <3>1 DEF RegTyped
    <3>3. ConsumersLinked'
      BY <1>1, <2>2, <2>5, <3>1 DEF ConsumersLinked
    <3> QED BY <1>2, <3>2, <3>3 DEF IInv
  <2> QED BY <2>4, <2>5
<1> QED BY <1>3, <1>4

\* Links that end, of clients that know it or not.
LEMMA EndedRight ==
    ASSUME IInv, NEW c \in Clients, UNCHANGED <<kind, reg>>, PlainTyped',
           \/ conns' = Broken(c)
           \/ /\ link[c] \in DOMAIN conns /\ conns[link[c]].who = c
              /\ conns' = With(Broken(c), {link[c]}, [who |-> c, msgs |-> <<>>, open |-> FALSE]),
           \A d \in Clients : d # c => link'[d] = link[d]
    PROVE  IInv'
<1>1. /\ DOMAIN conns' = DOMAIN conns
      /\ conns' \in [DOMAIN conns -> Conn]
      /\ \A fd \in DOMAIN conns :
            /\ conns'[fd].who = conns[fd].who
            /\ conns'[fd].open => conns[fd].open /\ conns[fd].who # c
  <2>1. CASE conns' = Broken(c)
    BY <2>1, BrokenIs
  <2>2. CASE /\ link[c] \in DOMAIN conns /\ conns[link[c]].who = c
             /\ conns' = With(Broken(c), {link[c]}, [who |-> c, msgs |-> <<>>, open |-> FALSE])
    <3> DEFINE k == [who |-> c, msgs |-> <<>>, open |-> FALSE]
               B == Broken(c)
               l == link[c]
    <3>1. k \in Conn /\ k.who = c /\ ~k.open
      BY DEF Conn
    <3>2. conns' = With(B, {l}, k) /\ l \in DOMAIN conns /\ conns[l].who = c
      BY <2>2
    <3>3. /\ DOMAIN B = DOMAIN conns /\ B \in [DOMAIN conns -> Conn]
          /\ \A fd \in DOMAIN conns :
                B[fd].who = conns[fd].who /\ (B[fd].open => conns[fd].open /\ conns[fd].who # c)
      BY BrokenIs
    <3> HIDE DEF k, B, l
    <3>4. conns' = [fd \in DOMAIN conns |-> IF fd = l THEN k ELSE B[fd]]
      <4>1. DOMAIN conns \cup {l} = DOMAIN conns
        BY <3>2
      <4>2. conns' = [fd \in DOMAIN B \cup {l} |-> IF fd \in {l} THEN k ELSE B[fd]]
        BY <3>2 DEF With
      <4> QED BY <3>3, <4>1, <4>2
    <3>5. conns' \in [DOMAIN conns -> Conn]
      BY <3>1, <3>3, <3>4
    <3>6. ASSUME NEW fd \in DOMAIN conns
          PROVE  conns'[fd].who = conns[fd].who /\ (conns'[fd].open => conns[fd].open /\ conns[fd].who # c)
      BY <3>1, <3>2, <3>3, <3>4
    <3> QED BY <3>4, <3>5, <3>6
  <2> QED BY <2>1, <2>2
<1>2. ConnsTyped' /\ RegTyped' /\ ConsumersLinked'
  <2>1. ConnsTyped'
    BY <1>1 DEF IInv, ConnsTyped
  <2>2. RegTyped'
    BY DEF IInv, RegTyped, InStep, Listed
  <2>3. ConsumersLinked'
    BY <1>1 DEF IInv, ConsumersLinked
  <2> QED BY <2>1, <2>2, <2>3
<1>3. OpenIsLink'
  <2> SUFFICES ASSUME NEW fd \in DOMAIN conns, conns'[fd].open PROVE link'[conns'[fd].who] = fd
    BY <1>1 DEF OpenIsLink
  <2>1. conns[fd].open /\ conns[fd].who # c /\ conns[fd].who \in Clients /\ conns'[fd].who = conns[fd].who
    BY <1>1 DEF IInv, ConnsTyped, Conn
  <2>2. link[conns[fd].who] = fd
    BY <2>1 DEF IInv, OpenIsLink
  <2> QED BY <2>1, <2>2
<1> QED BY <1>2, <1>3 DEF IInv

LEMMA BreakRight == ASSUME IInv, NEW c \in Clients, Break(c) PROVE IInv'
<1>1. /\ faults < MaxFaults /\ faults' = faults + 1 /\ steady' = [steady EXCEPT ![c] = 0]
      /\ link[c] \in DOMAIN conns /\ conns[link[c]].who = c
      /\ UNCHANGED <<kind, reg, link, addr, phase, check, left, passed>>
      /\ \/ conns' = Broken(c)
         \/ conns' = With(Broken(c), {link[c]}, [who |-> c, msgs |-> <<>>, open |-> FALSE])
  BY DEF Break, Linked
<1>2. PlainTyped'
  <2>1. faults' \in 0 .. MaxFaults /\ steady' \in [Clients -> 0 .. Steady]
    BY <1>1, ReportAssumption DEF IInv, PlainTyped, Steady
  <2> QED BY <1>1, <2>1 DEF IInv, PlainTyped, Steady
<1> QED BY <1>1, <1>2, EndedRight

LEMMA RestartRight == ASSUME IInv, NEW c \in Clients, Restart(c) PROVE IInv'
<1>1. /\ faults < MaxFaults /\ faults' = faults + 1 /\ steady' = [steady EXCEPT ![c] = 0]
      /\ phase' = [phase EXCEPT ![c] = 0] /\ link' = [link EXCEPT ![c] = Down]
      /\ conns' = Broken(c)
      /\ UNCHANGED <<kind, reg, check, left, passed>>
  BY DEF Restart
<1>2. PlainTyped'
  <2>1. faults' \in 0 .. MaxFaults /\ steady' \in [Clients -> 0 .. Steady]
    BY <1>1, ReportAssumption DEF IInv, PlainTyped, Steady
  <2>2. phase' \in [Clients -> 0 .. REPORT_INTERVAL - 1]
    BY <1>1, ReportAssumption DEF IInv, PlainTyped
  <2>3. link' \in [Clients -> Fds \cup {Down, Deaf}]
    BY <1>1 DEF IInv, PlainTyped
  <2>4. addr' \in [Clients -> Addrs]
    <3>1. PICK a \in Addrs : addr' = [addr EXCEPT ![c] = IF kind = "push" THEN @ ELSE a]
      BY DEF Restart
    <3> QED BY <3>1 DEF IInv, PlainTyped
  <2> QED BY <1>1, <2>1, <2>2, <2>3, <2>4 DEF IInv, PlainTyped, Steady
<1>3. \A d \in Clients : d # c => link'[d] = link[d]
  BY <1>1 DEF IInv, PlainTyped
<1> QED BY <1>1, <1>2, <1>3, EndedRight

LEMMA RestartRegistryRight == ASSUME IInv, RestartRegistry PROVE IInv'
<1>1. /\ faults < MaxFaults /\ faults' = faults + 1 /\ reg' = NoneKnown /\ conns' = Empty
      /\ check' = 0 /\ steady' = [c \in Clients |-> 0]
      /\ passed' = [c \in Clients |-> 0]
      /\ UNCHANGED <<kind, link, addr, phase, left>>
  BY DEF RestartRegistry
<1>2. PlainTyped'
  <2>1. faults' \in 0 .. MaxFaults /\ steady' \in [Clients -> 0 .. Steady] /\ check' \in 0 .. CHECK_INTERVAL - 1
    BY <1>1, ReportAssumption, TimerAssumption DEF IInv, PlainTyped, Steady
  <2> QED BY <1>1, <2>1 DEF IInv, PlainTyped, Steady
<1>3. ConnsTyped' /\ OpenIsLink'
  BY <1>1, EmptyMap DEF ConnsTyped, OpenIsLink, Empty
<1>4. RegTyped'
  BY <1>1, EmptyMap, NoneInStep DEF RegTyped, NoneKnown
<1>5. ConsumersLinked'
  BY <1>1, EmptyMap DEF NoneKnown, NoTopics, ConsumersLinked
<1> QED BY <1>2, <1>3, <1>4, <1>5 DEF IInv

-----------------------------------------------------------------------------
(* Theorems *)

\* The invariant holds in every state and is inductive.
THEOREM Inductive == Spec => []IInv
<1>1. IInv /\ [Next]_vars => IInv'
  <2> SUFFICES ASSUME IInv, [Next]_vars PROVE IInv'
    OBVIOUS
  <2>1. CASE \E c \in Clients : Connect(c) \/ OnLost(c) \/ Break(c) \/ Restart(c)
    BY <2>1, ConnectRight, OnLostRight, BreakRight, RestartRight
  <2>2. CASE \E fd \in Fds : Read(fd) \/ OnClosed(fd)
    BY <2>2, ReadRight, OnClosedRight
  <2>3. CASE Tick
    BY <2>3, TickRight
  <2>4. CASE RestartRegistry
    BY <2>4, RestartRegistryRight
  <2>5. CASE UNCHANGED vars
    <3>1. UNCHANGED <<kind, reg, conns, link, addr, phase, check, steady, left, passed, faults>>
      BY <2>5 DEF vars
    <3>2. PlainTyped' /\ ConnsTyped' /\ OpenIsLink'
      BY <3>1 DEF IInv, PlainTyped, Steady, ConnsTyped, OpenIsLink
    <3>3. RegTyped' /\ ConsumersLinked'
      BY <3>1 DEF IInv, RegTyped, InStep, Listed, ConsumersLinked
    <3> QED BY <3>2, <3>3 DEF IInv
  <2> QED BY <2>1, <2>2, <2>3, <2>4, <2>5 DEF Next
<1> QED BY InitRight, <1>1, PTL DEF Spec

\* Every variable has its type, and a client has no more than one link that is open
\* at the registry.
THEOREM Types == Spec => []TypeOK
<1>1. IInv => TypeOK
  <2> SUFFICES ASSUME IInv PROVE TypeOK
    OBVIOUS
  <2>1. kind = "deamon" => DOMAIN reg \subseteq Clients /\ \A c \in DOMAIN reg : reg[c] \in SvcInfo
    BY MapsAre DEF IInv, RegTyped
  <2>2. kind = "push" => /\ DOMAIN reg.consumers \cup DOMAIN reg.topics \subseteq Clients
                         /\ \A t \in DOMAIN reg.topics : reg.topics[t] \in Seq([name : Clients, fd : Fds])
    <3> SUFFICES ASSUME kind = "push"
                 PROVE  /\ DOMAIN reg.consumers \cup DOMAIN reg.topics \subseteq Clients
                        /\ \A t \in DOMAIN reg.topics : reg.topics[t] \in Lists
      BY DEF Lists, Entries
    <3>1. reg.consumers \in Maps(Fds) /\ reg.topics \in Maps(Lists)
      BY DEF IInv, RegTyped, InStep
    <3> QED BY <3>1, MapsAre
  <2>3. kind = "mgroup" => DOMAIN reg \subseteq Clients /\ \A c \in DOMAIN reg : reg[c] \in [fd : Fds, addr : Addrs]
    BY MapsAre DEF IInv, RegTyped
  <2>4. \A fd, gd \in DOMAIN conns :
            conns[fd].open /\ conns[gd].open /\ conns[fd].who = conns[gd].who => fd = gd
    BY DEF IInv, OpenIsLink
  <2>5. DOMAIN conns \subseteq Fds /\ \A fd \in DOMAIN conns : conns[fd] \in Conn
    BY DEF IInv, ConnsTyped
  <2> QED BY <2>1, <2>2, <2>3, <2>4, <2>5 DEF IInv, PlainTyped, TypeOK
<1> QED BY Inductive, <1>1, PTL

\* What is pushed for a topic goes to the link of its consumer, once, and to no
\* other, however links close and routers register again (Store::subscribe and
\* unsubscribe, PushMgr::registerConsumer and deleteConsumer).
THEOREM ListsInStep == Spec => []SubscribersInStep
<1>1. IInv => SubscribersInStep
  <2> SUFFICES ASSUME IInv, kind = "push"
               PROVE  /\ \A n \in DOMAIN reg.consumers :
                            /\ reg.consumers[n] \in DOMAIN conns /\ conns[reg.consumers[n]].who = n
                            /\ Receivers(reg, n) = <<reg.consumers[n]>>
                      /\ \A t \in DOMAIN reg.topics \ DOMAIN reg.consumers : Receivers(reg, t) = <<>>
    BY DEF SubscribersInStep
  <2>1. InStep(reg) /\ ConsumersLinked
    BY DEF IInv, RegTyped
  <2>2. ASSUME NEW n \in DOMAIN reg.consumers PROVE Receivers(reg, n) = <<reg.consumers[n]>>
    <3>1. n \in DOMAIN reg.topics /\ reg.topics[n] = <<[name |-> n, fd |-> reg.consumers[n]]>>
      BY <2>1 DEF InStep, Listed
    <3> QED BY <3>1 DEF Receivers
  <2>3. ASSUME NEW t \in DOMAIN reg.topics \ DOMAIN reg.consumers PROVE Receivers(reg, t) = <<>>
    <3>1. reg.topics[t] = <<>>
      BY <2>1 DEF InStep, Listed
    <3> QED BY <3>1 DEF Receivers
  <2> QED BY <2>1, <2>2, <2>3 DEF ConsumersLinked
<1> QED BY Inductive, <1>1, PTL

-----------------------------------------------------------------------------
(* What deamon lists is not old *)

\* Ticks since the last check.
SinceCheck == IF check = 0 THEN CHECK_INTERVAL - 1 ELSE check - 1

\* An expired service has waited for the checks that took an earlier name, and
\* for the next one.
QueueInv ==
    kind = "deamon" =>
        \A c \in Expired(reg) :
            reg[c].age - TIMER_EXPIRE < SinceCheck + CHECK_INTERVAL * passed[c]

LEMMA OneMore ==
    ASSUME NEW k \in Nat, NEW a \in Nat
    PROVE  k * a \in Nat /\ k * 0 = 0 /\ k * (a + 1) = k * a + k /\ k * (1 + a) = k + k * a
OBVIOUS

\* One expired service is taken by a check, and none is before it.
LEMMA FirstExpired ==
    ASSUME NEW svcs \in Maps(SvcInfo), NEW c \in Expired(svcs)
    PROVE  /\ c \in Clients
           /\ \E e \in Expired(svcs) :
                /\ e <= c
                /\ RemoveExpire(svcs) = Without(svcs, {e})
<1>1. Expired(svcs) \subseteq Nat /\ Expired(svcs) \subseteq Clients
  BY MapsAre, ClientsAssumption DEF Expired
<1>2. PICK e \in Expired(svcs) : \A d \in Expired(svcs) : e <= d
  BY <1>1, Least
<1>3. {x \in Expired(svcs) : \A d \in Expired(svcs) : x <= d} = {e}
  <2>1. \A x \in Expired(svcs) : x <= e /\ e <= x => x = e
    BY <1>1
  <2> QED BY <1>2, <2>1
<1> QED BY <1>1, <1>2, <1>3 DEF RemoveExpire

\* Time makes everything one tick older.
LEMMA OlderBy ==
    ASSUME NEW svcs \in Maps(SvcInfo)
    PROVE  /\ DOMAIN Older(svcs) = DOMAIN svcs
           /\ \A c \in DOMAIN svcs : svcs[c].age \in Nat /\ Older(svcs)[c].age = svcs[c].age + 1
<1>1. \A c \in DOMAIN svcs : svcs[c] \in SvcInfo
  BY MapsAre
<1> QED BY <1>1 DEF Older, SvcInfo

LEMMA QueueTick ==
    ASSUME IInv, QueueInv, Tick, kind = "deamon"
    PROVE  QueueInv'
<1> DEFINE o == Older(reg)
           K == CHECK_INTERVAL
           T == TIMER_EXPIRE
           Was(c) == IF c \in Expired(reg) THEN passed[c] ELSE 0
<1>1. /\ reg \in Maps(SvcInfo) /\ o \in Maps(SvcInfo) /\ kind' = kind
      /\ check \in 0 .. K - 1 /\ K \in Nat \ {0} /\ T \in Nat \ {0}
      /\ check' = (check + 1) % K
      /\ reg' = IF check = 0 THEN RemoveExpire(o) ELSE o
      /\ passed \in [Clients -> Nat] /\ passed' = Passed(reg')
  BY OlderTyped, TimerAssumption DEF IInv, RegTyped, PlainTyped, Tick
<1>2. /\ DOMAIN o = DOMAIN reg
      /\ \A c \in DOMAIN reg : reg[c].age \in Nat /\ o[c].age = reg[c].age + 1
  BY <1>1, OlderBy
<1>3. DOMAIN reg \subseteq Clients /\ Clients \subseteq Nat
  BY <1>1, MapsAre, ClientsAssumption
<1>4. \A c \in Clients : Was(c) \in Nat /\ K * Was(c) \in Nat
  <2>1. \A c \in Clients : Was(c) \in Nat
    BY <1>1
  <2> QED BY <1>1, <2>1, OneMore
<1>5. ASSUME NEW c \in DOMAIN reg, reg[c].age >= T
      PROVE  reg[c].age - T < SinceCheck + K * Was(c)
  BY <1>5 DEF QueueInv, Expired
<1> HIDE DEF o, K, T
<1>6. CASE check # 0
  <2>1. reg' = o /\ SinceCheck' = SinceCheck + 1 /\ SinceCheck \in Nat
    BY <1>1, <1>6 DEF SinceCheck, K
  <2> SUFFICES ASSUME NEW c \in Expired(o)
               PROVE  o[c].age - T < SinceCheck + 1 + K * passed'[c]
    BY <1>1, <1>2, <2>1 DEF QueueInv, Expired, K, T
  <2>2. c \in DOMAIN reg /\ c \in Clients /\ reg[c].age + 1 >= T
    BY <1>2, <1>3 DEF Expired, T
  <2>3. passed'[c] = Was(c)
    BY <1>1, <1>2, <1>4, <2>1, <2>2 DEF Passed
  <2> HIDE DEF Was
  <2>4. CASE reg[c].age + 1 = T
    BY <1>1, <1>2, <1>4, <2>1, <2>2, <2>3, <2>4
  <2>5. CASE reg[c].age >= T
    BY <1>1, <1>2, <1>4, <1>5, <2>1, <2>2, <2>3, <2>5
  <2> QED BY <1>1, <1>2, <2>2, <2>4, <2>5
<1>7. CASE check = 0
  <2>1. SinceCheck = K - 1 /\ SinceCheck' \in Nat
    <3>1. SinceCheck = K - 1
      BY <1>7 DEF SinceCheck, K
    <3>2. check' \in 0 .. K - 1
      BY <1>1
    <3> QED BY <1>1, <3>1, <3>2 DEF SinceCheck, K
  <2> SUFFICES ASSUME NEW c \in Expired(reg') PROVE reg'[c].age - T < SinceCheck' + K * passed'[c]
    BY <1>1 DEF QueueInv, K, T
  <2>2. reg' = RemoveExpire(o) /\ c \in Expired(o)
    <3>1. reg' = RemoveExpire(o)
      BY <1>1, <1>7
    <3>2. \A x \in DOMAIN RemoveExpire(o) : x \in DOMAIN o /\ RemoveExpire(o)[x] = o[x]
      BY DEF RemoveExpire, Without, Restrict
    <3> QED BY <3>1, <3>2 DEF Expired
  <2>3. PICK e \in Expired(o) : e <= c /\ reg' = Without(o, {e})
    BY <1>1, <2>2, FirstExpired
  <2>4. /\ DOMAIN reg' = DOMAIN reg \ {e}
        /\ \A d \in DOMAIN reg \ {e} : reg'[d] = o[d]
    BY <1>2, <2>3 DEF Without, Restrict
  <2>5. /\ c \in DOMAIN reg /\ c \in Clients /\ c # e /\ e \in DOMAIN reg
        /\ reg[c].age + 1 >= T /\ reg'[c].age = reg[c].age + 1
    <3>1. c \in DOMAIN reg \ {e} /\ e \in DOMAIN reg
      BY <1>2, <2>3, <2>4 DEF Expired
    <3> QED BY <1>2, <1>3, <2>2, <2>4, <3>1 DEF Expired, T
  <2>6. e < c
    <3>1. e \in Nat /\ c \in Nat
      BY <1>3, <2>5
    <3> QED BY <2>3, <2>5, <3>1
  <2>7. passed'[c] = Was(c) + 1
    BY <1>1, <2>4, <2>5, <2>6 DEF Passed
  <2> HIDE DEF Was
  <2>8. K * passed'[c] = K * Was(c) + K
    BY <1>1, <1>4, <2>5, <2>7, OneMore
  <2>9. CASE reg[c].age + 1 = T
    BY <1>1, <1>2, <1>4, <2>1, <2>5, <2>8, <2>9
  <2>10. CASE reg[c].age >= T
    BY <1>1, <1>2, <1>4, <1>5, <2>1, <2>5, <2>8, <2>10
  <2> QED BY <1>1, <1>2, <2>5, <2>9, <2>10
<1> QED BY <1>6, <1>7

\* A service that has just reported is not expired, and the others wait as before.
LEMMA QueueRead ==
    ASSUME IInv, QueueInv, NEW fd \in Fds, Read(fd), kind = "deamon"
    PROVE  QueueInv'
<1> DEFINE c == conns[fd].who
           a == Head(conns[fd].msgs)
           i == [addr |-> a, age |-> 0]
<1>1. /\ c \in Clients /\ UNCHANGED <<kind, check, passed>> /\ reg' = With(reg, {c}, i)
      /\ TIMER_EXPIRE \in Nat \ {0}
  BY TimerAssumption DEF Read, SvcAdd, IInv, ConnsTyped, Conn
<1>2. i.age = 0
  OBVIOUS
<1> HIDE DEF c, a, i
<1>3. /\ DOMAIN reg' = DOMAIN reg \cup {c} /\ reg'[c].age = 0
      /\ \A d \in DOMAIN reg : d # c => reg'[d] = reg[d]
  BY <1>1, <1>2 DEF With
<1>4. ASSUME NEW d \in Expired(reg') PROVE d \in Expired(reg) /\ reg'[d] = reg[d]
  <2>1. d \in DOMAIN reg' /\ reg'[d].age >= TIMER_EXPIRE
    BY DEF Expired
  <2>2. d # c
    BY <1>1, <1>3, <2>1
  <2> QED BY <1>3, <2>1, <2>2 DEF Expired
<1> QED BY <1>1, <1>4 DEF QueueInv, SinceCheck

LEMMA QueueNext == IInv /\ QueueInv /\ [Next]_vars => QueueInv'
<1> SUFFICES ASSUME IInv, QueueInv, [Next]_vars, kind' = "deamon" PROVE QueueInv'
  BY DEF QueueInv
<1>1. ASSUME UNCHANGED <<kind, reg, check, passed>> PROVE QueueInv'
  BY <1>1 DEF QueueInv, Expired, SinceCheck
<1>2. CASE \E c \in Clients : Connect(c) \/ OnLost(c) \/ Break(c) \/ Restart(c)
  BY <1>1, <1>2 DEF Connect, OnLost, Break, Restart
<1>3. ASSUME NEW fd \in Fds, Read(fd) PROVE QueueInv'
  BY <1>3, QueueRead DEF Read
<1>4. ASSUME NEW fd \in Fds, OnClosed(fd) PROVE QueueInv'
  BY <1>1, <1>4 DEF OnClosed
<1>5. CASE Tick
  BY <1>5, QueueTick DEF Tick
<1>6. CASE RestartRegistry
  <2>1. reg' = Empty
    BY <1>6 DEF RestartRegistry, NoneKnown
  <2> QED BY <2>1, EmptyMap DEF QueueInv, Expired
<1>7. CASE UNCHANGED vars
  BY <1>1, <1>7 DEF vars
<1> QED BY <1>2, <1>3, <1>4, <1>5, <1>6, <1>7 DEF Next

\* A silent service stays listed for the expiry, for one check, and for one check
\* more for each that took an earlier name: whatever the number of services and
\* the intervals, no check passes it over for nothing (MDMgr::onTimer,
\* SvcList::removeExpire).
THEOREM StaleGo == Spec => []NothingStale
<1>1. Init => QueueInv
  BY EmptyMap DEF Init, NoneKnown, QueueInv, Expired
<1>2. IInv /\ QueueInv => NothingStale
  <2> SUFFICES ASSUME IInv, QueueInv, kind = "deamon", NEW c \in DOMAIN reg
               PROVE  reg[c].age < TIMER_EXPIRE + CHECK_INTERVAL * (1 + passed[c])
    BY DEF NothingStale
  <2> DEFINE K == CHECK_INTERVAL
             p == passed[c]
  <2>1. /\ reg \in Maps(SvcInfo) /\ K \in Nat \ {0} /\ TIMER_EXPIRE \in Nat
        /\ check \in 0 .. K - 1 /\ passed \in [Clients -> Nat]
    BY TimerAssumption DEF IInv, RegTyped, PlainTyped
  <2>2. c \in Clients /\ reg[c].age \in Nat
    <3>1. c \in Clients /\ reg[c] \in SvcInfo
      BY <2>1, MapsAre
    <3> QED BY <3>1 DEF SvcInfo
  <2>3. SinceCheck <= K - 1 /\ SinceCheck \in Int
    BY <2>1 DEF SinceCheck
  <2>4. reg[c].age >= TIMER_EXPIRE => reg[c].age - TIMER_EXPIRE < SinceCheck + K * p
    BY DEF QueueInv, Expired
  <2>5. p \in Nat
    BY <2>1, <2>2
  <2> HIDE DEF p, K
  <2>6. K * p \in Nat /\ K * (1 + p) = K + K * p
    BY <2>1, <2>5, OneMore
  <2>7. reg[c].age < TIMER_EXPIRE + K * (1 + p)
    BY <2>1, <2>2, <2>3, <2>4, <2>6
  <2> QED BY <2>7 DEF K, p
<1> QED BY Inductive, QueueNext, <1>1, <1>2, PTL DEF Spec

-----------------------------------------------------------------------------
(* Who reports is known *)

\* A report comes before the one before it expires.
OftenEnough == REPORT_INTERVAL < TIMER_EXPIRE

\* Ticks since the last report, or since there could have been one.
SinceReport(c) == IF phase[c] = 0 THEN Interval ELSE phase[c]

PhaseInv == \A c \in Clients : phase[c] < Interval

\* What is on the links of a client whose link holds, and what is known of it.
Reports(c) ==
    /\ kind \in {"deamon", "mgroup"} /\ Linked(c)
    /\ \A fd \in DOMAIN conns : conns[fd].who = c /\ fd # link[c] => conns[fd].msgs = <<>>
    /\ \/ conns[link[c]].msgs = <<>>
       \/ conns[link[c]].msgs = <<addr[c]>> /\ SinceReport(c) = 1
    /\ conns[link[c]].msgs = <<>> /\ SinceReport(c) <= steady[c] =>
            Known(c) /\ (kind = "deamon" => reg[c].age = SinceReport(c) - 1)
    /\ steady[c] = Steady => Known(c)

ReportsInv == \A c \in Clients : steady[c] > 0 => Reports(c)

\* A step that changes nothing of c.
LEMMA ReportsSame ==
    ASSUME NEW c \in Clients, steady[c] > 0 => Reports(c), UNCHANGED kind,
           steady'[c] = steady[c], link'[c] = link[c], addr'[c] = addr[c], phase'[c] = phase[c],
           \A fd \in DOMAIN conns' : conns'[fd].who = c => fd \in DOMAIN conns /\ conns'[fd] = conns[fd],
           \A fd \in DOMAIN conns :
                conns[fd].who = c /\ conns[fd].open => fd \in DOMAIN conns' /\ conns'[fd] = conns[fd],
           kind # "push" /\ c \in DOMAIN reg => c \in DOMAIN reg' /\ reg'[c] = reg[c]
    PROVE  (steady[c] > 0 => Reports(c))'
<1> SUFFICES ASSUME steady[c] > 0, Reports(c) PROVE Reports(c)'
  OBVIOUS
<1>1. Linked(c) /\ kind \in {"deamon", "mgroup"} /\ SinceReport(c)' = SinceReport(c)
  BY DEF Reports, SinceReport, Interval
<1>2. Linked(c)' /\ conns'[link'[c]] = conns[link[c]]
  BY <1>1 DEF Linked
<1>3. Known(c) => Known(c)' /\ c \in DOMAIN reg /\ reg'[c] = reg[c]
  BY <1>1 DEF Known
<1> QED BY <1>1, <1>2, <1>3 DEF Reports, Steady

LEMMA ReportsConnect ==
    ASSUME IInv, ReportsInv, NEW d \in Clients, Connect(d), NEW c \in Clients
    PROVE  (steady[c] > 0 => Reports(c))'
<1>1. PICK fd \in FreeFds :
        /\ link' = [link EXCEPT ![d] = fd]
        /\ conns' = With(conns, {fd},
            [who |-> d, msgs |-> IF kind = "push" THEN <<addr[d]>> ELSE <<>>, open |-> TRUE])
  BY DEF Connect
<1>2. /\ fd \notin DOMAIN conns /\ steady' = [steady EXCEPT ![d] = 0] /\ UNCHANGED <<kind, reg, addr, phase>>
      /\ steady \in [Clients -> 0 .. Steady] /\ link \in [Clients -> Fds \cup {Down, Deaf}]
  BY DEF Connect, FreeFds, IInv, PlainTyped
<1>3. CASE c = d
  BY <1>2, <1>3
<1>4. CASE c # d
  <2>1. /\ DOMAIN conns' = DOMAIN conns \cup {fd} /\ conns'[fd].who = d
        /\ \A gd \in DOMAIN conns : conns'[gd] = conns[gd]
    BY <1>1, <1>2 DEF With
  <2>2. steady'[c] = steady[c] /\ link'[c] = link[c]
    BY <1>1, <1>2, <1>4
  <2> QED BY <1>2, <1>4, <2>1, <2>2, ReportsSame DEF ReportsInv
<1> QED BY <1>3, <1>4

LEMMA ReportsLost ==
    ASSUME IInv, ReportsInv, NEW d \in Clients, OnLost(d), NEW c \in Clients
    PROVE  (steady[c] > 0 => Reports(c))'
<1>1. /\ UNCHANGED <<kind, reg, conns, addr, phase, steady>> /\ ~Linked(d)
      /\ link' = [link EXCEPT ![d] = Down] \/ link' = [link EXCEPT ![d] = Deaf]
      /\ link \in [Clients -> Fds \cup {Down, Deaf}]
  BY DEF OnLost, IInv, PlainTyped
<1>2. CASE c = d
  BY <1>1, <1>2 DEF ReportsInv, Reports
<1>3. CASE c # d
  <2>1. link'[c] = link[c]
    BY <1>1, <1>3
  <2> QED BY <1>1, <2>1, ReportsSame DEF ReportsInv
<1> QED BY <1>2, <1>3

\* The links of d are broken, or it is started again.
LEMMA ReportsBroken ==
    ASSUME IInv, ReportsInv, NEW d \in Clients, Break(d) \/ Restart(d), NEW c \in Clients
    PROVE  (steady[c] > 0 => Reports(c))'
<1>1. /\ UNCHANGED <<kind, reg>> /\ steady' = [steady EXCEPT ![d] = 0]
      /\ steady \in [Clients -> 0 .. Steady] /\ link \in [Clients -> Fds \cup {Down, Deaf}]
      /\ addr \in [Clients -> Addrs] /\ phase \in [Clients -> 0 .. REPORT_INTERVAL - 1]
  BY DEF Break, Restart, IInv, PlainTyped
<1>2. CASE c = d
  BY <1>1, <1>2
<1>3. CASE c # d
  <2>1. steady'[c] = steady[c] /\ link'[c] = link[c] /\ addr'[c] = addr[c] /\ phase'[c] = phase[c]
    BY <1>1, <1>3 DEF Break, Restart
  <2>2. /\ DOMAIN conns' = DOMAIN conns
        /\ \A fd \in DOMAIN conns : conns'[fd] = conns[fd] \/ (conns[fd].who = d /\ conns'[fd].who = d)
    <3>1. DOMAIN Broken(d) = DOMAIN conns
          /\ \A fd \in DOMAIN conns : Broken(d)[fd].who = conns[fd].who
                                      /\ (conns[fd].who = d \/ Broken(d)[fd] = conns[fd])
      BY BrokenIs DEF Broken
    <3>2. CASE conns' = Broken(d)
      BY <3>1, <3>2
    <3>3. CASE /\ Linked(d)
               /\ conns' = With(Broken(d), {link[d]}, [who |-> d, msgs |-> <<>>, open |-> FALSE])
      <4> DEFINE B == Broken(d)
                 k == [who |-> d, msgs |-> <<>>, open |-> FALSE]
                 l == link[d]
      <4>1. l \in DOMAIN conns /\ conns[l].who = d /\ k.who = d /\ conns' = With(B, {l}, k)
        BY <3>3 DEF Linked
      <4> HIDE DEF B, k, l
      <4>2. DOMAIN conns' = DOMAIN B \cup {l} /\ \A fd \in DOMAIN B : conns'[fd] = IF fd = l THEN k ELSE B[fd]
        BY <4>1 DEF With
      <4> QED BY <3>1, <4>1, <4>2 DEF B
    <3> QED BY <3>2, <3>3 DEF Break, Restart
  <2> QED BY <1>1, <1>3, <2>1, <2>2, ReportsSame DEF ReportsInv
<1> QED BY <1>2, <1>3

LEMMA ReportsClosed ==
    ASSUME IInv, ReportsInv, NEW fd \in Fds, OnClosed(fd), NEW c \in Clients
    PROVE  (steady[c] > 0 => Reports(c))'
<1>1. /\ DOMAIN conns' = DOMAIN conns \ {fd} /\ ~conns[fd].open
      /\ \A gd \in DOMAIN conns \ {fd} : conns'[gd] = conns[gd]
      /\ UNCHANGED <<kind, link, addr, phase, steady>> /\ (kind # "push" => reg' = reg)
  BY DEF OnClosed, Without, Restrict
<1> QED BY <1>1, ReportsSame DEF ReportsInv

\* The report of c arrives, or that of another.
LEMMA ReportsRead ==
    ASSUME IInv, ReportsInv, NEW fd \in Fds, Read(fd), NEW c \in Clients
    PROVE  (steady[c] > 0 => Reports(c))'
<1> DEFINE d == conns[fd].who
           a == Head(conns[fd].msgs)
           m == Tail(conns[fd].msgs)
           i == [addr |-> a, age |-> 0]
           j == [fd |-> fd, addr |-> a]
<1>1. /\ fd \in DOMAIN conns /\ conns[fd].msgs # <<>> /\ d \in Clients
      /\ UNCHANGED <<kind, link, addr, phase, steady>>
      /\ conns' = [conns EXCEPT ![fd].msgs = m]
      /\ kind = "deamon" => reg' = With(reg, {d}, i)
      /\ kind = "mgroup" => reg' = IF d \in DOMAIN reg THEN reg ELSE With(reg, {d}, j)
      /\ kind \in {"deamon", "push", "mgroup"}
  BY DEF Read, SvcAdd, ProxyAdd, IInv, ConnsTyped, Conn, PlainTyped
<1>2. i.addr = a /\ i.age = 0
  OBVIOUS
<1>3. conns[fd] \in Conn
  BY <1>1 DEF IInv, ConnsTyped
<1> HIDE DEF d, i, j
<1>4. /\ DOMAIN conns' = DOMAIN conns
      /\ \A gd \in DOMAIN conns : gd # fd => conns'[gd] = conns[gd]
      /\ conns'[fd].who = d /\ conns'[fd].msgs = m /\ conns'[fd].open = conns[fd].open
  BY <1>1, <1>3 DEF Conn, d
<1> HIDE DEF a, m
<1>5. /\ kind = "deamon" => d \in DOMAIN reg' /\ reg'[d] = i
      /\ kind = "mgroup" => d \in DOMAIN reg'
      /\ kind # "push" => \A x \in DOMAIN reg : x # d => x \in DOMAIN reg' /\ reg'[x] = reg[x]
  BY <1>1 DEF With
<1>6. CASE c # d
  <2>1. \A gd \in DOMAIN conns' : conns'[gd].who = c => gd \in DOMAIN conns /\ conns'[gd] = conns[gd]
    BY <1>4, <1>6
  <2>2. \A gd \in DOMAIN conns : conns[gd].who = c => gd \in DOMAIN conns' /\ conns'[gd] = conns[gd]
    BY <1>4, <1>6 DEF d
  <2> QED BY <1>1, <1>5, <1>6, <2>1, <2>2, ReportsSame DEF ReportsInv
<1>7. CASE c = d
  <2> SUFFICES ASSUME steady[c] > 0, Reports(c) PROVE Reports(c)'
    BY <1>1 DEF ReportsInv
  <2>1. fd = link[c] /\ conns[fd].msgs = <<addr[c]>> /\ SinceReport(c) = 1 /\ kind # "push" /\ Linked(c)
    BY <1>1, <1>7 DEF Reports, d
  <2>2. a = addr[c] /\ m = <<>>
    BY <2>1 DEF a, m
  <2>3. Linked(c)' /\ SinceReport(c)' = 1 /\ link'[c] = link[c] /\ addr'[c] = addr[c]
    BY <1>1, <1>4, <1>7, <2>1 DEF Linked, SinceReport, Interval
  <2>4. Known(c)' /\ (kind' = "deamon" => reg'[c].age = 0)
    BY <1>1, <1>2, <1>5, <1>7, <2>1, <2>2, <2>3 DEF Known
  <2>5. \A gd \in DOMAIN conns' : conns'[gd].who = c /\ gd # link'[c] => conns'[gd].msgs = <<>>
    BY <1>4, <2>1, <2>3 DEF Reports
  <2>6. conns'[link'[c]].msgs = <<>>
    BY <1>4, <2>1, <2>2, <2>3
  <2> QED BY <1>1, <2>1, <2>3, <2>4, <2>5, <2>6 DEF Reports
<1> QED BY <1>6, <1>7

\* A service that is not too old when a second passes stays, a second older.
LEMMA KeptByTick ==
    ASSUME IInv, Tick, kind = "deamon", NEW c \in DOMAIN reg, reg[c].age + 1 < TIMER_EXPIRE
    PROVE  /\ c \in DOMAIN reg' /\ reg'[c].addr = reg[c].addr
           /\ reg'[c].age = reg[c].age + 1 /\ reg[c].age \in Nat
<1> DEFINE o == Older(reg)
<1>1. reg \in Maps(SvcInfo) /\ reg' = IF check = 0 THEN RemoveExpire(o) ELSE o
  BY DEF IInv, RegTyped, Tick
<1>2. reg[c] \in SvcInfo
  BY <1>1, MapsAre
<1>3. /\ DOMAIN o = DOMAIN reg /\ o[c].addr = reg[c].addr
      /\ o[c].age = reg[c].age + 1 /\ reg[c].age \in Nat
  BY <1>2 DEF Older, SvcInfo
<1> HIDE DEF o
<1>4. c \notin Expired(o)
  BY <1>3, TimerAssumption DEF Expired
<1>5. c \in DOMAIN RemoveExpire(o) /\ RemoveExpire(o)[c] = o[c]
  BY <1>3, <1>4 DEF RemoveExpire, Without, Restrict
<1> QED BY <1>1, <1>3, <1>5

\* What a second does to the link of a client that holds.
LEMMA ReportIs ==
    ASSUME IInv, Tick, NEW c \in Clients, Linked(c)
    PROVE  /\ Linked(c)' /\ link'[c] = link[c] /\ addr'[c] = addr[c]
           /\ \A fd \in DOMAIN conns' : conns'[fd].who = c /\ fd # link[c] => conns'[fd].msgs = <<>>
           /\ conns'[link[c]].msgs = IF phase[c] = 0 THEN <<addr[c]>> ELSE <<>>
<1> DEFINE l == link[c]
<1>1. conns' = Reported /\ UNCHANGED <<link, addr>> /\ \A fd \in DOMAIN conns : conns[fd].msgs = <<>>
  BY DEF Tick
<1>2. l \in DOMAIN conns /\ conns[l].who = c /\ conns[l].open /\ conns[l] \in Conn
  BY DEF Linked, IInv, ConnsTyped
<1>3. DOMAIN conns' = DOMAIN conns
  BY <1>1 DEF Reported
<1>4. conns'[l] = IF phase[c] = 0 THEN [conns[l] EXCEPT !.msgs = Append(@, addr[c])] ELSE conns[l]
  BY <1>1, <1>2 DEF Reported
<1>5. \A fd \in DOMAIN conns : conns[fd].who = c /\ fd # l => conns'[fd] = conns[fd]
  BY <1>1 DEF Reported
<1>6. \A fd \in DOMAIN conns : conns'[fd].who = conns[fd].who
  <2> SUFFICES ASSUME NEW fd \in DOMAIN conns PROVE Reported[fd].who = conns[fd].who
    BY <1>1
  <2> DEFINE k == conns[fd]
             m == Append(conns[fd].msgs, addr[conns[fd].who])
  <2>1. k \in Conn
    BY DEF IInv, ConnsTyped
  <2>2. Reported[fd] = [k EXCEPT !.msgs = m] \/ Reported[fd] = k
    BY DEF Reported
  <2> HIDE DEF k, m
  <2>3. [k EXCEPT !.msgs = m].who = k.who
    BY <2>1 DEF Conn
  <2> QED BY <2>2, <2>3 DEF k
<1>7. Append(conns[l].msgs, addr[c]) = <<addr[c]>>
  <2>1. conns[l].msgs = <<>>
    BY <1>1, <1>2
  <2>2. Append(<<>>, addr[c]) = <<addr[c]>>
    OBVIOUS
  <2> QED BY <2>1, <2>2
<1> HIDE DEF l
<1>8. conns'[l].open /\ conns'[l].msgs = IF phase[c] = 0 THEN <<addr[c]>> ELSE <<>>
  <2> DEFINE k == conns[l]
             m == <<addr[c]>>
  <2>1. k \in Conn /\ k.open /\ k.msgs = <<>> /\ conns'[l] = IF phase[c] = 0 THEN [k EXCEPT !.msgs = m] ELSE k
    BY <1>1, <1>2, <1>4, <1>7
  <2> HIDE DEF k, m
  <2>2. [k EXCEPT !.msgs = m].msgs = m /\ [k EXCEPT !.msgs = m].open = k.open
    BY <2>1 DEF Conn
  <2> QED BY <2>1, <2>2 DEF m
<1>9. \A fd \in DOMAIN conns' : conns'[fd].who = c /\ fd # l => conns'[fd].msgs = <<>>
  BY <1>1, <1>3, <1>5, <1>6
<1> QED BY <1>1, <1>2, <1>3, <1>6, <1>8, <1>9 DEF Linked, l

LEMMA PhaseTick ==
    ASSUME IInv, PhaseInv, Tick, NEW c \in Clients
    PROVE  /\ Interval \in 1 .. REPORT_INTERVAL /\ Interval' = Interval
           /\ phase[c] \in Nat /\ phase'[c] < Interval
           /\ SinceReport(c)' = phase[c] + 1
           /\ SinceReport(c) \in 1 .. Interval
<1>1. /\ Interval \in 1 .. REPORT_INTERVAL /\ Interval' = Interval /\ phase[c] \in Nat /\ phase[c] < Interval
      /\ phase'[c] = (phase[c] + 1) % Interval
  BY ReportAssumption DEF Tick, IInv, PlainTyped, PhaseInv, Interval
<1> DEFINE I == Interval
           p == phase[c]
<1> HIDE DEF I, p
<1>2. I \in Nat \ {0} /\ p \in Nat /\ p < I /\ phase'[c] = (p + 1) % I
  BY <1>1, ReportAssumption DEF I, p
<1>3. phase'[c] = IF p + 1 = I THEN 0 ELSE p + 1
  <2>1. CASE p + 1 = I
    BY <1>2, <2>1
  <2>2. CASE p + 1 < I
    BY <1>2, <2>2
  <2> QED BY <1>2, <2>1, <2>2
<1>4. SinceReport(c)' = p + 1 /\ phase'[c] < I
  BY <1>1, <1>2, <1>3 DEF SinceReport, I
<1>5. SinceReport(c) \in 1 .. I
  BY <1>1, <1>2 DEF SinceReport, I, p
<1> QED BY <1>1, <1>2, <1>4, <1>5 DEF I, p

LEMMA ReportsTick ==
    ASSUME OftenEnough, IInv, PhaseInv, ReportsInv, Tick, NEW c \in Clients
    PROVE  (steady[c] > 0 => Reports(c))'
<1> SUFFICES ASSUME steady'[c] > 0 PROVE Reports(c)'
  OBVIOUS
<1> DEFINE R == REPORT_INTERVAL
           p == phase[c]
           s == steady[c]
<1>1. /\ steady'[c] = IF Linked(c) /\ s < Steady THEN s + 1 ELSE s
      /\ kind \in {"deamon", "mgroup"} /\ kind' = kind /\ s \in 0 .. Steady
      /\ kind = "mgroup" => reg' = reg
      /\ R \in Nat \ {0} /\ TIMER_EXPIRE \in Nat /\ R < TIMER_EXPIRE /\ Steady = R + 1
  BY ReportAssumption, TimerAssumption DEF Tick, IInv, PlainTyped, OftenEnough, Steady
<1>2. Linked(c)
  BY <1>1 DEF ReportsInv, Reports
<1>3. /\ Interval \in 1 .. R /\ p \in Nat /\ SinceReport(c)' = p + 1 /\ SinceReport(c) \in 1 .. Interval
      /\ p # 0 => SinceReport(c) = p
  BY PhaseTick DEF SinceReport
<1>4. /\ Linked(c)' /\ link'[c] = link[c] /\ addr'[c] = addr[c]
      /\ \A fd \in DOMAIN conns' : conns'[fd].who = c /\ fd # link[c] => conns'[fd].msgs = <<>>
      /\ conns'[link[c]].msgs = IF p = 0 THEN <<addr[c]>> ELSE <<>>
  BY <1>2, ReportIs
<1>5. conns[link[c]].msgs = <<>>
  BY <1>2 DEF Tick, Linked
<1>6. SinceReport(c) <= s => Known(c)' /\ (kind = "deamon" => reg'[c].age = SinceReport(c))
  <2> SUFFICES ASSUME SinceReport(c) <= s
               PROVE  Known(c)' /\ (kind = "deamon" => reg'[c].age = SinceReport(c))
    OBVIOUS
  <2>1. Known(c) /\ (kind = "deamon" => reg[c].age = SinceReport(c) - 1)
    BY <1>1, <1>3, <1>5 DEF ReportsInv, Reports
  <2>2. CASE kind = "mgroup"
    BY <1>1, <2>1, <2>2 DEF Known
  <2>3. CASE kind = "deamon"
    <3>1. c \in DOMAIN reg /\ reg[c].addr = addr[c]
      BY <2>1, <2>3 DEF Known
    <3>2. reg[c].age + 1 = SinceReport(c) /\ reg[c].age + 1 < TIMER_EXPIRE
      BY <1>1, <1>3, <2>1, <2>3
    <3>3. c \in DOMAIN reg' /\ reg'[c].addr = addr[c] /\ reg'[c].age = SinceReport(c)
      BY <2>3, <3>1, <3>2, KeptByTick
    <3> QED BY <1>1, <1>4, <2>3, <3>3 DEF Known
  <2> QED BY <1>1, <2>2, <2>3
<1> HIDE DEF R, p, s
<1>7. steady'[c] = Steady' => SinceReport(c) <= s
  BY <1>1, <1>3 DEF Steady
<1>8. p # 0 /\ p + 1 <= steady'[c] => SinceReport(c) <= s /\ SinceReport(c) = p
  BY <1>1, <1>3
<1>9. \/ conns'[link'[c]].msgs = <<>>
      \/ conns'[link'[c]].msgs = <<addr'[c]>> /\ SinceReport(c)' = 1
  BY <1>3, <1>4
<1>10. ASSUME conns'[link'[c]].msgs = <<>>, SinceReport(c)' <= steady'[c]
       PROVE  Known(c)' /\ (kind' = "deamon" => reg'[c].age = SinceReport(c)' - 1)
  <2>1. p # 0
    <3>1. <<addr[c]>> # <<>>
      OBVIOUS
    <3>2. conns'[link[c]].msgs = <<>>
      BY <1>4, <1>10
    <3> QED BY <1>4, <3>1, <3>2
  <2> QED BY <1>1, <1>3, <1>6, <1>8, <1>10, <2>1
<1> QED BY <1>1, <1>4, <1>6, <1>7, <1>9, <1>10 DEF Reports

LEMMA ReportsNext ==
    OftenEnough /\ IInv /\ PhaseInv /\ ReportsInv /\ [Next]_vars => PhaseInv' /\ ReportsInv'
<1> SUFFICES ASSUME OftenEnough, IInv, PhaseInv, ReportsInv, [Next]_vars PROVE PhaseInv' /\ ReportsInv'
  OBVIOUS
<1>1. PhaseInv'
  <2>1. CASE Tick
    BY <2>1, PhaseTick DEF PhaseInv
  <2>2. CASE UNCHANGED <<kind, phase>>
    BY <2>2 DEF PhaseInv, Interval
  <2>3. ASSUME NEW c \in Clients, Restart(c) PROVE PhaseInv'
    <3>1. /\ phase' = [phase EXCEPT ![c] = 0] /\ kind' = kind
          /\ phase \in [Clients -> 0 .. REPORT_INTERVAL - 1]
      BY <2>3 DEF Restart, IInv, PlainTyped
    <3>2. 0 < Interval /\ Interval' = Interval
      BY <3>1, ReportAssumption DEF Interval
    <3> QED BY <3>1, <3>2 DEF PhaseInv
  <2> QED BY <2>1, <2>2, <2>3 DEF Next, Connect, OnLost, Break, Read, OnClosed, RestartRegistry, vars
<1>2. ReportsInv'
  <2> SUFFICES ASSUME NEW c \in Clients PROVE (steady[c] > 0 => Reports(c))'
    BY DEF ReportsInv
  <2>1. CASE \E d \in Clients : Connect(d) \/ OnLost(d) \/ Break(d) \/ Restart(d)
    BY <2>1, ReportsConnect, ReportsLost, ReportsBroken
  <2>2. CASE \E fd \in Fds : Read(fd) \/ OnClosed(fd)
    BY <2>2, ReportsRead, ReportsClosed
  <2>3. CASE Tick
    BY <2>3, ReportsTick
  <2>4. CASE RestartRegistry
    BY <2>4 DEF RestartRegistry
  <2>5. CASE UNCHANGED vars
    <3>1. UNCHANGED <<kind, reg, conns, addr, phase, steady, link>>
      BY <2>5 DEF vars
    <3> QED BY <3>1, ReportsSame DEF ReportsInv
  <2> QED BY <2>1, <2>2, <2>3, <2>4, <2>5 DEF Next
<1> QED BY <1>1, <1>2

\* A service whose link holds long enough for a report and the time it takes is
\* listed at its address and stays listed, whatever links broke and processes were
\* started again before; mgroup has a proxy to give as soon as one has reported
\* (MCMgr::onTimer and MDMgr::onTimer, MPMgr::schedule and getFreeProxy).
THEOREM ReportingKeeps ==
    ASSUME OftenEnough, IsFiniteSet(Clients) PROVE Spec => []KeptWhileReporting
<1>1. Init => PhaseInv /\ ReportsInv
  BY ReportAssumption DEF Init, PhaseInv, Interval, ReportsInv
<1>2. IInv /\ ReportsInv => KeptWhileReporting
  <2> SUFFICES ASSUME IInv, NEW c \in Clients, Reports(c), steady[c] = Steady
               PROVE  Known(c) /\ (kind = "mgroup" => \E d \in FreeProxy(reg) : c <= d)
    BY ReportAssumption DEF ReportsInv, KeptWhileReporting, Steady
  <2>1. Known(c)
    BY DEF Reports
  <2>2. ASSUME kind = "mgroup" PROVE \E d \in FreeProxy(reg) : c <= d
    <3>1. c \in DOMAIN reg /\ DOMAIN reg \subseteq Clients
      BY <2>1, <2>2, MapsAre DEF Known, IInv, RegTyped
    <3>2. IsFiniteSet(DOMAIN reg) /\ DOMAIN reg \subseteq Nat
      BY <3>1, FS_Subset, ClientsAssumption
    <3>3. PICK d \in DOMAIN reg : \A e \in DOMAIN reg : e <= d
      BY <3>1, <3>2, Greatest
    <3> QED BY <3>1, <3>3 DEF FreeProxy
  <2> QED BY <2>1, <2>2
<1> QED BY Inductive, ReportsNext, <1>1, <1>2, PTL DEF Spec
=============================================================================
