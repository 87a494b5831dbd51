---------------------------- MODULE AndNetProofs ----------------------------
(***************************************************************************)
(* Theorems about AndNet, for any number of links, timers and requests.    *)
(*                                                                         *)
(* What a request finds when it is carried out depends on what has been    *)
(* asked before it and not yet done: Pending is all of that, in order, what *)
(* the net thread has fetched and then the queue.  Fits says of each fit   *)
(* request that its link is there and in a state that takes it; Ordered,   *)
(* that nothing that comes before it in the queue will change that.        *)
(*                                                                         *)
(* The second part is about Framing, for messages of any lengths below     *)
(* 2^15, in any pieces: ProtoLink, and the callbacks of the processes, cut *)
(* the bytes of a link into messages.                                      *)
(***************************************************************************)
EXTENDS AndNet, Framing, BasicFacts

Pending == msgs \o queue

Iterators == [at : Nat \ {0}, stale : BOOLEAN]

\* Who has been told of a link is told of one that was connected.
LinksInv ==
    /\ last \in 0 .. MaxLinks
    /\ DOMAIN links \subseteq 1 .. last
    /\ links \in [DOMAIN links -> [tcp : BOOLEAN, chan : Chans]]
    /\ connected \in [LinkIds -> BOOLEAN]
    /\ closing \subseteq LinkIds
    /\ asked \in [LinkIds -> SUBSET Marks]
    /\ queue \in Seq(Msg)
    /\ msgs \in Seq(Msg)
    /\ iter \in Iterators
    /\ pc \in {"select", "check"} => msgs = <<>>
    /\ \A l \in LinkIds : connected[l] => l <= last
    /\ \A l \in DOMAIN links : connected[l] => Chan(l) \in {"connected", "closed"}

\* What has become of a link was asked for.
AskedInv ==
    /\ \A l \in LinkIds : "closed" \in asked[l] => "close" \in asked[l]
    /\ \A l \in closing : "close" \in asked[l]
    /\ \A l \in 1 .. last : l \notin DOMAIN links => "closed" \in asked[l]
    /\ \A l \in DOMAIN links : Chan(l) # "new" => "connect" \in asked[l]

TimersInv ==
    /\ timers \in Seq(Timer)
    /\ \A t \in ToSet(timers) :
         /\ t.link <= last
         /\ "close" \in asked[t.link] => "late" \in asked[t.link]

\* Every fit request of P finds its link as it should be.
Fits(P) ==
    \A i \in 1 .. Len(P) :
        /\ P[i].link \in LinkIds
        /\ P[i].type = "connect" => "connect" \in asked[P[i].link]
        /\ P[i].type = "close" => "closed" \in asked[P[i].link]
        /\ P[i].fit =>
             /\ P[i].link \in DOMAIN links
             /\ P[i].type = "connect" => Chan(P[i].link) = "new" /\ ~P[i].name
             /\ P[i].type = "send" => Chan(P[i].link) \in {"connected", "closed"}

\* No fit request follows a close of its link, nor a connect another.
Ordered(P) ==
    \A i, j \in 1 .. Len(P) : i < j /\ P[j].fit /\ P[j].link = P[i].link =>
        /\ P[i].type # "close"
        /\ P[j].type = "connect" => P[i].type # "connect"

IInv == LinksInv /\ AskedInv /\ TimersInv /\ Fits(Pending) /\ Ordered(Pending)

-----------------------------------------------------------------------------
(* Sequences of requests *)

\* What is asked comes last.
LEMMA PendingPush ==
    ASSUME NEW m \in Seq(Msg), NEW q \in Seq(Msg), NEW r \in Msg
    PROVE  /\ Append(q, r) \in Seq(Msg)
           /\ Len(m \o Append(q, r)) = Len(m \o q) + 1
           /\ Len(m \o q) \in Nat
           /\ \A i \in 1 .. Len(m \o q) : (m \o Append(q, r))[i] = (m \o q)[i]
           /\ (m \o Append(q, r))[Len(m \o q) + 1] = r
<1>1. Append(q, r) \in Seq(Msg) /\ Len(Append(q, r)) = Len(q) + 1 /\ Len(q) \in Nat /\ Len(m) \in Nat
  BY AppendProperties, LenProperties
<1>2. Len(m \o q) = Len(m) + Len(q) /\ Len(m \o Append(q, r)) = Len(m) + Len(q) + 1
  BY <1>1, ConcatProperties
<1>3. \A i \in 1 .. Len(m) + Len(q) : (m \o q)[i] = IF i <= Len(m) THEN m[i] ELSE q[i - Len(m)]
  BY <1>1, ConcatProperties
<1>4. \A i \in 1 .. Len(m) + Len(q) + 1 :
        (m \o Append(q, r))[i] = IF i <= Len(m) THEN m[i] ELSE Append(q, r)[i - Len(m)]
  <2>1. \A i \in 1 .. Len(m) + Len(Append(q, r)) :
          (m \o Append(q, r))[i] = IF i <= Len(m) THEN m[i] ELSE Append(q, r)[i - Len(m)]
    BY <1>1, ConcatProperties, Zenon
  <2>2. Len(m) + Len(Append(q, r)) = Len(m) + Len(q) + 1
    BY <1>1
  <2> QED BY <2>1, <2>2, Zenon
<1>5. \A i \in 1 .. Len(q) : Append(q, r)[i] = q[i]
  BY <1>1, AppendProperties
<1>6. Append(q, r)[Len(q) + 1] = r
  BY <1>1, AppendProperties
<1>7. \A i \in 1 .. Len(m \o q) : (m \o Append(q, r))[i] = (m \o q)[i]
  BY <1>1, <1>2, <1>3, <1>4, <1>5
<1>8. (m \o Append(q, r))[Len(m \o q) + 1] = r
  BY <1>1, <1>2, <1>4, <1>6
<1> QED BY <1>1, <1>2, <1>7, <1>8

\* What is carried out comes first.
LEMMA PendingDone ==
    ASSUME NEW m \in Seq(Msg), NEW q \in Seq(Msg), m # <<>>
    PROVE  /\ Tail(m) \in Seq(Msg) /\ Head(m) \in Msg
           /\ Len(m \o q) \in Nat \ {0}
           /\ Len(Tail(m) \o q) = Len(m \o q) - 1
           /\ (m \o q)[1] = Head(m)
           /\ \A i \in 1 .. Len(Tail(m) \o q) : (Tail(m) \o q)[i] = (m \o q)[i + 1]
<1>1. /\ Tail(m) \in Seq(Msg) /\ Head(m) \in Msg /\ Len(Tail(m)) = Len(m) - 1
      /\ Len(m) \in Nat \ {0} /\ Len(q) \in Nat /\ Head(m) = m[1]
      /\ \A i \in 1 .. Len(m) - 1 : Tail(m)[i] = m[i + 1]
  BY HeadTailProperties, LenProperties, EmptySeq
<1>2. Len(m \o q) = Len(m) + Len(q) /\ Len(Tail(m) \o q) = Len(m) - 1 + Len(q)
  BY <1>1, ConcatProperties
<1>3. \A i \in 1 .. Len(m) + Len(q) : (m \o q)[i] = IF i <= Len(m) THEN m[i] ELSE q[i - Len(m)]
  BY <1>1, ConcatProperties
<1>4. \A i \in 1 .. Len(m) - 1 + Len(q) :
        (Tail(m) \o q)[i] = IF i <= Len(m) - 1 THEN Tail(m)[i] ELSE q[i - (Len(m) - 1)]
  BY <1>1, ConcatProperties
<1>5. ASSUME NEW i \in 1 .. Len(Tail(m) \o q) PROVE (Tail(m) \o q)[i] = (m \o q)[i + 1]
  <2>1. i \in 1 .. Len(m) - 1 + Len(q) /\ i + 1 \in 1 .. Len(m) + Len(q) /\ i \in Int
    BY <1>1, <1>2
  <2>2. CASE i <= Len(m) - 1
    BY <1>1, <1>3, <1>4, <2>1, <2>2
  <2>3. CASE i > Len(m) - 1
    <3>1. (Tail(m) \o q)[i] = q[i - (Len(m) - 1)] /\ (m \o q)[i + 1] = q[i + 1 - Len(m)]
      BY <1>1, <1>3, <1>4, <2>1, <2>3
    <3>2. i - (Len(m) - 1) = i + 1 - Len(m)
      BY <1>1, <2>1
    <3> QED BY <3>1, <3>2
  <2> QED BY <1>1, <2>1, <2>2, <2>3
<1> QED BY <1>1, <1>2, <1>3, <1>5

\* A sequence that is cut in two is what its parts make.
LEMMA Joined ==
    ASSUME NEW q \in Seq(Msg), NEW n \in 0 .. Len(q), NEW a \in Seq(Msg), NEW b \in Seq(Msg),
           Len(a) = n, \A i \in 1 .. n : a[i] = q[i],
           Len(b) = Len(q) - n, \A i \in 1 .. Len(q) - n : b[i] = q[n + i]
    PROVE  a \o b = q
<1>1. Len(q) \in Nat /\ n \in Nat /\ n <= Len(q)
  BY LenProperties
<1>2. /\ a \o b \in Seq(Msg) /\ Len(a \o b) = Len(a) + Len(b)
      /\ \A i \in 1 .. Len(a) + Len(b) : (a \o b)[i] = IF i <= Len(a) THEN a[i] ELSE b[i - Len(a)]
  BY ConcatProperties, Zenon
<1>3. Len(a \o b) = Len(q)
  BY <1>1, <1>2
<1>4. \A i \in 1 .. Len(a \o b) : (a \o b)[i] = q[i]
  BY <1>1, <1>2
<1> QED BY <1>2, <1>3, <1>4, SeqEqual, Zenon

\* What is fetched leaves the queue.
LEMMA PendingFetch ==
    ASSUME NEW q \in Seq(Msg), NEW n \in 0 .. Len(q)
    PROVE  /\ SubSeq(q, 1, n) \in Seq(Msg) /\ SubSeq(q, n + 1, Len(q)) \in Seq(Msg)
           /\ SubSeq(q, 1, n) \o SubSeq(q, n + 1, Len(q)) = <<>> \o q
<1>1. Len(q) \in Nat /\ n \in Nat /\ n <= Len(q)
  BY LenProperties
<1>2. /\ SubSeq(q, 1, n) \in Seq(Msg) /\ Len(SubSeq(q, 1, n)) = n
      /\ \A i \in 1 .. n : SubSeq(q, 1, n)[i] = q[i]
  BY <1>1, SubSeqProperties
<1>3. /\ SubSeq(q, n + 1, Len(q)) \in Seq(Msg) /\ Len(SubSeq(q, n + 1, Len(q))) = Len(q) - n
      /\ \A i \in 1 .. Len(q) - n : SubSeq(q, n + 1, Len(q))[i] = q[n + i]
  BY <1>1, SubSeqProperties
<1>4. SubSeq(q, 1, n) \o SubSeq(q, n + 1, Len(q)) = q
  BY <1>2, <1>3, Joined, Zenon
<1>5. <<>> \o q = q
  BY ConcatEmptySeq, Zenon
<1> QED BY <1>2, <1>3, <1>4, <1>5

-----------------------------------------------------------------------------
(* What a step does to the requests that are pending *)

\* A link is in DOMAIN links with a state that takes what took it before.
Takes(l) ==
    /\ l \in DOMAIN links'
    /\ Chan(l) = "new" => Chan(l)' = "new"
    /\ Chan(l) \in {"connected", "closed"} => Chan(l)' \in {"connected", "closed"}

\* They stay the same.
LEMMA PendingKept ==
    ASSUME Fits(Pending), Ordered(Pending), Pending' = Pending,
           \A l \in DOMAIN links : Takes(l),
           \A l \in LinkIds : asked[l] \subseteq asked'[l]
    PROVE  Fits(Pending)' /\ Ordered(Pending)'
<1> DEFINE P == Pending
<1>1. Fits(P) /\ Ordered(P) /\ P' = P
  OBVIOUS
<1> SUFFICES Fits(P)' /\ Ordered(P)'
  OBVIOUS
<1> HIDE DEF P
<1>2. Ordered(P)'
  BY <1>1 DEF Ordered
<1>3. Fits(P)'
  BY <1>1 DEF Fits, Takes
<1> QED BY <1>2, <1>3

\* One is added: a fit one is of a link that takes it, and that nobody has closed.
LEMMA PendingAdded ==
    ASSUME NEW r \in Msg, msgs \in Seq(Msg), queue \in Seq(Msg),
           Fits(Pending), Ordered(Pending), msgs' = msgs, queue' = Append(queue, r),
           UNCHANGED links,
           \A l \in LinkIds : asked[l] \subseteq asked'[l],
           r.type = "connect" => "connect" \in asked'[r.link],
           r.type = "close" => "closed" \in asked'[r.link],
           r.fit => /\ r.link \in DOMAIN links /\ "closed" \notin asked[r.link]
                    /\ r.type = "connect" =>
                         Chan(r.link) = "new" /\ "connect" \notin asked[r.link] /\ ~r.name
                    /\ r.type = "send" => Chan(r.link) \in {"connected", "closed"}
    PROVE  queue' \in Seq(Msg) /\ Fits(Pending)' /\ Ordered(Pending)'
<1> DEFINE P == Pending
<1>1. Fits(P) /\ Ordered(P)
  OBVIOUS
<1>2. /\ queue' \in Seq(Msg) /\ Len(P') = Len(P) + 1 /\ Len(P) \in Nat
      /\ \A i \in 1 .. Len(P) : P'[i] = P[i]
      /\ P'[Len(P) + 1] = r
  <2>1. P = msgs \o queue /\ P' = msgs \o Append(queue, r) /\ queue' = Append(queue, r)
    BY DEF Pending
  <2>2. /\ Append(queue, r) \in Seq(Msg)
        /\ Len(msgs \o Append(queue, r)) = Len(msgs \o queue) + 1
        /\ Len(msgs \o queue) \in Nat
        /\ \A i \in 1 .. Len(msgs \o queue) : (msgs \o Append(queue, r))[i] = (msgs \o queue)[i]
        /\ (msgs \o Append(queue, r))[Len(msgs \o queue) + 1] = r
    BY PendingPush
  <2> HIDE DEF P
  <2> QED BY <2>1, <2>2, Zenon
<1> SUFFICES Fits(P)' /\ Ordered(P)'
  BY <1>2
<1> HIDE DEF P
<1>3. \A i \in 1 .. Len(P) : r.fit /\ P[i].link = r.link =>
        P[i].type # "close" /\ ~(r.type = "connect" /\ P[i].type = "connect")
  BY <1>1 DEF Fits
<1>4. \A i \in 1 .. Len(P') : (i \in 1 .. Len(P) /\ P'[i] = P[i]) \/ P'[i] = r
  BY <1>2
<1>5. Fits(P)'
  <2> SUFFICES ASSUME NEW i \in 1 .. Len(P')
               PROVE  /\ P'[i].link \in LinkIds
                      /\ P'[i].type = "connect" => "connect" \in asked'[P'[i].link]
                      /\ P'[i].type = "close" => "closed" \in asked'[P'[i].link]
                      /\ P'[i].fit =>
                           /\ P'[i].link \in DOMAIN links'
                           /\ P'[i].type = "connect" => links'[P'[i].link].chan = "new" /\ ~P'[i].name
                           /\ P'[i].type = "send" => links'[P'[i].link].chan \in {"connected", "closed"}
    BY DEF Fits, Chan
  <2>1. CASE i \in 1 .. Len(P) /\ P'[i] = P[i]
    BY <1>1, <2>1 DEF Fits, Chan
  <2>2. CASE P'[i] = r
    BY <2>2 DEF Chan, Msg
  <2> QED BY <1>4, <2>1, <2>2
<1>6. Ordered(P)'
  <2> SUFFICES ASSUME NEW i \in 1 .. Len(P'), NEW j \in 1 .. Len(P'), i < j,
                      P'[j].fit, P'[j].link = P'[i].link
               PROVE  /\ P'[i].type # "close"
                      /\ P'[j].type = "connect" => P'[i].type # "connect"
    BY DEF Ordered
  <2>1. i \in 1 .. Len(P) /\ P'[i] = P[i]
    BY <1>2
  <2>2. CASE j \in 1 .. Len(P) /\ P'[j] = P[j]
    BY <1>1, <2>1, <2>2 DEF Ordered
  <2>3. CASE P'[j] = r
    BY <1>3, <2>1, <2>3
  <2> QED BY <1>4, <2>2, <2>3
<1> QED BY <1>5, <1>6

\* The first one is done: it has closed its link, or connected it, or left all
\* as it was.
LEMMA PendingDoneFits ==
    ASSUME NEW r, msgs # <<>>, r = Head(msgs), msgs \in Seq(Msg), queue \in Seq(Msg),
           Fits(Pending), Ordered(Pending), msgs' = Tail(msgs), queue' = queue, UNCHANGED asked,
           \A l \in DOMAIN links \ {r.link} : l \in DOMAIN links' /\ links'[l] = links[l],
           \/ r.type = "close"
           \/ r.type = "connect" /\ r.link \in DOMAIN links' /\ Chan(r.link) = "new"
           \/ UNCHANGED links
    PROVE  msgs' \in Seq(Msg) /\ Fits(Pending)' /\ Ordered(Pending)'
<1> DEFINE P == Pending
<1>1. Fits(P) /\ Ordered(P)
  OBVIOUS
<1>2. /\ msgs' \in Seq(Msg) /\ Len(P') = Len(P) - 1 /\ Len(P) \in Nat \ {0} /\ P[1] = r
      /\ \A i \in 1 .. Len(P') : P'[i] = P[i + 1]
  <2>1. P = msgs \o queue /\ P' = Tail(msgs) \o queue /\ msgs' = Tail(msgs)
    BY DEF Pending
  <2> HIDE DEF P
  <2> QED BY <2>1, PendingDone, Zenon
<1> SUFFICES Fits(P)' /\ Ordered(P)'
  BY <1>2
<1> HIDE DEF P
<1>3. Ordered(P)'
  <2> SUFFICES ASSUME NEW i \in 1 .. Len(P'), NEW j \in 1 .. Len(P'), i < j,
                      P'[j].fit, P'[j].link = P'[i].link
               PROVE  /\ P'[i].type # "close"
                      /\ P'[j].type = "connect" => P'[i].type # "connect"
    BY DEF Ordered
  <2>1. i + 1 \in 1 .. Len(P) /\ j + 1 \in 1 .. Len(P) /\ i + 1 < j + 1 /\ P'[i] = P[i + 1] /\ P'[j] = P[j + 1]
    BY <1>2
  <2> QED BY <1>1, <2>1 DEF Ordered
<1>4. Fits(P)'
  <2> SUFFICES ASSUME NEW i \in 1 .. Len(P')
               PROVE  /\ P'[i].link \in LinkIds
                      /\ P'[i].type = "connect" => "connect" \in asked'[P'[i].link]
                      /\ P'[i].type = "close" => "closed" \in asked'[P'[i].link]
                      /\ P'[i].fit =>
                           /\ P'[i].link \in DOMAIN links'
                           /\ P'[i].type = "connect" => links'[P'[i].link].chan = "new" /\ ~P'[i].name
                           /\ P'[i].type = "send" => links'[P'[i].link].chan \in {"connected", "closed"}
    BY DEF Fits, Chan
  <2> DEFINE k == i + 1
  <2>1. k \in 1 .. Len(P) /\ 1 \in 1 .. Len(P) /\ 1 < k /\ P'[i] = P[k]
    BY <1>2
  <2> HIDE DEF k
  <2>2. /\ P[k].link \in LinkIds
        /\ P[k].type = "connect" => "connect" \in asked[P[k].link]
        /\ P[k].type = "close" => "closed" \in asked[P[k].link]
        /\ P[k].fit =>
             /\ P[k].link \in DOMAIN links
             /\ P[k].type = "connect" => Chan(P[k].link) = "new" /\ ~P[k].name
             /\ P[k].type = "send" => Chan(P[k].link) \in {"connected", "closed"}
    BY <1>1, <2>1 DEF Fits
  <2>3. P[k].fit /\ P[k].link = r.link =>
          /\ r.type # "close"
          /\ P[k].type = "connect" => r.type # "connect"
    BY <1>1, <1>2, <2>1 DEF Ordered
  <2>4. CASE P[k].link # r.link
    BY <2>1, <2>2, <2>4 DEF Chan
  <2>5. CASE P[k].link = r.link
    BY <2>1, <2>2, <2>3, <2>5 DEF Chan
  <2> QED BY <2>4, <2>5
<1> QED BY <1>3, <1>4

-----------------------------------------------------------------------------
(* Steps *)

LEMMA LinkIsId == ASSUME LinksInv, NEW l \in DOMAIN links PROVE l \in LinkIds /\ l \in 1 .. last
BY AndNetAssumption DEF LinksInv, LinkIds

LEMMA MadeIsId == ASSUME LinksInv PROVE 1 .. last \subseteq LinkIds
BY AndNetAssumption DEF LinksInv, LinkIds

\* SetChan changes one link.
LEMMA SetChanIs ==
    ASSUME LinksInv, NEW l \in DOMAIN links, NEW c \in Chans, links' = SetChan(l, c)
    PROVE  /\ DOMAIN links' = DOMAIN links
           /\ links' \in [DOMAIN links' -> [tcp : BOOLEAN, chan : Chans]]
           /\ Chan(l)' = c
           /\ \A k \in DOMAIN links \ {l} : links'[k] = links[k]
BY DEF LinksInv, SetChan, Chan

\* What is marked is marked besides what was.
LEMMA MarkIs ==
    ASSUME LinksInv, NEW l \in LinkIds, NEW mark \in Marks, Mark(l, mark)
    PROVE  /\ asked' \in [LinkIds -> SUBSET Marks]
           /\ asked'[l] = asked[l] \cup {mark}
           /\ \A k \in LinkIds \ {l} : asked'[k] = asked[k]
           /\ \A k \in LinkIds : asked[k] \subseteq asked'[k]
BY DEF LinksInv, Mark

\* The timers are what they were, or fewer, and no link has been closed.
LEMMA TimersKept ==
    ASSUME LinksInv, TimersInv, timers' \in Seq(Timer), ToSet(timers') \subseteq ToSet(timers),
           last <= last', last' \in Nat,
           \A k \in LinkIds : asked[k] \subseteq asked'[k],
           \A k \in LinkIds : "close" \in asked'[k] => "close" \in asked[k]
    PROVE  TimersInv'
<1>1. ASSUME NEW t \in ToSet(timers')
      PROVE  t.link <= last' /\ ("close" \in asked'[t.link] => "late" \in asked'[t.link])
  <2>1. t \in ToSet(timers) /\ t.link <= last /\ ("close" \in asked[t.link] => "late" \in asked[t.link])
    BY <1>1 DEF TimersInv
  <2>2. t \in Timer
    BY <1>1 DEF ToSet
  <2>3. t.link \in LinkIds /\ t.link \in Nat /\ last \in Nat
    BY <2>2 DEF Timer, LinkIds, LinksInv
  <2> QED BY <2>1, <2>3
<1> QED BY <1>1 DEF TimersInv

\* A list without the timers of a link.
LEMMA NotOfIs ==
    ASSUME timers \in Seq(Timer), NEW l
    PROVE  /\ NotOf(l) \in Seq(Timer)
           /\ ToSet(NotOf(l)) \subseteq ToSet(timers)
           /\ \A t \in ToSet(NotOf(l)) : t.link # l
<1> DEFINE gone == {i \in DOMAIN timers : timers[i].link = l}
<1>1. NotOf(l) \in Seq(Timer) /\ ToSet(NotOf(l)) = {timers[i] : i \in DOMAIN timers \ gone}
  BY RemainingHolds DEF NotOf
<1> QED BY <1>1 DEF ToSet

LEMMA InitRight == Init => IInv
<1> SUFFICES ASSUME Init PROVE IInv
  OBVIOUS
<1>1. LinksInv
  BY AndNetAssumption DEF Init, LinksInv, LinkIds, Empty, Iterators
<1>2. AskedInv
  BY DEF Init, AskedInv, Empty
<1>3. TimersInv
  BY EmptySeq DEF Init, TimersInv, ToSet
<1>4. Fits(Pending) /\ Ordered(Pending)
  <2>1. Len(Pending) = 0
    BY ConcatProperties, EmptySeq DEF Init, Pending
  <2> QED BY <2>1 DEF Fits, Ordered
<1> QED BY <1>1, <1>2, <1>3, <1>4 DEF IInv

\* The selector finds a link ready: its channel, connecting or connected, may
\* change, and it may be announced.
LEMMA SelectStep ==
    ASSUME IInv, NEW l \in DOMAIN links, NEW c \in {"connected", "closed"},
           Chan(l) \in {"connecting", "connected"},
           links' = SetChan(l, c) \/ (Chan(l) = "connected" /\ UNCHANGED links),
           NEW b \in BOOLEAN,
           connected' = [connected EXCEPT ![l] = b] \/ UNCHANGED connected,
           UNCHANGED <<last, queue, pc, msgs, held, timers, iter, closing, asked>>
    PROVE  IInv'
<1>0. LinksInv /\ AskedInv /\ TimersInv /\ l \in LinkIds /\ l \in 1 .. last
  BY LinkIsId DEF IInv
<1>1. /\ DOMAIN links' = DOMAIN links
      /\ links' \in [DOMAIN links' -> [tcp : BOOLEAN, chan : Chans]]
      /\ \A k \in DOMAIN links \ {l} : links'[k] = links[k]
      /\ Chan(l)' \in {"connected", "closed"}
  <2>1. CASE links' = SetChan(l, c)
    BY <1>0, <2>1, SetChanIs DEF Chans
  <2>2. CASE Chan(l) = "connected" /\ UNCHANGED links
    BY <1>0, <2>2 DEF LinksInv, Chan
  <2> QED BY <2>1, <2>2
<1>2. /\ connected' \in [LinkIds -> BOOLEAN]
      /\ \A k \in LinkIds \ {l} : connected'[k] = connected[k]
  BY <1>0 DEF LinksInv
<1>3. LinksInv'
  <2>1. \A k \in LinkIds : connected'[k] => k <= last'
    BY <1>0, <1>2 DEF LinksInv
  <2>2. \A k \in DOMAIN links' : connected'[k] => Chan(k)' \in {"connected", "closed"}
    BY <1>0, <1>1, <1>2, LinkIsId DEF LinksInv, Chan
  <2> QED BY <1>0, <1>1, <1>2, <2>1, <2>2 DEF LinksInv
<1>4. AskedInv'
  BY <1>0, <1>1 DEF AskedInv, Chan
<1>5. TimersInv'
  BY <1>0 DEF TimersInv
<1>6. Fits(Pending)' /\ Ordered(Pending)'
  <2>1. Pending' = Pending
    BY DEF Pending
  <2>2. \A k \in DOMAIN links : Takes(k)
    BY <1>1 DEF Takes, Chan
  <2> QED BY <2>1, <2>2, PendingKept DEF IInv
<1> QED BY <1>3, <1>4, <1>5, <1>6 DEF IInv

LEMMA ReadyRight ==
    ASSUME IInv, NEW l \in LinkIds, OnConnectable(l) \/ OnRead(l)
    PROVE  IInv'
<1>1. CASE OnConnectable(l)
  BY <1>1, SelectStep DEF OnConnectable
<1>2. CASE OnRead(l)
  <2>1. /\ l \in DOMAIN links /\ Chan(l) = "connected"
        /\ UNCHANGED <<last, queue, pc, msgs, held, timers, iter, closing, asked>>
    BY <1>2 DEF OnRead
  <2>2. CASE links' = links /\ connected' = connected
    BY <2>1, <2>2, SelectStep
  <2>3. CASE links' = SetChan(l, "closed") /\ connected' = connected
    BY <2>1, <2>3, SelectStep
  <2>4. CASE links' = SetChan(l, "closed") /\ connected' = [connected EXCEPT ![l] = FALSE]
    BY <2>1, <2>4, SelectStep
  <2> QED BY <1>2, <2>2, <2>3, <2>4 DEF OnRead
<1> QED BY <1>1, <1>2

\* A new link has no state that anything depends on.
LEMMA CreateRight == ASSUME IInv, NEW tcp \in BOOLEAN, Create(tcp) PROVE IInv'
<1> DEFINE n == last + 1
<1>0. /\ LinksInv /\ AskedInv /\ TimersInv
      /\ n \in 1 .. MaxLinks /\ n \notin DOMAIN links /\ n \notin 1 .. last
  BY AndNetAssumption DEF IInv, LinksInv, Create
<1>1. /\ DOMAIN links' = DOMAIN links \cup {n}
      /\ \A k \in DOMAIN links : links'[k] = links[k]
      /\ links'[n] = [tcp |-> tcp, chan |-> "new"]
  BY <1>0 DEF Create, With
<1>2. UNCHANGED <<queue, pc, msgs, held, timers, iter, connected, closing, asked>> /\ last' = n
  BY DEF Create
<1>3. LinksInv'
  <2>1. DOMAIN links' \subseteq 1 .. last' /\ last' \in 0 .. MaxLinks
    BY <1>0, <1>1, <1>2 DEF LinksInv
  <2>2. links' \in [DOMAIN links' -> [tcp : BOOLEAN, chan : Chans]]
    <3>1. \A k \in DOMAIN links' : links'[k] \in [tcp : BOOLEAN, chan : Chans]
      BY <1>0, <1>1 DEF LinksInv, Chans
    <3>2. links' = [k \in DOMAIN links' |-> links'[k]]
      BY DEF Create, With
    <3> QED BY <3>1, <3>2
  <2>3. \A l \in LinkIds : connected'[l] => l <= last'
    BY <1>0, <1>2 DEF LinksInv, LinkIds
  <2>4. \A l \in DOMAIN links' : connected'[l] => Chan(l)' \in {"connected", "closed"}
    <3>1. ~connected[n]
      BY <1>0 DEF LinksInv, LinkIds
    <3> QED BY <1>0, <1>1, <1>2, <3>1 DEF LinksInv, Chan
  <2> QED BY <1>0, <1>2, <2>1, <2>2, <2>3, <2>4 DEF LinksInv
<1>4. AskedInv'
  <2>1. \A k \in 1 .. last' : k \notin DOMAIN links' => "closed" \in asked'[k]
    BY <1>0, <1>1, <1>2 DEF AskedInv, LinksInv
  <2>2. \A k \in DOMAIN links' : Chan(k)' # "new" => "connect" \in asked'[k]
    BY <1>1, <1>2, <1>0 DEF AskedInv, Chan
  <2> QED BY <1>0, <1>2, <2>1, <2>2 DEF AskedInv
<1>5. TimersInv'
  <2>1. last <= last' /\ last' \in Nat
    BY <1>0, <1>2 DEF LinksInv
  <2>2. timers' \in Seq(Timer)
    BY <1>0, <1>2 DEF TimersInv
  <2> QED BY <1>0, <1>2, <2>1, <2>2, TimersKept
<1>6. Fits(Pending)' /\ Ordered(Pending)'
  <2>1. Pending' = Pending
    BY <1>2 DEF Pending
  <2>2. \A k \in DOMAIN links : Takes(k)
    BY <1>1 DEF Takes, Chan
  <2> QED BY <1>2, <2>1, <2>2, PendingKept DEF IInv
<1> QED BY <1>3, <1>4, <1>5, <1>6 DEF IInv

\* What the application asks of a link.
LEMMA PushRight ==
    ASSUME IInv, NEW r \in Msg, Push(r),
           UNCHANGED <<links, last, pc, msgs, held, timers, iter>>,
           connected' = connected \/ connected' = [connected EXCEPT ![r.link] = FALSE],
           closing' \subseteq closing,
           \/ r.type = "connect" /\ Mark(r.link, "connect")
           \/ r.type = "close" /\ Mark(r.link, "closed") /\ "close" \in asked[r.link]
           \/ r.type = "send" /\ UNCHANGED asked,
           r.fit => /\ "closed" \notin asked[r.link]
                    /\ r.type = "connect" => asked[r.link] = {} /\ ~r.name
                    /\ r.type = "send" => connected[r.link]
    PROVE  IInv'
<1> DEFINE l == r.link
<1>0. /\ LinksInv /\ AskedInv /\ TimersInv /\ l \in LinkIds /\ l \in 1 .. last
      /\ queue' = Append(queue, r) /\ queue \in Seq(Msg) /\ msgs \in Seq(Msg)
  BY DEF IInv, LinksInv, LinkIds, Push, Msg
<1>1. /\ asked' \in [LinkIds -> SUBSET Marks]
      /\ \A k \in LinkIds : asked[k] \subseteq asked'[k]
      /\ \A k \in LinkIds : "close" \in asked'[k] => "close" \in asked[k]
      /\ \A k \in LinkIds : "closed" \in asked'[k] => "close" \in asked[k]
      /\ r.type = "connect" => "connect" \in asked'[l]
      /\ r.type = "close" => "closed" \in asked'[l]
  <2>1. CASE r.type = "connect" /\ Mark(l, "connect")
    BY <1>0, <2>1, MarkIs DEF Marks, AskedInv
  <2>2. CASE r.type = "close" /\ Mark(l, "closed") /\ "close" \in asked[l]
    BY <1>0, <2>2, MarkIs DEF Marks, AskedInv
  <2>3. CASE r.type = "send" /\ UNCHANGED asked
    BY <1>0, <2>3 DEF LinksInv, AskedInv
  <2> QED BY <2>1, <2>2, <2>3
<1>2. /\ connected' \in [LinkIds -> BOOLEAN]
      /\ \A k \in LinkIds : connected'[k] => connected[k]
  <2>1. connected \in [LinkIds -> BOOLEAN]
    BY <1>0 DEF LinksInv
  <2>2. CASE connected' = [connected EXCEPT ![l] = FALSE]
    <3>1. connected' \in [LinkIds -> BOOLEAN] /\ ~connected'[l]
      BY <1>0, <2>1, <2>2
    <3>2. \A k \in LinkIds : k = l \/ connected'[k] = connected[k]
      BY <2>1, <2>2
    <3> QED BY <3>1, <3>2, Zenon
  <2> QED BY <2>1, <2>2
<1>3. queue' \in Seq(Msg)
  BY <1>0, AppendProperties
<1>4. LinksInv'
  BY <1>0, <1>1, <1>2, <1>3, LinkIsId DEF LinksInv, Chan
<1>5. AskedInv'
  <2>1. \A k \in LinkIds : "closed" \in asked'[k] => "close" \in asked'[k]
    BY <1>1
  <2>2. \A k \in closing' : "close" \in asked'[k]
    BY <1>0, <1>1 DEF AskedInv, LinksInv
  <2>3. \A k \in 1 .. last' : k \notin DOMAIN links' => "closed" \in asked'[k]
    BY <1>0, <1>1, MadeIsId DEF AskedInv
  <2>4. \A k \in DOMAIN links' : Chan(k)' # "new" => "connect" \in asked'[k]
    BY <1>0, <1>1, LinkIsId DEF AskedInv, Chan
  <2> QED BY <2>1, <2>2, <2>3, <2>4 DEF AskedInv
<1>6. TimersInv'
  <2>1. last <= last' /\ last' \in Nat /\ timers' \in Seq(Timer)
    BY <1>0 DEF LinksInv, TimersInv
  <2> QED BY <1>0, <1>1, <2>1, TimersKept
<1>7. Fits(Pending)' /\ Ordered(Pending)'
  <2>1. r.fit => /\ l \in DOMAIN links /\ "closed" \notin asked[l]
                 /\ r.type = "connect" => Chan(l) = "new" /\ "connect" \notin asked[l] /\ ~r.name
                 /\ r.type = "send" => Chan(l) \in {"connected", "closed"}
    BY <1>0 DEF AskedInv, LinksInv
  <2> QED BY <1>0, <1>1, <2>1, PendingAdded DEF IInv
<1> QED BY <1>4, <1>5, <1>6, <1>7 DEF IInv

LEMMA ConnectRight == ASSUME IInv, NEW l \in LinkIds, NEW name \in BOOLEAN, Connect(l, name) PROVE IInv'
<1> DEFINE r == [type |-> "connect", link |-> l, name |-> name, fit |-> ~name /\ asked[l] = {}]
<1>1. /\ r \in Msg /\ r.type = "connect" /\ r.link = l
      /\ r.fit => ~r.name /\ asked[l] = {}
  BY DEF Msg
<1>2. /\ Push(r) /\ Mark(l, "connect")
      /\ UNCHANGED <<links, last, pc, msgs, held, timers, iter, connected, closing>>
  BY DEF Connect
<1> HIDE DEF r
<1> QED BY <1>1, <1>2, PushRight

LEMMA SendRight == ASSUME IInv, NEW l \in LinkIds, Send(l) PROVE IInv'
<1> DEFINE r == [type |-> "send", link |-> l, name |-> FALSE,
                 fit |-> connected[l] /\ "close" \notin asked[l]]
<1>1. /\ r \in Msg /\ r.type = "send" /\ r.link = l
      /\ r.fit => connected[l] /\ "close" \notin asked[l]
  BY DEF Msg
<1>2. /\ Push(r)
      /\ UNCHANGED <<links, last, pc, msgs, held, timers, iter, connected, closing, asked>>
  BY DEF Send
<1>3. r.fit => "closed" \notin asked[l]
  BY <1>1 DEF IInv, AskedInv
<1> HIDE DEF r
<1> QED BY <1>1, <1>2, <1>3, PushRight

LEMMA CloseRight == ASSUME IInv, NEW l \in LinkIds, Close(l) PROVE IInv'
<1> DEFINE r == [type |-> "close", link |-> l, name |-> FALSE, fit |-> "closed" \notin asked[l]]
<1>1. /\ r \in Msg /\ r.type = "close" /\ r.link = l
      /\ r.fit => "closed" \notin asked[l]
  BY DEF Msg
<1>2. /\ Push(r) /\ Mark(l, "closed") /\ l \in closing /\ closing' \subseteq closing
      /\ connected' = [connected EXCEPT ![l] = FALSE]
      /\ UNCHANGED <<links, last, pc, msgs, held, timers, iter>>
  BY DEF Close
<1>3. "close" \in asked[l]
  BY <1>2 DEF IInv, AskedInv
<1> HIDE DEF r
<1> QED BY <1>1, <1>2, <1>3, PushRight

\* An iterator stays one.
LEMMA ChangedIs ==
    ASSUME LinksInv, NEW list, Changed(list)
    PROVE  iter' \in Iterators /\ timers' = list
<1>1. iter \in Iterators /\ (pc = "check" /\ list # timers) \in BOOLEAN
  BY DEF LinksInv
<1> QED BY <1>1 DEF Changed, Iterators

\* A step that leaves the links and the requests, and adds no timer.
LEMMA RestRight ==
    ASSUME IInv, UNCHANGED <<links, last, queue, msgs, connected, closing, asked>>,
           iter' \in Iterators,
           timers' \in Seq(Timer), ToSet(timers') \subseteq ToSet(timers),
           pc' \in {"select", "check"} => msgs = <<>>
    PROVE  IInv'
<1>1. LinksInv' /\ AskedInv'
  BY DEF IInv, LinksInv, AskedInv, Chan
<1>2. TimersInv'
  BY DEF IInv, TimersInv
<1>3. Fits(Pending)' /\ Ordered(Pending)'
  <2>1. Pending' = Pending
    BY DEF Pending
  <2> QED BY <2>1, PendingKept DEF IInv, Takes, Chan
<1> QED BY <1>1, <1>2, <1>3 DEF IInv

LEMMA RemoveTimerRight == ASSUME IInv, NEW l \in LinkIds, RemoveTimer(l) PROVE IInv'
<1>1. iter' \in Iterators /\ timers' = NotOf(l)
  BY ChangedIs DEF RemoveTimer, IInv
<1>2. timers' \in Seq(Timer) /\ ToSet(timers') \subseteq ToSet(timers)
  BY <1>1, NotOfIs DEF IInv, TimersInv
<1>3. UNCHANGED <<links, last, queue, pc, msgs, connected, closing, asked>>
  BY DEF RemoveTimer
<1>4. pc' \in {"select", "check"} => msgs = <<>>
  BY <1>3 DEF IInv, LinksInv
<1> QED BY <1>1, <1>2, <1>3, <1>4, RestRight

\* A step that changes the list of timers, and marks what has been done to a link.
LEMMA MarkRight ==
    ASSUME IInv, NEW l \in LinkIds, NEW mark \in {"close", "late"},
           Mark(l, mark) \/ UNCHANGED asked,
           UNCHANGED <<links, last, queue, pc, msgs, connected>>,
           iter' \in Iterators,
           closing' \subseteq LinkIds,
           \A k \in closing' : k \in closing \/ "close" \in asked'[k],
           TimersInv'
    PROVE  IInv'
<1>0. LinksInv /\ AskedInv
  BY DEF IInv
<1>1. /\ asked' \in [LinkIds -> SUBSET Marks]
      /\ \A k \in LinkIds : asked[k] \subseteq asked'[k]
      /\ \A k \in LinkIds : "closed" \in asked'[k] => "closed" \in asked[k]
  <2>1. CASE Mark(l, mark)
    BY <1>0, <2>1, MarkIs DEF Marks
  <2>2. CASE UNCHANGED asked
    BY <1>0, <2>2 DEF LinksInv
  <2> QED BY <2>1, <2>2
<1>2. LinksInv'
  BY <1>0, <1>1 DEF LinksInv, Chan
<1>3. AskedInv'
  <2>1. \A k \in LinkIds : "closed" \in asked'[k] => "close" \in asked'[k]
    BY <1>0, <1>1 DEF AskedInv
  <2>2. \A k \in closing' : "close" \in asked'[k]
    BY <1>0, <1>1 DEF AskedInv, LinksInv
  <2>3. \A k \in 1 .. last' : k \notin DOMAIN links' => "closed" \in asked'[k]
    BY <1>0, <1>1, MadeIsId DEF AskedInv
  <2>4. \A k \in DOMAIN links' : Chan(k)' # "new" => "connect" \in asked'[k]
    BY <1>0, <1>1, LinkIsId DEF AskedInv, Chan
  <2> QED BY <2>1, <2>2, <2>3, <2>4 DEF AskedInv
<1>4. Fits(Pending)' /\ Ordered(Pending)'
  <2>1. Pending' = Pending
    BY DEF Pending
  <2> QED BY <1>1, <2>1, PendingKept DEF IInv, Takes, Chan
<1> QED BY <1>2, <1>3, <1>4 DEF IInv

\* Close leaves no timer of its link.
LEMMA StartCloseRight == ASSUME IInv, NEW l \in LinkIds, StartClose(l) PROVE IInv'
<1>0. LinksInv /\ TimersInv
  BY DEF IInv
<1>1. iter' \in Iterators /\ timers' = NotOf(l)
  BY <1>0, ChangedIs DEF StartClose
<1>2. /\ UNCHANGED <<links, last, queue, pc, msgs, connected>>
      /\ Mark(l, "close") /\ closing' = closing \cup {l}
  BY DEF StartClose
<1>3. /\ "close" \in asked'[l]
      /\ \A k \in LinkIds \ {l} : asked'[k] = asked[k]
  BY <1>0, <1>2, MarkIs DEF Marks
<1>4. TimersInv'
  <2>1. timers' \in Seq(Timer) /\ ToSet(timers') \subseteq ToSet(timers) /\ \A t \in ToSet(timers') : t.link # l
    BY <1>0, <1>1, NotOfIs DEF TimersInv
  <2>2. ASSUME NEW t \in ToSet(timers')
        PROVE  t.link <= last' /\ ("close" \in asked'[t.link] => "late" \in asked'[t.link])
    <3>1. t \in Timer /\ t \in ToSet(timers) /\ t.link # l
      BY <2>1 DEF ToSet
    <3>2. t.link \in LinkIds
      BY <3>1 DEF Timer
    <3> QED BY <1>0, <1>2, <1>3, <3>1, <3>2 DEF TimersInv
  <2> QED BY <2>1, <2>2 DEF TimersInv
<1>5. closing' \subseteq LinkIds /\ \A k \in closing' : k \in closing \/ "close" \in asked'[k]
  BY <1>0, <1>2, <1>3 DEF LinksInv
<1> QED BY <1>1, <1>2, <1>4, <1>5, MarkRight

\* A timer of a link that has been closed is a late one.
LEMMA AddTimerRight == ASSUME IInv, NEW l \in LinkIds, NEW id \in TimerIds, AddTimer(l, id) PROVE IInv'
<1> DEFINE e == [link |-> l, id |-> id]
<1>0. LinksInv /\ TimersInv
  BY DEF IInv
<1>1. e \in Timer /\ e.link = l /\ iter' \in Iterators /\ timers' = Append(timers, e) /\ l <= last
  BY <1>0, ChangedIs DEF AddTimer, Timer
<1>2. /\ UNCHANGED <<links, last, queue, pc, msgs, connected, closing>>
      /\ IF "close" \in asked[l] THEN Mark(l, "late") ELSE UNCHANGED asked
  BY DEF AddTimer
<1>3. /\ \A k \in LinkIds : "late" \in asked[k] => "late" \in asked'[k]
      /\ \A k \in LinkIds : "close" \in asked'[k] => "close" \in asked[k]
      /\ "close" \in asked'[l] => "late" \in asked'[l]
  <2>1. CASE "close" \in asked[l] /\ Mark(l, "late")
    BY <1>0, <2>1, MarkIs DEF Marks
  <2>2. CASE "close" \notin asked[l] /\ UNCHANGED asked
    BY <2>2
  <2> QED BY <1>2, <2>1, <2>2
<1> HIDE DEF e
<1>4. TimersInv'
  <2>1. timers' \in Seq(Timer) /\ ToSet(timers') = ToSet(timers) \cup {e}
    BY <1>0, <1>1, AppendProperties, AppendHolds DEF TimersInv
  <2>2. ASSUME NEW t \in ToSet(timers')
        PROVE  t.link <= last' /\ ("close" \in asked'[t.link] => "late" \in asked'[t.link])
    <3>1. CASE t = e
      BY <1>1, <1>2, <1>3, <3>1
    <3>2. CASE t \in ToSet(timers)
      <4>1. t \in Timer
        BY <1>0, <3>2 DEF TimersInv, ToSet
      <4>2. t.link \in LinkIds
        BY <4>1 DEF Timer
      <4> QED BY <1>0, <1>2, <1>3, <3>2, <4>2 DEF TimersInv
    <3> QED BY <2>1, <3>1, <3>2
  <2> QED BY <2>1, <2>2 DEF TimersInv
<1>5. Mark(l, "late") \/ UNCHANGED asked
  BY <1>2
<1>6. closing' \subseteq LinkIds /\ \A k \in closing' : k \in closing \/ "close" \in asked'[k]
  BY <1>0, <1>2 DEF LinksInv
<1> QED BY <1>1, <1>2, <1>4, <1>5, <1>6, MarkRight

\* A request that is carried out, or that a return leaves: it closes its link,
\* connects it, or changes none.
LEMMA DoneRight ==
    ASSUME IInv, msgs # <<>>, pc = "msgs", NEW r, r = Head(msgs), Done \/ Returns,
           UNCHANGED <<last, queue, timers, iter, closing, asked>>,
           \/ r.type = "close" /\ links' = Without(links, {r.link}) /\ UNCHANGED connected
           \/ /\ r.type = "connect" /\ r.link \in DOMAIN links /\ Chan(r.link) = "new"
              /\ \E c \in Chans :
                    /\ links' = SetChan(r.link, c)
                    /\ \/ UNCHANGED connected
                       \/ c = "connected" /\ connected' = [connected EXCEPT ![r.link] = TRUE]
           \/ UNCHANGED <<links, connected>>
    PROVE  IInv'
<1>0. /\ LinksInv /\ AskedInv /\ TimersInv /\ msgs \in Seq(Msg) /\ queue \in Seq(Msg)
      /\ pc' = "msgs" /\ msgs' = Tail(msgs)
  BY DEF IInv, LinksInv, Done, Returns
<1>1. r.link \in DOMAIN links => r.link \in LinkIds /\ r.link \in 1 .. last
  BY <1>0, LinkIsId
<1>2. /\ DOMAIN links' \subseteq DOMAIN links
      /\ links' \in [DOMAIN links' -> [tcp : BOOLEAN, chan : Chans]]
      /\ \A k \in DOMAIN links \ {r.link} : k \in DOMAIN links' /\ links'[k] = links[k]
      /\ \/ r.type = "close" /\ r.link \notin DOMAIN links'
         \/ r.type = "connect" /\ r.link \in DOMAIN links' /\ Chan(r.link) = "new"
         \/ UNCHANGED links
  <2>1. CASE r.type = "close" /\ links' = Without(links, {r.link})
    BY <1>0, <2>1 DEF LinksInv, Without, Restrict
  <2>2. CASE /\ r.type = "connect" /\ r.link \in DOMAIN links /\ Chan(r.link) = "new"
             /\ \E c \in Chans : links' = SetChan(r.link, c)
    BY <1>0, <2>2, SetChanIs
  <2>3. CASE UNCHANGED links
    BY <1>0, <2>3 DEF LinksInv
  <2> QED BY <2>1, <2>2, <2>3
<1>3. /\ connected' \in [LinkIds -> BOOLEAN]
      /\ \A k \in LinkIds \ {r.link} : connected'[k] = connected[k]
  BY <1>0, <1>1 DEF LinksInv
<1>4. \/ UNCHANGED <<links, connected>>
      \/ r.link \notin DOMAIN links' /\ UNCHANGED connected
      \/ r.link \in DOMAIN links /\ ~connected[r.link] /\ UNCHANGED connected
      \/ r.link \in DOMAIN links /\ Chan(r.link)' = "connected" /\ connected'[r.link]
  <2>1. CASE /\ r.link \in DOMAIN links /\ Chan(r.link) = "new"
             /\ \E c \in Chans :
                    /\ links' = SetChan(r.link, c)
                    /\ \/ UNCHANGED connected
                       \/ c = "connected" /\ connected' = [connected EXCEPT ![r.link] = TRUE]
    <3>1. ~connected[r.link]
      BY <1>0, <1>1, <2>1 DEF LinksInv
    <3>2. PICK c \in Chans :
                    /\ links' = SetChan(r.link, c)
                    /\ \/ UNCHANGED connected
                       \/ c = "connected" /\ connected' = [connected EXCEPT ![r.link] = TRUE]
      BY <2>1
    <3>3. Chan(r.link)' = c
      BY <1>0, <2>1, <3>2, SetChanIs
    <3>4. UNCHANGED connected \/ (c = "connected" /\ connected'[r.link])
      BY <1>0, <1>1, <2>1, <3>2 DEF LinksInv
    <3> QED BY <2>1, <3>1, <3>3, <3>4
  <2>2. CASE links' = Without(links, {r.link}) /\ UNCHANGED connected
    BY <2>2 DEF Without, Restrict
  <2> QED BY <2>1, <2>2
<1>5. LinksInv'
  <2>1. \A l \in LinkIds : connected'[l] => l <= last'
    BY <1>0, <1>1, <1>3, <1>4 DEF LinksInv
  <2>2. \A l \in DOMAIN links' : connected'[l] => Chan(l)' \in {"connected", "closed"}
    BY <1>0, <1>2, <1>3, <1>4, LinkIsId DEF LinksInv, Chan
  <2>3. msgs' \in Seq(Msg)
    BY <1>0, PendingDone
  <2> QED BY <1>0, <1>2, <1>3, <2>1, <2>2, <2>3 DEF LinksInv
<1>6. AskedInv'
  <2>1. /\ r.type = "close" => "closed" \in asked[r.link]
        /\ r.type = "connect" => "connect" \in asked[r.link]
    <3>1. 1 \in 1 .. Len(Pending) /\ Pending[1] = r
      BY <1>0, PendingDone DEF Pending
    <3> QED BY <3>1 DEF IInv, Fits
  <2>2. \A k \in 1 .. last' : k \notin DOMAIN links' => "closed" \in asked'[k]
    BY <1>0, <1>2, <2>1 DEF AskedInv
  <2>3. \A k \in DOMAIN links' : Chan(k)' # "new" => "connect" \in asked'[k]
    BY <1>0, <1>2, <2>1 DEF AskedInv, Chan
  <2> QED BY <1>0, <2>2, <2>3 DEF AskedInv
<1>7. TimersInv'
  BY <1>0 DEF TimersInv
<1>8. Fits(Pending)' /\ Ordered(Pending)'
  BY <1>0, <1>2, PendingDoneFits DEF IInv
<1> QED BY <1>5, <1>6, <1>7, <1>8 DEF IInv

\* The thread ends.
LEMMA DeadRight ==
    ASSUME IInv, pc' = "dead",
           UNCHANGED <<links, last, queue, msgs, timers, iter, connected, closing, asked>>
    PROVE  IInv'
<1>1. iter' \in Iterators /\ timers' \in Seq(Timer)
  BY DEF IInv, LinksInv, TimersInv
<1> QED BY <1>1, RestRight

LEMMA ConnectDirectRight == ASSUME IInv, NEW l \in LinkIds, ConnectDirect(l) PROVE IInv'
<1> DEFINE r == Head(msgs)
<1>0. /\ msgs # <<>> /\ r.type = "connect" /\ r.link = l /\ pc = "msgs"
      /\ UNCHANGED <<last, queue, timers, iter, closing, asked>>
  BY DEF ConnectDirect, Doing
<1>1. CASE (Done \/ Returns) /\ UNCHANGED <<links, connected>>
  BY <1>0, <1>1, DoneRight
<1>2. CASE Throws /\ UNCHANGED <<links, connected>>
  BY <1>0, <1>2, DeadRight DEF Throws
<1>3. CASE /\ l \in DOMAIN links /\ Chan(l) = "new" /\ Done /\ UNCHANGED connected
           /\ \E c \in {"connecting", "unheard", "closed"} : links' = SetChan(l, c)
  BY <1>0, <1>3, DoneRight DEF Chans
<1>4. CASE /\ l \in DOMAIN links /\ Chan(l) = "new" /\ Done
           /\ links' = SetChan(l, "connected") /\ connected' = [connected EXCEPT ![l] = TRUE]
  BY <1>0, <1>4, DoneRight DEF Chans
<1> QED BY <1>1, <1>2, <1>3, <1>4 DEF ConnectDirect, ConnectTcp, ConnectUdp

LEMMA SendDirectRight == ASSUME IInv, NEW l \in LinkIds, SendDirect(l) PROVE IInv'
<1>0. /\ msgs # <<>> /\ pc = "msgs"
      /\ UNCHANGED <<links, last, queue, timers, iter, connected, closing, asked>>
  BY DEF SendDirect, Doing
<1>1. CASE Done \/ Returns
  BY <1>0, <1>1, DoneRight
<1>2. CASE Throws
  BY <1>0, <1>2, DeadRight DEF Throws
<1> QED BY <1>1, <1>2 DEF SendDirect

LEMMA CloseDirectRight == ASSUME IInv, NEW l \in LinkIds, CloseDirect(l) PROVE IInv'
<1> DEFINE r == Head(msgs)
<1>0. /\ msgs # <<>> /\ r.type = "close" /\ r.link = l /\ pc = "msgs"
      /\ links' = Without(links, {l}) /\ (Done \/ Returns)
      /\ UNCHANGED <<last, queue, timers, iter, connected, closing, asked>>
  BY DEF CloseDirect, Doing
<1> QED BY <1>0, DoneRight

\* What is fetched stays pending.
LEMMA FetchRight == ASSUME IInv, Fetch PROVE IInv'
<1>0. /\ LinksInv /\ AskedInv /\ TimersInv /\ msgs = <<>> /\ queue \in Seq(Msg)
      /\ UNCHANGED <<links, last, held, timers, iter, connected, closing, asked>> /\ pc' = "msgs"
  BY DEF IInv, LinksInv, Fetch
<1> DEFINE n == IF Len(queue) < FETCH_MAX THEN Len(queue) ELSE FETCH_MAX
<1>1. n \in 0 .. Len(queue)
  BY <1>0, AndNetAssumption, LenProperties
<1>2. msgs' = SubSeq(queue, 1, n) /\ queue' = SubSeq(queue, n + 1, Len(queue))
  BY DEF Fetch
<1> HIDE DEF n
<1>3. msgs' \in Seq(Msg) /\ queue' \in Seq(Msg) /\ msgs' \o queue' = <<>> \o queue
  <2>1. /\ SubSeq(queue, 1, n) \in Seq(Msg) /\ SubSeq(queue, n + 1, Len(queue)) \in Seq(Msg)
        /\ SubSeq(queue, 1, n) \o SubSeq(queue, n + 1, Len(queue)) = <<>> \o queue
    BY <1>0, <1>1, PendingFetch
  <2> QED BY <1>2, <2>1, Zenon
<1>4. LinksInv' /\ AskedInv' /\ TimersInv'
  BY <1>0, <1>3 DEF LinksInv, AskedInv, TimersInv, Chan
<1>5. Fits(Pending)' /\ Ordered(Pending)'
  <2>1. Pending' = Pending
    BY <1>0, <1>3 DEF Pending
  <2> QED BY <1>0, <2>1, PendingKept DEF IInv, Takes, Chan
<1> QED BY <1>4, <1>5 DEF IInv

\* The rest of the net thread leaves the links and what is asked of them.
LEMMA CheckRight ==
    ASSUME IInv, StartCheck \/ OnModified \/ OnTimer \/ EndCheck
    PROVE  IInv'
<1>1. /\ iter \in Iterators /\ (pc \in {"select", "check"} => msgs = <<>>)
      /\ timers \in Seq(Timer)
  BY DEF IInv, LinksInv, TimersInv
<1>2. [at |-> 1, stale |-> FALSE] \in Iterators
  BY DEF Iterators
<1>3. CASE StartCheck
  BY <1>1, <1>2, <1>3, RestRight DEF StartCheck
<1>4. CASE OnModified
  BY <1>4, DeadRight DEF OnModified
<1>5. CASE OnTimer
  <2>1. /\ UNCHANGED <<links, last, queue, pc, msgs, connected, closing, asked>>
        /\ timers' = timers \/ \E l : timers' = NotOf(l)
        /\ iter' = [iter EXCEPT !.at = @ + 1] \/ iter' = [at |-> iter.at + 1, stale |-> TRUE]
    BY <1>5 DEF OnTimer
  <2>2. iter' \in Iterators
    <3> DEFINE n == iter.at + 1
    <3>1. n \in Nat \ {0} /\ (iter' = [iter EXCEPT !.at = n] \/ iter' = [at |-> n, stale |-> TRUE])
      BY <1>1, <2>1 DEF Iterators
    <3> HIDE DEF n
    <3>2. CASE iter' = [iter EXCEPT !.at = n]
      BY <1>1, <3>1, <3>2 DEF Iterators
    <3>3. CASE iter' = [at |-> n, stale |-> TRUE]
      BY <3>1, <3>3 DEF Iterators
    <3> QED BY <3>1, <3>2, <3>3
  <2>3. timers' \in Seq(Timer) /\ ToSet(timers') \subseteq ToSet(timers)
    BY <1>1, <2>1, NotOfIs
  <2>4. pc' \in {"select", "check"} => msgs = <<>>
    BY <1>1, <2>1
  <2> QED BY <2>1, <2>2, <2>3, <2>4, RestRight
<1>6. CASE EndCheck
  BY <1>1, <1>2, <1>6, RestRight DEF EndCheck
<1> QED BY <1>3, <1>4, <1>5, <1>6

\* The invariant holds in every state and is inductive.
THEOREM Inductive == Spec => []IInv
<1>1. IInv /\ [Next]_vars => IInv'
  <2> SUFFICES ASSUME IInv, [Next]_vars PROVE IInv'
    OBVIOUS
  <2>1. CASE \E tcp \in BOOLEAN : Create(tcp)
    BY <2>1, CreateRight
  <2>2. CASE \E l \in LinkIds, name \in BOOLEAN : Connect(l, name)
    BY <2>2, ConnectRight
  <2>3. CASE \E l \in LinkIds : Send(l) \/ StartClose(l) \/ Close(l) \/ RemoveTimer(l)
    BY <2>3, SendRight, StartCloseRight, CloseRight, RemoveTimerRight
  <2>4. CASE \E l \in LinkIds, id \in TimerIds : AddTimer(l, id)
    BY <2>4, AddTimerRight
  <2>5. CASE \E l \in LinkIds : OnConnectable(l) \/ OnRead(l)
    BY <2>5, ReadyRight
  <2>6. CASE NetThread
    BY <2>6, FetchRight, CheckRight, ConnectDirectRight, SendDirectRight, CloseDirectRight DEF NetThread
  <2>7. CASE UNCHANGED vars
    <3>1. UNCHANGED <<links, last, queue, pc, msgs, held, timers, iter, connected, closing, asked>>
      BY <2>7 DEF vars
    <3>2. /\ iter' \in Iterators /\ timers' \in Seq(Timer)
          /\ pc' \in {"select", "check"} => msgs = <<>>
      BY <3>1 DEF IInv, LinksInv, TimersInv
    <3> QED BY <3>1, <3>2, RestRight
  <2> QED BY <2>1, <2>2, <2>3, <2>4, <2>5, <2>6, <2>7 DEF Next
<1> QED BY InitRight, <1>1, PTL DEF Spec

\* What the next request finds, if it was fit.
LEMMA FirstFits ==
    ASSUME IInv, msgs # <<>>, NEW r, r = Head(msgs), r.fit
    PROVE  /\ r.link \in DOMAIN links
           /\ r.type = "connect" => Chan(r.link) = "new" /\ ~r.name
           /\ r.type = "send" => Chan(r.link) \in {"connected", "closed"}
<1>1. msgs \in Seq(Msg) /\ queue \in Seq(Msg) /\ Fits(Pending)
  BY DEF IInv, LinksInv
<1>2. 1 \in 1 .. Len(Pending) /\ Pending[1] = r
  BY <1>1, PendingDone DEF Pending
<1> QED BY <1>1, <1>2 DEF Fits

\* However links fail, and in whatever order requests of any threads, announcements
\* and failures meet, a request that was fit when it was made makes the net thread
\* neither leave sendDirect, connectDirect or closeDirect with the lock held nor end.
THEOREM FitIsSafe == Spec => FitKeepsLock
<1> DEFINE Keeps == pc = "msgs" /\ msgs # <<>> /\ Head(msgs).fit => held' = held /\ pc' # "dead"
<1>1. IInv /\ [Next]_vars => [Keeps]_vars
  <2> SUFFICES ASSUME IInv, Next, pc = "msgs", msgs # <<>>, Head(msgs).fit
               PROVE  held' = held /\ pc' # "dead"
    OBVIOUS
  <2> DEFINE r == Head(msgs)
  <2>1. /\ r.link \in DOMAIN links
        /\ r.type = "connect" => Chan(r.link) = "new" /\ ~r.name
        /\ r.type = "send" => Chan(r.link) \in {"connected", "closed"}
    BY FirstFits
  <2> HIDE DEF r
  <2>2. CASE \/ \E tcp \in BOOLEAN : Create(tcp)
             \/ \E l \in LinkIds, name \in BOOLEAN : Connect(l, name)
             \/ \E l \in LinkIds : Send(l) \/ StartClose(l) \/ Close(l) \/ RemoveTimer(l)
             \/ \E l \in LinkIds, id \in TimerIds : AddTimer(l, id)
    BY <2>2 DEF Create, Connect, Send, StartClose, Close, RemoveTimer, AddTimer
  <2>3. CASE \E l \in LinkIds : ConnectDirect(l)
    BY <2>1, <2>3 DEF ConnectDirect, ConnectTcp, ConnectUdp, Doing, Done, r
  <2>4. CASE \E l \in LinkIds : SendDirect(l)
    BY <2>1, <2>4 DEF SendDirect, Doing, Done, r
  <2>5. CASE \E l \in LinkIds : CloseDirect(l)
    BY <2>1, <2>5 DEF CloseDirect, Doing, Done, r
  <2>6. CASE Fetch \/ StartCheck \/ OnModified \/ OnTimer \/ EndCheck
    BY <2>6 DEF Fetch, StartCheck, OnModified, OnTimer, EndCheck
  <2>7. CASE \E l \in LinkIds : OnConnectable(l) \/ OnRead(l)
    BY <2>7 DEF OnConnectable, OnRead
  <2> QED BY <2>2, <2>3, <2>4, <2>5, <2>6, <2>7 DEF Next, NetThread
<1> QED BY Inductive, <1>1, PTL DEF Spec, FitKeepsLock

\* timerDirect meets no link that has gone, but by a timer that was added after close
\* (ProtoLink::close, NetTimerMgr::removeTimer).
THEOREM TimersEnd == Spec => []TimersEndWithLink
<1>1. IInv => TimersEndWithLink
  <2> SUFFICES ASSUME IInv, NEW i \in DOMAIN timers, timers[i].link \notin DOMAIN links
               PROVE  "late" \in asked[timers[i].link]
    BY DEF TimersEndWithLink
  <2> DEFINE t == timers[i]
  <2>1. t \in ToSet(timers) /\ t \in Timer
    BY DEF ToSet, IInv, TimersInv
  <2>2. t.link \in LinkIds /\ t.link \in 1 .. last
    BY <2>1 DEF IInv, TimersInv, LinksInv, Timer, LinkIds
  <2>3. "closed" \in asked[t.link]
    BY <2>2 DEF IInv, AskedInv
  <2> QED BY <2>1, <2>2, <2>3 DEF IInv, AskedInv, TimersInv
<1> QED BY Inductive, <1>1, PTL

-----------------------------------------------------------------------------
(* The types *)

\* What the other parts of the invariant leave open.
SizesInv ==
    /\ held \in BOOLEAN /\ pc \in {"select", "msgs", "check", "dead"}
    /\ Len(queue) <= MaxQueue /\ Len(msgs) <= FETCH_MAX

LEMMA SizesNext == IInv /\ SizesInv /\ [Next]_vars => SizesInv'
<1> SUFFICES ASSUME IInv, SizesInv, [Next]_vars PROVE SizesInv'
  OBVIOUS
<1>0. /\ queue \in Seq(Msg) /\ msgs \in Seq(Msg) /\ last \in Nat
      /\ last <= MaxLinks /\ Len(queue) \in Nat /\ Len(msgs) \in Nat
  BY LenProperties, AndNetAssumption DEF IInv, LinksInv, SizesInv
<1>1. ASSUME NEW r \in Msg, Push(r) PROVE Len(queue') <= MaxQueue
  <2>1. queue' = Append(queue, r) /\ Len(queue) < MaxQueue
    BY <1>1 DEF Push
  <2>2. Len(Append(queue, r)) = Len(queue) + 1
    BY <1>0
  <2> QED BY <1>0, <2>1, <2>2, AndNetAssumption
<1>2. CASE \/ \E tcp \in BOOLEAN : Create(tcp)
           \/ \E l \in LinkIds : OnConnectable(l) \/ OnRead(l) \/ StartClose(l) \/ RemoveTimer(l)
           \/ \E l \in LinkIds, id \in TimerIds : AddTimer(l, id)
           \/ OnModified \/ OnTimer \/ StartCheck \/ EndCheck \/ UNCHANGED vars
  BY <1>2 DEF SizesInv, Create, OnConnectable, OnRead, StartClose, RemoveTimer, AddTimer,
              OnModified, OnTimer, StartCheck, EndCheck, vars
<1>3. ASSUME NEW l \in LinkIds, NEW name \in BOOLEAN, Connect(l, name) PROVE SizesInv'
  <2> DEFINE r == [type |-> "connect", link |-> l, name |-> name, fit |-> ~name /\ asked[l] = {}]
  <2>1. r \in Msg
    BY DEF Msg
  <2>2. Push(r) /\ UNCHANGED <<pc, msgs, held>>
    BY <1>3 DEF Connect
  <2> HIDE DEF r
  <2> QED BY <1>1, <2>1, <2>2 DEF SizesInv
<1>4. ASSUME NEW l \in LinkIds, Send(l) PROVE SizesInv'
  <2> DEFINE r == [type |-> "send", link |-> l, name |-> FALSE,
                   fit |-> connected[l] /\ "close" \notin asked[l]]
  <2>1. r \in Msg
    BY DEF Msg
  <2>2. Push(r) /\ UNCHANGED <<pc, msgs, held>>
    BY <1>4 DEF Send
  <2> HIDE DEF r
  <2> QED BY <1>1, <2>1, <2>2 DEF SizesInv
<1>5. ASSUME NEW l \in LinkIds, Close(l) PROVE SizesInv'
  <2> DEFINE r == [type |-> "close", link |-> l, name |-> FALSE, fit |-> "closed" \notin asked[l]]
  <2>1. r \in Msg
    BY DEF Msg
  <2>2. Push(r) /\ UNCHANGED <<pc, msgs, held>>
    BY <1>5 DEF Close
  <2> HIDE DEF r
  <2> QED BY <1>1, <2>1, <2>2 DEF SizesInv
<1>6. CASE Fetch
  <2> DEFINE n == IF Len(queue) < FETCH_MAX THEN Len(queue) ELSE FETCH_MAX
  <2>1. n \in 0 .. Len(queue) /\ n <= FETCH_MAX
    BY <1>0, AndNetAssumption
  <2>2. msgs' = SubSeq(queue, 1, n) /\ queue' = SubSeq(queue, n + 1, Len(queue))
        /\ pc' = "msgs" /\ UNCHANGED held
    BY <1>6 DEF Fetch
  <2> HIDE DEF n
  <2>3. n \in Nat /\ n <= Len(queue)
    BY <1>0, <2>1
  <2>4. Len(SubSeq(queue, 1, n)) = n /\ Len(SubSeq(queue, n + 1, Len(queue))) = Len(queue) - n
    BY <1>0, <2>3, SubSeqProperties
  <2>5. Len(msgs') <= FETCH_MAX /\ Len(queue') <= MaxQueue
    BY <1>0, <2>1, <2>2, <2>3, <2>4, AndNetAssumption DEF SizesInv
  <2> QED BY <2>2, <2>5 DEF SizesInv
<1>7. ASSUME NEW l \in LinkIds, ConnectDirect(l) \/ SendDirect(l) \/ CloseDirect(l) PROVE SizesInv'
  <2>1. msgs # <<>> /\ UNCHANGED queue /\ (Done \/ Returns \/ Throws)
    BY <1>7 DEF ConnectDirect, ConnectTcp, ConnectUdp, SendDirect, CloseDirect, Doing
  <2>2. Len(Tail(msgs)) = Len(msgs) - 1
    BY <1>0, <2>1, HeadTailProperties
  <2>3. Len(Tail(msgs)) <= FETCH_MAX
    BY <1>0, <2>2, AndNetAssumption DEF SizesInv
  <2> QED BY <2>1, <2>3 DEF SizesInv, Done, Returns, Throws
<1> QED BY <1>2, <1>3, <1>4, <1>5, <1>6, <1>7 DEF Next, NetThread

\* Every variable has its type, whichever requests and timers come and go; what is
\* fetched at a time is no more than FETCH_MAX (NetThread::run, NetQueue::getMsgs).
THEOREM Types == Spec => []TypeOK
<1>1. Init => SizesInv
  <2>1. Len(<<>>) = 0
    BY EmptySeq
  <2>2. 0 <= MaxQueue /\ 0 <= FETCH_MAX
    BY AndNetAssumption
  <2> SUFFICES ASSUME Init PROVE SizesInv
    OBVIOUS
  <2>3. queue = <<>> /\ msgs = <<>> /\ held = FALSE /\ pc = "select"
    BY DEF Init
  <2> QED BY <2>1, <2>2, <2>3 DEF SizesInv
<1>2. IInv /\ SizesInv => TypeOK
  BY DEF IInv, LinksInv, TimersInv, SizesInv, TypeOK, Iterators
<1> QED BY Inductive, SizesNext, <1>1, <1>2, PTL DEF Spec

-----------------------------------------------------------------------------
(* How ProtoLink and the C callbacks cut the stream (Framing) *)

Packed == [at : Nat, len : Lengths]

\* The messages stand in the stream one behind the other.
SentInv ==
    /\ sent \in Seq(Packed) /\ Len(sent) <= MaxMessages
    /\ Written \in 0 .. MaxBytes
    /\ \A i \in 1 .. Len(sent) :
          /\ Place(i + 1) = Place(i) + sent[i].len
          /\ Place(i) < Written
          /\ \A j \in 1 .. i - 1 : Place(j) < Place(i)

\* The rest of the types: what is taken has arrived, and has been sent.
TakenInv ==
    /\ reader \in Readers
    /\ arrived \in 0 .. Written /\ taken \in 0 .. arrived
    /\ handled \in 0 .. Len(sent) /\ Place(handled + 1) <= taken
    /\ wrong \in BOOLEAN /\ reading \in BOOLEAN /\ fresh \in BOOLEAN
    /\ start \in 0 .. taken
    /\ order \in {"big", "little"}

\* The reader stands where a message begins, as long as nothing has gone wrong.
InStep == ~wrong /\ (reader = "android" => order = "big")

CutInv == (InStep => taken = Place(handled + 1)) /\ CutsAreMessages

StreamInv == SentInv /\ TakenInv /\ CutInv

\* The large numbers are kept unexpanded.
LEMMA Sizes ==
    /\ Longest \in Nat /\ Longest < 256 * 128
    /\ MaxPacket \in Nat /\ Longest < MaxPacket
    /\ Huge \in Nat
BY SMT DEF Longest, MaxPacket, Huge

LEMMA SentTypes ==
    ASSUME SentInv
    PROVE  /\ Len(sent) \in Nat /\ DOMAIN sent = 1 .. Len(sent)
           /\ \A i \in 1 .. Len(sent) : /\ sent[i] \in Packed /\ Place(i) = sent[i].at
                                        /\ sent[i].at \in Nat
                                        /\ sent[i].len \in Lengths /\ sent[i].len \in 8 .. Longest
           /\ \A i \in Int : i > Len(sent) => Place(i) = Written
<1>1. Len(sent) \in Nat /\ DOMAIN sent = 1 .. Len(sent)
  BY LenProperties DEF SentInv
<1>2. ASSUME NEW i \in 1 .. Len(sent)
      PROVE  /\ sent[i] \in Packed /\ Place(i) = sent[i].at /\ sent[i].at \in Nat
             /\ sent[i].len \in Lengths /\ sent[i].len \in 8 .. Longest
  <2>1. sent[i] \in Packed
    BY ElementOfSeq DEF SentInv
  <2>2. Place(i) = sent[i].at
    BY <1>1 DEF Place
  <2> QED BY <2>1, <2>2, FramingAssumption, Sizes DEF Packed
<1>3. \A i \in Int : i > Len(sent) => Place(i) = Written
  BY <1>1 DEF Place
<1> QED BY <1>1, <1>2, <1>3

\* A message that is written goes behind the others and moves none of them.
LEMMA WriteSent ==
    ASSUME SentInv, NEW L \in Lengths, Write(L)
    PROVE  /\ SentInv' /\ Written' >= Written /\ Len(sent') = Len(sent) + 1
           /\ \A i \in 1 .. Len(sent) : sent'[i] = sent[i]
           /\ \A i \in 1 .. Len(sent) + 1 : Place(i)' = Place(i)
<1>0. PICK n \in Nat : n = Len(sent)
  BY SentTypes
<1> DEFINE m == [at |-> Written, len |-> L]
<1>1. n = Len(sent) /\ n < MaxMessages /\ Written \in Nat /\ Written + L <= MaxBytes
      /\ sent' = Append(sent, m) /\ L \in 8 .. Longest /\ MaxBytes \in Nat /\ MaxMessages \in Nat
  BY <1>0, SentTypes, FramingAssumption, Sizes DEF SentInv, Write
<1>2. m \in Packed
  BY <1>1 DEF Packed
<1>3. /\ sent' \in Seq(Packed) /\ Len(sent') = n + 1
      /\ \A i \in 1 .. n : sent'[i] = sent[i]
      /\ sent'[n + 1] = m
  BY <1>1, <1>2, AppendProperties DEF SentInv
<1>4. DOMAIN sent' = 1 .. n + 1 /\ sent' # <<>>
  BY <1>1, <1>3, LenProperties, EmptySeq
<1>5. Written' = Written + L
  BY <1>1, <1>3, <1>4 DEF Written
<1>6. \A i \in 1 .. n : Place(i)' = Place(i)
  BY <1>1, <1>3, <1>4, SentTypes DEF Place
<1>7. Place(n + 1)' = Written /\ Place(n + 1) = Written
  BY <1>1, <1>3, <1>4, SentTypes DEF Place
<1>8. Place(n + 2)' = Written + L
  BY <1>1, <1>4, <1>5 DEF Place
<1>9. ASSUME NEW i \in 1 .. n + 1
      PROVE  /\ Place(i + 1)' = Place(i)' + sent'[i].len
             /\ Place(i)' < Written'
             /\ \A j \in 1 .. i - 1 : Place(j)' < Place(i)'
  <2>1. CASE i = n + 1
    <3>1. \A j \in 1 .. n : Place(j)' < Place(n + 1)'
      BY <1>0, <1>6, <1>7 DEF SentInv
    <3> QED BY <1>1, <1>3, <1>5, <1>7, <1>8, <2>1, <3>1
  <2>2. CASE i \in 1 .. n
    <3>1. /\ Place(i + 1) = Place(i) + sent[i].len /\ Place(i) < Written /\ Place(i) \in Nat
          /\ \A j \in 1 .. i - 1 : Place(j) < Place(i)
      BY <1>0, <2>2, SentTypes DEF SentInv
    <3>2. Place(i)' = Place(i) /\ Place(i + 1)' = Place(i + 1)
      <4>1. i + 1 \in 1 .. n \/ i + 1 = n + 1
        BY <1>1, <2>2
      <4> QED BY <1>6, <1>7, <2>2, <4>1
    <3>3. \A j \in 1 .. i - 1 : j \in 1 .. n
      BY <1>1, <2>2
    <3> QED BY <1>1, <1>3, <1>5, <1>6, <2>2, <3>1, <3>2, <3>3
  <2> QED BY <1>1, <2>1, <2>2
<1>10. \A i \in 1 .. n + 1 : Place(i)' = Place(i)
  <2> QED BY <1>1, <1>6, <1>7
<1>11. Written' \in 0 .. MaxBytes /\ Written' >= Written /\ n + 1 <= MaxMessages
  BY <1>1, <1>5
<1> QED BY <1>0, <1>3, <1>9, <1>10, <1>11 DEF SentInv

\* What the two readers decode of a length: the Android client all of it, the C
\* callbacks what stands in the fourth byte, and too much if that or the third
\* is 128 or more.
LEMMA DecodedLengths ==
    ASSUME NEW L \in 8 .. Longest
    PROVE  /\ GetInt(HeaderBytes(L), "big") = L
           /\ Decoded(HeaderBytes(L)) \in Nat
           /\ L < 128 => Decoded(HeaderBytes(L)) = L
           /\ L \in 128 .. 255 => Decoded(HeaderBytes(L)) = Huge
<1>1. /\ L \div 256 \in 0 .. 127 /\ L % 256 \in 0 .. 255
      /\ L = (L \div 256) * 256 + (L % 256)
      /\ L < 256 => L \div 256 = 0 /\ L % 256 = L
  BY Sizes
<1>2. GetInt(HeaderBytes(L), "big") = (L \div 256) * 256 + (L % 256)
  <2>1. 2^8 = 256
    BY SMT
  <2> QED BY <2>1 DEF GetInt, HeaderBytes
<1>3. Decoded(HeaderBytes(L)) = IF L \div 256 >= 128 \/ L % 256 >= 128 THEN Huge ELSE L % 256
  BY DEF Decoded, HeaderBytes
<1> QED BY <1>1, <1>2, <1>3, Sizes

\* More than nothing is in the buffer of a reader that is in step: then there
\* is a message that begins where it stands, and it reads the length of that.
LEMMA DeclaredIs ==
    ASSUME StreamInv, InStep, Available > 0, NEW len \in Declared
    PROVE  /\ handled < Len(sent) /\ handled + 1 \in 1 .. Len(sent)
           /\ reader = "android" => len = sent[handled + 1].len
           /\ reader # "android" => len = Decoded(HeaderBytes(sent[handled + 1].len))
<1> DEFINE h == handled + 1
           at == {i \in 1 .. Len(sent) : Place(i) = taken}
<1>1. /\ handled \in Nat /\ Len(sent) \in Nat /\ handled <= Len(sent)
      /\ arrived \in Nat /\ taken \in Nat /\ arrived > taken /\ arrived <= Written
      /\ Written \in Nat /\ taken = Place(h)
  <2>1. MaxBytes \in Nat /\ Len(sent) \in Nat
    BY SentTypes, FramingAssumption, Sizes DEF StreamInv
  <2> QED BY <2>1 DEF StreamInv, SentInv, TakenInv, CutInv, Available
<1>2. handled < Len(sent)
  <2>1. SUFFICES ASSUME handled = Len(sent) PROVE FALSE
    BY <1>1
  <2>2. Place(h) = Written
    BY <1>1, <2>1, SentTypes DEF StreamInv
  <2> QED BY <1>1, <2>2
<1>3. h \in 1 .. Len(sent)
  BY <1>1, <1>2
<1>4. ASSUME NEW i \in at
      PROVE  i = h
  <2>1. i \in 1 .. Len(sent) /\ Place(i) = Place(h) /\ Place(h) \in Nat
    BY <1>1
  <2>2. ~ (i < h)
    <3>1. \A j \in 1 .. h - 1 : Place(j) < Place(h)
      BY <1>3 DEF StreamInv, SentInv
    <3> HIDE DEF h
    <3> QED BY <1>3, <2>1, <3>1
  <2>3. ~ (h < i)
    <3>1. \A j \in 1 .. i - 1 : Place(j) < Place(i)
      BY <2>1 DEF StreamInv, SentInv
    <3> HIDE DEF h
    <3> QED BY <1>3, <2>1, <3>1
  <2> HIDE DEF h
  <2> QED BY <1>3, <2>1, <2>2, <2>3
<1>5. h \in at
  BY <1>1, <1>3
<1>6. at = {h}
  BY <1>4, <1>5
<1>7. len = IF reader = "android" THEN GetInt(HeaderBytes(sent[h].len), order)
            ELSE Decoded(HeaderBytes(sent[h].len))
  <2> HIDE DEF h
  <2>1. {i \in 1 .. Len(sent) : Place(i) = taken} = {h}
    BY <1>6
  <2> QED BY <2>1 DEF Declared
<1>8. reader = "android" => len = sent[h].len
  <2>1. sent[h].len \in 8 .. Longest
    BY <1>3, SentTypes DEF StreamInv
  <2> HIDE DEF h
  <2> QED BY <1>7, <2>1, DecodedLengths DEF InStep
<1> QED BY <1>2, <1>3, <1>7, <1>8

LEMMA StreamInvInit == StreamInit => StreamInv
<1> SUFFICES ASSUME StreamInit
             PROVE  StreamInv
  OBVIOUS
<1>1. /\ sent = <<>> /\ sent \in Seq(Packed) /\ Len(sent) = 0 /\ DOMAIN sent = {}
      /\ Written = 0 /\ Place(1) = 0
  <2>1. sent = <<>> /\ <<>> \in Seq(Packed) /\ Len(<<>>) = 0 /\ DOMAIN sent = {}
    BY EmptySeq DEF StreamInit
  <2> QED BY <2>1 DEF Written, Place
<1>2. MaxMessages \in Nat /\ 0 \in 0 .. MaxBytes /\ 1 .. 0 = {}
  BY FramingAssumption
<1>3. SentInv
  BY <1>1, <1>2 DEF SentInv
<1>4. TakenInv
  <2>1. handled = 0 /\ handled + 1 = 1 /\ arrived = 0 /\ taken = 0 /\ start = 0
    BY DEF StreamInit
  <2>2. Place(handled + 1) <= taken
    BY <1>1, <2>1
  <2>3. 0 \in 0 .. Written /\ 0 \in 0 .. 0 /\ 0 \in 0 .. Len(sent)
    BY <1>1
  <2> QED BY <2>1, <2>2, <2>3 DEF StreamInit, TakenInv, Readers
<1>5. CutInv
  BY <1>1 DEF StreamInit, CutInv, CutsAreMessages
<1> QED BY <1>3, <1>4, <1>5 DEF StreamInv

\* The numbers that StreamInv speaks of.
LEMMA StreamTypes ==
    ASSUME StreamInv
    PROVE  /\ arrived \in Nat /\ taken \in Nat /\ taken <= arrived /\ arrived <= Written
           /\ Written \in Nat /\ Written < Huge
           /\ handled \in Nat /\ Len(sent) \in Nat /\ handled <= Len(sent)
           /\ Available = arrived - taken /\ Available \in Nat
           /\ start \in Nat /\ start <= taken /\ wrong \in BOOLEAN
<1>1. MaxBytes \in Nat /\ MaxBytes < Huge /\ Len(sent) \in Nat
  BY FramingAssumption, SentTypes, Sizes DEF StreamInv
<1> QED BY <1>1, Sizes DEF StreamInv, SentInv, TakenInv, Available

\* What was sent stays where it was: nothing that the invariant says of the
\* reader depends on what is written behind.
LEMMA StreamWrite ==
    ASSUME StreamInv, NEW L \in Lengths, Write(L)
    PROVE  StreamInv'
<1>1. /\ UNCHANGED <<reader, arrived, fresh, taken, handled, wrong, reading, start, order>>
  BY DEF Write
<1>2. /\ SentInv' /\ Written' >= Written /\ Len(sent') = Len(sent) + 1
      /\ \A i \in 1 .. Len(sent) : sent'[i] = sent[i]
      /\ \A i \in 1 .. Len(sent) + 1 : Place(i)' = Place(i)
  BY WriteSent DEF StreamInv
<1>3. PICK h \in Nat : h = handled /\ h <= Len(sent) /\ Len(sent) \in Nat
  BY StreamTypes
<1>4. Place(h + 1)' = Place(h + 1)
  BY <1>2, <1>3
<1>4a. Written' \in Nat
  <2>1. MaxBytes \in Nat
    BY FramingAssumption, Sizes
  <2> QED BY <1>2, <2>1 DEF SentInv
<1>5. TakenInv'
  BY <1>1, <1>2, <1>3, <1>4, <1>4a, StreamTypes DEF StreamInv, TakenInv
<1>6. CutInv'
  <2>1. (InStep => taken = Place(handled + 1))'
    BY <1>1, <1>3, <1>4 DEF StreamInv, CutInv, InStep
  <2>2. CutsAreMessages'
    BY <1>1, <1>2, <1>3 DEF StreamInv, CutInv, CutsAreMessages
  <2> QED BY <2>1, <2>2 DEF CutInv
<1> QED BY <1>2, <1>5, <1>6 DEF StreamInv

\* A step that takes nothing out of the buffer.
LEMMA StreamStays ==
    ASSUME StreamInv, UNCHANGED <<reader, sent, taken, handled, wrong>>,
           arrived' \in arrived .. Written, reading' \in BOOLEAN, fresh' \in BOOLEAN,
           start' \in {0, start}, order' \in {order, "little"},
           reader # "android" => order' = order
    PROVE  StreamInv'
<1>1. Written' = Written /\ \A i : Place(i)' = Place(i)
  BY DEF Written, Place
<1>2. SentInv'
  BY <1>1 DEF StreamInv, SentInv
<1>3. TakenInv'
  BY <1>1, StreamTypes DEF StreamInv, TakenInv
<1>4. CutInv'
  <2>1. InStep' => InStep
    BY DEF InStep, StreamInv, TakenInv
  <2>2. CutsAreMessages'
    BY DEF StreamInv, CutInv, CutsAreMessages
  <2> QED BY <1>1, <2>1, <2>2 DEF StreamInv, CutInv
<1> QED BY <1>2, <1>3, <1>4 DEF StreamInv

\* What is cut off from a buffer that was in step is the next message, unless
\* that is one whose length the reader does not decode.
LEMMA StreamCut ==
    ASSUME StreamInv, UNCHANGED <<reader, sent, arrived, fresh>>, reading' \in BOOLEAN,
           Available > 0, NEW len \in Declared, len \in 0 .. Available, Cut(len),
           start' \in {0, start, start + len}, order' \in {order, "little"},
           reader # "android" => order' = order
    PROVE  StreamInv'
<1>1. Written' = Written /\ \A i : Place(i)' = Place(i)
  BY DEF Written, Place
<1>2. SentInv'
  BY <1>1 DEF StreamInv, SentInv
<1>3. PICK h \in Nat : h = handled /\ h <= Len(sent) /\ Len(sent) \in Nat
  BY StreamTypes
<1> DEFINE whole == /\ h < Len(sent) /\ ~wrong
                    /\ taken = Place(h + 1) /\ len = sent[h + 1].len
<1>4. /\ taken' = taken + len /\ len \in Nat /\ taken' \in Nat /\ taken' <= arrived
      /\ handled' = IF whole THEN h + 1 ELSE h
      /\ wrong' = (wrong \/ ~whole)
  BY <1>3, StreamTypes DEF Cut
<1>5. whole => taken' = Place(h + 2) /\ h + 1 \in 1 .. Len(sent)
  <2>1. SUFFICES ASSUME whole PROVE taken' = Place(h + 2) /\ h + 1 \in 1 .. Len(sent)
    OBVIOUS
  <2>2. h + 1 \in 1 .. Len(sent) /\ (h + 1) + 1 = h + 2
    BY <1>3, <2>1
  <2>3. Place((h + 1) + 1) = Place(h + 1) + sent[h + 1].len
    BY <2>2 DEF StreamInv, SentInv
  <2> QED BY <1>4, <2>1, <2>2, <2>3
<1>6. Place(h + 1) <= taken
  BY <1>3 DEF StreamInv, TakenInv
<1>6a. Place(h + 1) \in Nat
  <2>1. h + 1 \in 1 .. Len(sent) \/ h + 1 > Len(sent)
    BY <1>3
  <2> QED BY <1>3, <2>1, SentTypes, StreamTypes DEF StreamInv
<1>7. TakenInv'
  <2>1. handled' \in 0 .. Len(sent') /\ (Place(handled + 1))' <= taken'
    <3>1. CASE whole
      <4>1. handled' = h + 1 /\ handled' + 1 = h + 2
        BY <1>3, <1>4, <3>1
      <4>2. (Place(handled + 1))' = Place(h + 2)
        BY <4>1 DEF Written, Place
      <4> QED BY <1>3, <1>4, <1>5, <3>1, <4>1, <4>2
    <3>2. CASE ~whole
      <4>1. handled' = h
        BY <1>4, <3>2
      <4>2. (Place(handled + 1))' = Place(h + 1)
        BY <4>1 DEF Written, Place
      <4> HIDE DEF whole
      <4> QED BY <1>3, <1>4, <1>6, <1>6a, <4>1, <4>2, StreamTypes
    <3> QED BY <3>1, <3>2
  <2>2. start' \in 0 .. taken'
    <3> HIDE DEF whole
    <3> QED BY <1>4, StreamTypes
  <2>3. wrong' \in BOOLEAN
    BY <1>4
  <2> HIDE DEF whole
  <2> QED BY <1>1, <1>4, <2>1, <2>2, <2>3, StreamTypes DEF StreamInv, TakenInv
<1>8. CutInv'
  <2>1. (InStep => taken = Place(handled + 1))'
    <3>1. InStep' => whole
      BY <1>4 DEF InStep
    <3>2. whole => (Place(handled + 1))' = Place(h + 2)
      <4>1. whole => handled' = h + 1 /\ handled' + 1 = h + 2
        BY <1>3, <1>4
      <4> QED BY <4>1 DEF Written, Place
    <3> HIDE DEF whole
    <3> QED BY <1>5, <3>1, <3>2
  <2>2. CutsAreMessages'
    <3>1. CASE wrong
      <4>1. handled' = h
        BY <1>4, <3>1
      <4> QED BY <1>3, <3>1, <4>1 DEF StreamInv, CutInv, CutsAreMessages
    <3>2. CASE ~wrong /\ whole
      BY <1>4, <3>2 DEF CutsAreMessages
    <3>3. CASE ~wrong /\ ~whole
      <4> HIDE DEF whole
      <4>1. CASE reader = "android" /\ order # "big"
        BY <4>1 DEF CutsAreMessages, StreamInv, TakenInv
      <4>2. CASE InStep
        <5>1. /\ h + 1 \in 1 .. Len(sent)
              /\ reader = "android" => len = sent[h + 1].len
              /\ reader # "android" => len = Decoded(HeaderBytes(sent[h + 1].len))
          BY <1>3, <4>2, DeclaredIs
        <5>2. taken = Place(h + 1) /\ h < Len(sent)
          BY <1>3, <4>2, <5>1 DEF StreamInv, CutInv
        <5>3. len # sent[h + 1].len
          BY <3>3, <5>2 DEF whole
        <5>4. PICK L \in 8 .. Longest : L = sent[h + 1].len
          BY <5>1, SentTypes DEF StreamInv
        <5>5. reader # "android" /\ len = Decoded(HeaderBytes(L))
          BY <5>1, <5>3, <5>4
        <5>6. ~ (L < 128) /\ ~ (L \in 128 .. 255)
          <6>1. len # Huge
            BY StreamTypes, Sizes
          <6> QED BY <5>3, <5>4, <5>5, <6>1, DecodedLengths
        <5>7. sent[h + 1].len >= 256 /\ h + 1 <= Len(sent)
          <6>1. L >= 256
            BY <5>6, Sizes
          <6> QED BY <1>3, <5>1, <5>4, <6>1
        <5>8. handled' = h /\ sent' = sent /\ reader' = reader
          BY <1>4, <3>3
        <5> QED BY <5>1, <5>5, <5>7, <5>8 DEF CutsAreMessages
      <4> QED BY <3>3, <4>1, <4>2 DEF InStep
    <3> QED BY <3>1, <3>2, <3>3, StreamTypes
  <2> QED BY <2>1, <2>2 DEF CutInv
<1> QED BY <1>2, <1>7, <1>8 DEF StreamInv

\* A length is never negative but for what the Android client makes of a large
\* one in its second byte order.
LEMMA DeclaredType ==
    ASSUME StreamInv, NEW len \in Declared
    PROVE  len \in Int /\ (reader # "android" => len \in Nat)
<1>1. CASE len \in Garbage
  BY <1>1, FramingAssumption
<1>2. CASE \E i \in 1 .. Len(sent) :
              len = IF reader = "android" THEN GetInt(HeaderBytes(sent[i].len), order)
                    ELSE Decoded(HeaderBytes(sent[i].len))
  <2>1. PICK L \in 8 .. Longest :
              len = IF reader = "android" THEN GetInt(HeaderBytes(L), order)
                    ELSE Decoded(HeaderBytes(L))
    BY <1>2, SentTypes DEF StreamInv
  <2>2. GetInt(HeaderBytes(L), order) \in Int
    <3>1. L \in Nat /\ L \div 256 \in Nat /\ L % 256 \in Nat
      BY Sizes
    <3>2. 2^8 \in Nat /\ 2^16 \in Nat /\ 2^24 \in Nat
      BY SMT
    <3>3. /\ (L \div 256) * 2^8 + (L % 256) \in Int
          /\ (L % 256) * 2^24 + (L \div 256) * 2^16 \in Int
      BY <3>1, <3>2
    <3> QED BY <3>3 DEF GetInt, HeaderBytes
  <2> QED BY <2>1, <2>2, DecodedLengths
<1> QED BY <1>1, <1>2 DEF Declared

LEMMA StreamInvNext == StreamInv /\ [StreamNext]_streamVars => StreamInv'
<1> SUFFICES ASSUME StreamInv, [StreamNext]_streamVars
             PROVE  StreamInv'
  OBVIOUS
<1>0. arrived \in arrived .. Written /\ reading \in BOOLEAN /\ fresh \in BOOLEAN
  BY StreamTypes DEF StreamInv, TakenInv
<1>1. ASSUME NEW L \in Lengths, Write(L)
      PROVE  StreamInv'
  BY <1>1, StreamWrite
<1>2. CASE Arrive
  <2>1. arrived' \in arrived .. Written
    BY <1>2, StreamTypes, FramingAssumption DEF Arrive
  <2>2. /\ UNCHANGED <<reader, sent, taken, handled, wrong>>
        /\ reading' = reading /\ fresh' = TRUE /\ start' = start /\ order' = order
    BY <1>2 DEF Arrive
  <2> QED BY <1>0, <2>1, <2>2, StreamStays
<1>3. CASE ReadCb
  <2>1. /\ UNCHANGED <<reader, sent, taken, handled, wrong>> /\ arrived' = arrived
        /\ reading' = TRUE /\ fresh' = FALSE /\ start' = start /\ order' = order
    BY <1>3 DEF ReadCb
  <2> QED BY <1>0, <2>1, StreamStays
<1>4. ASSUME Wait
      PROVE  StreamInv'
  <2>1. /\ UNCHANGED <<reader, sent, taken, handled, wrong>> /\ arrived' = arrived
        /\ reading' = FALSE /\ fresh' = fresh /\ start' = start /\ order' = order
    BY <1>4 DEF Wait
  <2> QED BY <1>0, <2>1, StreamStays
<1>5. CASE ReadLoop \/ ReadStrict
  <2>1. CASE Wait
    BY <1>4, <2>1
  <2>2. ASSUME reader # "android", Available > 4, NEW len \in Declared, len <= Available,
               Cut(len), reading' \in BOOLEAN,
               UNCHANGED <<reader, sent, arrived, fresh, start, order>>
        PROVE  StreamInv'
    <3>1. len \in 0 .. Available /\ Available > 0
      BY <2>2, DeclaredType, StreamTypes
    <3> QED BY <2>2, <3>1, StreamCut
  <2>3. Available \in Nat /\ \A len \in Declared : reader # "android" => len \in Nat
    BY DeclaredType, StreamTypes
  <2>4. CASE ReadLoop
    BY <2>1, <2>2, <2>4 DEF ReadLoop
  <2>5. CASE ReadStrict
    <3>1. ASSUME reader # "android", NEW len \in Declared, len <= Available - 4
          PROVE  len <= Available
      BY <2>3, <3>1
    <3> QED BY <2>1, <2>2, <2>5, <3>1 DEF ReadStrict
  <2> QED BY <1>5, <2>4, <2>5
<1>6. CASE ReadProto
  <2>1. CASE Wait
    BY <1>4, <2>1
  <2>2. ASSUME Available > 10, NEW len \in Declared, len \in Available + 1 .. MaxPacket,
               reading' = FALSE, start' = 0, order' = "little", reader = "android",
               UNCHANGED <<reader, sent, arrived, fresh, taken, handled, wrong>>
        PROVE  StreamInv'
    BY <1>0, <2>2, StreamStays
  <2>3. ASSUME Available > 10, NEW len \in Declared, len \in 1 .. Available, Cut(len),
               start' \in {0, start + len}, order' \in {order, "little"}, reader = "android",
               UNCHANGED <<reader, sent, arrived, fresh, reading>>
        PROVE  StreamInv'
    <3>1. len \in 0 .. Available /\ Available > 0
      BY <2>3, StreamTypes
    <3> QED BY <1>0, <2>3, <3>1, StreamCut
  <2>4. ASSUME Available > 10, NEW len \in Declared, len > MaxPacket \/ len <= 0,
               taken' = arrived, start' = 0, reading' = FALSE, reader = "android",
               UNCHANGED <<reader, sent, arrived, fresh, handled, wrong, order>>
        PROVE  StreamInv'
    <3>1. ~ InStep
      <4>1. SUFFICES ASSUME InStep PROVE FALSE
        OBVIOUS
      <4>2. Available > 0
        BY <2>4, StreamTypes
      <4>3. handled + 1 \in 1 .. Len(sent) /\ len = sent[handled + 1].len
        BY <2>4, <4>1, <4>2, DeclaredIs
      <4>4. len \in 8 .. Longest
        BY <4>3, SentTypes DEF StreamInv
      <4> QED BY <2>4, <4>4, Sizes
    <3>2. Written' = Written /\ \A i : Place(i)' = Place(i)
      BY <2>4 DEF Written, Place
    <3>3. SentInv'
      BY <2>4, <3>2 DEF StreamInv, SentInv
    <3>4. Place(handled + 1) \in Nat
      <4>1. handled + 1 \in 1 .. Len(sent) \/ (handled + 1 > Len(sent) /\ handled + 1 \in Int)
        BY StreamTypes
      <4> QED BY <4>1, SentTypes, StreamTypes DEF StreamInv
    <3>5. (Place(handled + 1))' = Place(handled + 1) /\ Place(handled + 1) <= arrived
      BY <2>4, <3>2, <3>4, StreamTypes DEF StreamInv, TakenInv, Written, Place
    <3>6. TakenInv'
      <4>1. (handled \in 0 .. Len(sent) /\ Place(handled + 1) <= taken)'
        BY <2>4, <3>5 DEF StreamInv, TakenInv
      <4>2. (arrived \in 0 .. Written /\ taken \in 0 .. arrived /\ start \in 0 .. taken)'
        BY <2>4, <3>2, StreamTypes
      <4> QED BY <2>4, <4>1, <4>2 DEF StreamInv, TakenInv
    <3>7. CutInv'
      BY <2>4, <3>1 DEF StreamInv, CutInv, InStep, CutsAreMessages
    <3> QED BY <3>3, <3>6, <3>7 DEF StreamInv
  <2> QED BY <1>6, <2>1, <2>2, <2>3, <2>4 DEF ReadProto
<1>7. CASE UNCHANGED streamVars
  <2>1. /\ UNCHANGED <<reader, sent, taken, handled, wrong>> /\ arrived' = arrived
        /\ reading' = reading /\ fresh' = fresh /\ start' = start /\ order' = order
    BY <1>7 DEF streamVars
  <2> QED BY <1>0, <2>1, StreamStays
<1> QED BY <1>1, <1>2, <1>3, <1>5, <1>6, <1>7 DEF StreamNext

LEMMA StreamInductive == StreamSpec => []StreamInv
BY StreamInvInit, StreamInvNext, PTL DEF StreamSpec

\* The reader takes no more than has arrived, and counts no message that it has
\* not been sent.
THEOREM StreamTypeCorrect == StreamSpec => []StreamTypeOK
<1>1. StreamInv => StreamTypeOK
  BY DEF StreamInv, SentInv, TakenInv, StreamTypeOK, Packed
<1> QED BY <1>1, StreamInductive, PTL

\* However the network splits the stream and joins it, a handler is given whole
\* messages in the order in which they were sent: by the C callbacks until the
\* first message of 256 bytes, by the Android client until its buffer is moved.
THEOREM HandedMessagesAreWhole == StreamSpec => []CutsAreMessages
<1>1. StreamInv => CutsAreMessages
  BY DEF StreamInv, CutInv
<1> QED BY <1>1, StreamInductive, PTL
=============================================================================
