------------------------------- MODULE AndNet -------------------------------
(***************************************************************************)
(* The network layer of the Android SDK (NetMgr, NetThread, NetQueue,      *)
(* NetTimerMgr, the links and ProtoLink of packages/client/andsdk).  The   *)
(* application's threads put requests into a queue, which one net thread   *)
(* carries out between two passes over its selector.                       *)
(*                                                                         *)
(* Every call of NetMgr holds mLinkMapLocker from its first line to its    *)
(* last, so that a call is one step, and the lock is taken between steps   *)
(* only if the net thread has left a call without unlock: by a return, or  *)
(* by an exception that nothing catches, which ends the thread too.  The   *)
(* net thread itself may take a lock it holds.  NetTimerMgr::check runs    *)
(* over the list of timers without the lock.                               *)
(*                                                                         *)
(* Handlers call nothing (LoginLink), data has no content, and one ready   *)
(* key is handled in a step.                                               *)
(***************************************************************************)
EXTENDS LinkMaps, Walks, Naturals, Sequences, FiniteSets

CONSTANTS
    MaxLinks,       \* bound: links ever created
    MaxQueue,       \* bound: requests in the queue
    TimerIds,
    FETCH_MAX       \* requests that NetThread fetches at a time

ASSUME AndNetAssumption == MaxLinks \in Nat /\ MaxQueue \in Nat /\ FETCH_MAX \in Nat \ {0}

VARIABLES
    links,          \* NetMgr::mLinkMap: link id |-> [tcp, chan]
    last,           \* NetMgr::sLinkId - 1
    queue,          \* NetQueue::mMsgList
    pc,             \* where the net thread is
    msgs,           \* NetThread::run's list of what it has fetched
    held,           \* the net thread has kept the lock
    timers,         \* NetTimerMgr::mTimerList
    iter,           \* check's iterator: the next index, and whether it is stale
    connected,      \* ProtoLink::mConnected of the links
    closing,        \* links whose ProtoLink::close is between its two calls
    asked           \* history: what the application has done with a link

vars == <<links, last, queue, pc, msgs, held, timers, iter, connected, closing, asked>>

LinkIds == 1 .. MaxLinks

\* A channel that SocketChannel::connect has connected at once is "unheard": its
\* key still waits for the connection to be made, so that nothing is read.
Chans == {"new", "connecting", "unheard", "connected", "closed"}
Marks == {"connect", "close", "closed", "late"}

\* name: what is to be connected to is a name, and not a literal address.  fit is
\* history: the request came when its link could be expected to take it.
Msg == [type : {"connect", "send", "close"}, link : LinkIds, name : BOOLEAN, fit : BOOLEAN]
Timer == [link : LinkIds, id : TimerIds]

Init ==
    /\ links = Empty
    /\ last = 0
    /\ queue = <<>>
    /\ pc = "select"
    /\ msgs = <<>>
    /\ held = FALSE
    /\ timers = <<>>
    /\ iter = [at |-> 1, stale |-> FALSE]
    /\ connected = [l \in LinkIds |-> FALSE]
    /\ closing = {}
    /\ asked = [l \in LinkIds |-> {}]

Chan(l) == links[l].chan
SetChan(l, c) == [links EXCEPT ![l].chan = c]

-----------------------------------------------------------------------------
(* The application: NetMgr and ProtoLink.  Nothing in them, nor in LoginMgr, *)
(* asks whether a link is connected or still there before it puts a request  *)
(* into the queue.                                                           *)

Unlocked == ~held

Create(tcp) ==
    /\ Unlocked /\ last < MaxLinks
    /\ last' = last + 1
    /\ links' = With(links, {last + 1}, [tcp |-> tcp, chan |-> "new"])
    /\ UNCHANGED <<queue, pc, msgs, held, timers, iter, connected, closing, asked>>

Push(m) ==
    /\ Unlocked /\ m.link <= last /\ Len(queue) < MaxQueue
    /\ queue' = Append(queue, m)

Mark(l, mark) == asked' = [asked EXCEPT ![l] = @ \cup {mark}]

\* NetMgr::connect.  Fit is the first request of a link.
Connect(l, name) ==
    /\ Push([type |-> "connect", link |-> l, name |-> name, fit |-> ~name /\ asked[l] = {}])
    /\ Mark(l, "connect")
    /\ UNCHANGED <<links, last, pc, msgs, held, timers, iter, connected, closing>>

\* NetMgr::send.  Fit is the one of a link that the handler has been told to be
\* connected, and that nobody has closed.
Send(l) ==
    /\ Push([type |-> "send", link |-> l, name |-> FALSE,
             fit |-> connected[l] /\ "close" \notin asked[l]])
    /\ UNCHANGED <<links, last, pc, msgs, held, timers, iter, connected, closing, asked>>

\* A list that changes under an iterator makes it stale.
Changed(list) ==
    /\ timers' = list
    /\ iter' = [iter EXCEPT !.stale = @ \/ (pc = "check" /\ list # timers)]

\* NetTimerMgr::removeTimer: the timers of l are taken from the list.
NotOf(l) == Remaining(timers, {i \in DOMAIN timers : timers[i].link = l})

\* ProtoLink::removeTimer: whichever id is given, all timers of the link.
RemoveTimer(l) ==
    /\ Unlocked /\ l <= last
    /\ Changed(NotOf(l))
    /\ UNCHANGED <<links, last, queue, pc, msgs, held, connected, closing, asked>>

AddTimer(l, id) ==
    /\ Unlocked /\ l <= last
    /\ \A i \in DOMAIN timers : timers[i] # [link |-> l, id |-> id]
    /\ Changed(Append(timers, [link |-> l, id |-> id]))
    /\ IF "close" \in asked[l] THEN Mark(l, "late") ELSE UNCHANGED asked
    /\ UNCHANGED <<links, last, queue, pc, msgs, held, connected, closing>>

\* Mutant: close leaves the timers of its link.
StartClose_KeepsTimers(l) ==
    /\ Unlocked /\ l <= last /\ l \notin closing
    /\ closing' = closing \cup {l}
    /\ Mark(l, "close")
    /\ UNCHANGED <<links, last, queue, pc, msgs, held, timers, iter, connected>>

\* ProtoLink::close, its first call.
StartClose(l) ==
    /\ Unlocked /\ l <= last /\ l \notin closing
    /\ Changed(NotOf(l))
    /\ closing' = closing \cup {l}
    /\ Mark(l, "close")
    /\ UNCHANGED <<links, last, queue, pc, msgs, held, connected>>

\* Its second call, and the end.  Fit is the first close of a link.
Close(l) ==
    /\ l \in closing
    /\ Push([type |-> "close", link |-> l, name |-> FALSE, fit |-> "closed" \notin asked[l]])
    /\ closing' = closing \ {l}
    /\ connected' = [connected EXCEPT ![l] = FALSE]
    /\ Mark(l, "closed")
    /\ UNCHANGED <<links, last, pc, msgs, held, timers, iter>>

-----------------------------------------------------------------------------
(* NetMgr::select *)

\* Mutant: the handler is told before the connection is finished.
OnConnectable_Unfinished(l) ==
    /\ pc = "select" /\ l \in DOMAIN links /\ Chan(l) = "connecting"
    /\ connected' = [connected EXCEPT ![l] = TRUE]
    /\ UNCHANGED <<links, last, queue, pc, msgs, held, timers, iter, closing, asked>>

\* finishConnect and onConnected: of a connection that fails the handler is
\* told that it is made.
OnConnectable(l) ==
    /\ pc = "select" /\ l \in DOMAIN links /\ Chan(l) = "connecting"
    /\ \E c \in {"connected", "closed"} : links' = SetChan(l, c)
    /\ connected' = [connected EXCEPT ![l] = TRUE]
    /\ UNCHANGED <<last, queue, pc, msgs, held, timers, iter, closing, asked>>

\* onRead: data; or the peer has closed, which no handler is told; or an error.
OnRead(l) ==
    /\ pc = "select" /\ l \in DOMAIN links /\ Chan(l) = "connected"
    /\ \/ links' = links /\ connected' = connected
       \/ links' = SetChan(l, "closed") /\ connected' = connected
       \/ links' = SetChan(l, "closed") /\ connected' = [connected EXCEPT ![l] = FALSE]
    /\ UNCHANGED <<last, queue, pc, msgs, held, timers, iter, closing, asked>>

\* select is over, and getMsgs.
Fetch ==
    /\ pc = "select"
    /\ pc' = "msgs"
    /\ LET n == IF Len(queue) < FETCH_MAX THEN Len(queue) ELSE FETCH_MAX
       IN msgs' = SubSeq(queue, 1, n) /\ queue' = SubSeq(queue, n + 1, Len(queue))
    /\ UNCHANGED <<links, last, held, timers, iter, connected, closing, asked>>

-----------------------------------------------------------------------------
(* NetThread::run: the requests *)

\* The next request is carried out.
Done == pc' = pc /\ msgs' = Tail(msgs) /\ held' = held

\* It returns without unlock.
Returns == pc' = pc /\ msgs' = Tail(msgs) /\ held' = TRUE

\* It throws what nothing catches.
Throws == pc' = "dead" /\ msgs' = msgs /\ held' = TRUE

Doing(type, l) == pc = "msgs" /\ msgs # <<>> /\ Head(msgs).type = type /\ Head(msgs).link = l

\* NetTcpLink::connect of a new channel.  A name that does not resolve throws what
\* is no IOException; an IOException is logged, and the channel closed.
ConnectTcp(l) ==
    \/ Head(msgs).name /\ Throws /\ UNCHANGED <<links, connected>>
    \/ /\ Done /\ \E c \in {"connecting", "unheard", "closed"} : links' = SetChan(l, c)
       /\ UNCHANGED connected

\* NetUdpLink::connect of a new channel: it is connected at once; or the name does
\* not resolve, or there is no route, which is logged and nobody is told.
ConnectUdp(l) ==
    /\ Done
    /\ \/ links' = SetChan(l, "connected") /\ connected' = [connected EXCEPT ![l] = TRUE]
       \/ UNCHANGED <<links, connected>>

\* connectDirect.  Of a channel that is closed an IOException is logged; one that
\* is connecting or connected throws another, unless it is that of a UDP link and the
\* name does not resolve.
ConnectDirect(l) ==
    /\ Doing("connect", l)
    /\ \/ /\ l \notin DOMAIN links
          /\ Returns /\ UNCHANGED <<links, connected>>
       \/ l \in DOMAIN links /\ Chan(l) = "new" /\ links[l].tcp /\ ConnectTcp(l)
       \/ l \in DOMAIN links /\ Chan(l) = "new" /\ ~links[l].tcp /\ ConnectUdp(l)
       \/ /\ l \in DOMAIN links /\ Chan(l) \in {"connecting", "unheard", "connected"}
          /\ Throws \/ (Done /\ ~links[l].tcp /\ Head(msgs).name)
          /\ UNCHANGED <<links, connected>>
       \/ /\ l \in DOMAIN links /\ Chan(l) = "closed"
          /\ Done /\ UNCHANGED <<links, connected>>
    /\ UNCHANGED <<last, queue, timers, iter, closing, asked>>

\* sendDirect.  To write to a channel that is not connected yet throws.
SendDirect(l) ==
    /\ Doing("send", l)
    /\ \/ l \notin DOMAIN links /\ Returns
       \/ l \in DOMAIN links /\ Chan(l) \in {"new", "connecting"} /\ Throws
       \/ l \in DOMAIN links /\ Chan(l) \in {"unheard", "connected", "closed"} /\ Done
    /\ UNCHANGED <<links, last, queue, timers, iter, connected, closing, asked>>

\* closeDirect.
CloseDirect(l) ==
    /\ Doing("close", l)
    /\ IF l \in DOMAIN links THEN Done ELSE Returns
    /\ links' = Without(links, {l})
    /\ UNCHANGED <<last, queue, timers, iter, connected, closing, asked>>

\* Mutant: the list is cleared when the first request is done.
StartCheck_Early ==
    /\ pc = "msgs"
    /\ pc' = "check" /\ iter' = [at |-> 1, stale |-> FALSE] /\ msgs' = <<>>
    /\ UNCHANGED <<links, last, queue, held, timers, connected, closing, asked>>

StartCheck ==
    /\ pc = "msgs" /\ msgs = <<>>
    /\ pc' = "check" /\ iter' = [at |-> 1, stale |-> FALSE]
    /\ UNCHANGED <<links, last, queue, msgs, held, timers, connected, closing, asked>>

-----------------------------------------------------------------------------
(* NetTimerMgr::check *)

HasNext == iter.at <= Len(timers)

\* next() of a stale iterator throws.
OnModified ==
    /\ pc = "check" /\ HasNext /\ iter.stale
    /\ pc' = "dead"
    /\ UNCHANGED <<links, last, queue, msgs, held, timers, iter, connected, closing, asked>>

\* The next timer: it is not due, or timerDirect is called.
OnTimer ==
    /\ pc = "check" /\ HasNext /\ ~iter.stale
    /\ LET l == timers[iter.at].link
       IN \/ UNCHANGED <<held, timers>> /\ iter' = [iter EXCEPT !.at = @ + 1]
          \/ /\ l \notin DOMAIN links
             /\ held' = TRUE /\ timers' = NotOf(l)
             /\ iter' = [at |-> iter.at + 1, stale |-> TRUE]
    /\ UNCHANGED <<links, last, queue, pc, msgs, connected, closing, asked>>

EndCheck ==
    /\ pc = "check" /\ ~HasNext
    /\ pc' = "select"
    /\ iter' = [at |-> 1, stale |-> FALSE]
    /\ UNCHANGED <<links, last, queue, msgs, held, timers, connected, closing, asked>>

NetThread ==
    \/ Fetch \/ StartCheck \/ OnModified \/ OnTimer \/ EndCheck
    \/ \E l \in LinkIds : ConnectDirect(l) \/ SendDirect(l) \/ CloseDirect(l)

Next ==
    \/ \E tcp \in BOOLEAN : Create(tcp)
    \/ \E l \in LinkIds, name \in BOOLEAN : Connect(l, name)
    \/ \E l \in LinkIds : Send(l) \/ StartClose(l) \/ Close(l) \/ RemoveTimer(l)
    \/ \E l \in LinkIds, id \in TimerIds : AddTimer(l, id)
    \/ \E l \in LinkIds : OnConnectable(l) \/ OnRead(l)
    \/ NetThread

\* The net thread runs as long as it can.
Spec == Init /\ [][Next]_vars /\ WF_vars(NetThread)

-----------------------------------------------------------------------------
(* Properties *)

\* Every variable has its type; a fetch takes no more than its limit.
TypeOK ==
    /\ links \in [DOMAIN links -> [tcp : BOOLEAN, chan : Chans]] /\ DOMAIN links \subseteq 1 .. last
    /\ last \in 0 .. MaxLinks
    /\ queue \in Seq(Msg) /\ Len(queue) <= MaxQueue
    /\ msgs \in Seq(Msg) /\ Len(msgs) <= FETCH_MAX
    /\ pc \in {"select", "msgs", "check", "dead"} /\ held \in BOOLEAN
    /\ timers \in Seq(Timer)
    /\ iter \in [at : Nat, stale : BOOLEAN]
    /\ connected \in [LinkIds -> BOOLEAN]
    /\ closing \subseteq LinkIds
    /\ asked \in [LinkIds -> SUBSET Marks]

\* A request that was fit when it was made still is when the net thread carries it
\* out, whatever has been asked of its link and of others in between, by whichever
\* thread, and whichever way the link has failed: it neither ends the thread nor
\* leaves the lock taken.  A first connect to a literal address is fit (LoginMgr's
\* is), so is a send after onConnected and before close (LoginMgr's need not be).
FitKeepsLock ==
    [][pc = "msgs" /\ msgs # <<>> /\ Head(msgs).fit => held' = held /\ pc' # "dead"]_vars

\* No timer outlives its link, unless it was added after close: timerDirect of a link
\* that has gone keeps the lock.  ProtoLink::close takes the timers away before it
\* asks for the link to go.
TimersEndWithLink ==
    \A i \in DOMAIN timers :
        timers[i].link \in DOMAIN links \/ "late" \in asked[timers[i].link]

\* What is asked is done, as long as the net thread lives: a TCP link that is
\* connected leaves the state it was created in, and one that is closed leaves the
\* map.
EveryRequestServed ==
    \A l \in LinkIds :
        /\ "connect" \in asked[l] ~>
              (pc = "dead" \/ l \notin DOMAIN links \/ ~links[l].tcp \/ Chan(l) # "new")
        /\ "closed" \in asked[l] ~> (pc = "dead" \/ l \notin DOMAIN links)
=============================================================================
