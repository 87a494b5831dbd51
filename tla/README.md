# TLA+ models of topcall

topcall is the backend of a voice-call service and its mobile SDKs: a dozen
daemons in C++ over libevent, each of them one thread around an event loop, and
an Android and an iOS client library. This directory holds TLA+ modules that
model the daemons' logic, TLC configurations that check them on small
instances, and theorems proved with TLAPS for every value of the constants.

Paths below are relative to `src/packages/` unless they begin with `src/`.
A module's definitions carry the names of the functions that they model;
`PROJECT.json` gives the lines of every one.

- [The system](#the-system)
- [Modules](#modules)
- [Runs](#runs)
- [Fairness](#fairness)
- [Proofs](#proofs)
- [What the runs show about the code](#what-the-runs-show-about-the-code)
- [Not modelled](#not-modelled)
- [Plan](#plan)

## The system

All daemons are built the same way. `main.cpp` reads an ini file; `NetLoop` (or
`NetListener`) owns the libevent base, the listener and a timer of one second;
a read callback cuts the stream into packets by a four-byte length and gives
each to `MsgHandler::handle`, a switch on the packet's uri; managers hold the
state; `LinkMgr` maps a link id to a link, and **the link id is the file
descriptor**, a number the kernel gives again as soon as it is free. Links to
other daemons (`NetLink`, `NetIO`) reconnect on a timer. Nothing is persisted:
a daemon that restarts starts empty.

Two consequences shape the models. Within a process a callback is atomic: one
action per callback or handler. Across processes everything interleaves:
messages in TCP streams are in order but delayed, a link may break at any time
with what is on it, and a descriptor kept in some table may meanwhile be
another client's.

| component | state | operations | talks to |
|---|---|---|---|
| `base/loadtable_d` | rows (load, load_max, reserve) and four lists by score; links; the master's slaves | report, query with reservation, registration and heartbeats of slaves, expiry | services report to the master; the master copies to its slaves; clients query either |
| `media/mcproxy_d` | cache of preallocated groups per (isp, area) pair; pending links per key; one link to mcenter | allocation request, answer of mcenter, expiry of the cache, reconnect | access servers; mcenter |
| `media/mcenter_d` | media groups by id; lists of groups by isp and by (isp, area); links | report, search for a group for two users, expiry | mgroup reports; mcproxy asks; registers with deamon |
| `media/mgroup_d` | its mproxies and their load | report, allocation of a proxy, loss of a link | mproxy reports; reports to loadtable |
| `media/mproxy_d` | sessions and their users; a pool of messages | create, join, ping, reject, stream data | clients by UDP; reports to mgroup |
| `signal/login_d` | links, uid of a link and link of a uid; message resender; uid changes to synchronise | login, send, room and json requests, ping, expiry | clients; dispatcher |
| `signal/dispatcher_d` | login links; the login process of each uid | send, synchronisation of uids, expiry | login processes; router |
| `router/router_d` | links; the registration with push | (no handler is reached) | dispatchers; push |
| `router/push_d`, `router/pull_d` | consumers by name; topics and their consumers | register, push, loss of a link | routers, producers, MongoDB |
| `base/deamon_d` | services by name | report, query, expiry | mcenter reports |
| framing, `NetLink` | the buffered bytes; the connection and its timer | read, connect, retry | inside every daemon |
| Android SDK | links, net thread, queue of requests, timers | create, connect, send, close, timers, from several threads | login, mproxy |
| iOS SDK | audio unit and codec | record, play | the platform |

What makes each of them correct, and what is hard about it:

- **loadtable**: a service is in exactly the list of its current score; no
  process reserves more than was announced; a slave's table follows the
  master's; slaves registered by descriptor are those that are connected. Hard:
  reservations against reports, registration and expiry against descriptor
  reuse, copies in flight.
- **mcproxy**: whoever asks is answered, once, with an answer to its own
  question; the cache is well formed.
  Hard: pending descriptors that close, the loss of the link with requests on
  it, repeated requests for one key.
- **mcenter**: an answered group serves both users and is preferred in the
  documented order; a group that reports can be found; a group is refused only if there is
  none. Hard: two indexes over shared objects that are deleted by hand.
- **login, dispatcher**: a message for a uid reaches a link that logged in under it;
  the dispatcher's map of uids follows the logins. Hard: a uid that logs in twice
  before the first link is removed, links that write whatever uid they like;
  batches of changes that are never emptied.
- **mproxy**: whoever was told that it is in a session is sent the session's
  stream, nothing else is sent as such, and nobody else is sent it. Hard: datagrams that come late or
  twice, a stream created again, messages reused from a pool.
- **deamon, push, mgroup**, the registries: who reports is known, at the place it
  reported; who is gone is not, where the code forgets; and after any fault all
  are known again. Hard: links that each end loses in its own time,
  registrations on a new link while the old one is still there, expiry of one
  entry at a time.
- **framing**: the messages cut out of the stream are those that were sent, and
  all of them. Hard: the arithmetic of the length, the pieces in which a stream
  arrives.
- **messages**: what comes out at the end of a chain of handlers is what somebody put
  in at its beginning. Hard: content that is copied from class to class by hand, under
  changing names, through writers and readers that list the fields each for itself.
- **Android SDK**: no thread is left waiting for the lock, and what is asked is
  done. Hard: requests that are carried out after their link has gone.

The `hazards` of `PROJECT.json` list each of these at its line, with the
properties that are about it, or why there is none yet.

## Modules

| module | models | remarks |
|---|---|---|
| `LTable` | `loadtable_d/src/ltable.cpp`: rows, lists, scores, the query | operators on a table value, no variables; a process's table is one such value |
| `Allocator` | (abstract) what a load table promises: what a service announced is granted call by call, and never more than that | no code of its own |
| `LoadTable` | the cluster: one master, any number of slaves, their links | `table[p]` is `LTMgr::m_table` of process `p`; `peer` is the master's `m_mapLinks` by descriptor with who is really there; `slaves` is `SlaveMgr::m_mapSlaves`; `toMaster` and `toSlave` are the two directions of a connection; `copied` and `orphans` are history |
| `LoadTableProofs` | theorems about `LoadTable` | |
| `MCProxy` | `mcproxy_d`: `Cache`, `PendList`, the links | `cache[k]` is the `CacheList` of key `k`; `pend` is `PendList`; `toMC` and `fromMC` are the link to mcenter; `owed[c][k]` is history: open requests, and so are `removed` and `lost`: whether a client's descriptor, and the link to mcenter, have ever been closed; `given` is what the last step sent to access servers. A group is whatever mcenter named (`Grps`) |
| `MCProxyProofs` | theorems about `MCProxy` | |
| `MCenter` | `mcenter_d`: `GrpMgr`, `GrpIspMap`, `GrpList`, `LinkMgr` | objects have addresses (`Objs`), so that lists may point to freed ones; `answer` is the last answer with the state it was given in; `deleted` is history: whether a group has been deleted |
| `Media` | `mcproxy_d` and `mcenter_d` at the two ends of one connection | extends `MCenter` and instantiates `MCProxy`; `there` is mcenter's link id of mcproxy's connection, `old` those of connections that mcproxy has given up. A step is one process's action with the other's variables unchanged, or `Answer`, where mcenter reads a request and answers it |
| `MCenterProofs` | theorems about `MCenter` and `Media` | |
| `LinkMaps` | the `std::map` operations of the daemons' maps | |
| `Login` | `login_d`: `LinkMgr`, `UidSync`, `MsgHandler` | operators on a process value: `links` is `m_mapLinks`, `uidLinks` is `m_mapUidLinks`, `adds` and `removes` are those of `UidSync`. `OnLoginReq(l, fd, uid, record)` takes the uid that the client wrote, which goes to `setUid`, apart from the record of the database, which goes to `onAdd` |
| `Dispatcher` | `dispatcher_d`: `LinkMgr`, `MsgHandler` | operators on a dispatcher value |
| `Signal` | login processes at one dispatcher, and the links between them | `login[p]`, `disp`, `dlink[p]` (`NetLink`), `toDisp[p]` and `toLogin[p]` (the two directions of the link); `AskedUids` are the uids that clients write in a `PLoginReq`, whoever they are; `behind[p]` is history: the uids that are known at `p` although the client closed its link or logged in under another |
| `SignalProofs` | theorems about `Signal` | |
| `MProxy` | `mproxy_d`: `SessMgr`, `Session`, `MsgPool`, `MsgHandler` | `sessIds` and `sessions` are the two maps of `SessMgr`; `out` is what the last handler sent; `member` and `joined` are history: what a client may rely on since its `PMPJoinRes`, and the addresses that have joined each session |
| `MProxyProofs` | theorems about `MProxy` | |
| `Framing` | one connection and its reader, in each of the forms that the callbacks have | bytes are counted; `sent` holds the place of every message in the stream; `handled` and `wrong` are history |
| `Packet` | `core/packet.h`: how fields are put into bytes and taken out | operators; a byte that nobody wrote is `Stray` |
| `Messages` | of each class of `src/include/protocol` that `Wire` follows, the fields that `marshall` writes and those that `unmarshall` reads | a constant for each class; the two lists are separate |
| `Wire` | the content of the messages of every process: who writes what, what the handlers read out of the bytes and put into the messages they send | `net` is what is under way, in bytes; `told` all that anybody has read; `said` is history: what was written of somebody's own accord; `service` chooses whose messages are spoken in a behaviour |
| `Deamon`, `Push`, `MGroup` | the registries of `deamon_d`, `push_d` (and its copy in `pull_d`) and `mgroup_d` | operators on a registry value |
| `Backbone` | any of the three registries with its clients: mcenters, routers, mproxies | `kind` is the form; `reg` the registry's value; `conns` its links by descriptor, `link` the clients'; `steady`, `left` and `passed` are history; `passed[c]` counts the checks that took an earlier name while `c` was expired |
| `BackboneProofs` | theorems about `Backbone` | |
| `AndNet` | the Android `NetMgr`, `NetThread`, `NetQueue`, `NetTimerMgr`, the links and `ProtoLink` | `pc`, `msgs` and `iter` are the net thread; `held` says that it has kept `mLinkMapLocker`; `connected` is `ProtoLink.mConnected`; `asked` is history, and so is `fit` of a request: whether its link could be expected to take it when it was made |
| `AndNetProofs` | theorems about `AndNet` and `Framing` | |
| `Walks` | what a walk over a list leaves of it | used by `MCenter` and `AndNet`; a recursive function, so that it can be proved about |
| `BasicFacts` | facts used by the proofs of several components: the elements of a queue, what a walk leaves of a list, the least and the greatest of some numbers, what comes first in an order | |
| `MC...` | the instances for TLC | |

How actions correspond to code. An action is one callback with all it calls: for
example `MCProxy!OnMCAllocReq(c, k)` is `MsgHandler::onMCAllocReq` with
`MCPMgr::getCache`, `CacheList::get`, `PendList::add` and the send to mcenter;
`MCenter!OnTimer` ages groups and links and does the whole of
`GrpMgr::removeExpire`. Connections and their losses are actions of their own
(`OnConnect`, `OnClientError`, `OnMCLost`, `OnLinkClosed`). The environment
consists of clients and services that ask and report, of the kernel that gives
the lowest free descriptor, and of links that break.

Abstractions that hold throughout:

- *Time.* Stamps are replaced by ages counted in timer ticks, up to the age that
  expires. The timer is an action that may be taken at any moment; it is never
  forced, unless fairness says so.
- *Messages* are records of the fields that the handlers look at, and bytes in
  `Wire` only. A link is a sequence in each direction.
- *Keys and names* are model values; the string key that mcproxy builds from the
  sorted isps and areas is a member of `Keys`.
- *Undefined behaviour.* Where the code reads memory that it has freed, the
  model takes either outcome: the value is intact or overwritten (`FreedId`,
  `FreedName`).
- *Order.* Where a `std::map` is walked and the walk stops, names are numbers
  that stand for their rank.
- *Content* is followed in `Wire`, where on the other hand nothing is forgotten and
  everything may come in any order: a handler uses whatever its process was ever told.
  What `Wire` allows is more than what the processes do, so that what holds of it
  holds of them.
- *Numbers.* Loads are naturals; `LTable!LoadLimit` is the largest load whose
  score is computed without overflow in 32 bits, and the reports are assumed to
  lie below it.

### Properties

`LoadTable`: `EveryRowListedOnce` (a row is in the list of its score only),
`NoRowOverbooked` (reservations stay within the room last announced),
`ReplicaInStep` (a slave's row is the master's, or the newest copy on its way),
`CopiesGoToSlaves` (a registered descriptor is never somebody else's),
`EverySlaveCopied` (a slave that has registered and kept its link is copied,
unless the master removed it and missed its link),
`GoneSlaveForgotten` (a slave that vanished is removed in the end, unless at check
after check a lower link has expired),
`MasterAllocates` (the master's table implements `Allocator`, with
`announced` and `granted` read off the rows).

`MCProxy`: `NoEmptyItem` (no item of the cache is used up), `OldestFirst` (the
list of a key is in order of age, which the expiry from the front relies on),
`WaitingIsPending` (a client that waits is in the list of its key),
`PendingHasRequest` (a pending key has a request or an answer under way, until
the link to mcenter is lost), `NoAnswerUnasked` (no client gets more answers than
it asked for, until a descriptor is closed), `EveryAskerAnswered` (whoever asks for a
key, once or several times, and keeps its link gets an answer for it, unless the link
to mcenter is lost). Requests of one client for one key that are open together get
one answer between them, because `PendList` is a set of links; so the last two are
about who asks, and not about each request.

`MCenter`: `AnswerServesBoth` (the group has the carriers of both users),
`ExactIspFirst` (a fallback group only if no group of exactly these carriers has
room), `NoGroupOnlyIfNone` (a refusal only if no listed group would do),
`ListedWhileKnown` (a known group is on its lists, so that it can be found). The
first two speak of the time before a group is first deleted, the others of all time.

`Media`: `GivenServesBoth` (the group that an access server is given has the carriers
of both users of its key, whenever mcenter was asked and whatever came between, until
mcenter deletes a group),
`ProxyAsSpecified` (the two together implement `MCProxy!Spec`, in which mcenter is
anything that turns each request into an answer, in order) and `CenterAnswers` (they
have the fairness that `MCProxy!FairSpec` assumes: mcenter does answer).

`Signal`: `ReachesUser` (a uid leads to an open link whose client last asked to log in
under it, so that a message at one process goes to nobody else, unless that client
closed its link or took another uid and nobody has logged in under it since; whether
the client was entitled to the uid nothing checks), `DispatcherLearns` (a uid that its
login process keeps announcing is again and again known to be there).

`MProxy`: `StreamsOwnSessions` (a stream that is known has a session, and no
other stream has the same), `MembersReached` (a client that was told it is in a
session is in the session's map, at the address it joined from),
`RelaysWhatFits` (stream data that fits a `Msg` goes to every member as it came,
although messages are reused between sessions; data of any size goes only to
addresses that joined that session).

`Framing`: `CutsAreMessages` (the handler is given the messages that were sent,
whole and in order, until a length that the code cannot decode),
`DeliversAll` (every message that the code can decode is handled in the end,
however the stream is split and joined).

`Wire`: `AnswersAreTrue` (of every message that a process or a client reads, and that
grants something, some message was written in the first place that has the same
fields, all of them: the address that mcproxy gives out is that of one group's report,
three messages and two translations earlier, and comes with what was asked about; a
slave's row is one report; the users of a call are those that joined it, under their
own names; what the dispatcher hears of a login is the uid of a record).

`Backbone`: `SubscribersInStep` (a topic leads to the link of its consumer, once,
and to no other), `NothingStale` (deamon lists nobody for longer than the expiry,
a check, and a check for each that took an earlier name meanwhile), `KeptWhileReporting` (a client whose link
has held for a report is listed where it is), `KnownAgain` (after the last fault
every client is known again, but for two cases that the code leaves out).

`AndNet`: `FitKeepsLock` (a request that was fit when it was made neither ends the net
thread nor leaves the lock taken, whatever was asked in between and whichever way the
link failed; fit are a first connect to a literal address, a send on a link whose
handler was told that it is connected and that nobody has closed, a first close),
`TimersEndWithLink` (a timer has a link, unless it was added after a call of close),
`EveryRequestServed` (a connect of a TCP link and a close are carried out, while the
net thread lives).

## Runs

| run | instance | checks |
|---|---|---|
| `table` | one process, three services, reports for every score | `EveryRowListedOnce`, `NoRowOverbooked`, `MasterAllocates` |
| `cluster` | master, one slave, other clients, three descriptors, one service with two reports that leave no room, two copies on their way | `ReplicaInStep`, `CopiesGoToSlaves`, `EverySlaveCopied`, `GoneSlaveForgotten` |
| `mcproxy` | two clients, two keys, two descriptors, links of both kinds lost | `NoEmptyItem`, `OldestFirst`, `WaitingIsPending`, `PendingHasRequest`, `NoAnswerUnasked`, `EveryAskerAnswered` |
| `mcenter` | four groups, one of two carriers and one of an invalid isp, that may fall silent, memory for two at a time, eight kinds of request | `TypeOK`, `AnswerServesBoth`, `ExactIspFirst`, `NoGroupOnlyIfNone`, `ListedWhileKnown` |
| `media` | one access server, two keys, one of which only one of two groups serves; mcproxy's connection and an mgroup's, lost and expired at either end | `GivenServesBoth`, `ProxyAsSpecified`, `CenterAnswers` |
| `signal_users` | a known uid and uid 0, either of which any client may write, one login process, two descriptors | `ReachesUser` |
| `signal_sync` | one user, two login processes, links that break, restarts | `DispatcherLearns` |
| `relay` | two streams, users and addresses, three sessions, a pool of one message | `TypeOK`, `StreamsOwnSessions`, `MembersReached`, `RelaysWhatFits` |
| `frames` | each of four readers, three messages of 8, 12, 132 or 260 bytes in pieces of four | `CutsAreMessages`, `DeliversAll` |
| `fields` | each of six services with its processes, two clients, two contents, three or four messages of their own accord | `AnswersAreTrue` |
| `registry` | each of three registries with two clients, two addresses, three faults, an expiry of one check interval | `TypeOK`, `SubscribersInStep`, `NothingStale`, `KeptWhileReporting`, `KnownAgain` |
| `sdk` | one link of the Android client, TCP or UDP, three requests in the queue, two fetched at a time, one timer | `FitKeepsLock`, `TimersEndWithLink`, `EveryRequestServed` |

The type invariants that no run lists are proved, for every instance (`TypeCorrect`,
`Types`, `MediaTypeCorrect`, `StreamTypeCorrect`).

Deadlock is checked in the runs of daemons with timers, which never stop. It is
not in `frames` (a writer may have no more to say), `fields` (all has been said and
read), `registry` (a push process with nothing on its links waits) and `sdk` (a dead
net thread with the lock is a state that the code reaches).

The bounds, and why they are enough:

- *Services, keys, groups.* The rows of a table meet only in the choice among
  the rows of one list: two in one list and a third in another show every case
  (`table`). Rows are independent of each other in the copies, so `cluster` needs
  one. Keys of mcproxy meet only in the shared queue to mcenter: two. A search of
  mcenter chooses between groups of the two areas, and between exact and
  fallback carriers: three groups, and one that is never to be listed. Two are in
  memory at a time (`Objs`), so that an object is freed and given to another group
  while lists still lead to it; the theorems have any number.
- *Reports* cover each score of `calcScore`, a full service and one that never
  reported a maximum (`MCReports`); in
  `cluster` no report leaves room, because reservations are a process's own and
  every report, the only thing that is copied, starts their count again.
- *Descriptors.* Two are enough for one to be reused while the other is held.
  `cluster` has three: `removeExpired` removes one slave in a check, the one on the
  lowest link, and `LINK_EXPIRE` is 3 to a `LINK_CHECK_INTERVAL` of 2 there, so that two
  lower links that come and go put off the removal of the third slave for ever. In the
  code the intervals are 15 and 5 seconds, and it takes three. `GoneSlaveForgotten`
  names this as the only case; without it the property fails in the run. The one slave
  of the run may leave closed links behind, which are removed like slaves of their own.
- *Copies.* `MaxInFlight` is 2: a second copy is sent while the first is on its way, so
  that they could be lost, skipped or applied in the wrong order.
- *Both ends of a link* (`media`): two descriptors at mcenter, so that mcproxy's new
  connection may be accepted while its former one is there and while an mgroup has
  had either; two requests on the link, so that they are answered in turn, and a
  cache of one call. Of the two groups mcenter knows one at a time: it has memory
  for one, and either may report first. The groups keep reporting. `LinkExpire` is 0:
  a second that goes by at mcenter closes the links there, and may come at any
  moment or never. `Others` leaves a descriptor to mcproxy: where others may take
  all of them for ever, mcenter never accepts it. A deleted group is read with its
  own name (`FreedName`); `mcenter` has both outcomes.
- *Users* of the signalling system meet on the descriptors of a login process
  (`signal_users`: two uids and two descriptors, so that two links take the same uid,
  in either order, one link takes both, and a descriptor goes to the next client while
  the maps still hold it) and nowhere else: the dispatcher treats
  every uid by itself, and one is enough for `signal_sync`, at two processes, so
  that each may announce and remove it. `LinkExpire` is 0 there: what a process
  announces depends on logins and on links that expire, not on how long they last.
- *Sessions* of mproxy: three for two streams, so that one is created again
  (`relay`). One pooled message is taken by two handlers in turn.
- *Lengths* (`frames`): two that are decoded rightly, one above 128, one above
  256. In the run `Piece` is four bytes: every length and the header are multiples of it, so
  that a message may be split within the header's message but not within the
  four bytes of the length, which no callback reads before all are there. `Garbage`
  is what four bytes within a message may decode to, a length that fits and one
  that does not. `ShuffleAt` is 20, so that a buffer is moved after two messages.
- *Clients of a registry* meet only in the one name that a check removes, in the
  descriptor that is given again and in the last name of mgroup: two. Three faults
  are two broken links and a client that starts again, or both ends of one link and
  the registry. The expiry is as long as a check interval where the code has three: the
  earlier name can then report, fall silent and expire again before the later one is
  taken, which is what `NothingStale` allows for (`passed`); with the intervals of the code
  it takes three earlier names. The theorems about it have any number of
  clients and any intervals.
- *Links of the Android client* share the thread, the queue, the timers and the lock,
  none of which depends on the link: one link, and a queue in which a connect, a send
  and a close, or two closes and a send, are open together. `FETCH_MAX` is 2 where the
  code has 10; `msgs` then holds two requests while another is in the queue. The theorems have any
  number of links and requests.
- *Content* (`fields`). In a behaviour one of six services is spoken, since no handler
  puts what it is told in two of them together. Two clients and two
  contents let two chains of messages cross at every handler; of a pair of contents no
  two fields have the same value and strings have different lengths, so that
  a field which is read in another's place, or taken from the other message, shows.
  Three or four messages are written of somebody's own accord (`MCMaxSaid`): two askers
  and two groups, two users that log in and write to each other.
- *Intervals* are scaled down and keep their order.
- `MaxInFlight` (messages in one direction of a loadtable connection),
  `MaxRequests` (on the link to mcenter), `MaxListed` (entries of one mcenter list),
  `MaxQueue` (requests in the Android queue) and `MaxSaid` bound what the
  environment may start; no handler of the code is disabled by them, but for
  a report that would make a list longer than `MaxListed`. In `Signal`,
  `MaxInFlight` leaves the last place in the queue to the dispatcher to the
  timer's synchronisation, so that clients do not hold the timer up.
- *Symmetry* permutes object addresses (`mcenter`), the clients (`fields`) and keys or
  users, in runs that check no liveness.

`CacheMinimal` and `CacheSize` are 2 in `mcproxy` where the code has 50 and 300
calls: a key is asked for again while it still has calls left, so that there may be
two items, of two ages, and answers that nobody waits for.

## Fairness

- `LoadTable!FairSpec` asks for weak fairness of `OnTimer`: libevent's timer is
  set again in its own callback. Nothing else is fair; slaves and clients may be
  silent for ever.
- `MCProxy!FairSpec` asks for weak fairness of reading mcenter's answers (the
  event loop reads what has arrived), of the reconnect timer, and of mcenter's
  answering what it has received. The last is `MCenter`'s behaviour:
  `onMCPreAllocReq` answers every request, if only with a refusal (`Media`).
- `Media!MediaFairSpec` asks for weak fairness of both event loops: mcproxy reads
  what has arrived, its reconnect timer fires, it hears that mcenter has closed;
  mcenter accepts connections, reads and answers, and hears of closed connections.
  `CenterAnswers` derives from it what `MCProxy!FairSpec` asks of mcenter; so
  `EveryAskerAnswered`, which `mcproxy` checks of `MCProxy`, does not rest on an
  mcenter that was only imagined.
- `Framing!StreamSpec` asks for weak fairness of the arrival of bytes (TCP), of the
  callback and of its loop.
- `Backbone!Spec` asks for weak fairness of the reconnect timers, of the
  callbacks on both sides and of the ticks; nothing need break, and `MaxFaults`
  makes faults stop.
- `AndNet!Spec` asks for weak fairness of the net thread, a loop that never
  sleeps for longer than 20 ms. The other end of a link need not do anything.
- `Signal!FairSpec` asks for weak fairness of `OnTimer` and of reading what the
  dispatcher sent, and for strong fairness of `OnDispMessage`: the dispatcher's
  loop serves every link that has something to read, whatever the others bring;
  the bound on the queues to the login processes is what could disable it in
  between. `DispatcherLearns` says itself that the link to the dispatcher holds
  at last.

## Proofs

All theorems hold for every value of the constants that satisfies the named
assumptions of the modules (intervals are positive, names are distinct,
descriptors are naturals). Where a theorem needs more, its `ASSUME` says so, and
the paragraph below says why the code gives it, or what happens without it.

Every safety invariant and every action property of the runs is stated by a
theorem, but for `AnswersAreTrue`. A module
holds the theorems of several components where one's rest on another's
(`Media` on `MCenter`) or share lemmas.

Induction over numbers is done by the least counterexample (`Least` in
`BasicFacts`, from the library's well-foundedness of the naturals): if some n
lacked the property there would be a first. This is how what a walk over a list
leaves is proved (`RemainingHolds`), that a finite order has a first element
(`Minimal`), and so that a search finds one.

**`LoadTableProofs`.** `IInv` is the conjunction of the types of the network
part (`NetTypeOK`), `CopiesGoToSlaves` and, for each process, `TableInv`: its
table is well-typed, listed by score and within capacity. These are inductive
together: that `PopItem` finds the row it moves needs the lists to match the
scores, and that a reservation stays within the room needs the picked row to be
a listed one (`PicksHasRoom`). `AddRowInv` and `ReserveInv` prove it of a table,
`TablesInvStep` of the cluster. From it: `TypeCorrect`, `RowsListedOnce`,
`RowsNotOverbooked`, `CopiesReachSlavesOnly`.

`ReplicasInStep` (property `ReplicaInStep`) needs to say what a slave *will* show.
`WillShow` says it of a queue of copies: the newest copy of a row in it, or the row
itself if there is none, is the master's row. `RepInv` joins it (`SyncInv`) with
what makes a connection start clean (`SlavesInv`): a slave has one link, its
registration is the first message on it, and until it has arrived nothing was
copied. A copy appended or taken off keeps `WillShow` (`AppendShows`,
`TailShows`); a link that goes takes the slave's part of the statement along
(`RepFewer`). Queries change a process's reservations only, which no copy carries.

`SlavesAreCopied` (property `EverySlaveCopied`) holds whatever `removeExpired` reads
out of the map node that it has erased. If the node is intact, link and
registration go together (`ClosedTogether`). If it was overwritten the link stays
(`LinkMissed`): it is one of `orphans`, of which the property says nothing, and as
a slave has one link nobody else's registration goes with it.

`MasterImplementsAllocator` shows
that the master's table refines `Allocator`: a report is `Announce`, a query at
the master `Grant` or, if there is no room, a stutter, and all else leaves the
room alone.

**`MCProxyProofs`.** `CacheInv` says that every cache list is good: typed, with
something left in every item, and in order of age; one lemma for each operator
on lists (`AddGood`, `GetGood`, `AgeGood`, `ClearExpireGood`). `AskInv` types the
links, queues and counters. From these: `TypeCorrect`, `NoItemIsEmpty`,
`OldestIsFirst`.

Two properties say what holds until something that the code does not allow for
happens, and history variables say whether it has. `AnswersWereAsked` (property
`NoAnswerUnasked`): until a descriptor is closed (`removed`), whoever is pending for
a key has an open request for it (`PendingInv`, with `OwedInv`), so that an answer to all of
them is asked for by each. Afterwards a pending descriptor may have been given to
another client, which gets the answer. `PendingAreAsked` (property
`PendingHasRequest`): until the link to mcenter is lost (`lost`), a key that is pended
for is on the link, in a request or in an answer (`RequestInv`); afterwards the request is
gone and the key stays pending. That neither is ever undone (`RemovedStays`,
`LostStays`) makes the two inductive.

`WaitingArePending` (property `WaitingIsPending`) holds however often a client asks: an
answer for a key goes to everybody who is pending for it, and takes all their open
requests for it off together (`WaitingNext`). It needs that the links of those who are
pending stay what they are while they wait (`StillPending`), which is why the property
is about clients whose links stay.

**`MCenterProofs`.** `TypeInv /\ KnownInv`: a known group has an object of its own,
which carries its name and a valid isp, and is on both of its lists. It is inductive
whatever groups fall silent: `RemovedLeaves` says that the removal of the expired
groups keeps every entry that reads as another name, and the object of a known group
reads as its own. From it `TypeCorrect` and `KnownAreListed` (property
`ListedWhileKnown`). `RefusedOnlyIfNone` (property `NoGroupOnlyIfNone`) adds that
`m_setIsps` has the isp of every known group (`IspsInv`), and that the searches find:
`FindsRoom` says that `getFreeGroup` answers something if the list has a group with
room, which is the first good one or the first of the best score, and
`FallbackFinds` that the walk over the isps stops at one if one of them would do; an
isp is a finite set, the bits of an int, so that `Before` orders them.

What the lists hold *besides* known groups decides what is answered. Until a group
is first deleted (`deleted`), every entry is the object of a known group of the list's
isp (`PureInv`); `ListsInv`, which says so, is inductive with the others whatever groups
fall silent, because only the removal of a group makes an entry stale, and that is
what sets `deleted` (`DeletedNext`). From it `AnswersServeBoth` (property
`AnswerServesBoth`) and `ExactIspsFirst` (property `ExactIspFirst`). What is answered after that is seen below.

**`Media`, in `MCenterProofs`.** Every step of `Media` is a step of `MCenter` or leaves
its variables alone (`CenterAsSpecified`), so that the theorems about mcenter hold of
it there. `MediaImplementsMCProxy` (property `ProxyAsSpecified`) is the simulation of
`MCProxy`: the step that matters is `Answer`, which maps to `MCenterAnswers(grp)` for the
group whose name is in the object that the search returned. That this is a name at
all needs `MCenter`'s types for the objects, intact or freed; and what mcproxy has
asked, stated by `AsksInv`, that every request on the link is of a key. Conversely
what is proved of every `MCProxy` holds of the two together.

`GivenGroupsServe` (property `GivenServesBoth`) is about the data that flows between the
processes. `Serving(k)` are the groups with the carriers of both users of a key;
`ServInv` says that every item of the cache for k, every answer for k on its way and
what was given for k names one of them. It enters with `Answer` (`AnswerServes`): what
`FetchServesBoth` says of mcenter's search, for the very request that was read, holds of
the name that the group's object carries. The operators of the cache keep it, because they
only move and age items (`CacheListTypes`). It holds until mcenter first deletes a
group (`GivenInv`): then mcenter answers out of objects that may be freed, and the cache
keeps what it has got.

**`SignalProofs`.** For each operator on a login process one lemma says that it
keeps the types, and `OwnUids`: a uid that is not in a given set leads to a link that
carries it. A link may take one uid after another, and many links the same one, since
the uid is what the client wrote. `setUid` leaves the uid that a link had before
leading to it, and `LinkMgr::remove` leaves the uid of a closed link on a
descriptor that the next client gets: `behind` holds these. When several links carry one
uid it leads to the last of them, and the expiry of any of them
erases it, wherever it leads, so that nothing is left to be wrong. That
these are all is what the lemmas show, and that a login, even on the same descriptor,
takes its uid out of `behind`. `DispStep` and `LinksStep` type the rest. From these
`TypeCorrect` and `UsersReached` (property `ReachesUser`).

**`MProxyProofs`.** The types are inductive, and say already that the sids given so
far are the sessions; `StreamsOwnSessions` and `MembersReached` are inductive
relative to them. `RelayIsExact`, a property of steps, follows from
`MembersReached` and from `SessionsJoined`: whoever a session holds has joined it from
the address that is held. A `Msg` is filled before it is sent when the data fits, so
that what it held before does not matter; where it goes depends on the session and not
on the size.

**`BackboneProofs`.** `IInv` adds to the types that a link that is open at the
registry is the one its client has (`OpenIsLink`), that a consumer's descriptor is
a link of that consumer (`ConsumersLinked`), and `InStep`: every topic lists its own
consumer, if there is one, and nothing else. `RegisterInStep` and `DeleteInStep`
prove `InStep` of the operators of `Push`: `Store::unsubscribe` takes a name off the
first topic that lists it, and `PushMgr::deleteConsumer` the first consumer of a
descriptor; only because there is one of each do the two maps stay in step.
From it `Types` and `ListsInStep` (property `SubscribersInStep`), for any number of
clients and faults.

`StaleGo` (property `NothingStale`) is an argument about a queue that is not one: each
check of deamon removes the first name that has expired. `passed[c]` counts the checks
that took an earlier name while c was expired. `QueueInv` says that an expired service
has been so for less than a check interval for each of these, and the present one: a
check that does not take it takes an earlier name (`FirstExpired`), and there is no
check that takes none. It holds for any number of services and any intervals, and
says nothing of how large `passed` may become: with the 5 and 15 seconds of the code
three earlier names that come back and fall silent again keep a later one listed.

`ReportingKeeps` (property `KeptWhileReporting`) assumes that the clients are finitely
many and `OftenEnough`: `REPORT_INTERVAL` is less than `TIMER_EXPIRE`, as it is in the
code. `Reports(c)` says of a client whose link holds that no older link of it has
anything to read, that its own link has at most the report of the present tick, and
that, once the link has held for as long as since the last report, the registry's
entry is exactly as old as this report (`SinceReport`).

**`AndNetProofs`.** A request that was fit is safe because of what it finds when it is
carried out. `Pending` is all that has been asked and not done, in order: what the net
thread has fetched, then the queue. `IInv` says of every fit request in it that its
link is there, in a state that takes it (`Fits`), and that no fit request follows a
close of its link, nor a fit connect another one (`Ordered`). `FitKeepsLock` is a
property of steps; only `Fits` excludes the branches that return or throw with the
lock held, and it is inductive whatever unfit requests are between, since those that
are survived leave a link that others may use as it was, or closed. That a handler is
told only of links that are connected or closed (`LinksInv`) is what makes a send fit.
From it `FitIsSafe` (property `FitKeepsLock`) and, with `TimersInv` and `AskedInv`,
`TimersEnd` (property `TimersEndWithLink`): a link leaves the map only after its
`close` has taken its timers away. Both hold for any number of links and requests and
any `FETCH_MAX`. `Types` adds the sizes of the queues and the timers (`SizesInv`); what
`removeTimer` leaves of the timers is typed by `RemainingHolds`.

**`Framing`, in `AndNetProofs`.** `CutsAreMessages` is not inductive, because it looks at
history only. `StreamInv` adds where everything is: the messages lie one after
another in the stream (`SentInv`), the reader takes no more than has arrived
(`TakenInv`), and, as long as nothing went wrong, what it has taken ends exactly
where a message begins (`InStep`). A message below 256 bytes is then decoded as its
own length, or as more bytes than can have arrived (`Huge`), so that the reader
cuts it whole or waits; the Android client decodes it exactly until its buffer has
been moved. A message of 256 bytes or more may be cut anywhere, and from there on
nothing is claimed. From it `StreamTypeCorrect` (property `StreamTypeOK`) and
`HandedMessagesAreWhole` (property `CutsAreMessages`), for the four readers, any
lengths up to 32767, pieces of any size and any number of messages. The
assumptions are that a message has its header (`Lengths` are 8 or more) and that
fewer bytes are sent than `Huge`, 2^31 - 1, the least that a sign-extended byte
decodes to.

**Only model-checked.**

- What must happen in the end: `GoneSlaveForgotten`, `EveryAskerAnswered`,
  `DispatcherLearns`, `DeliversAll`, `KnownAgain`, `EveryRequestServed`, `CenterAnswers`. The
  proof system does not reason about fairness here.
- `AnswersAreTrue`: `Packet` reads lists by folds over what it has read before, which is
  induction over data.
- Of `AnswerServesBoth`, `ExactIspFirst` and `GivenServesBoth` nothing is left once a group has been deleted: there they are not true, because a
  list may lead to freed or reused objects.

## What the models show about the code

The properties hold as stated in their comments, with the exceptions that they
name. Seen while modelling, and where it says so found by TLC on an instance that
is not among the runs. Documents are `src/docs/1V1语音服务器设计.docx` and
`src/docs/信令系统.docx`.

Of loadtable, mcproxy, mcenter and the signalling system:

- Master and slaves count reservations each on their own: a master and a slave
  that agree on the load of a service each reserve its last call. The first
  document has "需要防止预分配冲突", conflicts of preallocation must be prevented.
- `NetLoop::remove` of mcproxy closes a descriptor and leaves it in `PendList`;
  the client that gets the descriptor next gets the answer (`NoAnswerUnasked`
  says nothing once a descriptor is closed).
- `GrpMgr::add` of mcenter puts a group on its lists at every report, and
  `GrpList::remvoeGroup` takes one entry off, so that a group that reported twice
  and expired is still answered, out of freed memory (`AnswerServesBoth`
  without its `deleted` fails as soon as groups fall silent).
- `Dispatcher::onSendReq` looks the uid of the recipient up and then passes the uid
  itself, and not the link id it leads to, to `LinkMgr::send`; what reaches a
  login process this way is dropped there, because the sender is not at the
  dispatcher's link. The second document says that the dispatcher pushes the
  message to the login proxy of the recipient.
- `SlaveMgr::removeExpired` reads the link id out of the map node that it has
  erased; where it was overwritten the link may stay while the slave is no
  longer registered, and a slave that is late with a heartbeat gets no copies
  any more (`EverySlaveCopied` without its `orphans` fails in `cluster`).
- Requests that were on the link to mcenter when it was lost are not asked again
  until another client asks for the same key (`EveryAskerAnswered` without its
  `lost` fails in `mcproxy`).
- What mcproxy gives a client repeats isp1 and area1 in the place of isp2 and area2
  (`cacheres.isp2 = res.isp1` in `onMCPreAllocRes`).
- A client that has logged in and closes its link leaves its uid on the
  descriptor (`ReachesUser` without its `behind` fails in `signal_users`).
- A login gives the link the uid that the client wrote, whoever it is and whether or not
  it succeeds, while the dispatcher is told of the uid of the record: messages for a uid
  go to whoever asked last, and may never have been entitled to it. The Android client
  writes 0. The expiry of an old link makes the user unreachable who has logged in again.
- Requests of one link for one key that are open together get one answer (`PendList`
  keeps a set of links).
- A slave that vanished stays registered, and is copied to, as long as lower links keep
  expiring (`GoneSlaveForgotten` without its exception fails in `cluster`).
- EOF of a client is ignored by mcproxy, so that descriptors are never freed.
- The lists of `UidSync` and of `MsgResender` are never emptied, or never filled:
  a new `MsgList` is not put into the map, so that nothing is ever sent again.
- The cache expires after `CACHE_EXPIRE_INTERVAL`, 20 seconds, where the document
  says three.
- `findGroup` falls back to all areas of an isp before the second user's area is
  searched, where the document has the second area first.

Of mproxy:

- A datagram longer than a `Msg` is not copied (`Msg::assign`), and what the `Msg`
  held before is sent in its place.
- `MPMgr::push` does not return the `Msg` when there is no session; the pool
  shrinks and messages are allocated instead.
- `PMPJoinRes` of a refused join carries a result that nobody has set.
- `MsgCache::addCache` has no caller, and `onMPResendReq` reads a `PMPResendReq` as
  a `PMPStreamData`: no resend is ever answered. `handle` has no case for
  `PMPLeaveReq`: users never leave.
- `LoadMgr::getLoad` is 0 always, and so is every load that mgroup is told.

Of the framing and the messages:

- Lengths from 128 on stop a C reader, from 256 on they are cut wrongly
  (`lenbuf[2]>>8`, signed bytes); `NetLink` of mgroup holds the last message back
  (`len-4`); `ProtoLink` reads lengths in the other byte order once its buffer has
  been moved. `DeliversAll` and `CutsAreMessages` say what is left.
- deamon cannot answer a query: `send` marshals through `Packet&`, whose
  `marshall(Pack)` `PDQueryRes` does not override, and its own writer leaves the
  length of the list out.
- `handle` of router switches on the svid; the case of `PQueryJsonReq` in login falls
  through into that of `PVCallCreateRoomReq`; `PMGAllocRes` is sent to an mproxy that
  has no case for it.
- Sent without having been set are the sid of `PMPCreateRes`, the uid of `PMGAllocRes`,
  and all of a refused join, login or allocation but its result, and of a join that too.
- `ProtoPacket.pushString16` writes the number of characters and then the bytes, which
  are more if the text is not ASCII.
- `pcall.h` and `pmstat.h` do not compile, and are included by nothing.

Of the registries:

- `dm_event_cb` of mcenter does not handle EOF: a deamon that closes the link in
  order is never connected to again (`Deaf` in `KnownAgain`).
- A router that registers on a new link before push has seen the old one close is
  refused, unanswered, and unknown from then on (`left` in `KnownAgain`).
- `ProxyMgr::add` keeps the first address and link of a name, `ProxyMgr::remove` has
  no caller, and `getFreeProxy` ends at the last name, known to be there or not; a
  load_max of 0 would make it divide by zero.
- Only push and pull ignore SIGPIPE; a write of another daemon to a link that was
  reset would end it. `Backbone` takes no such step.
- `NetPuller::pull` asks for the same first document again and again.

Of the Android client:

- A request for a link that has gone returns with `mLinkMapLocker` taken; to send
  before the link is connected throws `NotYetConnectedException`, with the lock
  taken, and ends the net thread. `LoginMgr` connects in its
  constructor, and sends whenever it is asked to log in; nothing makes it wait. A name
  that does not resolve ends the net thread too, with a TCP link
  (`FitKeepsLock` without its `fit` fails in `sdk`).
- A TCP connection that is made at once is not announced, and nothing is read from it;
  of a UDP link whose name does not resolve, or that has no route, nobody is told.
- `finishConnect` that fails is followed by `onConnected`; a peer's orderly close is
  followed by nothing.
- `NetTimerMgr::check` iterates without the lock, so that a timer added or removed
  meanwhile ends the net thread; `LoginLink` adds one in its constructor.
- `ProtoLink.removeTimer(id)` removes all timers of the link.

## Not modelled

- The iOS SDK is an example of audio code for the platform, with no part of the
  system's protocol.
- `pull_d` beyond what it copies from push: a loop over one database query.
- The audio classes and the user interface of the Android SDK.
- ini files, statistics, logging and the PHP pages parse and print.
- Third-party code under `src/depends`: headers and archives of libevent, MongoDB's
  client, jsoncpp; they are most of the lines of the repository that no
  module maps.
- Contents, outside `Wire`. There, of the protocol headers: leaves, events, answers and
  pings without content, queries, rooms, the texts in JSON, and text that is not ASCII.
- Clock changes: the daemons use `time()`; the models count ticks, which are the
  same for all processes of `Backbone`. A message on a link that holds arrives
  before the next tick there.
- Room requests of clients: the dispatcher knows no uri for them and drops them.
- Of `dispatcher_d`, the link to the router: what is sent there leaves `Signal`, and
  router handles nothing (`Wire`).
- The queue of `MongoLink` in push, and what the database keeps.

## Plan

Done: the modules above, in the order of the table, and theorems for every safety
invariant and action property of the runs but `AnswersAreTrue`. Left, in
order:

1. A dispatcher that restarts, in `Signal`.
2. mgroup's reports to mcenter, which are commented out in the code, as the source
   of `Media`'s groups.
