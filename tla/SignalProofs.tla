---------------------------- MODULE SignalProofs ----------------------------
(***************************************************************************)
(* Theorems about Login, Dispatcher and Signal, for any number of users,   *)
(* login processes and descriptors.                                        *)
(*                                                                         *)
(* That a uid leads to a link that is known by it is inductive but for the *)
(* uids that are left behind: removeExpire finds the entry to erase by the *)
(* uid of the link that goes, so an entry whose link is known by another   *)
(* uid would outlive it.  setUid makes such entries when a link logs in    *)
(* again, and LinkMgr::remove leaves entries without a link.               *)
(***************************************************************************)
EXTENDS Signal, BasicFacts

\* The link of a uid that is not in S carries the uid.
OwnUids(l, S) == \A u \in DOMAIN l.uidLinks \ S : LeadsToLink(l, u)

-----------------------------------------------------------------------------
(* Lemmas about the operators of Login *)

\* The process with these fields.
Process(f, g, a, r, s) ==
    [links |-> f, uidLinks |-> g, adds |-> a, removes |-> r, seq |-> s]

\* Typed fields make a typed process.
LEMMA ProcessTyped ==
    ASSUME NEW f, NEW g, NEW a, NEW r, NEW s,
           DOMAIN f \subseteq LoginFds, \A fd \in DOMAIN f : f[fd] \in Link,
           DOMAIN g \subseteq Uids, \A u \in DOMAIN g : g[u] \in LoginFds,
           a \subseteq Users, r \subseteq Users, s \in 0 .. LinkCheckInterval - 1
    PROVE  LoginTypeOK(Process(f, g, a, r, s))
BY DEF LoginTypeOK, Process

\* What OwnUids says of a process with these fields.
LEMMA ProcessOwn ==
    ASSUME NEW f, NEW g, NEW a, NEW r, NEW s, NEW S,
           \A u \in DOMAIN g \ S : g[u] \in DOMAIN f /\ f[g[u]].uid = u
    PROVE  OwnUids(Process(f, g, a, r, s), S)
BY DEF OwnUids, LeadsToLink, Process

\* A typed process is made of its fields.
LEMMA Fields ==
    ASSUME NEW l, LoginTypeOK(l)
    PROVE  l = Process(l.links, l.uidLinks, l.adds, l.removes, l.seq)
BY DEF LoginTypeOK, Process

\* Replacing fields.
LEMMA Replaced ==
    ASSUME NEW l, LoginTypeOK(l), NEW v, NEW w
    PROVE  /\ [l EXCEPT !.links = v] = Process(v, l.uidLinks, l.adds, l.removes, l.seq)
           /\ [l EXCEPT !.adds = v] = Process(l.links, l.uidLinks, v, l.removes, l.seq)
           /\ [l EXCEPT !.uidLinks = v, !.removes = w] =
                 Process(l.links, v, l.adds, w, l.seq)
           /\ [l EXCEPT !.seq = v] = Process(l.links, l.uidLinks, l.adds, l.removes, v)
<1> DEFINE f == l.links
           g == l.uidLinks
           a == l.adds
           r == l.removes
           s == l.seq
<1>1. l = Process(f, g, a, r, s)
  BY Fields
<1> HIDE DEF f, g, a, r, s
<1>2. [l EXCEPT !.links = v] = Process(v, g, a, r, s)
  BY <1>1 DEF Process
<1>3. [l EXCEPT !.uidLinks = v] = Process(f, v, a, r, s)
  BY <1>1 DEF Process
<1>5. [Process(f, v, a, r, s) EXCEPT !.removes = w] = Process(f, v, a, w, s)
  BY DEF Process
<1>6. [l EXCEPT !.adds = v] = Process(f, g, v, r, s)
  BY <1>1 DEF Process
<1>7. [l EXCEPT !.seq = v] = Process(f, g, a, r, v)
  BY <1>1 DEF Process
<1> QED BY <1>2, <1>3, <1>5, <1>6, <1>7 DEF f, g, a, r, s

\* As setUid does.
LEMMA BothReplaced ==
    ASSUME NEW l, LoginTypeOK(l), NEW v, NEW w
    PROVE  [l EXCEPT !.uidLinks = v, !.links = w] = Process(w, v, l.adds, l.removes, l.seq)
<1> DEFINE f == l.links
           g == l.uidLinks
           a == l.adds
           r == l.removes
           s == l.seq
<1>1. l = Process(f, g, a, r, s)
  BY Fields
<1> HIDE DEF f, g, a, r, s
<1>2. [l EXCEPT !.uidLinks = v] = Process(f, v, a, r, s)
  BY <1>1 DEF Process
<1>3. [Process(f, v, a, r, s) EXCEPT !.links = w] = Process(w, v, a, r, s)
  BY DEF Process
<1> QED BY <1>2, <1>3 DEF a, r, s

LEMMA NewLoginRight == LoginTypeOK(NewLogin) /\ OwnUids(NewLogin, {})
<1>1. NewLogin = Process(Empty, Empty, {}, {}, 0)
  BY DEF NewLogin, Process
<1>2. DOMAIN Empty = {}
  BY DEF Empty
<1>3. 0 \in 0 .. LinkCheckInterval - 1
  BY LoginTimeAssumption
<1> QED BY <1>1, <1>2, <1>3, ProcessTyped, ProcessOwn

\* A new link: no uid leads to a free descriptor.
LEMMA AddLinkRight ==
    ASSUME NEW l, LoginTypeOK(l), NEW fd \in FreeFds(l), NEW S
    PROVE  /\ LoginTypeOK(AddLink(l, fd))
           /\ OwnUids(l, S) => OwnUids(AddLink(l, fd), S)
<1> DEFINE link == [uid |-> NoUid, age |-> 0]
           f == With(l.links, {fd}, link)
<1>1. AddLink(l, fd) = Process(f, l.uidLinks, l.adds, l.removes, l.seq)
  <2>1. AddLink(l, fd) = [l EXCEPT !.links = f]
    BY DEF AddLink
  <2> HIDE DEF f
  <2> QED BY <2>1, Replaced
<1>2. link \in Link
  BY LoginTimeAssumption DEF Link, Uids
<1> HIDE DEF link
<1>3. /\ DOMAIN f = DOMAIN l.links \cup {fd}
      /\ f[fd] = link
      /\ \A x \in DOMAIN l.links : f[x] = l.links[x]
      /\ fd \in LoginFds /\ fd \notin DOMAIN l.links
  BY DEF With, FreeFds
<1> HIDE DEF f
<1>4. LoginTypeOK(AddLink(l, fd))
  BY <1>1, <1>2, <1>3, ProcessTyped DEF LoginTypeOK
<1>5. ASSUME OwnUids(l, S) PROVE OwnUids(AddLink(l, fd), S)
  <2>1. \A v \in DOMAIN l.uidLinks \ S :
          l.uidLinks[v] \in DOMAIN f /\ f[l.uidLinks[v]].uid = v
    BY <1>3, <1>5 DEF OwnUids, LeadsToLink
  <2> QED BY <1>1, <2>1, ProcessOwn
<1> QED BY <1>4, <1>5

\* Closing links.
LEMMA RemoveTyped ==
    ASSUME NEW l, LoginTypeOK(l), NEW fds
    PROVE  LoginTypeOK(RemoveLinks(l, fds))
<1> DEFINE f == Without(l.links, fds)
<1>1. RemoveLinks(l, fds) = [l EXCEPT !.links = f]
  BY DEF RemoveLinks
<1>2. DOMAIN f = DOMAIN l.links \ fds /\ \A x \in DOMAIN f : f[x] = l.links[x]
  BY DEF Without, Restrict
<1> HIDE DEF f
<1>3. RemoveLinks(l, fds) = Process(f, l.uidLinks, l.adds, l.removes, l.seq)
  BY <1>1, Replaced
<1> QED BY <1>2, <1>3, ProcessTyped DEF LoginTypeOK

\* The uids that lead to links that are closed are left behind.
LEMMA RemoveRight ==
    ASSUME NEW l, LoginTypeOK(l), NEW fds, NEW S, NEW T, S \subseteq T,
           \A u \in DOMAIN l.uidLinks \ T : l.uidLinks[u] \notin fds
    PROVE  OwnUids(l, S) => OwnUids(RemoveLinks(l, fds), T)
<1> DEFINE f == Without(l.links, fds)
<1>1. RemoveLinks(l, fds) = Process(f, l.uidLinks, l.adds, l.removes, l.seq)
  <2>1. RemoveLinks(l, fds) = [l EXCEPT !.links = f]
    BY DEF RemoveLinks
  <2> HIDE DEF f
  <2> QED BY <2>1, Replaced
<1>2. DOMAIN f = DOMAIN l.links \ fds /\ \A x \in DOMAIN f : f[x] = l.links[x]
  BY DEF Without, Restrict
<1> HIDE DEF f
<1>3. ASSUME OwnUids(l, S) PROVE OwnUids(RemoveLinks(l, fds), T)
  <2>1. ASSUME NEW u \in DOMAIN l.uidLinks \ T
        PROVE  l.uidLinks[u] \in DOMAIN f /\ f[l.uidLinks[u]].uid = u
    BY <1>2, <1>3, <2>1 DEF OwnUids, LeadsToLink
  <2> QED BY <1>1, <2>1, ProcessOwn
<1> QED BY <1>3

\* A ping makes its link young.
LEMMA UpdateRight ==
    ASSUME NEW l, LoginTypeOK(l), NEW fd \in DOMAIN l.links, NEW S
    PROVE  /\ LoginTypeOK(Update(l, fd))
           /\ OwnUids(l, S) => OwnUids(Update(l, fd), S)
<1> DEFINE link == [l.links[fd] EXCEPT !.age = 0]
           f == With(l.links, {fd}, link)
<1>1. Update(l, fd) = Process(f, l.uidLinks, l.adds, l.removes, l.seq)
  <2>1. Update(l, fd) = [l EXCEPT !.links = f]
    BY DEF Update
  <2> HIDE DEF f
  <2> QED BY <2>1, Replaced
<1>2. l.links[fd] \in Link
  BY DEF LoginTypeOK
<1>3. link \in Link /\ link.uid = l.links[fd].uid
  BY <1>2, LoginTimeAssumption DEF Link
<1> HIDE DEF link
<1>4. /\ DOMAIN f = DOMAIN l.links
      /\ f[fd] = link
      /\ \A x \in DOMAIN l.links \ {fd} : f[x] = l.links[x]
  BY DEF With
<1> HIDE DEF f
<1>5. LoginTypeOK(Update(l, fd))
  BY <1>1, <1>3, <1>4, ProcessTyped DEF LoginTypeOK
<1>6. ASSUME OwnUids(l, S) PROVE OwnUids(Update(l, fd), S)
  <2>1. \A x \in DOMAIN f : f[x].uid = l.links[x].uid
    BY <1>3, <1>4
  <2>2. \A v \in DOMAIN l.uidLinks \ S :
          l.uidLinks[v] \in DOMAIN f /\ f[l.uidLinks[v]].uid = v
    BY <1>4, <1>6, <2>1 DEF OwnUids, LeadsToLink
  <2> QED BY <1>1, <2>2, ProcessOwn
<1> QED BY <1>5, <1>6

\* A login under any uid: it leads here now, a link that it led to before is left
\* to expire, and the uids that led here before are left behind.
LEMMA OnLoginRight ==
    ASSUME NEW l, LoginTypeOK(l), NEW fd \in DOMAIN l.links, NEW u \in Uids,
           NEW record \in Uids, NEW S
    PROVE  /\ LoginTypeOK(OnLoginReq(l, fd, u, record))
           /\ OwnUids(l, S)
                => OwnUids(OnLoginReq(l, fd, u, record), (S \cup UidsAt(l, fd)) \ {u})
<1> DEFINE a == l.adds \cup ({record} \ {NoUid})
           link == [l.links[fd] EXCEPT !.uid = u]
           f == With(l.links, {fd}, link)
           g == With(l.uidLinks, {u}, fd)
<1>1. l.links[fd] \in Link /\ fd \in LoginFds
  BY DEF LoginTypeOK
<1>6. a \subseteq Users
  BY DEF LoginTypeOK, Uids
<1>2. OnLoginReq(l, fd, u, record) = Process(f, g, a, l.removes, l.seq)
  <2> DEFINE k == [l EXCEPT !.adds = a]
  <2>1. k = Process(l.links, l.uidLinks, a, l.removes, l.seq)
    <3> HIDE DEF a
    <3> QED BY Replaced
  <2>2. k.links = l.links /\ k.uidLinks = l.uidLinks
    BY <2>1 DEF Process
  <2>3. OnLoginReq(l, fd, u, record) = SetUid(k, u, fd)
    BY DEF OnLoginReq
  <2> HIDE DEF k
  <2>4. SetUid(k, u, fd) = [k EXCEPT !.uidLinks = g, !.links = f]
    BY <2>2 DEF SetUid
  <2>5. LoginTypeOK(k)
    <3> HIDE DEF a
    <3> QED BY <1>6, <2>1, ProcessTyped DEF LoginTypeOK
  <2>6. k.adds = a /\ k.removes = l.removes /\ k.seq = l.seq
    BY <2>1 DEF Process
  <2> HIDE DEF f, g, a
  <2>7. [k EXCEPT !.uidLinks = g, !.links = f] = Process(f, g, k.adds, k.removes, k.seq)
    BY <2>5, BothReplaced, Zenon
  <2> QED BY <2>3, <2>4, <2>6, <2>7
<1>3. link \in Link /\ link.uid = u
  BY <1>1 DEF Link
<1> HIDE DEF link
<1>4. /\ DOMAIN f = DOMAIN l.links
      /\ f[fd] = link
      /\ \A x \in DOMAIN l.links \ {fd} : f[x] = l.links[x]
  BY DEF With
<1>5. /\ DOMAIN g = DOMAIN l.uidLinks \cup {u}
      /\ g[u] = fd
      /\ \A v \in DOMAIN l.uidLinks \ {u} : g[v] = l.uidLinks[v]
  BY DEF With
<1> HIDE DEF f, g, a
<1>7. LoginTypeOK(OnLoginReq(l, fd, u, record))
  <2>1. /\ DOMAIN f \subseteq LoginFds /\ \A x \in DOMAIN f : f[x] \in Link
        /\ DOMAIN g \subseteq Uids /\ \A v \in DOMAIN g : g[v] \in LoginFds
        /\ l.removes \subseteq Users /\ l.seq \in 0 .. LinkCheckInterval - 1
    BY <1>1, <1>3, <1>4, <1>5 DEF LoginTypeOK
  <2> QED BY <1>2, <1>6, <2>1, ProcessTyped
<1>8. ASSUME OwnUids(l, S)
      PROVE  OwnUids(OnLoginReq(l, fd, u, record), (S \cup UidsAt(l, fd)) \ {u})
  <2>1. \A v \in DOMAIN l.uidLinks \ (S \cup UidsAt(l, fd)) :
          /\ l.uidLinks[v] \in DOMAIN l.links \ {fd}
          /\ l.links[l.uidLinks[v]].uid = v
    BY <1>8 DEF OwnUids, LeadsToLink, UidsAt
  <2>2. \A v \in DOMAIN g \ ((S \cup UidsAt(l, fd)) \ {u}) :
          g[v] \in DOMAIN f /\ f[g[v]].uid = v
    BY <1>3, <1>4, <1>5, <2>1
  <2> QED BY <1>2, <2>2, ProcessOwn
<1> QED BY <1>7, <1>8

\* A second passes.
LEMMA AgedRight ==
    ASSUME NEW l, LoginTypeOK(l), NEW S
    PROVE  LoginTypeOK(Aged(l)) /\ (OwnUids(l, S) => OwnUids(Aged(l), S))
<1> DEFINE f == [fd \in DOMAIN l.links |->
                   [l.links[fd] EXCEPT !.age = IF l.links[fd].age <= LinkExpire
                                               THEN l.links[fd].age + 1
                                               ELSE l.links[fd].age]]
<1>1. Aged(l) = Process(f, l.uidLinks, l.adds, l.removes, l.seq)
  <2>1. Aged(l) = [l EXCEPT !.links = f]
    BY DEF Aged
  <2> HIDE DEF f
  <2> QED BY <2>1, Replaced
<1>2. ASSUME NEW fd \in DOMAIN l.links
      PROVE  f[fd] \in Link /\ f[fd].uid = l.links[fd].uid
  <2>1. l.links[fd] \in Link
    BY DEF LoginTypeOK
  <2> QED BY <2>1, LoginTimeAssumption DEF Link
<1>3. DOMAIN f = DOMAIN l.links
  OBVIOUS
<1> HIDE DEF f
<1>4. LoginTypeOK(Aged(l))
  BY <1>1, <1>2, <1>3, ProcessTyped DEF LoginTypeOK
<1>5. ASSUME OwnUids(l, S) PROVE OwnUids(Aged(l), S)
  <2>1. \A v \in DOMAIN l.uidLinks \ S :
          l.uidLinks[v] \in DOMAIN f /\ f[l.uidLinks[v]].uid = v
    BY <1>2, <1>3, <1>5 DEF OwnUids, LeadsToLink
  <2> QED BY <1>1, <2>1, ProcessOwn
<1> QED BY <1>4, <1>5

\* The links that have expired go with the uids that lead to them.
LEMMA RemoveExpireRight ==
    ASSUME NEW l, LoginTypeOK(l), NEW S
    PROVE  LoginTypeOK(RemoveExpire(l)) /\ (OwnUids(l, S) => OwnUids(RemoveExpire(l), S))
<1> DEFINE gone == ExpiredUids(l)
           g == Without(l.uidLinks, gone)
           r == l.removes \cup (gone \ {NoUid})
           m == Process(l.links, g, l.adds, r, l.seq)
<1>1. gone \ {NoUid} \subseteq Users
  BY DEF ExpiredUids, ExpiredFds, LoginTypeOK, Link, Uids
<1>2. RemoveExpire(l) = RemoveLinks(m, ExpiredFds(l))
  <2>1. m = [l EXCEPT !.uidLinks = g, !.removes = r]
    <3> HIDE DEF g, r
    <3> QED BY Replaced
  <2> QED BY <2>1 DEF RemoveExpire
<1>3. DOMAIN g = DOMAIN l.uidLinks \ gone /\ \A u \in DOMAIN g : g[u] = l.uidLinks[u]
  BY DEF Without, Restrict
<1> HIDE DEF g
<1>4. LoginTypeOK(m)
  BY <1>1, <1>3, ProcessTyped DEF LoginTypeOK
<1>5. ASSUME OwnUids(l, S) PROVE OwnUids(m, S)
  <2>1. \A u \in DOMAIN g \ S : g[u] \in DOMAIN l.links /\ l.links[g[u]].uid = u
    BY <1>3, <1>5 DEF OwnUids, LeadsToLink
  <2> QED BY <2>1, ProcessOwn
<1>6. ASSUME OwnUids(l, S), NEW u \in DOMAIN g \ S PROVE g[u] \notin ExpiredFds(l)
  <2>1. l.links[g[u]].uid = u /\ u \notin gone
    BY <1>3, <1>6 DEF OwnUids, LeadsToLink
  <2> QED BY <2>1 DEF ExpiredUids
<1>7. m.uidLinks = g
  BY DEF Process
<1> HIDE DEF m
<1>8. ASSUME OwnUids(l, S) PROVE OwnUids(RemoveExpire(l), S)
  BY <1>2, <1>4, <1>5, <1>6, <1>7, <1>8, RemoveRight
<1>9. LoginTypeOK(RemoveExpire(l))
  BY <1>2, <1>4, RemoveTyped
<1> QED BY <1>8, <1>9

LEMMA TickRight ==
    ASSUME NEW l, LoginTypeOK(l), NEW S
    PROVE  LoginTypeOK(LoginTick(l)) /\ (OwnUids(l, S) => OwnUids(LoginTick(l), S))
<1> DEFINE m == IF l.seq = 0 THEN RemoveExpire(Aged(l)) ELSE Aged(l)
           s == (l.seq + 1) % LinkCheckInterval
<1>1. LoginTypeOK(m) /\ (OwnUids(l, S) => OwnUids(m, S))
  BY AgedRight, RemoveExpireRight
<1>2. LoginTick(l) = [m EXCEPT !.seq = s]
  BY DEF LoginTick
<1>3. s \in 0 .. LinkCheckInterval - 1
  BY LoginTimeAssumption DEF LoginTypeOK
<1> HIDE DEF m, s
<1>4. LoginTick(l) = Process(m.links, m.uidLinks, m.adds, m.removes, s)
  BY <1>1, <1>2, Replaced
<1>5. LoginTypeOK(LoginTick(l))
  BY <1>1, <1>3, <1>4, ProcessTyped DEF LoginTypeOK
<1>6. OwnUids(m, S) => OwnUids(LoginTick(l), S)
  BY <1>4 DEF OwnUids, LeadsToLink, Process
<1> QED BY <1>1, <1>5, <1>6

-----------------------------------------------------------------------------
(* The login processes *)

LoginsTyped == DOMAIN login = Logins /\ \A p \in Logins : LoginTypeOK(login[p])

LoginsOwn == \A p \in Logins : OwnUids(login[p], behind[p])

BehindTyped == behind \in [Logins -> SUBSET Uids]

\* The lowest of some descriptors is one of them.
LEMMA LowestIn == ASSUME NEW S, S \subseteq Nat, S # {} PROVE Min(S) \in S
BY Least DEF Min

\* A step of one process, after which the uids in S are those left behind at it.
LEMMA OneLogin ==
    ASSUME LoginsTyped, BehindTyped, NEW p \in Logins, NEW m, NEW S \in SUBSET Uids,
           login' = [login EXCEPT ![p] = m], behind' = [behind EXCEPT ![p] = S],
           LoginTypeOK(m), OwnUids(login[p], behind[p]) => OwnUids(m, S)
    PROVE  /\ LoginsTyped' /\ BehindTyped'
           /\ LoginsOwn => LoginsOwn'
<1>1. /\ DOMAIN login' = Logins
      /\ \A q \in Logins : login'[q] = IF q = p THEN m ELSE login[q]
  BY DEF LoginsTyped
<1>2. /\ behind' \in [Logins -> SUBSET Uids]
      /\ \A q \in Logins : behind'[q] = IF q = p THEN S ELSE behind[q]
  BY DEF BehindTyped
<1>3. LoginsTyped'
  BY <1>1 DEF LoginsTyped
<1>4. ASSUME LoginsOwn PROVE LoginsOwn'
  <2>1. OwnUids(m, S)
    BY <1>4 DEF LoginsOwn
  <2>2. ASSUME NEW q \in Logins PROVE OwnUids(login'[q], behind'[q])
    BY <1>1, <1>2, <1>4, <2>1 DEF LoginsOwn
  <2> QED BY <2>2 DEF LoginsOwn
<1> QED BY <1>2, <1>3, <1>4 DEF BehindTyped

\* A step of one process that leaves nobody behind.
LEMMA OneLoginOnly ==
    ASSUME LoginsTyped, BehindTyped, NEW p \in Logins, NEW m,
           login' = [login EXCEPT ![p] = m], behind' = behind,
           LoginTypeOK(m), OwnUids(login[p], behind[p]) => OwnUids(m, behind[p])
    PROVE  /\ LoginsTyped' /\ BehindTyped'
           /\ LoginsOwn => LoginsOwn'
<1>1. behind' = [behind EXCEPT ![p] = behind[p]] /\ behind[p] \in SUBSET Uids
  BY DEF BehindTyped
<1> QED BY <1>1, OneLogin

\* Every step keeps the types, and that a uid's link carries it.
LEMMA LoginsStep ==
    ASSUME LoginsTyped, BehindTyped, [Next]_vars
    PROVE  /\ LoginsTyped' /\ BehindTyped'
           /\ LoginsOwn => LoginsOwn'
<1> DEFINE Kept == LoginsTyped' /\ BehindTyped' /\ (LoginsOwn => LoginsOwn')
<1>1. ASSUME NEW p \in Logins, OnClientConnect(p) PROVE Kept
  <2> DEFINE fd == Min(FreeFds(login[p]))
             m == AddLink(login[p], fd)
  <2>1. fd \in FreeFds(login[p])
    BY <1>1, LowestIn, LoginFdsAssumption DEF OnClientConnect, FreeFds
  <2>2. login' = [login EXCEPT ![p] = m] /\ behind' = behind
    BY <1>1 DEF OnClientConnect
  <2> HIDE DEF fd
  <2>3. LoginTypeOK(login[p])
    BY DEF LoginsTyped
  <2>4. LoginTypeOK(m) /\ (OwnUids(login[p], behind[p]) => OwnUids(m, behind[p]))
    BY <2>1, <2>3, AddLinkRight
  <2> HIDE DEF m
  <2> QED BY <2>2, <2>4, OneLoginOnly
<1>2. ASSUME NEW p \in Logins, NEW fd \in LoginFds, NEW u \in AskedUids,
             NEW record \in Uids, OnLogin(p, fd, u, record)
      PROVE  Kept
  <2> DEFINE m == OnLoginReq(login[p], fd, u, record)
             S == (behind[p] \cup UidsAt(login[p], fd)) \ {u}
  <2>1. /\ fd \in DOMAIN login[p].links /\ login' = [login EXCEPT ![p] = m]
        /\ behind' = [behind EXCEPT ![p] = S]
    BY <1>2 DEF OnLogin
  <2>2. LoginTypeOK(login[p])
    BY DEF LoginsTyped
  <2>3. u \in Uids
    BY AskedUidsAssumption
  <2>4. LoginTypeOK(m) /\ (OwnUids(login[p], behind[p]) => OwnUids(m, S))
    BY <2>1, <2>2, <2>3, OnLoginRight
  <2>5. S \in SUBSET Uids
    BY <2>2 DEF BehindTyped, UidsAt, LoginTypeOK
  <2> HIDE DEF m, S
  <2> QED BY <2>1, <2>4, <2>5, OneLogin
<1>3. ASSUME NEW p \in Logins, NEW fd \in LoginFds, OnPing(p, fd) PROVE Kept
  <2> DEFINE m == Update(login[p], fd)
  <2>1. /\ fd \in DOMAIN login[p].links /\ login' = [login EXCEPT ![p] = m]
        /\ behind' = behind
    BY <1>3 DEF OnPing
  <2>2. LoginTypeOK(login[p])
    BY DEF LoginsTyped
  <2>3. LoginTypeOK(m) /\ (OwnUids(login[p], behind[p]) => OwnUids(m, behind[p]))
    BY <2>1, <2>2, UpdateRight
  <2> HIDE DEF m
  <2> QED BY <2>1, <2>3, OneLoginOnly
<1>4. ASSUME NEW p \in Logins, NEW fd \in LoginFds, OnLinkClosed(p, fd) PROVE Kept
  <2> DEFINE m == RemoveLinks(login[p], {fd})
             S == behind[p] \cup UidsAt(login[p], fd)
  <2>1. login' = [login EXCEPT ![p] = m] /\ behind' = [behind EXCEPT ![p] = S]
    BY <1>4 DEF OnLinkClosed
  <2>2. LoginTypeOK(login[p])
    BY DEF LoginsTyped
  <2>3. /\ behind[p] \subseteq S /\ S \in SUBSET Uids
        /\ \A u \in DOMAIN login[p].uidLinks \ S : login[p].uidLinks[u] \notin {fd}
    BY <2>2 DEF BehindTyped, UidsAt, LoginTypeOK
  <2> HIDE DEF S
  <2>4. LoginTypeOK(m) /\ (OwnUids(login[p], behind[p]) => OwnUids(m, S))
    BY <2>2, <2>3, RemoveTyped, RemoveRight
  <2> HIDE DEF m
  <2> QED BY <2>1, <2>3, <2>4, OneLogin
<1>5. ASSUME NEW p \in Logins, OnTimer(p) PROVE Kept
  <2> DEFINE m == LoginTick(login[p])
             S == behind[p] \cap DOMAIN m.uidLinks
  <2>1. login' = [login EXCEPT ![p] = m] /\ behind' = [behind EXCEPT ![p] = S]
    BY <1>5 DEF OnTimer
  <2>2. LoginTypeOK(login[p])
    BY DEF LoginsTyped
  <2>3. LoginTypeOK(m) /\ (OwnUids(login[p], behind[p]) => OwnUids(m, behind[p]))
    BY <2>2, TickRight
  <2> HIDE DEF m
  <2>4. OwnUids(m, behind[p]) => OwnUids(m, S)
    BY DEF OwnUids
  <2>5. S \in SUBSET Uids
    BY DEF BehindTyped
  <2> HIDE DEF S
  <2> QED BY <2>1, <2>3, <2>4, <2>5, OneLogin
<1>6. ASSUME NEW p \in Logins, LoginRestart(p) PROVE Kept
  <2>1. /\ login' = [login EXCEPT ![p] = NewLogin] /\ behind' = [behind EXCEPT ![p] = {}]
        /\ {} \in SUBSET Uids
    BY <1>6 DEF LoginRestart
  <2> QED BY <2>1, NewLoginRight, OneLogin
<1>7. ASSUME UNCHANGED <<login, behind>> PROVE Kept
  BY <1>7 DEF LoginsTyped, BehindTyped, LoginsOwn
<1> QED
  BY <1>1, <1>2, <1>3, <1>4, <1>5, <1>6, <1>7
  DEF Next, vars, OnSendReq, OnReconnect, OnConnected, OnDispLost, OnLoginClosed,
      OnDispMessage, OnRelayed

-----------------------------------------------------------------------------
(* The dispatcher *)

DispTyped ==
    /\ disp = [links |-> disp.links, uidLinks |-> disp.uidLinks]
    /\ DOMAIN disp.links \subseteq DispFds
    /\ \A fd \in DOMAIN disp.links : disp.links[fd] \in Logins \cup {Gone}
    /\ DOMAIN disp.uidLinks \subseteq Users
    /\ \A u \in DOMAIN disp.uidLinks : disp.uidLinks[u] \in DispFds

\* Typed fields make a typed dispatcher.
LEMMA DispatcherTyped ==
    ASSUME NEW f, NEW g,
           DOMAIN f \subseteq DispFds, \A fd \in DOMAIN f : f[fd] \in Logins \cup {Gone},
           DOMAIN g \subseteq Users, \A u \in DOMAIN g : g[u] \in DispFds,
           disp' = [links |-> f, uidLinks |-> g]
    PROVE  DispTyped'
BY DEF DispTyped

\* Replacing fields.
LEMMA DispReplaced ==
    ASSUME DispTyped, NEW v, NEW w
    PROVE  /\ [disp EXCEPT !.links = v] = [links |-> v, uidLinks |-> disp.uidLinks]
           /\ [disp EXCEPT !.uidLinks = v] = [links |-> disp.links, uidLinks |-> v]
<1> DEFINE f == disp.links
           g == disp.uidLinks
<1>1. disp = [links |-> f, uidLinks |-> g]
  BY DEF DispTyped
<1> HIDE DEF f, g
<1>2. /\ [disp EXCEPT !.links = v] = [links |-> v, uidLinks |-> g]
      /\ [disp EXCEPT !.uidLinks = v] = [links |-> f, uidLinks |-> v]
  BY <1>1
<1> QED BY <1>2 DEF f, g

\* A change of the links alone.
LEMMA DispLinks ==
    ASSUME DispTyped, NEW f, DOMAIN f \subseteq DispFds,
           \A fd \in DOMAIN f : f[fd] \in Logins \cup {Gone},
           disp' = [disp EXCEPT !.links = f]
    PROVE  DispTyped'
<1>1. disp' = [links |-> f, uidLinks |-> disp.uidLinks]
  BY DispReplaced
<1> QED BY <1>1, DispatcherTyped DEF DispTyped

LEMMA DesertedRight ==
    ASSUME DispTyped, NEW p, disp' = Deserted(p)
    PROVE  DispTyped'
<1> DEFINE f == [fd \in DOMAIN disp.links |-> IF disp.links[fd] = p THEN Gone
                                              ELSE disp.links[fd]]
<1>1. disp' = [disp EXCEPT !.links = f]
  BY DEF Deserted
<1>2. DOMAIN f \subseteq DispFds /\ \A fd \in DOMAIN f : f[fd] \in Logins \cup {Gone}
  BY DEF DispTyped
<1> HIDE DEF f
<1> QED BY <1>1, <1>2, DispLinks

LEMMA SyncRight ==
    ASSUME DispTyped, NEW adds \in SUBSET Users, NEW removes, NEW fd \in DOMAIN disp.links,
           disp' = OnSyncUidsReq(disp, adds, removes, fd)
    PROVE  DispTyped'
<1> DEFINE g == With(disp.uidLinks, adds, fd)
           h == Without(g, removes)
           d == [links |-> disp.links, uidLinks |-> g]
<1>1. SetUids(disp, adds, fd) = d
  <2>1. SetUids(disp, adds, fd) = [disp EXCEPT !.uidLinks = g]
    BY DEF SetUids
  <2> HIDE DEF g
  <2> QED BY <2>1, DispReplaced
<1>2. /\ DOMAIN g = DOMAIN disp.uidLinks \cup adds
      /\ \A u \in DOMAIN g : \/ g[u] = fd
                             \/ u \in DOMAIN disp.uidLinks /\ g[u] = disp.uidLinks[u]
  BY DEF With
<1>3. DOMAIN h = DOMAIN g \ removes /\ \A u \in DOMAIN h : h[u] = g[u]
  BY DEF Without, Restrict
<1> HIDE DEF g
<1>4. RemoveUids(d, removes) = [links |-> disp.links, uidLinks |-> h]
  <2>1. d.uidLinks = g
    OBVIOUS
  <2>2. [d EXCEPT !.uidLinks = h] = [links |-> disp.links, uidLinks |-> h]
    <3> HIDE DEF h
    <3> QED OBVIOUS
  <2> HIDE DEF d
  <2>3. RemoveUids(d, removes) = [d EXCEPT !.uidLinks = h]
    BY <2>1 DEF RemoveUids
  <2> QED BY <2>2, <2>3
<1>5. DOMAIN h \subseteq Users /\ \A u \in DOMAIN h : h[u] \in DispFds
  BY <1>2, <1>3 DEF DispTyped
<1> HIDE DEF h
<1>6. disp' = [links |-> disp.links, uidLinks |-> h]
  BY <1>1, <1>4 DEF OnSyncUidsReq
<1> QED BY <1>5, <1>6, DispatcherTyped DEF DispTyped

-----------------------------------------------------------------------------
(* What is under way *)

LinksTyped ==
    /\ dlink \in [Logins -> {"none", "connecting", "up"}]
    /\ toDisp \in [Logins -> Seq(PSyncUidsReq \cup PSendReq)]
    /\ toLogin \in [Logins -> Seq(PSendReq)]

LEMMA SentTyped ==
    ASSUME LinksTyped, NEW p \in Logins, NEW msg \in PSyncUidsReq \cup PSendReq,
           SendDispatcher(p, msg)
    PROVE  toDisp' \in [Logins -> Seq(PSyncUidsReq \cup PSendReq)]
<1>1. Append(toDisp[p], msg) \in Seq(PSyncUidsReq \cup PSendReq)
  BY AppendProperties DEF LinksTyped
<1> QED BY <1>1 DEF SendDispatcher, LinksTyped

LEMMA RelayTyped ==
    ASSUME LinksTyped, NEW p \in Logins, NEW msg \in PSendReq, NEW fd, SendReq(p, msg, fd)
    PROVE  toDisp' \in [Logins -> Seq(PSyncUidsReq \cup PSendReq)]
<1>1. CASE SendDispatcher(p, msg)
  BY <1>1, SentTyped
<1>2. CASE UNCHANGED toDisp
  BY <1>2 DEF LinksTyped
<1> QED BY <1>1, <1>2 DEF SendReq

-----------------------------------------------------------------------------
(* The whole state *)

LEMMA TypeParts == TypeOK <=> LoginsTyped /\ BehindTyped /\ DispTyped /\ LinksTyped
BY DEF TypeOK, LoginsTyped, BehindTyped, DispTyped, LinksTyped

LEMMA TypeInit == Init => TypeOK /\ LoginsOwn
<1> SUFFICES ASSUME Init PROVE TypeOK /\ LoginsOwn
  OBVIOUS
<1>1. LoginsTyped /\ BehindTyped /\ LoginsOwn
  BY NewLoginRight DEF Init, LoginsTyped, BehindTyped, LoginsOwn
<1>2. DispTyped
  BY DEF Init, DispTyped, NewDispatcher, Empty
<1>3. LinksTyped
  BY EmptySeq DEF Init, LinksTyped
<1> QED BY <1>1, <1>2, <1>3, TypeParts

LEMMA DispStep ==
    ASSUME TypeOK, [Next]_vars
    PROVE  DispTyped'
<1> USE TypeParts
<1>1. ASSUME NEW p \in Logins, OnConnected(p) PROVE DispTyped'
  <2> DEFINE fd == Min(DispFds \ DOMAIN disp.links)
             f == With(disp.links, {fd}, p)
  <2>1. fd \in DispFds
    BY <1>1, LowestIn, DispFdsAssumption DEF OnConnected
  <2>2. disp' = [disp EXCEPT !.links = f]
    BY <1>1 DEF OnConnected, AddLogin
  <2> HIDE DEF fd
  <2>3. DOMAIN f \subseteq DispFds /\ \A x \in DOMAIN f : f[x] \in Logins \cup {Gone}
    BY <2>1 DEF DispTyped, With
  <2> HIDE DEF f
  <2> QED BY <2>2, <2>3, DispLinks
<1>2. ASSUME NEW p \in Logins, OnDispLost(p) \/ LoginRestart(p) PROVE DispTyped'
  BY <1>2, DesertedRight DEF OnDispLost, LoginRestart
<1>3. ASSUME NEW fd \in DispFds, OnLoginClosed(fd) PROVE DispTyped'
  <2> DEFINE f == Without(disp.links, {fd})
  <2>1. disp' = [disp EXCEPT !.links = f]
    BY <1>3 DEF OnLoginClosed, RemoveLogin
  <2>2. DOMAIN f \subseteq DispFds /\ \A x \in DOMAIN f : f[x] \in Logins \cup {Gone}
    BY DEF DispTyped, Without, Restrict
  <2> HIDE DEF f
  <2> QED BY <2>1, <2>2, DispLinks
<1>4. ASSUME NEW p \in Logins, OnDispMessage(p) PROVE DispTyped'
  <2> DEFINE msg == Head(toDisp[p])
  <2>1. toDisp[p] \in Seq(PSyncUidsReq \cup PSendReq) /\ toDisp[p] # <<>>
    BY <1>4 DEF OnDispMessage, LinksTyped
  <2>2. msg \in PSyncUidsReq \cup PSendReq
    BY <2>1, HeadTailProperties
  <2>3. \/ UNCHANGED disp
        \/ /\ msg.type # "send"
           /\ \E fd \in LinksOf(p) :
                disp' = OnSyncUidsReq(disp, msg.adds, msg.removes, fd)
    BY <1>4 DEF OnDispMessage
  <2> HIDE DEF msg
  <2>4. msg.type # "send" => msg.adds \in SUBSET Users
    BY <2>2 DEF PSyncUidsReq, PSendReq
  <2>5. CASE UNCHANGED disp
    BY <2>5 DEF DispTyped
  <2>6. CASE msg.type # "send" /\ \E fd \in LinksOf(p) :
                disp' = OnSyncUidsReq(disp, msg.adds, msg.removes, fd)
    BY <2>4, <2>6, SyncRight DEF LinksOf
  <2> QED BY <2>3, <2>5, <2>6
<1>5. ASSUME UNCHANGED disp PROVE DispTyped'
  BY <1>5 DEF DispTyped
<1> QED
  BY <1>1, <1>2, <1>3, <1>4, <1>5
  DEF Next, vars, linkVars, OnClientConnect, OnLogin, OnSendReq, OnPing, OnLinkClosed,
      OnTimer, OnReconnect, OnRelayed

LEMMA LinksStep ==
    ASSUME TypeOK, [Next]_vars
    PROVE  LinksTyped'
<1> USE TypeParts
<1>1. ASSUME NEW p \in Logins, NEW fd \in LoginFds, NEW uid \in AskedUids,
             NEW peer \in AskedUids, OnSendReq(p, fd, uid, peer)
      PROVE  LinksTyped'
  <2> DEFINE msg == [type |-> "send", uid |-> uid, peer |-> peer]
  <2>1. msg \in PSendReq
    BY AskedUidsAssumption DEF PSendReq
  <2>2. SendReq(p, msg, fd) /\ UNCHANGED <<dlink, toLogin>>
    BY <1>1 DEF OnSendReq
  <2> HIDE DEF msg
  <2>3. toDisp' \in [Logins -> Seq(PSyncUidsReq \cup PSendReq)]
    BY <2>1, <2>2, RelayTyped
  <2> QED BY <2>2, <2>3 DEF LinksTyped
<1>2. ASSUME NEW p \in Logins, OnTimer(p) PROVE LinksTyped'
  <2> DEFINE msg == [type |-> "sync", adds |-> login[p].adds, removes |-> login[p].removes]
  <2>1. msg \in PSyncUidsReq
    BY DEF LoginsTyped, LoginTypeOK, PSyncUidsReq
  <2>2. SendDispatcher(p, msg) /\ UNCHANGED <<dlink, toLogin>>
    BY <1>2 DEF OnTimer
  <2> HIDE DEF msg
  <2>3. toDisp' \in [Logins -> Seq(PSyncUidsReq \cup PSendReq)]
    BY <2>1, <2>2, SentTyped
  <2> QED BY <2>2, <2>3 DEF LinksTyped
<1>3. ASSUME NEW p \in Logins, OnReconnect(p) \/ OnConnected(p) PROVE LinksTyped'
  BY <1>3 DEF OnReconnect, OnConnected, LinksTyped
<1>4. ASSUME NEW p \in Logins, OnDispLost(p) \/ LoginRestart(p) PROVE LinksTyped'
  <2>1. <<>> \in Seq(PSyncUidsReq \cup PSendReq) /\ <<>> \in Seq(PSendReq)
    BY EmptySeq
  <2>2. /\ toDisp' = [toDisp EXCEPT ![p] = <<>>]
        /\ toLogin' = [toLogin EXCEPT ![p] = <<>>]
        /\ \/ dlink' = [dlink EXCEPT ![p] = "none"]
           \/ dlink' = [dlink EXCEPT ![p] = "connecting"]
    BY <1>4 DEF OnDispLost, LoginRestart
  <2> QED BY <2>1, <2>2 DEF LinksTyped
<1>5. ASSUME NEW p \in Logins, OnDispMessage(p) PROVE LinksTyped'
  <2> DEFINE msg == Head(toDisp[p])
  <2>1. toDisp[p] \in Seq(PSyncUidsReq \cup PSendReq) /\ toDisp[p] # <<>>
    BY <1>5 DEF OnDispMessage, LinksTyped
  <2>2. /\ msg \in PSyncUidsReq \cup PSendReq
        /\ Tail(toDisp[p]) \in Seq(PSyncUidsReq \cup PSendReq)
    BY <2>1, HeadTailProperties
  <2>3. /\ toDisp' = [toDisp EXCEPT ![p] = Tail(toDisp[p])]
        /\ toLogin' = [q \in Logins |-> toLogin[q] \o WrittenTo(q, msg)]
        /\ dlink' = dlink
    BY <1>5 DEF OnDispMessage
  <2> HIDE DEF msg
  <2>4. ASSUME NEW q \in Logins PROVE toLogin[q] \o WrittenTo(q, msg) \in Seq(PSendReq)
    <3>1. msg.type = "send" => msg \in PSendReq
      BY <2>2 DEF PSyncUidsReq
    <3>2. WrittenTo(q, msg) \in Seq(PSendReq)
      BY <3>1, EmptySeq DEF WrittenTo
    <3> QED BY <3>2, ConcatProperties DEF LinksTyped
  <2> QED BY <2>2, <2>3, <2>4 DEF LinksTyped
<1>6. ASSUME NEW p \in Logins, OnRelayed(p) PROVE LinksTyped'
  <2>1. toLogin[p] \in Seq(PSendReq) /\ toLogin[p] # <<>>
    BY <1>6 DEF OnRelayed, LinksTyped
  <2>2. Head(toLogin[p]) \in PSendReq /\ Tail(toLogin[p]) \in Seq(PSendReq)
    BY <2>1, HeadTailProperties
  <2>3. toDisp' \in [Logins -> Seq(PSyncUidsReq \cup PSendReq)]
    BY <1>6, <2>2, RelayTyped DEF OnRelayed
  <2> QED BY <1>6, <2>2, <2>3 DEF OnRelayed, LinksTyped
<1>7. ASSUME UNCHANGED <<dlink, toDisp, toLogin>> PROVE LinksTyped'
  BY <1>7 DEF LinksTyped
<1> QED
  BY <1>1, <1>2, <1>3, <1>4, <1>5, <1>6, <1>7
  DEF Next, vars, linkVars, OnClientConnect, OnLogin, OnPing, OnLinkClosed, OnLoginClosed

\* Every state is made of typed login processes, a typed dispatcher and typed
\* messages.
THEOREM TypeCorrect == Spec => []TypeOK
<1>1. Init => TypeOK
  BY TypeInit
<1>2. TypeOK /\ [Next]_vars => TypeOK'
  <2>1. TypeOK /\ [Next]_vars => LoginsTyped' /\ BehindTyped' /\ DispTyped' /\ LinksTyped'
    BY LoginsStep, DispStep, LinksStep, TypeParts
  <2>2. LoginsTyped' /\ BehindTyped' /\ DispTyped' /\ LinksTyped' => TypeOK'
    BY DEF TypeOK, LoginsTyped, BehindTyped, DispTyped, LinksTyped
  <2> QED BY <2>1, <2>2
<1> QED BY <1>1, <1>2, PTL DEF Spec

\* A uid leads to an open link that is known by it, however often clients log in
\* under any uids and links expire (LinkMgr::setUid, removeExpire), unless its link's
\* client has closed it (LinkMgr::remove) or logged in under another uid, and nobody
\* has logged in under it since.
THEOREM UsersReached == Spec => []ReachesUser
<1>1. LoginsOwn => ReachesUser
  BY DEF LoginsOwn, OwnUids, ReachesUser
<1>2. TypeOK /\ LoginsOwn /\ [Next]_vars => LoginsOwn'
  BY LoginsStep, TypeParts
<1>3. Init => LoginsOwn
  BY TypeInit
<1> QED BY <1>1, <1>2, <1>3, TypeCorrect, PTL DEF Spec
=============================================================================
