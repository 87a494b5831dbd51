---------------------------- MODULE MCenterProofs ----------------------------
(***************************************************************************)
(* Theorems about MCenter, for any number of groups, lists and links.      *)
(*                                                                         *)
(* KnownInv says that a group that is known has an object of its own that  *)
(* carries its name and isp, and that both of its lists lead to it.  It is *)
(* inductive whatever groups fall silent: the removal of an expired group  *)
(* takes out entries that read as its name, and those of another group do  *)
(* not, live or freed.  What the lists hold besides is another matter.     *)
(* Until a group is first deleted, each pointer leads to a group of the    *)
(* list's isp (PureInv, ListsInv); that makes the answers right, and not   *)
(* only the refusals.                                                      *)
(*                                                                         *)
(* The last part is about Media, where mcproxy_d asks.  mcenter's part of  *)
(* it is MCenter, so that these invariants hold there; with them, what     *)
(* mcproxy sees is MCProxy, and what it hands on serves who asked.         *)
(***************************************************************************)
EXTENDS Media, BasicFacts

TypeInv ==
    /\ groups \in [Groups -> Objs \cup {NoObj}]
    /\ info \in [Objs -> GrpInfo]
    /\ lists \in [ListKeys -> Seq(Objs)]
    /\ isps \subseteq ValidIsps
    /\ links \in [Fds -> (0 .. LinkExpire) \cup {Closed}]

\* Each known group has an object of its own, which names it and its isp, and
\* is on both of its lists.
KnownInv ==
    /\ \A g, h \in Known : groups[g] = groups[h] => g = h
    /\ \A g \in Known : /\ IspOf[g] \in ValidIsps
                        /\ info[groups[g]].isp = IspOf[g] /\ info[groups[g]].name = g
    /\ ListedWhileKnown

\* The lists hold objects of known groups only, by isp.
PureInv == \A k \in ListKeys : \A o \in ToSet(lists[k]) : o \in Live /\ info[o].isp = k[1]

ListsInv == ~deleted => PureInv

-----------------------------------------------------------------------------
(* The search *)

\* getFreeGroup answers an object of its list.
LEMMA FreeIsListed ==
    ASSUME NEW list, NEW o \in GetFreeGroup(list)
    PROVE  o \in ToSet(list)
BY DEF GetFreeGroup, ToSet

\* The isp of a list is the first thing in its key.
LEMMA KeyIsp ==
    ASSUME NEW i, NEW a
    PROVE  <<i>>[1] = i /\ <<i, a>>[1] = i
OBVIOUS

\* findGroup answers a known group of the isp that it was asked for.
LEMMA FindGroupIsp ==
    ASSUME PureInv, NEW i, NEW a, NEW o \in FindGroup(i, a)
    PROVE  o \in Live /\ info[o].isp = i
<1>1. ASSUME NEW k \in ListKeys, o \in GetFreeGroup(lists[k])
      PROVE  o \in Live /\ info[o].isp = k[1]
  BY <1>1, FreeIsListed DEF PureInv
<1>2. CASE o \in FreeIn(<<i, a>>)
  BY <1>1, <1>2, KeyIsp DEF FreeIn
<1>3. CASE o \in FreeIn(<<i>>)
  BY <1>1, <1>3, KeyIsp DEF FreeIn
<1> QED BY <1>2, <1>3 DEF FindGroup, OrElse

\* fetchGroup answers a known group whose isp has every carrier of the two.
LEMMA FetchServesBoth ==
    ASSUME PureInv, NEW req, NEW o \in FetchGroup(req)
    PROVE  o \in Live /\ req.isp1 \cup req.isp2 \subseteq info[o].isp
<1> DEFINE all == req.isp1 \cup req.isp2
<1>1. ASSUME NEW i, o \in FindInAreas(i, req.area1, req.area2)
      PROVE  o \in Live /\ info[o].isp = i
  BY <1>1, FindGroupIsp DEF FindInAreas, OrElse
<1>2. CASE o \in FindInAreas(all, req.area1, req.area2)
  BY <1>1, <1>2
<1>3. CASE o \in FindFallbackIsp(all, req.area1, req.area2)
  <2>1. PICK i : all \subseteq i /\ o \in FindInAreas(i, req.area1, req.area2)
    BY <1>3 DEF FindFallbackIsp
  <2> QED BY <1>1, <2>1
<1> QED BY <1>2, <1>3 DEF FetchGroup, OrElse

\* Whatever is answered is an entry of a list.
LEMMA FetchIsListed ==
    ASSUME TypeInv, NEW req, NEW o \in FetchGroup(req)
    PROVE  o \in Objs
<1>1. ASSUME NEW k \in ListKeys, o \in GetFreeGroup(lists[k]) PROVE o \in Objs
  <2>1. lists[k] \in Seq(Objs)
    BY DEF TypeInv
  <2> QED BY <1>1, <2>1, FreeIsListed DEF ToSet
<1>2. ASSUME NEW k, o \in FreeIn(k) PROVE o \in Objs
  BY <1>1, <1>2 DEF FreeIn
<1>3. ASSUME NEW i, o \in FindInAreas(i, req.area1, req.area2) PROVE o \in Objs
  BY <1>2, <1>3 DEF FindInAreas, FindGroup, OrElse
<1> QED BY <1>3 DEF FetchGroup, FindFallbackIsp, OrElse

-----------------------------------------------------------------------------
(* The invariant *)

LEMMA InitInv == Init => TypeInv /\ KnownInv /\ PureInv
<1> SUFFICES ASSUME Init
             PROVE  TypeInv /\ KnownInv /\ PureInv
  OBVIOUS
<1>1. \A k \in ListKeys : lists[k] \in Seq(Objs) /\ ToSet(lists[k]) = {}
  BY EmptySeq DEF Init, ToSet
<1>2. Blank \in GrpInfo
  BY ExpireAssumption DEF Blank, GrpInfo, Load, LoadMax
<1>3. TypeInv
  BY <1>1, <1>2, EmptySeq DEF Init, TypeInv
<1>4. Known = {}
  BY DEF Init, Known
<1> QED BY <1>1, <1>3, <1>4 DEF KnownInv, PureInv, ListedWhileKnown

\* A report of a valid isp.
LEMMA AddInv ==
    ASSUME TypeInv, KnownInv, NEW g \in Groups, NEW r \in Reports,
           IspOf[g] \in ValidIsps, GrpMgrAdd(g, r)
    PROVE  /\ groups' \in [Groups -> Objs \cup {NoObj}]
           /\ info' \in [Objs -> GrpInfo]
           /\ lists' \in [ListKeys -> Seq(Objs)]
           /\ isps' \subseteq ValidIsps
           /\ KnownInv' /\ (PureInv => PureInv')
<1> DEFINE keys == KeysOf(IspOf[g], AreaOf[g])
<1>1. PICK o \in Objs :
        /\ \/ /\ groups[g] = o
              /\ info' = [info EXCEPT ![o] = Reported(o, r)]
              /\ UNCHANGED groups
           \/ /\ groups[g] = NoObj
              /\ o \notin Live
              /\ info' = [info EXCEPT ![o] =
                    [name |-> g, isp |-> IspOf[g], area |-> AreaOf[g],
                     load |-> r[1], max |-> r[2], age |-> 0]]
              /\ groups' = [groups EXCEPT ![g] = o]
        /\ lists' = [k \in ListKeys |-> IF k \in keys THEN Append(lists[k], o) ELSE lists[k]]
  BY DEF GrpMgrAdd
<1>2. r[1] \in Load /\ r[2] \in LoadMax /\ 0 \in 0 .. GroupExpire + 1
  BY ExpireAssumption DEF Load, LoadMax
<1>3. groups' \in [Groups -> Objs \cup {NoObj}] /\ groups'[g] = o
  BY <1>1 DEF TypeInv
<1>4. \A h \in Groups : h # g => groups'[h] = groups[h]
  BY <1>1 DEF TypeInv
<1>5. info'[o] \in GrpInfo /\ info'[o].isp = IspOf[g] /\ info'[o].name = g
  <2>1. CASE groups[g] = o
    <3>1. g \in Known
      BY <2>1, NamesAssumption DEF Known
    <3>2. info'[o] = Reported(o, r)
      BY <1>1, <2>1, NamesAssumption DEF TypeInv
    <3>3. info[o] \in GrpInfo /\ info[o].isp = IspOf[g] /\ info[o].name = g
      BY <2>1, <3>1 DEF TypeInv, KnownInv
    <3> QED BY <1>2, <3>2, <3>3 DEF GrpInfo, Reported
  <2>2. CASE groups[g] = NoObj
    <3>1. info'[o] = [name |-> g, isp |-> IspOf[g], area |-> AreaOf[g],
                      load |-> r[1], max |-> r[2], age |-> 0]
      BY <1>1, <2>2, NamesAssumption DEF TypeInv
    <3>2. IspOf[g] \in SUBSET Nat /\ AreaOf[g] \in Areas
      BY IspsAssumption
    <3> QED BY <1>2, <3>1, <3>2 DEF GrpInfo
  <2> QED BY <1>1, <2>1, <2>2
<1>6. \A p \in Objs : p # o => info'[p] = info[p]
  BY <1>1 DEF TypeInv
<1>7. info' \in [Objs -> GrpInfo]
  <2>1. DOMAIN info' = Objs /\ info' = [p \in Objs |-> info'[p]]
    BY <1>1 DEF TypeInv
  <2> QED BY <1>5, <1>6, <2>1 DEF TypeInv
<1>8. \A k \in ListKeys : /\ lists'[k] \in Seq(Objs)
                         /\ ToSet(lists'[k]) = IF k \in keys THEN ToSet(lists[k]) \cup {o}
                                               ELSE ToSet(lists[k])
  <2> SUFFICES ASSUME NEW k \in ListKeys
               PROVE  /\ lists'[k] \in Seq(Objs)
                      /\ ToSet(lists'[k]) = IF k \in keys THEN ToSet(lists[k]) \cup {o}
                                            ELSE ToSet(lists[k])
    OBVIOUS
  <2>1. lists[k] \in Seq(Objs)
    BY DEF TypeInv
  <2>2. lists'[k] = IF k \in keys THEN Append(lists[k], o) ELSE lists[k]
    BY <1>1
  <2>3. /\ Append(lists[k], o) \in Seq(Objs)
        /\ ToSet(Append(lists[k], o)) = ToSet(lists[k]) \cup {o}
    BY <2>1, AppendProperties, AppendHolds
  <2> HIDE DEF keys
  <2> QED BY <2>1, <2>2, <2>3
<1>9. lists' \in [ListKeys -> Seq(Objs)]
  <2>1. lists' = [k \in ListKeys |-> lists'[k]]
    BY <1>1
  <2> QED BY <1>8, <2>1
<1>10. Known' = Known \cup {g} /\ \A h \in Known : h # g => groups[h] # o
  <2>1. Known' = Known \cup {g}
    BY <1>3, <1>4, NamesAssumption DEF Known
  <2>2. ASSUME NEW h \in Known, h # g
        PROVE  groups[h] # o
    <3>1. CASE groups[g] = o
      <4>1. g \in Known
        BY <3>1, NamesAssumption DEF Known
      <4> QED BY <2>2, <3>1, <4>1 DEF KnownInv
    <3>2. CASE o \notin Live
      BY <3>2 DEF Live
    <3> QED BY <1>1, <3>1, <3>2
  <2> QED BY <2>1, <2>2
<1>11. \A h \in Known : h # g => groups'[h] = groups[h] /\ info'[groups[h]] = info[groups[h]]
  <2>1. \A h \in Known : groups[h] \in Objs
    BY DEF Known, TypeInv
  <2> QED BY <1>4, <1>6, <1>10, <2>1 DEF Known
<1>12. \A p \in Live : p \in Live' /\ (p # o => info'[p] = info[p])
  <2>1. ASSUME NEW p \in Live
        PROVE  p \in Live'
    <3>1. PICK h \in Known : p = groups[h]
      BY DEF Live
    <3>2. groups'[h] = p
      <4>1. CASE h = g
        BY <1>1, <1>3, <3>1, <4>1 DEF Known
      <4> QED BY <1>11, <3>1, <4>1
    <3> QED BY <1>10, <3>2 DEF Live
  <2>2. Live \subseteq Objs
    BY DEF Live, Known, TypeInv
  <2> QED BY <1>6, <2>1, <2>2
<1>13. o \in Live'
  BY <1>3, <1>10 DEF Live
<1>14. \A k \in keys : k[1] = IspOf[g]
  BY KeyIsp DEF KeysOf
<1>15. \A p, q \in Known' : groups'[p] = groups'[q] => p = q
  BY <1>3, <1>10, <1>11 DEF KnownInv
<1>16. \A h \in Known' : /\ IspOf[h] \in ValidIsps
                          /\ info'[groups'[h]].isp = IspOf[h] /\ info'[groups'[h]].name = h
  BY <1>3, <1>5, <1>10, <1>11 DEF KnownInv
<1>17. ASSUME PureInv
       PROVE  \A k \in ListKeys : \A p \in ToSet(lists'[k]) : p \in Live' /\ info'[p].isp = k[1]
  <2> SUFFICES ASSUME NEW k \in ListKeys, NEW p \in ToSet(lists'[k])
               PROVE  p \in Live' /\ info'[p].isp = k[1]
    OBVIOUS
  <2>1. CASE p \in ToSet(lists[k])
    <3>1. p \in Live /\ info[p].isp = k[1]
      BY <1>17, <2>1 DEF PureInv
    <3>2. CASE p # o
      BY <1>12, <3>1, <3>2
    <3>3. CASE p = o
      <4>1. groups[g] = o
        BY <1>1, <3>1, <3>3
      <4>2. g \in Known
        BY <4>1, NamesAssumption DEF Known
      <4>3. info[o].isp = IspOf[g]
        BY <4>1, <4>2 DEF KnownInv
      <4> QED BY <1>5, <1>13, <3>1, <3>3, <4>3
    <3> QED BY <3>2, <3>3
  <2>2. CASE p \notin ToSet(lists[k])
    <3>1. k \in keys /\ p = o
      BY <1>8, <2>2
    <3> QED BY <1>5, <1>13, <1>14, <3>1
  <2> QED BY <2>1, <2>2
<1>18. ListedWhileKnown'
  <2> SUFFICES ASSUME NEW h \in Known', NEW k \in KeysOf(IspOf[h], AreaOf[h])
               PROVE  groups'[h] \in ToSet(lists'[k])
    BY DEF ListedWhileKnown
  <2>1. k \in ListKeys
    BY <1>16, IspsAssumption DEF KeysOf, ListKeys, Known
  <2>2. CASE h = g
    BY <1>3, <1>8, <2>1, <2>2
  <2>3. CASE h # g
    <3>1. h \in Known /\ groups'[h] = groups[h]
      BY <1>10, <1>11, <2>3
    <3>2. groups[h] \in ToSet(lists[k])
      BY <3>1 DEF KnownInv, ListedWhileKnown
    <3> QED BY <1>8, <2>1, <3>1, <3>2
  <2> QED BY <2>2, <2>3
<1>19. isps' \subseteq ValidIsps
  BY DEF GrpMgrAdd, TypeInv
<1> QED BY <1>3, <1>7, <1>9, <1>15, <1>16, <1>17, <1>18, <1>19 DEF KnownInv, PureInv

\* A second goes by, and nobody is overdue.
LEMMA AgeInv ==
    ASSUME TypeInv, KnownInv, Expired = {},
           info' = [o \in Objs |-> IF o \in Live THEN Older(o) ELSE info[o]],
           UNCHANGED <<groups, lists, isps>>
    PROVE  info' \in [Objs -> GrpInfo] /\ KnownInv' /\ (PureInv => PureInv')
<1>1. \A o \in Live : o \in Objs /\ info[o].age + 1 <= GroupExpire
  <2> SUFFICES ASSUME NEW g \in Known
               PROVE  groups[g] \in Objs /\ info[groups[g]].age + 1 <= GroupExpire
    BY DEF Live
  <2>1. groups[g] \in Objs
    BY DEF Known, TypeInv
  <2>2. info[groups[g]].age \in Nat
    BY <2>1, ExpireAssumption DEF TypeInv, GrpInfo
  <2>3. ~(info[groups[g]].age + 1 > GroupExpire)
    BY DEF Expired
  <2> QED BY <2>1, <2>2, <2>3, ExpireAssumption
<1>2. ASSUME NEW o \in Objs
      PROVE  info'[o] \in GrpInfo /\ info'[o].isp = info[o].isp /\ info'[o].name = info[o].name
  <2>1. CASE o \in Live
    <3>1. info'[o] = [info[o] EXCEPT !.age = info[o].age + 1]
      BY <2>1 DEF Older
    <3>2. info[o] \in GrpInfo
      BY DEF TypeInv
    <3>3. info[o].age + 1 \in 0 .. GroupExpire + 1
      BY <1>1, <2>1, <3>2, ExpireAssumption DEF GrpInfo
    <3> QED BY <3>1, <3>2, <3>3 DEF GrpInfo
  <2>2. CASE o \notin Live
    BY <2>2 DEF TypeInv
  <2> QED BY <2>1, <2>2
<1>3. info' \in [Objs -> GrpInfo]
  <2>1. info' = [o \in Objs |-> info'[o]]
    OBVIOUS
  <2> QED BY <1>2, <2>1
<1>4. Known' = Known /\ Live' = Live
  BY DEF Known, Live
<1>5. \A o \in Live : info'[o].isp = info[o].isp /\ info'[o].name = info[o].name
  BY <1>1, <1>2
<1>6. \A g \in Known : groups[g] \in Live
  BY DEF Live
<1>7. ListedWhileKnown'
  BY <1>4 DEF KnownInv, ListedWhileKnown
<1>8. PureInv => \A k \in ListKeys : \A o \in ToSet(lists'[k]) : o \in Live' /\ info'[o].isp = k[1]
  BY <1>4, <1>5 DEF PureInv
<1>9. \A g \in Known' : /\ IspOf[g] \in ValidIsps
                         /\ info'[groups'[g]].isp = IspOf[g] /\ info'[groups'[g]].name = g
  BY <1>4, <1>5, <1>6 DEF KnownInv
<1>10. \A g, h \in Known' : groups'[g] = groups'[h] => g = h
  BY <1>4 DEF KnownInv
<1> QED BY <1>3, <1>7, <1>8, <1>9, <1>10 DEF KnownInv, PureInv

\* What the removal of the expired groups leaves on a list: at least every entry
\* that reads as another name.
LEMMA RemovedLeaves ==
    ASSUME TypeInv, NEW k \in ListKeys
    PROVE  /\ Removed(k) \in Seq(Objs)
           /\ \A o \in ToSet(lists[k]) : info[o].name \notin Expired => o \in ToSet(Removed(k))
<1> DEFINE list == lists[k]
           out == {g \in Expired : k \in KeysOf(info[groups[g]].isp, info[groups[g]].area)}
           gone == UNION {RemoveGroup(list, g) : g \in out}
<1>1. list \in Seq(Objs)
  BY DEF TypeInv
<1>2. Removed(k) = Remaining(list, gone)
  BY DEF Removed
<1>3. \A i \in gone : info[list[i]].name \in Expired
  BY DEF RemoveGroup, Named
<1> HIDE DEF list, gone
<1>4. Remaining(list, gone) \in Seq(Objs) /\ ToSet(Remaining(list, gone)) = {list[i] : i \in DOMAIN list \ gone}
  BY <1>1, RemainingHolds
<1>5. \A o \in ToSet(list) : info[o].name \notin Expired => o \in ToSet(Remaining(list, gone))
  BY <1>3, <1>4 DEF ToSet
<1> QED BY <1>2, <1>4, <1>5 DEF list

\* Groups that have fallen silent are forgotten: the others keep their entries.
LEMMA ExpireInv ==
    ASSUME TypeInv, KnownInv, RemoveExpire
    PROVE  /\ groups' \in [Groups -> Objs \cup {NoObj}]
           /\ info' \in [Objs -> GrpInfo]
           /\ lists' \in [ListKeys -> Seq(Objs)]
           /\ KnownInv'
<1>1. PICK name \in FreedName :
        info' = [o \in Objs |-> IF \E g \in Expired : groups[g] = o THEN Freed(o, name)
                                ELSE IF o \in Live THEN Older(o)
                                ELSE info[o]]
  BY DEF RemoveExpire
<1>2. groups' = [g \in Groups |-> IF g \in Expired THEN NoObj ELSE groups[g]]
  BY DEF RemoveExpire
<1>3. groups' \in [Groups -> Objs \cup {NoObj}]
  BY <1>2 DEF TypeInv
<1>4. Known' = Known \ Expired /\ \A g \in Known' : groups'[g] = groups[g] /\ groups[g] \in Objs
  BY <1>2 DEF Known, Expired, TypeInv
<1>5. \A o \in Objs : info[o] \in GrpInfo /\ info[o].age \in 0 .. GroupExpire + 1
  BY DEF TypeInv, GrpInfo
<1>6. ASSUME NEW o \in Objs PROVE Freed(o, name) \in GrpInfo
  <2>1. 0 \in 0 .. GroupExpire + 1
    BY ExpireAssumption
  <2> QED BY <1>5, <2>1 DEF Freed, GrpInfo
<1>7. ASSUME NEW g \in Known \ Expired
      PROVE  /\ Older(groups[g]) \in GrpInfo
             /\ Older(groups[g]).isp = info[groups[g]].isp /\ Older(groups[g]).name = info[groups[g]].name
  <2>1. groups[g] \in Objs
    BY DEF Known, TypeInv
  <2>2. info[groups[g]] \in GrpInfo /\ info[groups[g]].age \in 0 .. GroupExpire + 1
    BY <1>5, <2>1
  <2>3. ~(info[groups[g]].age + 1 > GroupExpire)
    BY DEF Expired
  <2>4. info[groups[g]].age + 1 \in 0 .. GroupExpire + 1
    BY <2>2, <2>3, ExpireAssumption
  <2>5. Older(groups[g]) = [info[groups[g]] EXCEPT !.age = info[groups[g]].age + 1]
    BY DEF Older
  <2> QED BY <2>2, <2>4, <2>5 DEF GrpInfo
<1>8. ASSUME NEW g \in Known \ Expired PROVE info'[groups[g]] = Older(groups[g])
  <2>1. groups[g] \in Objs /\ groups[g] \in Live
    BY DEF Known, Live, TypeInv
  <2>2. \A h \in Expired : groups[h] # groups[g]
    BY DEF KnownInv, Expired
  <2> QED BY <1>1, <2>1, <2>2
<1>9. info' \in [Objs -> GrpInfo]
  <2>1. ASSUME NEW o \in Objs PROVE info'[o] \in GrpInfo
    <3>1. CASE \E g \in Expired : groups[g] = o
      BY <1>1, <1>6, <3>1
    <3>2. CASE \E g \in Known \ Expired : groups[g] = o
      BY <1>7, <1>8, <3>2
    <3>3. CASE o \notin Live
      <4>1. ~ \E g \in Expired : groups[g] = o
        BY <3>3 DEF Live, Expired
      <4> QED BY <1>1, <1>5, <3>3, <4>1
    <3> QED BY <3>1, <3>2, <3>3 DEF Live
  <2>2. info' = [o \in Objs |-> info'[o]]
    BY <1>1
  <2> QED BY <2>1, <2>2
<1>10. lists' = [k \in ListKeys |-> Removed(k)]
  BY DEF RemoveExpire
<1>11. lists' \in [ListKeys -> Seq(Objs)]
  BY <1>10, RemovedLeaves
<1>12. \A g \in Known' : /\ IspOf[g] \in ValidIsps
                         /\ info'[groups'[g]].isp = IspOf[g] /\ info'[groups'[g]].name = g
  BY <1>4, <1>7, <1>8 DEF KnownInv
<1>13. \A g, h \in Known' : groups'[g] = groups'[h] => g = h
  BY <1>4 DEF KnownInv
<1>14. ListedWhileKnown'
  <2> SUFFICES ASSUME NEW g \in Known', NEW k \in KeysOf(IspOf[g], AreaOf[g])
               PROVE  groups'[g] \in ToSet(lists'[k])
    BY DEF ListedWhileKnown
  <2>1. k \in ListKeys
    BY <1>12, IspsAssumption DEF KeysOf, ListKeys, Known
  <2>2. g \in Known \ Expired
    BY <1>4
  <2>3. groups[g] \in ToSet(lists[k]) /\ info[groups[g]].name = g
    BY <2>2 DEF KnownInv, ListedWhileKnown
  <2>4. groups[g] \in ToSet(Removed(k))
    BY <2>1, <2>2, <2>3, RemovedLeaves
  <2> QED BY <1>4, <1>10, <2>1, <2>4
<1> QED BY <1>3, <1>9, <1>11, <1>12, <1>13, <1>14 DEF KnownInv

\* What the lists say depends on these variables only.
LEMMA SameLists ==
    ASSUME TypeInv, KnownInv, UNCHANGED <<groups, info, lists, isps>>
    PROVE  /\ groups' \in [Groups -> Objs \cup {NoObj}]
           /\ info' \in [Objs -> GrpInfo]
           /\ lists' \in [ListKeys -> Seq(Objs)]
           /\ isps' \subseteq ValidIsps
           /\ KnownInv' /\ (PureInv => PureInv')
<1>1. groups' = groups /\ info' = info /\ lists' = lists /\ isps' = isps
  OBVIOUS
<1>2. Known' = Known /\ Live' = Live
  BY <1>1 DEF Known, Live
<1> QED BY <1>1, <1>2 DEF TypeInv, KnownInv, PureInv, ListedWhileKnown

LEMMA UpdateType ==
    ASSUME TypeInv, NEW fd \in Fds, Update(fd)
    PROVE  links' \in [Fds -> (0 .. LinkExpire) \cup {Closed}]
BY ExpireAssumption DEF Update, TypeInv

\* A group that has been deleted stays so.
LEMMA DeletedNext ==
    ASSUME [Next]_vars
    PROVE  /\ deleted' = deleted \/ deleted' = TRUE
           /\ deleted => deleted'
<1>1. ASSUME Next PROVE deleted' = deleted \/ deleted' = TRUE
  BY <1>1 DEF Next, OnMCReportReq, GrpMgrAdd, OnMCPreAllocReq, OnMCPing, OnConnect, OnLinkClosed, OnTimer
<1>2. CASE UNCHANGED vars
  BY <1>2 DEF vars
<1>3. deleted' = deleted \/ deleted' = TRUE
  BY <1>1, <1>2
<1>4. deleted => deleted'
  BY <1>3, Zenon
<1> QED BY <1>3, <1>4

LEMMA NextInv ==
    ASSUME TypeInv, KnownInv, [Next]_vars
    PROVE  TypeInv' /\ KnownInv' /\ (PureInv /\ ~deleted' => PureInv')
<1>1. ASSUME NEW fd \in Fds, NEW g \in Groups, NEW r \in Reports, OnMCReportReq(fd, g, r)
      PROVE  TypeInv' /\ KnownInv' /\ (PureInv => PureInv')
  <2>1. CASE IspOf[g] \in ValidIsps /\ GrpMgrAdd(g, r) /\ Update(fd)
    BY <2>1, AddInv, UpdateType DEF TypeInv
  <2>2. CASE UNCHANGED <<groups, info, lists, isps, links>>
    <3>1. UNCHANGED <<groups, info, lists, isps>> /\ UNCHANGED links
      BY <2>2
    <3> QED BY <3>1, SameLists DEF TypeInv
  <2> QED BY <1>1, <2>1, <2>2 DEF OnMCReportReq
<1>2. ASSUME NEW fd \in Fds, NEW req \in Requests, OnMCPreAllocReq(fd, req)
      PROVE  TypeInv' /\ KnownInv' /\ (PureInv => PureInv')
  <2>1. Update(fd) /\ UNCHANGED <<groups, info, lists, isps>>
    BY <1>2 DEF OnMCPreAllocReq
  <2> QED BY <2>1, UpdateType, SameLists DEF TypeInv
<1>3. ASSUME NEW fd \in Fds, OnMCPing(fd)
      PROVE  TypeInv' /\ KnownInv' /\ (PureInv => PureInv')
  BY <1>3, UpdateType, SameLists DEF TypeInv, OnMCPing
<1>4. ASSUME NEW fd \in Fds, OnConnect(fd) \/ OnLinkClosed(fd)
      PROVE  TypeInv' /\ KnownInv' /\ (PureInv => PureInv')
  <2>1. UNCHANGED <<groups, info, lists, isps>>
    BY <1>4 DEF OnConnect, OnLinkClosed
  <2>2. links' \in [Fds -> (0 .. LinkExpire) \cup {Closed}]
    BY <1>4, ExpireAssumption DEF OnConnect, OnLinkClosed, TypeInv
  <2> QED BY <2>1, <2>2, SameLists DEF TypeInv
<1>5. ASSUME OnTimer
      PROVE  TypeInv' /\ KnownInv' /\ (PureInv /\ ~deleted' => PureInv')
  <2>1. links' \in [Fds -> (0 .. LinkExpire) \cup {Closed}] /\ isps' = isps
    BY <1>5, ExpireAssumption, NamesAssumption DEF OnTimer, LinksAged, TypeInv
  <2>2. CASE /\ Expired = {}
             /\ info' = [o \in Objs |-> IF o \in Live THEN Older(o) ELSE info[o]]
             /\ UNCHANGED <<groups, lists, deleted>>
    <3>1. info' \in [Objs -> GrpInfo] /\ KnownInv' /\ (PureInv => PureInv')
      BY <2>1, <2>2, AgeInv
    <3> QED BY <2>1, <2>2, <3>1 DEF TypeInv
  <2>3. CASE RemoveExpire /\ deleted' = TRUE
    BY <2>1, <2>3, ExpireInv DEF TypeInv
  <2> QED BY <1>5, <2>2, <2>3 DEF OnTimer
<1>6. CASE UNCHANGED vars
  <2>1. UNCHANGED <<groups, info, lists, isps>> /\ UNCHANGED links
    BY <1>6 DEF vars
  <2> QED BY <2>1, SameLists DEF TypeInv
<1> QED BY <1>1, <1>2, <1>3, <1>4, <1>5, <1>6 DEF Next

LEMMA Inductive == Spec => [](TypeInv /\ KnownInv)
<1>1. TypeInv /\ KnownInv /\ [Next]_vars => (TypeInv /\ KnownInv)'
  BY NextInv
<1> QED BY <1>1, InitInv, PTL DEF Spec

LEMMA ListsArePure == Spec => []ListsInv
<1>1. Init => ListsInv
  BY InitInv DEF ListsInv
<1>2. TypeInv /\ KnownInv /\ ListsInv /\ [Next]_vars => ListsInv'
  BY NextInv, DeletedNext DEF ListsInv
<1> QED BY <1>1, <1>2, Inductive, PTL DEF Spec

-----------------------------------------------------------------------------
(* The answers *)

AnswerType ==
    /\ answer \in {NoAnswer} \cup [res : Refusal, req : Request]
                    \cup [res : {"ok"}, req : Request, obj : Objs]
    /\ deleted \in BOOLEAN

\* What is answered is a group that fetchGroup has found, in the state that
\* the answer is sent from and leaves as it was.
LEMMA AnswerNext ==
    ASSUME [Next]_vars
    PROVE  \/ answer' = answer /\ UNCHANGED vars
           \/ answer' = NoAnswer
           \/ answer' \in [res : Refusal, req : Request]
           \/ \E req \in Request : \E o \in FetchGroup(req) :
                 /\ answer' = [res |-> "ok", req |-> req, obj |-> o]
                 /\ UNCHANGED <<groups, info>>
<1>1. ASSUME NEW fd \in Fds, NEW req \in Requests, OnMCPreAllocReq(fd, req)
      PROVE  \/ answer' \in [res : Refusal, req : Request]
             \/ \E o \in FetchGroup(req) :
                   /\ answer' = [res |-> "ok", req |-> req, obj |-> o]
                   /\ UNCHANGED <<groups, info>>
  <2>0. req \in Request
    BY RequestsAssumption
  <2>1. CASE answer' = [res |-> "invalid_isp", req |-> req]
    BY <2>0, <2>1 DEF Refusal
  <2>2. CASE answer' = [res |-> "no_group", req |-> req]
    BY <2>0, <2>2 DEF Refusal
  <2>3. CASE \E o \in FetchGroup(req) : answer' = [res |-> "ok", req |-> req, obj |-> o]
    <3>1. UNCHANGED <<groups, info>>
      BY <1>1 DEF OnMCPreAllocReq
    <3> QED BY <2>3, <3>1
  <2> QED BY <1>1, <2>1, <2>2, <2>3 DEF OnMCPreAllocReq
<1>2. ASSUME NEW fd \in Fds,
             \/ \E g \in Groups, r \in Reports : OnMCReportReq(fd, g, r)
             \/ OnMCPing(fd)
             \/ OnConnect(fd)
             \/ OnLinkClosed(fd)
      PROVE  answer' = NoAnswer
  BY <1>2 DEF OnMCReportReq, OnMCPing, OnConnect, OnLinkClosed
<1>3. OnTimer => answer' = NoAnswer
  BY DEF OnTimer
<1>4. UNCHANGED vars => answer' = answer
  BY DEF vars
<1> QED BY <1>1, <1>2, <1>3, <1>4, RequestsAssumption DEF Next

\* Every variable keeps its type: no search, and no change of the lists, leads
\* to what is not a group's object, whatever groups fall silent.
THEOREM TypeCorrect == Spec => []TypeOK
<1>1. Init => AnswerType
  BY DEF Init, AnswerType
<1>2. AnswerType /\ TypeInv /\ [Next]_vars => AnswerType'
  <2> SUFFICES ASSUME AnswerType, TypeInv, [Next]_vars
               PROVE  AnswerType'
    OBVIOUS
  <2>1. \A req \in Request : \A o \in FetchGroup(req) :
            [res |-> "ok", req |-> req, obj |-> o] \in [res : {"ok"}, req : Request, obj : Objs]
    BY FetchIsListed
  <2>2. answer' = answer \/ answer' \in {NoAnswer} \cup [res : Refusal, req : Request]
                                            \cup [res : {"ok"}, req : Request, obj : Objs]
    BY <2>1, AnswerNext
  <2>3. deleted' \in BOOLEAN
    BY DeletedNext DEF AnswerType
  <2> QED BY <2>2, <2>3 DEF AnswerType
<1>3. AnswerType /\ TypeInv => TypeOK
  BY DEF AnswerType, TypeInv, TypeOK
<1> QED BY <1>1, <1>2, <1>3, Inductive, PTL DEF Spec

\* Until a group is deleted no pointer in the lists is stale: what is answered is a
\* known group, and has the carriers that were asked for.
AnswerInv ==
    ~deleted /\ answer.res = "ok" => answer.obj \in Live /\ IspAll \subseteq info[answer.obj].isp

LEMMA AnswersAreRight == Spec => []AnswerInv
<1>1. Init => AnswerInv
  BY DEF Init, AnswerInv, NoAnswer
<1>2. AnswerInv /\ ListsInv /\ [Next]_vars => AnswerInv'
  <2> SUFFICES ASSUME AnswerInv, ListsInv, [Next]_vars, ~deleted'
               PROVE  AnswerInv'
    BY DEF AnswerInv
  <2>0. ~deleted /\ PureInv
    BY DeletedNext DEF ListsInv
  <2>1. CASE UNCHANGED vars
    BY <2>0, <2>1 DEF AnswerInv, vars, Live, Known, IspAll
  <2>2. CASE answer' = NoAnswer
    BY <2>2 DEF AnswerInv, NoAnswer
  <2>3. CASE answer' \in [res : Refusal, req : Request]
    BY <2>3 DEF AnswerInv, Refusal
  <2>4. ASSUME NEW req \in Request, NEW o \in FetchGroup(req),
               answer' = [res |-> "ok", req |-> req, obj |-> o],
               UNCHANGED <<groups, info>>
        PROVE  AnswerInv'
    <3>1. Live' = Live /\ info' = info
      BY <2>4 DEF Live, Known
    <3>2. o \in Live /\ req.isp1 \cup req.isp2 \subseteq info[o].isp
      BY <2>0, FetchServesBoth
    <3> QED BY <2>4, <3>1, <3>2 DEF AnswerInv, IspAll
  <2> QED BY <2>1, <2>2, <2>3, <2>4, AnswerNext
<1> QED BY <1>1, <1>2, ListsArePure, PTL DEF Spec

\* Whatever search found it, the group that is answered has every carrier of
\* the two users, until a group is first deleted (MsgHandler::onMCPreAllocReq).
THEOREM AnswersServeBoth == Spec => []AnswerServesBoth
<1>1. AnswerInv => AnswerServesBoth
  BY DEF AnswerInv, AnswerServesBoth
<1> QED BY <1>1, AnswersAreRight, PTL

\* A known group is on both of its lists, whatever entries the removals of other
\* groups, and of itself before, have taken off them (GrpIspMap::add at every
\* report, GrpList::remvoeGroup by name).
THEOREM KnownAreListed == Spec => []ListedWhileKnown
<1>1. KnownInv => ListedWhileKnown
  BY DEF KnownInv
<1> QED BY <1>1, Inductive, PTL

-----------------------------------------------------------------------------
(* What no search misses *)

\* GrpMgr::m_setIsps has the isp of every group that is known.
IspsInv == IsFiniteSet(isps) /\ \A g \in Known : IspOf[g] \in isps

LEMMA IspsNext ==
    ASSUME TypeInv, IspsInv, [Next]_vars
    PROVE  IspsInv'
<1>1. CASE UNCHANGED <<groups, isps>>
  BY <1>1 DEF IspsInv, Known
<1>2. ASSUME NEW g \in Groups, NEW r \in Reports, GrpMgrAdd(g, r) PROVE IspsInv'
  <2>1. isps' = isps \cup {IspOf[g]}
    BY <1>2 DEF GrpMgrAdd
  <2>2. IsFiniteSet(isps')
    BY <2>1, FS_AddElement DEF IspsInv
  <2>3. \A h \in Groups : h # g => groups'[h] = groups[h]
    BY <1>2 DEF GrpMgrAdd, TypeInv
  <2> QED BY <2>1, <2>2, <2>3 DEF IspsInv, Known
<1>3. CASE OnTimer
  <2>1. isps' = isps /\ \A g \in Groups : groups'[g] = groups[g] \/ groups'[g] = NoObj
    BY <1>3 DEF OnTimer, RemoveExpire
  <2> QED BY <2>1 DEF IspsInv, Known
<1> QED BY <1>1, <1>2, <1>3
    DEF Next, OnMCReportReq, OnMCPreAllocReq, OnMCPing, OnConnect, OnLinkClosed, vars

LEMMA ScoreType == ASSUME TypeInv PROVE \A o \in Objs : Score(o) \in Nat
<1> SUFFICES ASSUME NEW o \in Objs PROVE Score(o) \in Nat
  OBVIOUS
<1>1. info[o].load \in Nat /\ info[o].max \in Nat
  BY ReportsAssumption DEF TypeInv, GrpInfo, Load, LoadMax
<1>2. \A a, b \in Nat : b # 0 => a \div b \in Nat
  OBVIOUS
<1> QED BY <1>1, <1>2 DEF Score

\* getFreeGroup finds a group in a list that has one with room.
LEMMA FindsRoom ==
    ASSUME TypeInv, NEW list \in Seq(Objs), NEW o \in ToSet(list), HasRoom(o)
    PROVE  GetFreeGroup(list) # {}
<1> DEFINE D == DOMAIN list
           Goods == {j \in D : Good(list[j])}
<1>1. D \subseteq Nat /\ IsFiniteSet(D) /\ D # {}
  <2>1. D = 1 .. Len(list) /\ Len(list) \in Nat
    OBVIOUS
  <2>2. IsFiniteSet(1 .. Len(list))
    BY <2>1, FS_Interval
  <2> QED BY <2>1, <2>2 DEF ToSet
<1>2. \A j \in D : Score(list[j]) \in Nat
  BY ScoreType
<1>3. CASE Goods # {}
  <2>1. PICK j \in Goods : \A h \in Goods : j <= h
    BY <1>1, <1>3, Least
  <2>2. \A h \in 1 .. j - 1 : ~Good(list[h])
    <3> SUFFICES ASSUME NEW h \in 1 .. j - 1, Good(list[h]) PROVE FALSE
      OBVIOUS
    <3>1. h \in Goods /\ h < j
      OBVIOUS
    <3> QED BY <1>1, <2>1, <3>1
  <2> QED BY <2>1, <2>2 DEF GetFreeGroup
<1>4. CASE Goods = {}
  <2> DEFINE R == {xy \in D \X D : \/ Score(list[xy[1]]) > Score(list[xy[2]])
                                   \/ Score(list[xy[1]]) = Score(list[xy[2]]) /\ xy[1] < xy[2]}
             s == [x \in D |-> Score(list[x])]
  <2>1. \A x, y \in D : <<x, y>> \in R <=> s[x] > s[y] \/ (s[x] = s[y] /\ x < y)
    OBVIOUS
  <2>2. \A x \in D : s[x] = Score(list[x]) /\ s[x] \in Nat /\ x \in Nat
    BY <1>1, <1>2
  <2> HIDE DEF R, s
  <2>3. \A x \in D : <<x, x>> \notin R
    BY <2>1, <2>2
  <2>4. \A x, y, z \in D : <<x, y>> \in R /\ <<y, z>> \in R => <<x, z>> \in R
    BY <2>1, <2>2
  <2>5. PICK m \in D : \A x \in D : <<x, m>> \notin R
    <3> HIDE DEF D
    <3> QED BY <1>1, <2>3, <2>4, Minimal
  <2>6. \A h \in D : IF h < m THEN s[h] < s[m] ELSE s[h] <= s[m]
    <3> SUFFICES ASSUME NEW h \in D PROVE IF h < m THEN s[h] < s[m] ELSE s[h] <= s[m]
      OBVIOUS
    <3>1. ~ (s[h] > s[m]) /\ ~ (s[h] = s[m] /\ h < m)
      BY <2>1, <2>5
    <3>2. s[h] \in Nat /\ s[m] \in Nat
      BY <2>2
    <3> QED BY <3>1, <3>2
  <2>7. s[m] > 0
    <3>1. PICK i \in D : o = list[i]
      BY DEF ToSet
    <3>2. s[i] > 0
      BY <1>4, <2>2, <3>1 DEF HasRoom
    <3>3. s[i] <= s[m]
      BY <2>2, <2>6
    <3> QED BY <2>2, <3>2, <3>3
  <2>8. \A h \in D : IF h < m THEN Score(list[h]) < Score(list[m]) ELSE Score(list[h]) <= Score(list[m])
    BY <2>2, <2>6
  <2> QED BY <1>4, <2>2, <2>7, <2>8 DEF GetFreeGroup
<1> QED BY <1>3, <1>4

\* findGroup finds one if a known group of the isp has room, whatever its area.
LEMMA FindGroupFinds ==
    ASSUME TypeInv, KnownInv, NEW g \in Known, HasRoom(groups[g]), NEW a1, NEW a2
    PROVE  FindInAreas(IspOf[g], a1, a2) # {}
<1> DEFINE i == IspOf[g]
<1>1. <<i>> \in ListKeys /\ groups[g] \in ToSet(lists[<<i>>])
  <2>1. i \in ValidIsps /\ <<i>> \in KeysOf(i, AreaOf[g])
    BY DEF KnownInv, KeysOf
  <2> HIDE DEF i
  <2>2. <<i>> \in ListKeys
    BY <2>1 DEF ListKeys
  <2> QED BY <2>1, <2>2 DEF KnownInv, ListedWhileKnown, i
<1>2. lists[<<i>>] \in Seq(Objs)
  BY <1>1 DEF TypeInv
<1>3. FreeIn(<<i>>) # {}
  BY <1>1, <1>2, FindsRoom DEF FreeIn
<1> QED BY <1>3 DEF FindInAreas, FindGroup, OrElse

\* m_setIsps is ordered.
LEMMA BeforeOrders ==
    /\ \A i : ~Before(i, i)
    /\ \A i, j, k \in SUBSET Nat : Before(i, j) /\ Before(j, k) => Before(i, k)
    /\ \A i, j \in SUBSET Nat :
            IsFiniteSet(i) /\ IsFiniteSet(j) /\ i # j => Before(i, j) \/ Before(j, i)
<1>1. \A i : ~Before(i, i)
  BY DEF Before
<1>2. ASSUME NEW i \in SUBSET Nat, NEW j \in SUBSET Nat, NEW k \in SUBSET Nat, Before(i, j), Before(j, k)
      PROVE  Before(i, k)
  <2>1. PICK b \in j \ i : \A c \in (i \ j) \cup (j \ i) : c <= b
    BY <1>2 DEF Before
  <2>2. PICK d \in k \ j : \A c \in (j \ k) \cup (k \ j) : c <= d
    BY <1>2 DEF Before
  <2>3. b \in Nat /\ d \in Nat /\ b # d
    OBVIOUS
  <2>4. ASSUME NEW m \in {b, d}, b <= m, d <= m PROVE m \in k \ i
    <3>1. CASE m = b
      <4>1. ~ (b <= d)
        BY <2>3, <2>4, <3>1
      <4> QED BY <2>1, <2>2, <3>1, <4>1
    <3>2. CASE m = d
      <4>1. ~ (d <= b)
        BY <2>3, <2>4, <3>2
      <4> QED BY <2>1, <2>2, <3>2, <4>1
    <3> QED BY <3>1, <3>2
  <2>5. ASSUME NEW m \in {b, d}, b <= m, d <= m PROVE \A c \in (i \ k) \cup (k \ i) : c <= m
    <3> SUFFICES ASSUME NEW c \in (i \ k) \cup (k \ i) PROVE c <= m
      OBVIOUS
    <3>1. c \in (i \ j) \cup (j \ i) \/ c \in (j \ k) \cup (k \ j)
      OBVIOUS
    <3>2. c <= b \/ c <= d
      BY <2>1, <2>2, <3>1
    <3>3. c \in Nat /\ m \in Nat
      BY <2>3
    <3> QED BY <2>3, <2>5, <3>2, <3>3
  <2>6. PICK m \in {b, d} : b <= m /\ d <= m
    BY <2>3
  <2> QED BY <2>4, <2>5, <2>6 DEF Before
<1>3. ASSUME NEW i \in SUBSET Nat, NEW j \in SUBSET Nat, IsFiniteSet(i), IsFiniteSet(j), i # j
      PROVE  Before(i, j) \/ Before(j, i)
  <2> DEFINE S == (i \ j) \cup (j \ i)
  <2>1. S \subseteq Nat /\ S # {}
    BY <1>3
  <2>2. IsFiniteSet(S)
    <3>1. IsFiniteSet(i \cup j) /\ S \in SUBSET (i \cup j)
      BY <1>3, FS_Union
    <3> QED BY <3>1, FS_Subset
  <2>3. PICK b \in S : \A c \in S : c <= b
    BY <2>1, <2>2, Greatest
  <2> QED BY <2>3 DEF Before
<1> QED BY <1>1, <1>2, <1>3

\* The loop of the fallback ends at an isp, if one has a free group.
LEMMA FallbackFinds ==
    ASSUME TypeInv, KnownInv, IspsInv, NEW g \in Known, HasRoom(groups[g]),
           NEW all \in SUBSET IspOf[g], NEW a1, NEW a2
    PROVE  FindFallbackIsp(all, a1, a2) # {}
<1> DEFINE hits == {i \in isps : all \subseteq i /\ FindInAreas(i, a1, a2) # {}}
           R == {xy \in hits \X hits : Before(xy[1], xy[2])}
<1>1. hits # {}
  BY FindGroupFinds DEF IspsInv
<1>2. IsFiniteSet(hits)
  <2>1. hits \in SUBSET isps
    OBVIOUS
  <2> HIDE DEF hits
  <2> QED BY <2>1, FS_Subset DEF IspsInv
<1>3. \A i \in hits : i \in SUBSET Nat /\ IsFiniteSet(i)
  BY IspsAssumption DEF TypeInv
<1>4. \A i \in hits : FindInAreas(i, a1, a2) # {}
  OBVIOUS
<1>5. FindFallbackIsp(all, a1, a2)
        = UNION {FindInAreas(i, a1, a2) : i \in {j \in hits : \A h \in hits \ {j} : Before(j, h)}}
  BY DEF FindFallbackIsp
<1> HIDE DEF hits
<1>6. \A x, y \in hits : <<x, y>> \in R <=> Before(x, y)
  OBVIOUS
<1> HIDE DEF R
<1>7. \A x \in hits : <<x, x>> \notin R
  BY <1>6, BeforeOrders
<1>8. \A x, y, z \in hits : <<x, y>> \in R /\ <<y, z>> \in R => <<x, z>> \in R
  BY <1>3, <1>6, BeforeOrders
<1>9. PICK m \in hits : \A x \in hits : <<x, m>> \notin R
  BY <1>1, <1>2, <1>7, <1>8, Minimal
<1>10. \A h \in hits \ {m} : Before(m, h)
  BY <1>3, <1>6, <1>9, BeforeOrders
<1> QED BY <1>4, <1>5, <1>9, <1>10

\* What fetchGroup leaves out.
LEMMA FetchMisses ==
    ASSUME TypeInv, KnownInv, IspsInv, NEW req, NEW g \in Known, HasRoom(groups[g])
    PROVE  /\ req.isp1 \cup req.isp2 \subseteq info[groups[g]].isp => FetchGroup(req) # {}
           /\ PureInv /\ info[groups[g]].isp = req.isp1 \cup req.isp2
                => \A o \in FetchGroup(req) : info[o].isp = req.isp1 \cup req.isp2
<1> DEFINE all == req.isp1 \cup req.isp2
<1>1. info[groups[g]].isp = IspOf[g]
  BY DEF KnownInv
<1>2. ASSUME all \subseteq IspOf[g] PROVE FetchGroup(req) # {}
  BY <1>2, FallbackFinds DEF FetchGroup, OrElse
<1>3. ASSUME PureInv, IspOf[g] = all, NEW o \in FetchGroup(req) PROVE info[o].isp = all
  <2>1. FindInAreas(all, req.area1, req.area2) # {}
    BY <1>3, FindGroupFinds
  <2>2. o \in FindInAreas(all, req.area1, req.area2)
    BY <1>3, <2>1 DEF FetchGroup, OrElse
  <2> QED BY <1>3, <2>2, FindGroupIsp DEF FindInAreas, OrElse
<1> QED BY <1>1, <1>2, <1>3

\* The last answer is about the groups that are known now.
LEMMA AnswerStands ==
    ASSUME [Next]_vars
    PROVE  \/ answer' = NoAnswer
           \/ /\ Known' = Known /\ groups' = groups /\ info' = info
              /\ \A o : HasRoom(o)' = HasRoom(o)
<1>1. answer' = NoAnswer \/ (groups' = groups /\ info' = info)
  BY DEF Next, OnMCReportReq, OnMCPreAllocReq, OnMCPing, OnConnect, OnLinkClosed, OnTimer, vars
<1> QED BY <1>1 DEF Known, HasRoom, Good, Score

\* It is a new one, or that of the step before.
LEMMA AnswerMade ==
    ASSUME [Next]_vars, answer' # NoAnswer
    PROVE  \/ answer' = answer
           \/ \E req \in Request :
                \/ answer' = [res |-> "invalid_isp", req |-> req]
                \/ FetchGroup(req) = {} /\ answer' = [res |-> "no_group", req |-> req]
                \/ \E o \in FetchGroup(req) : answer' = [res |-> "ok", req |-> req, obj |-> o]
BY RequestsAssumption
   DEF Next, OnMCReportReq, OnMCPreAllocReq, OnMCPing, OnConnect, OnLinkClosed, OnTimer, vars

LEMMA RefusalNext ==
    ASSUME NoGroupOnlyIfNone, TypeInv, KnownInv, IspsInv, [Next]_vars
    PROVE  NoGroupOnlyIfNone'
<1> SUFFICES ASSUME answer'.res = "no_group", NEW g \in Known', IspAll' \subseteq info'[groups'[g]].isp
             PROVE  ~HasRoom(groups[g])'
  BY DEF NoGroupOnlyIfNone
<1>1. answer' # NoAnswer
  BY DEF NoAnswer
<1>2. g \in Known /\ groups' = groups /\ info' = info /\ \A o : HasRoom(o)' = HasRoom(o)
  BY <1>1, AnswerStands
<1>3. CASE answer' = answer
  BY <1>2, <1>3 DEF NoGroupOnlyIfNone, IspAll
<1>4. ASSUME NEW req \in Request, FetchGroup(req) = {}, answer' = [res |-> "no_group", req |-> req]
      PROVE  ~HasRoom(groups[g])
  BY <1>2, <1>4, FetchMisses DEF IspAll
<1>5. answer' = answer \/ \E req \in Request : FetchGroup(req) = {} /\ answer' = [res |-> "no_group", req |-> req]
  BY <1>1, AnswerMade
<1> QED BY <1>2, <1>3, <1>4, <1>5

LEMMA ExactNext ==
    ASSUME ExactIspFirst, TypeInv, KnownInv, ListsInv, IspsInv, [Next]_vars
    PROVE  ExactIspFirst'
<1> SUFFICES ASSUME ~deleted', answer'.res = "ok", info'[answer'.obj].isp # IspAll',
                    NEW g \in Known', info'[groups'[g]].isp = IspAll'
             PROVE  ~HasRoom(groups[g])'
  BY DEF ExactIspFirst
<1>0. ~deleted /\ PureInv
  BY DeletedNext DEF ListsInv
<1>1. answer' # NoAnswer
  BY DEF NoAnswer
<1>2. g \in Known /\ groups' = groups /\ info' = info /\ \A o : HasRoom(o)' = HasRoom(o)
  BY <1>1, AnswerStands
<1>3. CASE answer' = answer
  BY <1>0, <1>2, <1>3 DEF ExactIspFirst, IspAll
<1>4. ASSUME NEW req \in Request, NEW o \in FetchGroup(req), answer' = [res |-> "ok", req |-> req, obj |-> o]
      PROVE  ~HasRoom(groups[g])
  BY <1>0, <1>2, <1>4, FetchMisses DEF IspAll
<1>5. answer' = answer
        \/ \E req \in Request : \E o \in FetchGroup(req) : answer' = [res |-> "ok", req |-> req, obj |-> o]
  BY <1>1, AnswerMade
<1> QED BY <1>2, <1>3, <1>4, <1>5

LEMMA IspsKnown == Spec => []IspsInv
<1>1. Init => IspsInv
  BY FS_EmptySet DEF Init, IspsInv, Known
<1>2. TypeInv /\ IspsInv /\ [Next]_vars => IspsInv'
  BY IspsNext
<1> QED BY <1>1, <1>2, Inductive, PTL DEF Spec

\* A request is refused only when no known group serves both users and has room:
\* of the lists that are searched one by one, by isp and area and then isp by isp,
\* none that matters is left out, whatever groups fall silent
\* (GrpMgr::fetchGroup, findDiffIsp).
THEOREM RefusedOnlyIfNone == Spec => []NoGroupOnlyIfNone
<1>1. Init => NoGroupOnlyIfNone
  BY DEF Init, NoGroupOnlyIfNone, NoAnswer
<1>2. NoGroupOnlyIfNone /\ TypeInv /\ KnownInv /\ IspsInv /\ [Next]_vars => NoGroupOnlyIfNone'
  BY RefusalNext
<1> QED BY <1>1, <1>2, Inductive, IspsKnown, PTL DEF Spec

\* A group of another isp than the one that was asked for is answered only when no
\* known group of that isp has room, in whatever area, until a group is first
\* deleted (GrpMgr::fetchGroup).
THEOREM ExactIspsFirst == Spec => []ExactIspFirst
<1>1. Init => ExactIspFirst
  BY DEF Init, ExactIspFirst, NoAnswer
<1>2. ExactIspFirst /\ TypeInv /\ KnownInv /\ ListsInv /\ IspsInv /\ [Next]_vars => ExactIspFirst'
  BY ExactNext
<1> QED BY <1>1, <1>2, Inductive, ListsArePure, IspsKnown, PTL DEF Spec

-----------------------------------------------------------------------------
(* mcproxy_d and mcenter_d together (Media) *)

\* What mcproxy asks, it asks about a key.
AsksInv == toMC \in Seq(Keys)

LEMMA NextAsked ==
    ASSUME AsksInv, toMC # <<>>
    PROVE  /\ Head(toMC) \in Keys /\ Tail(toMC) \in Seq(Keys)
           /\ RequestOf[Head(toMC)] \in Requests
BY HeadTailProperties, RequestOfAssumption DEF AsksInv

LEMMA AsksInit == MediaInit => AsksInv
BY EmptySeq DEF MediaInit, P!Init, AsksInv

LEMMA AsksNext == AsksInv /\ [MediaNext]_mediaVars => AsksInv'
<1> SUFFICES ASSUME AsksInv, [MediaNext]_mediaVars
             PROVE  AsksInv'
  OBVIOUS
<1>1. CASE UNCHANGED toMC
  BY <1>1 DEF AsksInv
<1>2. CASE ProxySteps
  <2>1. ASSUME NEW c \in Clients, NEW k \in Keys, P!OnMCAllocReq(c, k)
        PROVE  AsksInv'
    <3>1. toMC' = toMC \/ toMC' = Append(toMC, k)
      BY <2>1 DEF P!OnMCAllocReq, P!SendMC
    <3> QED BY <3>1, AppendProperties DEF AsksInv
  <2>2. ASSUME \/ P!OnMCPreAllocRes \/ P!OnTimer
               \/ \E fd \in ProxyFds : P!OnClientError(fd)
               \/ \E c \in Clients : P!OnConnect(c) \/ P!OnClientEof(c)
        PROVE  UNCHANGED toMC
    BY <2>2 DEF P!OnMCPreAllocRes, P!OnTimer, P!OnClientError, P!OnConnect, P!OnClientEof
  <2> QED BY <1>1, <1>2, <2>1, <2>2 DEF ProxySteps
<1>3. CASE ProxyLost
  BY <1>3, EmptySeq DEF ProxyLost, P!OnMCLost, AsksInv
<1>4. CASE Answer
  BY <1>4, NextAsked DEF Answer, AsksInv
<1>5. ASSUME \/ ProxyReconnect \/ Pinged \/ Failed \/ CenterTimer \/ UNCHANGED mediaVars
             \/ \E fd \in Fds : Accept(fd) \/ OldClosed(fd) \/ Others(fd)
      PROVE  UNCHANGED toMC
  BY <1>5 DEF ProxyReconnect, P!OnMCReconnect, Pinged, Failed, CenterTimer, Accept, OldClosed,
        Others, proxyVars, mediaVars
<1> QED BY <1>1, <1>2, <1>3, <1>4, <1>5 DEF MediaNext

\* What mcenter does here, MCenter has: its own steps, and the requests of one
\* more client.
LEMMA CenterNext == AsksInv /\ [MediaNext]_mediaVars => [Next]_vars
<1> SUFFICES ASSUME AsksInv, [MediaNext]_mediaVars
             PROVE  [Next]_vars
  OBVIOUS
<1>1. ASSUME ProxySteps \/ ProxyLost \/ ProxyReconnect \/ UNCHANGED mediaVars
      PROVE  UNCHANGED vars
  BY <1>1 DEF ProxySteps, ProxyLost, ProxyReconnect, centerVars, mediaVars, vars
<1>2. CASE Answer
  <2>1. there \in Fds /\ RequestOf[Head(toMC)] \in Requests
    BY <1>2, NextAsked DEF Answer
  <2>2. OnMCPreAllocReq(there, RequestOf[Head(toMC)])
    BY <1>2 DEF Answer
  <2> QED BY <2>1, <2>2 DEF Next
<1>3. CASE Pinged \/ Failed \/ CenterTimer
  BY <1>3 DEF Pinged, Failed, CenterTimer, Next
<1>4. ASSUME NEW fd \in Fds, Accept(fd) \/ OldClosed(fd) \/ Others(fd)
      PROVE  Next
  BY <1>4 DEF Accept, OldClosed, Others, Next
<1> QED BY <1>1, <1>2, <1>3, <1>4 DEF MediaNext

LEMMA Asks == MediaSpec => []AsksInv
BY AsksInit, AsksNext, PTL DEF MediaSpec

LEMMA CenterAsSpecified == MediaSpec => Spec
<1>1. MediaInit => Init
  BY DEF MediaInit
<1> QED BY <1>1, CenterNext, Asks, PTL DEF MediaSpec, Spec

LEMMA CenterInductive == MediaSpec => [](TypeInv /\ KnownInv)
BY CenterAsSpecified, Inductive, PTL

\* The group that mcenter answers with is one of those that mcproxy expects.
LEMMA GrpOfType ==
    ASSUME TypeInv, AsksInv, Answer
    PROVE  GrpOf(answer') \in (Groups \cup {NoName}) \cup {NoGrp}
<1> DEFINE req == RequestOf[Head(toMC)]
<1>1. OnMCPreAllocReq(there, req)
  BY DEF Answer
<1> HIDE DEF req
<1>2. CASE \E o \in FetchGroup(req) : answer' = [res |-> "ok", req |-> req, obj |-> o]
  <2>1. PICK o \in FetchGroup(req) : answer' = [res |-> "ok", req |-> req, obj |-> o]
    BY <1>2
  <2>2. o \in Objs
    BY FetchIsListed
  <2>3. info[o].name \in Groups \cup {NoName}
    BY <2>2 DEF TypeInv, GrpInfo
  <2>4. GrpOf(answer') = info[o].name
    BY <2>1 DEF GrpOf
  <2> QED BY <2>3, <2>4
<1>3. CASE answer' \in {[res |-> "invalid_isp", req |-> req], [res |-> "no_group", req |-> req]}
  <2>1. GrpOf(answer') = NoGrp
    BY <1>3 DEF GrpOf
  <2> QED BY <2>1
<1> QED BY <1>1, <1>2, <1>3 DEF OnMCPreAllocReq

\* Every step of the two is one that MCProxy has, or none to it.
LEMMA ProxyNext == AsksInv /\ TypeInv /\ [MediaNext]_mediaVars => [P!Next]_(P!vars)
<1> SUFFICES ASSUME AsksInv, TypeInv, [MediaNext]_mediaVars
             PROVE  [P!Next]_(P!vars)
  OBVIOUS
<1>1. CASE ProxySteps
  BY <1>1 DEF ProxySteps, P!Next
<1>2. CASE ProxyLost \/ ProxyReconnect
  BY <1>2 DEF ProxyLost, ProxyReconnect, P!Next
<1>3. CASE Answer
  <2> DEFINE grp == GrpOf(answer')
  <2>1. grp \in (Groups \cup {NoName}) \cup {NoGrp}
    BY <1>3, GrpOfType
  <2>2. P!MCenterAnswers(grp)
    BY <1>3 DEF Answer, P!MCenterAnswers
  <2> HIDE DEF grp
  <2> QED BY <2>1, <2>2 DEF P!Next
<1>4. ASSUME \/ Pinged \/ Failed \/ CenterTimer \/ UNCHANGED mediaVars
             \/ \E fd \in Fds : Accept(fd) \/ OldClosed(fd) \/ Others(fd)
      PROVE  UNCHANGED P!vars
  BY <1>4 DEF Pinged, Failed, CenterTimer, Accept, OldClosed, Others, proxyVars, mediaVars, P!vars
<1> QED BY <1>1, <1>2, <1>3, <1>4 DEF MediaNext

\* With mcenter_d at the other end, and a connection that each of the two closes
\* in its own time, mcproxy_d does what MCProxy says: what is shown of it there
\* holds of the two together.
THEOREM MediaImplementsMCProxy == MediaSpec => ProxyAsSpecified
<1>1. MediaInit => P!Init
  BY DEF MediaInit
<1> QED BY <1>1, ProxyNext, Asks, CenterInductive, PTL DEF MediaSpec, ProxyAsSpecified, P!Spec

LEMMA MediaTypeNext == MediaTypeOK /\ [MediaNext]_mediaVars => MediaTypeOK'
BY DEF MediaTypeOK, MediaNext, mediaVars, ProxySteps, ProxyLost, ProxyReconnect, Accept,
       Answer, Pinged, Failed, OldClosed, CenterTimer, Others

\* The link ids under which mcenter has mcproxy's present and former connections
\* are link ids.
THEOREM MediaTypeCorrect == MediaSpec => []MediaTypeOK
<1>1. MediaInit => MediaTypeOK
  BY DEF MediaInit, MediaTypeOK
<1> QED BY <1>1, MediaTypeNext, PTL DEF MediaSpec

-----------------------------------------------------------------------------
(* What access servers are given *)

\* The groups that serve both users of a key.
Serving(k) == {g \in Groups : RequestOf[k].isp1 \cup RequestOf[k].isp2 \subseteq IspOf[g]}

ItemOf(G) == [age : Int, remain : Int, grp : G]
AnswerOf(k) == [key : {k}, grp : Serving(k) \cup {NoGrp}]
Right == UNION {AnswerOf(k) : k \in Keys}

\* Whatever mcproxy holds for a key, in its cache or on the way to it, names a
\* group that serves the users of that key.
ServInv ==
    /\ cache \in [Keys -> UNION {Seq(ItemOf(Serving(k))) : k \in Keys}]
    /\ \A k \in Keys : cache[k] \in Seq(ItemOf(Serving(k)))
    /\ fromMC \in Seq(Right)
    /\ given \subseteq Right

\* The methods of CacheList name no group that has not been put in.
LEMMA CacheListTypes ==
    ASSUME NEW G, NEW list \in Seq(ItemOf(G))
    PROVE  /\ list # <<>> => Head(list).grp \in G /\ P!CacheListGet(list) \in Seq(ItemOf(G))
           /\ \A grp \in G : P!CacheListAdd(list, CacheSize, grp) \in Seq(ItemOf(G))
           /\ P!CacheListAge(list) \in Seq(ItemOf(G))
           /\ P!CacheListClearExpire(list) \in Seq(ItemOf(G))
<1>1. /\ Len(list) \in Nat /\ DOMAIN list = 1 .. Len(list)
      /\ \A i \in 1 .. Len(list) : list[i] \in ItemOf(G)
  BY LenProperties, ElementOfSeq
<1>2. ASSUME list # <<>>
      PROVE  Head(list).grp \in G /\ P!CacheListGet(list) \in Seq(ItemOf(G))
  <2>1. Head(list) \in ItemOf(G) /\ Tail(list) \in Seq(ItemOf(G))
    BY <1>2, HeadTailProperties
  <2>2. 1 \in 1 .. Len(list)
    BY <1>1, <1>2, EmptySeq
  <2> DEFINE item == [list[1] EXCEPT !.remain = @ - 1]
  <2>3. item \in ItemOf(G)
    BY <1>1, <2>2 DEF ItemOf
  <2>4. [list EXCEPT ![1] = item] \in Seq(ItemOf(G))
    BY <2>2, <2>3, ExceptSeq
  <2>5. Head(list).grp \in G
    BY <2>1 DEF ItemOf
  <2> QED BY <2>1, <2>4, <2>5 DEF P!CacheListGet
<1>3. ASSUME NEW grp \in G
      PROVE  P!CacheListAdd(list, CacheSize, grp) \in Seq(ItemOf(G))
  <2>1. [age |-> 0, remain |-> CacheSize, grp |-> grp] \in ItemOf(G)
    BY ProxyAssumption DEF P!SizesAssumption, ItemOf
  <2> QED BY <2>1, AppendProperties DEF P!CacheListAdd
<1>4. P!CacheListAge(list) \in Seq(ItemOf(G))
  <2> DEFINE Older1(item) == [item EXCEPT !.age = IF @ < P!MaxAge THEN @ + 1 ELSE @]
  <2>1. \A i \in 1 .. Len(list) : Older1(list[i]) \in ItemOf(G)
    BY <1>1 DEF ItemOf
  <2>2. P!CacheListAge(list) = [i \in 1 .. Len(list) |-> Older1(list[i])]
    BY <1>1 DEF P!CacheListAge
  <2> HIDE DEF Older1
  <2>3. P!CacheListAge(list) \in [1 .. Len(list) -> ItemOf(G)]
    BY <2>1, <2>2
  <2> QED BY <1>1, <2>3, SeqDef
<1>5. ASSUME NEW n \in DOMAIN list
      PROVE  RemoveAt(list, n) \in Seq(ItemOf(G))
  <2>1. n - 1 \in Int /\ n + 1 \in Int /\ Len(list) \in Int
    BY <1>1, <1>5
  <2>2. /\ \A i \in 1 .. n - 1 : list[i] \in ItemOf(G)
        /\ \A i \in n + 1 .. Len(list) : list[i] \in ItemOf(G)
    BY <1>1, <1>5
  <2>3. SubSeq(list, 1, n - 1) \in Seq(ItemOf(G))
    BY <2>1, <2>2, SubSeqProperties
  <2>4. SubSeq(list, n + 1, Len(list)) \in Seq(ItemOf(G))
    BY <2>1, <2>2, SubSeqProperties
  <2>5. SubSeq(list, 1, n - 1) \o SubSeq(list, n + 1, Len(list)) \in Seq(ItemOf(G))
    BY <2>3, <2>4, ConcatProperties
  <2> QED BY <2>5 DEF RemoveAt
<1>6. P!CacheListClearExpire(list) \in Seq(ItemOf(G))
  <2>1. CASE \E i \in DOMAIN list : P!FirstExpired(list, i)
    <3> DEFINE n == CHOOSE i \in DOMAIN list : P!FirstExpired(list, i)
    <3>1. n \in DOMAIN list
      BY <2>1
    <3>2. RemoveAt(list, n) \in Seq(ItemOf(G))
      BY <1>5, <3>1
    <3>3. P!CacheListClearExpire(list) = RemoveAt(list, n)
      BY <2>1 DEF P!CacheListClearExpire, P!RemoveAt, RemoveAt
    <3> QED BY <3>2, <3>3
  <2>2. CASE ~ \E i \in DOMAIN list : P!FirstExpired(list, i)
    BY <2>2 DEF P!CacheListClearExpire
  <2> QED BY <2>1, <2>2
<1> QED BY <1>2, <1>3, <1>4, <1>6

LEMMA ServInit == MediaInit => ServInv
<1>1. \A S : <<>> \in Seq(S)
  BY EmptySeq
<1> QED BY <1>1 DEF MediaInit, P!Init, ServInv

\* One list of the cache changes.
LEMMA CacheChange ==
    ASSUME ServInv, NEW k \in Keys, NEW list \in Seq(ItemOf(Serving(k))),
           cache' = [cache EXCEPT ![k] = list]
    PROVE  /\ cache' \in [Keys -> UNION {Seq(ItemOf(Serving(j))) : j \in Keys}]
           /\ \A j \in Keys : cache'[j] \in Seq(ItemOf(Serving(j)))
BY DEF ServInv

\* A group that mcenter finds serves the users of the request that it answers.
LEMMA AnswerServes ==
    ASSUME TypeInv, KnownInv, PureInv, AsksInv, Answer
    PROVE  [key |-> Head(toMC), grp |-> GrpOf(answer')] \in Right
<1> DEFINE k == Head(toMC)
           req == RequestOf[k]
<1>1. k \in Keys /\ OnMCPreAllocReq(there, req)
  BY NextAsked DEF Answer
<1>2. GrpOf(answer') \in Serving(k) \cup {NoGrp}
  <2>1. CASE \E o \in FetchGroup(req) : answer' = [res |-> "ok", req |-> req, obj |-> o]
    <3>1. PICK o \in FetchGroup(req) : answer' = [res |-> "ok", req |-> req, obj |-> o]
      BY <2>1
    <3> HIDE DEF k, req
    <3>2. o \in Live /\ req.isp1 \cup req.isp2 \subseteq info[o].isp
      BY FetchServesBoth
    <3>3. PICK g \in Known : o = groups[g]
      BY <3>2 DEF Live
    <3>4. g \in Groups /\ info[o].name = g /\ info[o].isp = IspOf[g]
      BY <3>3 DEF KnownInv, Known
    <3>5. GrpOf(answer') = g
      BY <3>1, <3>4 DEF GrpOf
    <3> QED BY <3>2, <3>4, <3>5 DEF Serving, k, req
  <2>2. CASE answer' \in {[res |-> "invalid_isp", req |-> req], [res |-> "no_group", req |-> req]}
    <3>1. GrpOf(answer') = NoGrp
      BY <2>2 DEF GrpOf
    <3> QED BY <3>1
  <2> HIDE DEF req
  <2> QED BY <1>1, <2>1, <2>2 DEF OnMCPreAllocReq
<1> HIDE DEF k
<1>3. [key |-> k, grp |-> GrpOf(answer')] \in AnswerOf(k)
  BY <1>2 DEF AnswerOf
<1> QED BY <1>1, <1>3 DEF Right, k

\* mcproxy by itself.
LEMMA ServProxy ==
    ASSUME ServInv, ProxySteps
    PROVE  ServInv'
<1>1. ASSUME NEW c \in Clients, NEW k \in Keys, P!OnMCAllocReq(c, k)
      PROVE  ServInv'
  <2>1. CASE given' = {} /\ UNCHANGED <<cache, fromMC>>
    BY <2>1 DEF ServInv
  <2>2. CASE /\ cache[k] # <<>>
             /\ cache' = [cache EXCEPT ![k] = P!CacheListGet(@)]
             /\ given' = {[key |-> k, grp |-> Head(cache[k]).grp]}
             /\ UNCHANGED fromMC
    <3>1. cache[k] \in Seq(ItemOf(Serving(k)))
      BY DEF ServInv
    <3>2. P!CacheListGet(cache[k]) \in Seq(ItemOf(Serving(k))) /\ Head(cache[k]).grp \in Serving(k)
      BY <2>2, <3>1, CacheListTypes
    <3>3. given' \subseteq Right
      BY <2>2, <3>2 DEF Right, AnswerOf
    <3> QED BY <2>2, <3>2, <3>3, CacheChange DEF ServInv
  <2> QED BY <1>1, <2>1, <2>2 DEF P!OnMCAllocReq
<1>2. CASE P!OnMCPreAllocRes
  <2> DEFINE res == Head(fromMC)
  <2>1. res \in Right /\ Tail(fromMC) \in Seq(Right)
    BY <1>2, HeadTailProperties DEF ServInv, P!OnMCPreAllocRes
  <2>2. /\ cache' = IF res.grp = NoGrp THEN cache
                    ELSE [cache EXCEPT ![res.key] = P!CacheListAdd(@, CacheSize, res.grp)]
        /\ given' \subseteq {res} /\ fromMC' = Tail(fromMC)
    BY <1>2 DEF P!OnMCPreAllocRes, P!AnswerAll
  <2> HIDE DEF res
  <2>3. PICK k \in Keys : res \in AnswerOf(k)
    BY <2>1 DEF Right
  <2>4. res.key = k /\ res.grp \in Serving(k) \cup {NoGrp}
    BY <2>3 DEF AnswerOf
  <2>5. CASE res.grp = NoGrp
    BY <2>1, <2>2, <2>5 DEF ServInv
  <2>6. CASE res.grp # NoGrp
    <3>1. P!CacheListAdd(cache[k], CacheSize, res.grp) \in Seq(ItemOf(Serving(k)))
      BY <2>4, <2>6, CacheListTypes DEF ServInv
    <3> QED BY <2>1, <2>2, <2>4, <2>6, <3>1, CacheChange DEF ServInv
  <2> QED BY <2>5, <2>6
<1>3. CASE P!OnTimer
  <2>1. ASSUME NEW k \in Keys
        PROVE  /\ P!CacheListAge(cache[k]) \in Seq(ItemOf(Serving(k)))
               /\ P!CacheListClearExpire(P!CacheListAge(cache[k])) \in Seq(ItemOf(Serving(k)))
    BY CacheListTypes DEF ServInv
  <2>2. given' = {} /\ UNCHANGED fromMC
    BY <1>3 DEF P!OnTimer
  <2>3. \A k \in Keys : cache'[k] \in Seq(ItemOf(Serving(k)))
    BY <1>3, <2>1 DEF P!OnTimer
  <2>4. cache' = [k \in Keys |-> cache'[k]]
    BY <1>3 DEF P!OnTimer
  <2>5. cache' \in [Keys -> UNION {Seq(ItemOf(Serving(k))) : k \in Keys}]
    BY <2>3, <2>4
  <2> QED BY <2>2, <2>3, <2>5 DEF ServInv
<1>4. ASSUME \/ \E fd \in ProxyFds : P!OnClientError(fd)
             \/ \E c \in Clients : P!OnConnect(c) \/ P!OnClientEof(c)
      PROVE  ServInv'
  <2>1. given' = {} /\ UNCHANGED <<cache, fromMC>>
    BY <1>4 DEF P!OnClientError, P!OnConnect, P!OnClientEof
  <2> QED BY <2>1 DEF ServInv
<1> QED BY <1>1, <1>2, <1>3, <1>4 DEF ProxySteps

\* ... until mcenter has deleted a group.
GivenInv == ~deleted => ServInv

LEMMA ServNext ==
    TypeInv /\ KnownInv /\ ListsInv /\ AsksInv /\ GivenInv /\ [MediaNext]_mediaVars => GivenInv'
<1> SUFFICES ASSUME TypeInv, KnownInv, ListsInv, AsksInv, GivenInv, [MediaNext]_mediaVars, ~deleted'
             PROVE  ServInv'
  BY DEF GivenInv
<1>0. ServInv /\ PureInv
  <2>1. [Next]_vars
    BY CenterNext
  <2>2. ~deleted
    BY <2>1, DeletedNext
  <2> QED BY <2>2 DEF GivenInv, ListsInv
<1>1. CASE Answer
  <2> DEFINE res == [key |-> Head(toMC), grp |-> GrpOf(answer')]
  <2>1. res \in Right
    BY <1>0, <1>1, AnswerServes
  <2>2. fromMC' = Append(fromMC, res) /\ given' = {} /\ UNCHANGED cache
    BY <1>1 DEF Answer
  <2> HIDE DEF res
  <2> QED BY <1>0, <2>1, <2>2, AppendProperties DEF ServInv
<1>2. CASE ProxyLost \/ ProxyReconnect
  <2>1. given' = {} /\ UNCHANGED cache /\ (fromMC' = fromMC \/ fromMC' = <<>>)
    BY <1>2 DEF ProxyLost, ProxyReconnect, P!OnMCLost, P!OnMCReconnect
  <2> QED BY <1>0, <2>1, EmptySeq DEF ServInv
<1>3. ASSUME \/ Pinged \/ Failed \/ CenterTimer \/ UNCHANGED mediaVars
             \/ \E fd \in Fds : Accept(fd) \/ OldClosed(fd) \/ Others(fd)
      PROVE  ServInv'
  <2>1. UNCHANGED <<cache, fromMC, given>>
    BY <1>3 DEF Pinged, Failed, CenterTimer, Accept, OldClosed, Others, proxyVars, mediaVars
  <2> QED BY <1>0, <2>1 DEF ServInv
<1> QED BY <1>0, <1>1, <1>2, <1>3, ServProxy DEF MediaNext

\* Until mcenter first deletes a group, an access server is given, for two users,
\* a group that serves both: at once or after a wait, from the cache or from
\* mcenter, and whatever else was asked and answered over the same connection
\* meanwhile.
THEOREM GivenGroupsServe == MediaSpec => []GivenServesBoth
<1>1. MediaSpec => []ListsInv
  BY ListsArePure, CenterAsSpecified, PTL
<1>2. MediaInit => GivenInv
  BY ServInit DEF GivenInv
<1>3. MediaSpec => []GivenInv
  BY <1>1, <1>2, ServNext, Asks, CenterInductive, PTL DEF MediaSpec
<1>4. GivenInv => GivenServesBoth
  <2> SUFFICES ASSUME ServInv, NEW res \in given, res.grp # NoGrp
               PROVE  /\ res.grp \in Groups
                      /\ RequestOf[res.key].isp1 \cup RequestOf[res.key].isp2 \subseteq IspOf[res.grp]
    BY DEF GivenServesBoth, GivenInv
  <2>1. PICK k \in Keys : res \in AnswerOf(k)
    BY DEF ServInv, Right
  <2>2. res.key = k /\ res.grp \in Serving(k)
    BY <2>1 DEF AnswerOf
  <2> QED BY <2>2 DEF Serving
<1> QED BY <1>3, <1>4, PTL
=============================================================================
