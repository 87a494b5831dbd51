------------------------------ MODULE MCenter ------------------------------
(***************************************************************************)
(* mcenter_d (packages/media/mcenter_d/src): the media centre.  mgroups    *)
(* report their load to it, and mcproxies ask it for a group that can      *)
(* serve two users, each with an isp and an area.                          *)
(*                                                                         *)
(* GrpMgr knows the groups by name (groups is m_mapGroups), and GrpIspMap  *)
(* keeps lists of pointers to the same GrpInfo objects, one per isp and    *)
(* one per isp and area.  The objects are named by their address, so that  *)
(* a pointer left in a list after the delete can be told from a live one.  *)
(* An isp is the set of the carriers whose bits are set in it.             *)
(***************************************************************************)
EXTENDS Walks, Integers, SequencesExt, FiniteSets

CONSTANTS
    Groups,             \* names
    Objs, NoObj,        \* addresses of GrpInfo objects
    NoName,             \* not the name of a group
    ValidIsps,          \* IspInfo::m_setIsps
    Isps, Areas,        \* what reports and requests may name
    Requests,           \* bound: the requests that mcproxies make
    IspOf, AreaOf,      \* the isp and area that a group is configured with
    Reports,            \* the <<load, load_max>> pairs that a group may report
    Fds, Closed,        \* link ids; not a number of seconds
    GroupExpire,        \* GROUP_EXPIRE
    LinkExpire,         \* LINK_EXPIRE
    MaxListed,          \* bound: entries in a list
    Silent,             \* bound: may a group stop reporting and be deleted
    FreedName           \* the name that a deleted GrpInfo is read with: "intact"
                        \* or "overwritten"

ASSUME IspsAssumption ==
    /\ ValidIsps \subseteq Isps /\ Isps \subseteq SUBSET Nat
    /\ \A i \in Isps : IsFiniteSet(i)     \* the bits of an int
    /\ IspOf \in [Groups -> Isps] /\ AreaOf \in [Groups -> Areas]
ASSUME ReportsAssumption == \A r \in Reports : r[1] \in Nat /\ r[2] \in Nat
ASSUME ExpireAssumption == GroupExpire \in Nat /\ LinkExpire \in Nat
ASSUME NamesAssumption ==
    /\ NoObj \notin Objs /\ NoName \notin Groups /\ Closed \notin Nat
    /\ Silent \in BOOLEAN /\ FreedName \subseteq {"intact", "overwritten"}

VARIABLES
    groups,     \* GrpMgr::m_mapGroups: name |-> object, or NoObj
    info,       \* the objects, with the seconds since m_nLastUpdate as age
    lists,      \* GrpIspMap::m_mapIspGroups, under <<isp>> and <<isp, area>>
    isps,       \* GrpMgr::m_setIsps
    links,      \* LinkMgr::m_mapLinks: seconds since the stamp, or Closed
    deleted,    \* a group has fallen silent and been deleted
    answer      \* the PMCPreAllocRes sent in the last step, or NoAnswer

vars == <<groups, info, lists, isps, links, deleted, answer>>

Known == {g \in Groups : groups[g] # NoObj}
Live == {groups[g] : g \in Known}

Load == {r[1] : r \in Reports} \cup {0}
LoadMax == {r[2] : r \in Reports} \cup {0}
GrpInfo == [name : Groups \cup {NoName}, isp : SUBSET Nat, area : Areas \cup {0},
            load : Load, max : LoadMax, age : 0 .. GroupExpire + 1]
Blank == [name |-> NoName, isp |-> {}, area |-> 0, load |-> 0, max |-> 0, age |-> 0]

ListKeys == {<<i>> : i \in ValidIsps} \cup {<<i, a>> : i \in ValidIsps, a \in Areas}

Request == [isp1 : Isps, area1 : Areas, isp2 : Isps, area2 : Areas]
ASSUME RequestsAssumption == Requests \subseteq Request

NoAnswer == [res |-> "none"]
Refusal == {"invalid_isp", "no_group"}

Init ==
    /\ groups = [g \in Groups |-> NoObj]
    /\ info = [o \in Objs |-> Blank]
    /\ lists = [k \in ListKeys |-> <<>>]
    /\ isps = {}
    /\ links = [fd \in Fds |-> Closed]
    /\ deleted = FALSE
    /\ answer = NoAnswer

-----------------------------------------------------------------------------
(* GrpList and GrpIspMap: the search.  A result is the set of the one       *)
(* object that is found, or empty for NULL.                                 *)

Score(o) == IF info[o].load = 0 THEN 100 ELSE info[o].max \div info[o].load

\* Loaded less than a third, or with room for more than 10000*10 calls.
Good(o) == Score(o) >= 3 \/ info[o].max - info[o].load > 10000 * 10

\* Mutant: only a good group is free.
GetFreeGroup_GoodOnly(list) ==
    {list[i] : i \in {j \in DOMAIN list :
        Good(list[j]) /\ \A h \in 1 .. j - 1 : ~Good(list[h])}}

\* getFreeGroup answers the first good group, else the first of the best
\* score, if that is above 0.
GetFreeGroup(list) ==
    IF \E i \in DOMAIN list : Good(list[i])
    THEN {list[i] : i \in {j \in DOMAIN list :
            Good(list[j]) /\ \A h \in 1 .. j - 1 : ~Good(list[h])}}
    ELSE {list[i] : i \in {j \in DOMAIN list :
            /\ Score(list[j]) > 0
            /\ \A h \in DOMAIN list :
                  IF h < j THEN Score(list[h]) < Score(list[j])
                  ELSE Score(list[h]) <= Score(list[j])}}

OrElse(found, next) == IF found # {} THEN found ELSE next

FreeIn(key) == IF key \in ListKeys THEN GetFreeGroup(lists[key]) ELSE {}

\* Mutant: the groups of other areas are left out.
FindGroup_AreaOnly(isp, area) == FreeIn(<<isp, area>>)

FindGroup(isp, area) == OrElse(FreeIn(<<isp, area>>), FreeIn(<<isp>>))

FindInAreas(isp, area1, area2) == OrElse(FindGroup(isp, area1), FindGroup(isp, area2))

\* The order of m_setIsps, a set of integers: the highest bit in which two
\* differ is set in the later one.
Before(i, j) ==
    \E b \in j \ i : \A c \in (i \ j) \cup (j \ i) : c <= b

\* Mutant: any carrier in common will do.
FindFallbackIsp_Common(ispAll, area1, area2) ==
    LET hits == {i \in isps : i \cap ispAll # {} /\ FindInAreas(i, area1, area2) # {}}
    IN  UNION {FindInAreas(i, area1, area2) :
                 i \in {j \in hits : \A h \in hits \ {j} : Before(j, h)}}

\* The first isp that serves both users and has a free group.
FindFallbackIsp(ispAll, area1, area2) ==
    LET hits == {i \in isps : ispAll \subseteq i /\ FindInAreas(i, area1, area2) # {}}
    IN  UNION {FindInAreas(i, area1, area2) :
                 i \in {j \in hits : \A h \in hits \ {j} : Before(j, h)}}

\* fetchGroup and findDiffIsp: isp1|isp2 is isp1 when they are the same, and a
\* second search in the same area finds what the first did.
FetchGroup(req) ==
    LET ispAll == req.isp1 \cup req.isp2
    IN  OrElse(FindInAreas(ispAll, req.area1, req.area2),
               FindFallbackIsp(ispAll, req.area1, req.area2))

-----------------------------------------------------------------------------
(* MsgHandler *)

KeysOf(isp, area) == {<<isp>>, <<isp, area>>}

\* LinkMgr::update ignores a link it does not have.
Update(fd) == links' = [links EXCEPT ![fd] = IF @ = Closed THEN @ ELSE 0]

Reported(o, r) == [info[o] EXCEPT !.load = r[1], !.max = r[2], !.age = 0]

\* GrpMgr::add: what a group says of its isp and area counts the first time
\* only, but the lists it is put on are those it says.  It is put on them at
\* every report, whether it is there or not.
GrpMgrAdd(g, r) ==
    /\ \E o \in Objs :
          /\ \/ /\ groups[g] = o
                /\ info' = [info EXCEPT ![o] = Reported(o, r)]
                /\ UNCHANGED groups
             \/ /\ groups[g] = NoObj
                /\ o \notin Live
                /\ info' = [info EXCEPT ![o] =
                      [name |-> g, isp |-> IspOf[g], area |-> AreaOf[g],
                       load |-> r[1], max |-> r[2], age |-> 0]]
                /\ groups' = [groups EXCEPT ![g] = o]
          /\ lists' = [k \in ListKeys |->
                IF k \in KeysOf(IspOf[g], AreaOf[g]) THEN Append(lists[k], o) ELSE lists[k]]
    /\ isps' = isps \cup {IspOf[g]}

\* A report of an isp that is not valid is dropped, and does not even count as
\* a sign of life of the link.
OnMCReportReq(fd, g, r) ==
    /\ links[fd] # Closed
    /\ \/ /\ IspOf[g] \in ValidIsps
          /\ Len(lists[<<IspOf[g]>>]) < MaxListed
          /\ GrpMgrAdd(g, r)
          /\ Update(fd)
       \/ IspOf[g] \notin ValidIsps /\ UNCHANGED <<groups, info, lists, isps, links>>
    /\ answer' = NoAnswer
    /\ UNCHANGED deleted

\* Mutant: the answer is filled in before the search is found to have failed.
OnMCPreAllocReq_NoCheck(fd, req) ==
    /\ links[fd] # Closed
    /\ Update(fd)
    /\ answer' =
          IF {req.isp1, req.isp2} \subseteq ValidIsps
          THEN [res |-> "ok", req |-> req, obj |-> FetchGroup(req)]
          ELSE [res |-> "invalid_isp", req |-> req]
    /\ UNCHANGED <<groups, info, lists, isps, deleted>>

\* The allocated number that is added up in the group is read by nothing.
OnMCPreAllocReq(fd, req) ==
    /\ links[fd] # Closed
    /\ Update(fd)
    /\ \/ /\ ~({req.isp1, req.isp2} \subseteq ValidIsps)
          /\ answer' = [res |-> "invalid_isp", req |-> req]
       \/ /\ {req.isp1, req.isp2} \subseteq ValidIsps
          /\ FetchGroup(req) = {}
          /\ answer' = [res |-> "no_group", req |-> req]
       \/ /\ {req.isp1, req.isp2} \subseteq ValidIsps
          /\ \E o \in FetchGroup(req) : answer' = [res |-> "ok", req |-> req, obj |-> o]
    /\ UNCHANGED <<groups, info, lists, isps, deleted>>

OnMCPing(fd) ==
    /\ links[fd] # Closed
    /\ Update(fd)
    /\ answer' = NoAnswer
    /\ UNCHANGED <<groups, info, lists, isps, deleted>>

-----------------------------------------------------------------------------
(* Links *)

\* tcp_listener_cb
OnConnect(fd) ==
    /\ links[fd] = Closed
    /\ links' = [links EXCEPT ![fd] = 0]
    /\ answer' = NoAnswer
    /\ UNCHANGED <<groups, info, lists, isps, deleted>>

\* tcp_event_cb: the group that reported on the link stays.
OnLinkClosed(fd) ==
    /\ links[fd] # Closed
    /\ links' = [links EXCEPT ![fd] = Closed]
    /\ answer' = NoAnswer
    /\ UNCHANGED <<groups, info, lists, isps, deleted>>

-----------------------------------------------------------------------------
(* MCMgr::onTimer: GrpMgr::removeExpire, then LinkMgr::removeExpire *)

LinksAged ==
    [fd \in Fds |-> IF links[fd] = Closed THEN Closed
                    ELSE IF links[fd] + 1 > LinkExpire THEN Closed
                    ELSE links[fd] + 1]

Expired == {g \in Known : info[groups[g]].age + 1 > GroupExpire}

Named(o, g) == info[o].name = g

\* Mutant: the comparison is inverted.
RemoveGroup_Other(list, g) ==
    {i \in DOMAIN list : ~Named(list[i], g) /\ \A j \in 1 .. i - 1 : Named(list[j], g)}

\* GrpList::remvoeGroup: the place of the first entry that reads as g, if any.
RemoveGroup(list, g) ==
    {i \in DOMAIN list : Named(list[i], g) /\ \A j \in 1 .. i - 1 : ~Named(list[j], g)}

\* GrpIspMap::remove, for every expired group that belongs on the list.
Removed(key) ==
    LET out == {g \in Expired : key \in KeysOf(info[groups[g]].isp, info[groups[g]].area)}
    IN  Remaining(lists[key], UNION {RemoveGroup(lists[key], g) : g \in out})

\* What is left in the memory of a group that has been deleted: all of it, or
\* all but the name, which is where an allocator links its free blocks.
Freed(o, name) ==
    [info[o] EXCEPT !.age = 0, !.name = IF name = "intact" THEN @ ELSE NoName]

Older(o) == [info[o] EXCEPT !.age = @ + 1]

RemoveExpire ==
    /\ \E name \in FreedName :
          info' = [o \in Objs |->
                    IF \E g \in Expired : groups[g] = o THEN Freed(o, name)
                    ELSE IF o \in Live THEN Older(o)
                    ELSE info[o]]
    /\ groups' = [g \in Groups |-> IF g \in Expired THEN NoObj ELSE groups[g]]
    /\ lists' = [k \in ListKeys |-> Removed(k)]

OnTimer ==
    /\ \/ /\ Expired = {}
          /\ info' = [o \in Objs |-> IF o \in Live THEN Older(o) ELSE info[o]]
          /\ UNCHANGED <<groups, lists, deleted>>
       \/ /\ Silent
          /\ Expired # {}
          /\ RemoveExpire
          /\ deleted' = TRUE
    /\ links' = LinksAged
    /\ answer' = NoAnswer
    /\ UNCHANGED isps

-----------------------------------------------------------------------------
Next ==
    \/ \E fd \in Fds :
          \/ \E g \in Groups, r \in Reports : OnMCReportReq(fd, g, r)
          \/ \E req \in Requests : OnMCPreAllocReq(fd, req)
          \/ OnMCPing(fd)
          \/ OnConnect(fd)
          \/ OnLinkClosed(fd)
    \/ OnTimer

Spec == Init /\ [][Next]_vars

-----------------------------------------------------------------------------
(* Properties *)

TypeOK ==
    /\ groups \in [Groups -> Objs \cup {NoObj}]
    /\ info \in [Objs -> GrpInfo]
    /\ lists \in [ListKeys -> Seq(Objs)]
    /\ isps \subseteq ValidIsps
    /\ links \in [Fds -> (0 .. LinkExpire) \cup {Closed}]
    /\ deleted \in BOOLEAN
    /\ answer \in {NoAnswer} \cup [res : Refusal, req : Request]
                   \cup [res : {"ok"}, req : Request, obj : Objs]

IspAll == answer.req.isp1 \cup answer.req.isp2
HasRoom(o) == Good(o) \/ Score(o) > 0

\* Whatever search found it, the group that is answered serves both users:
\* its isp has every carrier of theirs ("(grp.isp&isp_all)==isp_all" in the
\* design document).  Once a group has been deleted, a list may lead to a freed
\* object or to that of another group.
AnswerServesBoth ==
    ~deleted /\ answer.res = "ok" => IspAll \subseteq info[answer.obj].isp

\* A group of another isp is answered only when no group of the isp that was
\* asked for has room, in any area (fetchGroup searches the fallback last).
ExactIspFirst ==
    ~deleted /\ answer.res = "ok" /\ info[answer.obj].isp # IspAll
        => \A g \in Known : info[groups[g]].isp = IspAll => ~HasRoom(groups[g])

\* A request is refused only when no known group serves both users and has
\* room: the lists, searched one by one, leave none out.
NoGroupOnlyIfNone ==
    answer.res = "no_group"
        => \A g \in Known : IspAll \subseteq info[groups[g]].isp => ~HasRoom(groups[g])

\* A group that is known is on both of its lists, so that it can be found,
\* whatever removals of others, or of itself before, took off them.
ListedWhileKnown ==
    \A g \in Known : \A k \in KeysOf(IspOf[g], AreaOf[g]) : groups[g] \in ToSet(lists[k])
=============================================================================
