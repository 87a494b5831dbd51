------------------------------- MODULE LTable -------------------------------
(***************************************************************************)
(* The allocation table of one loadtable process (class LTable,            *)
(* packages/base/loadtable_d/src/ltable.cpp), as operators on a value, so  *)
(* that LoadTable.tla can give every process of a cluster a table of its   *)
(* own.                                                                    *)
(*                                                                         *)
(* A table is a record: "rows" is m_mapItems, a function on the keys that  *)
(* have been reported; "list" holds m_mapBestItems, m_mapGoodItems,        *)
(* m_mapOkItems and m_mapBadItems, each as the set of the keys in it,      *)
(* under the score that selects it.  The lists point at the same LTItem    *)
(* objects as m_mapItems, so a key is all there is to a list entry.        *)
(* A key is the rank of its string in the order of std::map.               *)
(***************************************************************************)
EXTENDS Integers

CONSTANTS
    Keys,       \* the reported services, by rank
    Reports     \* the <<load, load_max>> pairs that a service may report

\* load*100 stays inside an int up to this load; far above what a media
\* front end reports (about 10000 calls).
LoadLimit == 21474836

ASSUME KeysAssumption == Keys \subseteq Nat
ASSUME ReportsAssumption ==
    \A r \in Reports : r[1] \in Nat /\ r[2] \in Nat /\ r[1] <= LoadLimit

SCORE_BEST == 100
SCORE_GOOD == 86
SCORE_OK == 60
SCORE_BAD == 10
SCORE_NONE == 0     \* calcScore's answer for load_max = 0

ListScores == {SCORE_BEST, SCORE_GOOD, SCORE_OK, SCORE_BAD}
Scores == ListScores \cup {SCORE_NONE}

\* The lists that LTable::query walks, best first: a higher score is a better list.
QueryScores == {SCORE_BEST, SCORE_GOOD, SCORE_OK}

Row == [load : Nat, max : Nat, reserve : Nat, score : Scores]

EmptyTable == [rows |-> [k \in {} |-> 0], list |-> [s \in ListScores |-> {}]]

-----------------------------------------------------------------------------
(* calcScore, pushItem, popItem, addRow *)

CalcScore(load, max) ==
    IF max = 0 THEN SCORE_NONE
    ELSE LET percent == (load * 100) \div max
         IN  IF percent >= 100 THEN SCORE_BAD
             ELSE IF percent >= 75 THEN SCORE_OK
             ELSE IF percent >= 50 THEN SCORE_GOOD
             ELSE SCORE_BEST

\* Both are switches on the score with no default: score 0 names no list.
PushItem(list, score, k) ==
    [s \in ListScores |-> IF s = score THEN list[s] \cup {k} ELSE list[s]]

PopItem(list, score, k) ==
    [s \in ListScores |-> IF s = score THEN list[s] \ {k} ELSE list[s]]

\* Mutant: pushItem without popItem.
AddRow_NoPop(t, k, load, max) ==
    LET score == CalcScore(load, max)
        row == [load |-> load, max |-> max, reserve |-> 0, score |-> score]
    IN  [rows |-> [x \in DOMAIN t.rows \cup {k} |-> IF x = k THEN row ELSE t.rows[x]],
         list |-> PushItem(t.list, score, k)]

\* The item changes list only when its score does; every report of a row
\* forgets what was reserved since the last one.
AddRow(t, k, load, max) ==
    LET score == CalcScore(load, max)
        row == [load |-> load, max |-> max, reserve |-> 0, score |-> score]
    IN  [rows |-> [x \in DOMAIN t.rows \cup {k} |-> IF x = k THEN row ELSE t.rows[x]],
         list |-> IF k \notin DOMAIN t.rows THEN PushItem(t.list, score, k)
                  ELSE IF t.rows[k].score = score THEN t.list
                  ELSE PushItem(PopItem(t.list, t.rows[k].score, k), score, k)]

-----------------------------------------------------------------------------
(* query, queryInList *)

\* Mutant: what is reserved since the last report is not counted.
Free_NoReserve(t, s) == {k \in t.list[s] : t.rows[k].load < t.rows[k].max}

\* The items of one list that still have room for a call.
Free(t, s) ==
    {k \in t.list[s] : t.rows[k].load + t.rows[k].reserve < t.rows[k].max}

\* queryInList walks a std::map: it answers the first key with room.
QueryInList(t, s, k) ==
    /\ k \in Free(t, s)
    /\ \A j \in Free(t, s) : k <= j

\* LTable::query answers k: no better list has room.
Picks(t, k) ==
    \E s \in QueryScores :
        /\ QueryInList(t, s, k)
        /\ \A better \in QueryScores : better > s => Free(t, better) = {}

\* LTable::query answers NULL.
NonePicked(t) == \A s \in QueryScores : Free(t, s) = {}

Reserve(t, k) ==
    [t EXCEPT !.rows = [x \in DOMAIN t.rows |->
        IF x = k THEN [t.rows[k] EXCEPT !.reserve = @ + 1] ELSE t.rows[x]]]

-----------------------------------------------------------------------------
(* What a table owes the processes that query it *)

TableTypeOK(t) ==
    /\ DOMAIN t = {"rows", "list"}
    /\ DOMAIN t.rows \subseteq Keys
    /\ \A k \in DOMAIN t.rows : t.rows[k] \in Row
    /\ t.list \in [ListScores -> SUBSET Keys]

\* Each row stands in the one list that its current load selects, and in no
\* other: an item left behind in a list by a score change would go on being
\* handed out at its old score.
ListedByScore(t) ==
    /\ \A s \in ListScores : t.list[s] = {k \in DOMAIN t.rows : t.rows[k].score = s}
    /\ \A k \in DOMAIN t.rows : t.rows[k].score = CalcScore(t.rows[k].load, t.rows[k].max)

\* Reservations never promise more than the service said it can take.
WithinCapacity(t) ==
    \A k \in DOMAIN t.rows :
        t.rows[k].reserve > 0 => t.rows[k].load + t.rows[k].reserve <= t.rows[k].max
=============================================================================
