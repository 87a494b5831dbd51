------------------------------ MODULE MCMedia ------------------------------
(* An instance of Media for TLC: one group of one carrier and one of two, and  *)
(* keys that need one and both.                                                *)
EXTENDS Media

Ctl == {1}
CtlCnc == {1, 2}

MCIsps == {Ctl, CtlCnc}
MCIspOf == [g \in Groups |-> IF g = 1 THEN Ctl ELSE CtlCnc]
MCAreaOf == [g \in Groups |-> 1]
MCReports == {<<0, 10>>}

MCRequestOf ==
    [k \in Keys |-> [isp1 |-> Ctl, area1 |-> 1, area2 |-> 1,
                     isp2 |-> IF k = "near" THEN Ctl ELSE CtlCnc]]
MCRequests == {MCRequestOf[k] : k \in Keys}
=============================================================================
