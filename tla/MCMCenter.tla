----------------------------- MODULE MCMCenter -----------------------------
(* Instances of MCenter for TLC: groups of one and of two carriers. *)
EXTENDS MCenter, TLC

Ctl == {1}
Cnc == {2}
CtlCnc == {1, 2}

MCValidIsps == {Ctl, CtlCnc}
MCIsps == {Ctl, Cnc, CtlCnc}

\* Two groups of one isp in two areas, one of two isps, and one of an isp that
\* is not valid.
MCIspOf == [g \in Groups |-> IF g = 3 THEN CtlCnc ELSE IF g = 4 THEN Cnc ELSE Ctl]
MCAreaOf == [g \in Groups |-> IF g = 2 THEN 2 ELSE 1]

\* Which of the two users comes first makes a difference to their areas only.
MCRequests ==
    [isp1 : {Ctl}, area1 : Areas, isp2 : MCIsps, area2 : Areas]
        \cup [isp1 : {CtlCnc}, area1 : Areas, isp2 : {CtlCnc}, area2 : Areas]

\* Free, half loaded and full.
MCReports == {<<0, 10>>, <<6, 10>>, <<11, 10>>}

MCSymmetry == Permutations(Objs)
=============================================================================
