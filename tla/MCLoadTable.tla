---------------------------- MODULE MCLoadTable ----------------------------
(* Instances of LoadTable for TLC. *)
EXTENDS LoadTable, TLC

\* One report for every list, and one that no list takes.
MCReports == {<<0, 0>>, <<1, 3>>, <<1, 2>>, <<3, 4>>, <<2, 2>>}
MCNoRoomTwo == {<<1, 1>>, <<2, 2>>}
=============================================================================
