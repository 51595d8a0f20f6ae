------------------------- MODULE MCEventDispatcher -------------------------
(* Instances of EventDispatcher for TLC.                                    *)
EXTENDS EventDispatcher

CONSTANTS c1, c2, r1, r2

MCConns == {c1, c2}
OneConn == {c1}
MCResponders == {r1, r2}
OneResponder == {r1}
AllMatch == 1..MaxSeq
TwoSkipped == {e \in 1..MaxSeq : e # 2}
=============================================================================
