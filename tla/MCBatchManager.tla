-------------------------- MODULE MCBatchManager --------------------------
(* Messages and processors of BatchManager for TLC.                          *)
EXTENDS BatchManager

CONSTANTS p1, p2, c1, k1, k2

TwoProcs == {p1, p2}
OneProc == {p1}
OneContext == {c1}
NoProcs == {}
SecondProc == {p2}
NoMessages == {}
Second == {2}

(* All messages of one author *)
AllP1 == [m \in Messages |-> p1]
(* The second is sent with a contract invocation *)
EvenP2 == [m \in Messages |-> IF m % 2 = 0 THEN p2 ELSE p1]

OneKey == [m \in Messages |-> k1]
ThirdK2 == [m \in Messages |-> IF m = 3 THEN k2 ELSE k1]
UnitSize == [m \in Messages |-> 1]
SecondBig == [m \in Messages |-> IF m = 2 THEN 3 ELSE 1]
AllPrivate == [m \in Messages |-> c1]
=============================================================================
