---------------------------- MODULE MCAggregator ----------------------------
(* Ledgers and parameters of Aggregator for TLC.                             *)
EXTENDS Aggregator

CONSTANTS b1, b2, b3, m1, m2, m3, A, B

LOCAL P(b, m, t) == [batch |-> b, msg |-> m, topic |-> t]

(* Three single-message batches on one topic *)
ShortTopic == <<P(b1, m1, A), P(b2, m2, A), P(b3, m3, A)>>

(* A message on both topics between two messages on one topic each *)
Crossing == <<P(b1, m1, B), P(b2, m2, A), P(b2, m2, B), P(b3, m3, A)>>

(* An author whose claim is pinned after a message of theirs *)
LateClaim == <<P(b1, m1, A), P(b2, m2, B), P(b3, m3, A)>>

Outer      == {b1, b3}
NoMsgs     == {}
FirstMsg   == {m1}
SecondMsg  == {m2}
ThirdMsg   == {m3}

Registered == [m \in Msgs |-> NoClaim]
ByM2       == [m \in Msgs |-> IF m = m1 THEN m2 ELSE NoClaim]
=============================================================================
