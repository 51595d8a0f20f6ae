----------------------- MODULE EventDispatcherProofs -----------------------
(***************************************************************************)
(* Proofs about EventDispatcher, for every number of connections, every    *)
(* filter, read-ahead, page size and bound.                                *)
(***************************************************************************)
EXTENDS EventDispatcher, FiniteSetTheorems, TLAPS

(* Page sizes are natural numbers, so a page ends at a sequence number.      *)
LEMMA PageSizeNat == PageSize \in Nat
BY DispatcherAssumption DEF PageSize

(* The conjuncts of TypeOK about what a dispatcher holds in memory.          *)
MemoryTyped ==
    /\ tap \in BOOLEAN /\ nacked \in BOOLEAN /\ dlvDone \in BOOLEAN
    /\ pc \in {"off", "poll", "idle", "fill", "send", "select"}
    /\ highest \in Nat /\ lastAck \in Nat
    /\ matching \subseteq Seqno /\ toSend \subseteq Seqno /\ sending \subseteq Seqno
    /\ inflight \subseteq Seqno /\ toNack \subseteq Seqno
    /\ delivery \in Seq(SUBSET Seqno)
    /\ pending \subseteq [by : Responders \cup {Deliverer}, id : Seqno, kind : {"ack", "nack"}]
    /\ client \in [1..MaxSeq -> Nat]

(* A dispatcher that forgets everything is in a well-typed state.            *)
LEMMA ForgetTyped == Forget => MemoryTyped'
<1> SUFFICES ASSUME Forget PROVE MemoryTyped'
  OBVIOUS
<1>1. client' \in [1..MaxSeq -> Nat]
  BY DispatcherAssumption DEF Forget
<1>2. delivery' \in Seq(SUBSET Seqno) /\ pending' = {}
  BY DEF Forget
<1> QED BY <1>1, <1>2 DEF Forget, MemoryTyped

(* TypeOK is preserved by every step.                                        *)
LEMMA TypeStep == TypeOK /\ [Next]_vars => TypeOK'
<1> SUFFICES ASSUME TypeOK, [Next]_vars PROVE TypeOK'
  OBVIOUS
<1> USE DispatcherAssumption DEF TypeOK, Seqno, pageVars, loopVars, dlvVars, boundVars, histVars, offsetVars, NoOffset, NoWrite
<1>1. CASE NewEvent
  BY <1>1 DEF NewEvent
<1>2. ASSUME NEW c \in Conns, Connect(c) PROVE TypeOK'
  BY <1>2 DEF Connect
<1>3. ASSUME NEW c \in Conns, ElectAndStart(c) PROVE TypeOK'
  BY <1>3 DEF ElectAndStart, RestoreOffset
<1>4. ASSUME NEW c \in Conns, Close(c) PROVE TypeOK'
  BY <1>4 DEF Close
<1>5. ASSUME NEW c \in Conns, PollerExit(c) PROVE TypeOK'
  BY <1>5, ForgetTyped DEF PollerExit, MemoryTyped
<1>6. ASSUME NEW c \in Conns, CommitRead(c) PROVE TypeOK'
  BY <1>6 DEF CommitRead
<1>7. ASSUME NEW c \in Conns, CommitWrite(c) PROVE TypeOK'
  BY <1>7 DEF CommitWrite
<1>8. CASE Crash
  <2>1. conn' \in [Conns -> {"off", "waiting", "leader", "closing"}]
    BY <1>8 DEF Crash
  <2>2. flight' \in [Conns -> Nat \cup {NoWrite}]
    BY <1>8 DEF Crash
  <2>3. MemoryTyped'
    BY <1>8, ForgetTyped DEF Crash
  <2>4. /\ lastSeq' \in Nat /\ offset' \in Nat \cup {NoOffset} /\ polling' \in Nat /\ start' \in Nat
        /\ batch' \in BOOLEAN /\ delivered' \subseteq Seqno /\ rejected' \subseteq Seqno
        /\ acked' \subseteq Seqno /\ fails' \in Nat /\ closes' \in Nat /\ crashes' \in Nat
    BY <1>8 DEF Crash
  <2> HIDE DispatcherAssumption DEF Seqno
  <2> QED BY <2>1, <2>2, <2>3, <2>4, Zenon DEF MemoryTyped
<1>9. CASE ReadPage
  <2> DEFINE to == IF lastSeq < polling + PageSize THEN lastSeq ELSE polling + PageSize
  <2>1. to \in Nat
    BY PageSizeNat
  <2>2. CASE (polling + 1)..to = {}
    BY <1>9, <2>2 DEF ReadPage
  <2>3. CASE (polling + 1)..to # {}
    <3>1. /\ highest' = to /\ matching' = ((polling + 1)..to) \cap Matches
          /\ pc' = "fill" /\ nacked' = FALSE /\ lastAck' = 0
          /\ UNCHANGED <<lastSeq, offsetVars, conn, toSend, sending, inflight, dlvVars,
                         histVars>>
      BY <1>9, <2>3 DEF ReadPage
    <3>2. matching' \subseteq Seqno
      BY <3>1
    <3> QED BY <2>1, <3>1, <3>2
  <2> QED BY <2>2, <2>3
<1>10. CASE Wake
  BY <1>10 DEF Wake
<1>11. CASE Fill
  BY <1>11 DEF Fill
<1>12. CASE MarkInflight
  BY <1>12 DEF MarkInflight
<1>13. CASE Push
  BY <1>13 DEF Push
<1>14. CASE Drained
  BY <1>14 DEF Drained, CommitOffset
<1>15. ASSUME NEW an \in pending, Receive(an) PROVE TypeOK'
  <2>1. an.id \in Seqno /\ pending' \subseteq pending
    BY <1>15 DEF Receive
  <2>2. CASE an.kind = "nack" /\ HandleNackOffsetUpdate(an.id)
    <3>1. polling' \in Nat /\ inflight' = {} /\ nacked' = TRUE /\ UNCHANGED <<tap, lastAck>>
      BY <2>1, <2>2 DEF HandleNackOffsetUpdate, NackClearsInflight
    <3> QED BY <1>15, <2>1, <3>1 DEF Receive
  <2>3. CASE an.kind = "ack" /\ ~nacked /\ HandleAckOffsetUpdate(an.id)
    BY <1>15, <2>1, <2>3 DEF Receive, HandleAckOffsetUpdate, WithoutAcked, WasLowestInflight, CommitOffset
  <2>4. CASE UNCHANGED <<polling, tap, inflight, nacked, lastAck>>
    BY <1>15, <2>1, <2>4 DEF Receive
  <2> QED BY <1>15, <2>2, <2>3, <2>4 DEF Receive
<1>16. ASSUME NEW an \in pending, GiveUp(an) PROVE TypeOK'
  BY <1>16 DEF GiveUp
<1>17. CASE Deliver
  <2>1. Head(delivery) \in SUBSET Seqno /\ Tail(delivery) \in Seq(SUBSET Seqno)
    BY <1>17 DEF Deliver, TakeNext
  <2>2. client' \in [1..MaxSeq -> Nat]
    BY <1>17 DEF Deliver, TakeNext
  <2> QED BY <1>17, <2>1, <2>2 DEF Deliver, TakeNext
<1>18. CASE DeliverFail
  <2>1. Head(delivery) \in SUBSET Seqno /\ Tail(delivery) \in Seq(SUBSET Seqno)
    BY <1>18 DEF DeliverFail, TakeNext
  <2>2. /\ toNack' = Head(delivery) /\ rejected' = rejected \cup Head(delivery)
        /\ delivery' = Tail(delivery) /\ fails' = fails + 1
        /\ UNCHANGED <<lastSeq, offsetVars, conn, loopVars, dlvDone, pending, client, batch, start,
                       delivered, acked, closes, crashes>>
    BY <1>18 DEF DeliverFail, TakeNext
  <2>3. toNack' \subseteq Seqno /\ rejected' \subseteq Seqno /\ delivery' \in Seq(SUBSET Seqno)
    BY <2>1, <2>2
  <2>4. fails' \in Nat
    BY <2>2
  <2> HIDE DEF Seqno
  <2> QED BY <2>2, <2>3, <2>4
<1>19. CASE DelivererNack
  BY <1>19 DEF DelivererNack, DeliveryResponse, IsLeast, Deliverer
<1>20. CASE DelivererExit
  BY <1>20 DEF DelivererExit
<1>21. ASSUME NEW r \in Responders, NEW e \in 1..MaxSeq, Ack(r, e) PROVE TypeOK'
  <2>1. e \in Seqno /\ pending' \subseteq pending \cup {[by |-> r, id |-> e, kind |-> "ack"]}
    BY <1>21 DEF Ack, DeliveryResponse
  <2>2. client' \in [1..MaxSeq -> Nat]
    BY <1>21 DEF Ack
  <2>3. pending' \subseteq [by : Responders \cup {Deliverer}, id : Seqno, kind : {"ack", "nack"}]
    BY <2>1
  <2>4. acked' \subseteq Seqno /\ UNCHANGED <<lastSeq, offsetVars, conn, loopVars, delivery, toNack,
                                              dlvDone, batch, start, delivered, rejected,
                                              boundVars>>
    BY <1>21, <2>1 DEF Ack
  <2> QED BY <2>2, <2>3, <2>4
<1>22. CASE UNCHANGED vars
  BY <1>22 DEF vars
<1> QED
  BY <1>1, <1>2, <1>3, <1>4, <1>5, <1>6, <1>7, <1>8, <1>9, <1>10, <1>11, <1>12, <1>13,
     <1>14, <1>15, <1>16, <1>17, <1>18, <1>19, <1>20, <1>21, <1>22 DEF Next

(* The initial state is well typed.                                        *)
LEMMA TypeInit == Init => TypeOK
<1> SUFFICES ASSUME Init PROVE TypeOK
  OBVIOUS
<1>1. client \in [1..MaxSeq -> Nat]
  BY DispatcherAssumption DEF Init
<1>2. delivery \in Seq(SUBSET Seqno) /\ pending = {}
  BY DEF Init
<1> QED BY <1>1, <1>2 DEF Init, TypeOK, Seqno, NoOffset, NoWrite

(* The variables of the dispatcher always have their types.                  *)
THEOREM TypeCorrect == Spec => []TypeOK
<1> QED BY TypeInit, TypeStep, PTL DEF Spec

-----------------------------------------------------------------------------
(* IndInv holds initially and is preserved by every step.                   *)
LEMMA IndInit == Init => IndInv
BY TypeInit, DispatcherAssumption
   DEF Init, IndInv, OffsetCovered, Covered, PageAccounted, QueueOrdered, LoopState,
       AcksHonest, InPage, NoOffset, NoWrite, LeaderRuns

(* A poller runs only while some connection holds the leadership.            *)
LEMMA LeaderStep == TypeOK /\ LeaderRuns /\ [Next]_vars => LeaderRuns'
<1> SUFFICES ASSUME TypeOK, LeaderRuns, [Next]_vars PROVE LeaderRuns'
  OBVIOUS
<1> USE DEF LeaderRuns, Leading, pageVars, loopVars, dlvVars, boundVars, histVars, offsetVars
<1>1. CASE \E c \in Conns : Connect(c) \/ Close(c) \/ ElectAndStart(c)
  BY <1>1 DEF Connect, Close, ElectAndStart, TypeOK
<1>2. CASE Crash \/ \E c \in Conns : PollerExit(c)
  BY <1>2 DEF Crash, PollerExit, Forget
<1>3. CASE ReadPage \/ Wake \/ Fill \/ MarkInflight \/ Push \/ Drained
  BY <1>3 DEF ReadPage, Wake, Fill, MarkInflight, Push, Drained
<1>4. ASSUME NEW an \in pending, Receive(an) \/ GiveUp(an) PROVE LeaderRuns'
  BY <1>4 DEF Receive, GiveUp
<1>5. CASE NewEvent \/ \E c \in Conns : CommitRead(c) \/ CommitWrite(c)
  BY <1>5 DEF NewEvent, CommitRead, CommitWrite
<1>6. CASE Deliver \/ DeliverFail \/ DelivererNack \/ DelivererExit
  BY <1>6 DEF Deliver, DeliverFail, TakeNext, DelivererNack, DelivererExit
<1>7. ASSUME NEW r \in Responders, NEW e \in 1..MaxSeq, Ack(r, e) PROVE LeaderRuns'
  BY <1>7 DEF Ack
<1>8. CASE UNCHANGED vars
  BY <1>8 DEF vars
<1> QED BY <1>1, <1>2, <1>3, <1>4, <1>5, <1>6, <1>7, <1>8 DEF Next

(* Parts of IndInv other than TypeOK and LeaderRuns depend on these variables only.         *)
LEMMA IndStutter ==
    ASSUME IndInv, TypeOK', LeaderRuns',
           UNCHANGED <<offset, flight, polling, pc, highest, matching, toSend, nacked,
                       inflight, start>>,
           acked \subseteq acked',
           \A an \in pending' : an.kind = "ack" => an \in pending \/ an.id \in acked'
    PROVE  IndInv'
BY DEF IndInv, OffsetCovered, Covered, PageAccounted, QueueOrdered, LoopState,
       AcksHonest, InPage, NoOffset

(* Every step keeps the invariant.                                         *)
LEMMA IndStep == IndInv /\ [Next]_vars => IndInv'
<1> SUFFICES ASSUME IndInv, [Next]_vars PROVE IndInv'
  OBVIOUS
<1>0. TypeOK /\ TypeOK' /\ LeaderRuns'
  BY TypeStep, LeaderStep DEF IndInv
<1> USE DEF pageVars, loopVars, dlvVars, boundVars, histVars, offsetVars
<1>1. CASE NewEvent
  BY <1>0, <1>1, IndStutter DEF NewEvent
<1>2. ASSUME NEW c \in Conns, Connect(c) PROVE IndInv'
  BY <1>0, <1>2, IndStutter DEF Connect
<1>3. ASSUME NEW c \in Conns, ElectAndStart(c) PROVE IndInv'
  <2>1. UNCHANGED <<flight, inflight, toSend, pending, acked>> /\ pc' = "poll"
    BY <1>3 DEF ElectAndStart, RestoreOffset
  <2>a. pc # "fill" /\ pc # "send" /\ pc # "select"
    BY <1>3 DEF ElectAndStart, RestoreOffset, IndInv, LeaderRuns
  <2>0. PageAccounted' /\ QueueOrdered' /\ LoopState' /\ AcksHonest'
    BY <2>1, <2>a DEF IndInv, PageAccounted, QueueOrdered, LoopState, AcksHonest, InPage
  <2>2. CASE offset # NoOffset
    <3>1. offset' = offset /\ polling' = offset /\ start' = start
      BY <1>3, <2>2 DEF ElectAndStart, RestoreOffset
    <3>2. OffsetCovered'
      BY <2>1, <3>1 DEF IndInv, OffsetCovered, Covered
    <3> QED BY <1>0, <2>0, <2>2, <3>1, <3>2 DEF IndInv
  <2>3. CASE offset = NoOffset
    <3>1. offset' = start' /\ polling' = start' /\ start' \in Nat /\ start = 0
      BY <1>0, <1>3, <2>3 DEF ElectAndStart, RestoreOffset, TypeOK, IndInv
    <3>2. OffsetCovered'
      BY <1>0, <2>1, <3>1, DispatcherAssumption
         DEF IndInv, TypeOK, OffsetCovered, Covered, NoWrite
    <3>3. offset' = NoOffset => start' = 0
      BY <3>1 DEF NoOffset
    <3> QED BY <1>0, <2>0, <3>2, <3>3 DEF IndInv
  <2> QED BY <2>2, <2>3
<1>4. ASSUME NEW c \in Conns, Close(c) PROVE IndInv'
  BY <1>0, <1>4, IndStutter DEF Close
<1>5. ASSUME NEW c \in Conns, PollerExit(c) PROVE IndInv'
  BY <1>0, <1>5 DEF PollerExit, Forget, IndInv, OffsetCovered, Covered, PageAccounted,
                    QueueOrdered, LoopState, AcksHonest, InPage
<1>6. ASSUME NEW c \in Conns, CommitRead(c) PROVE IndInv'
  BY <1>0, <1>6 DEF CommitRead, IndInv, TypeOK, OffsetCovered, Covered, PageAccounted,
                    QueueOrdered, LoopState, AcksHonest, InPage
<1>7. ASSUME NEW c \in Conns, CommitWrite(c) PROVE IndInv'
  <2>1. /\ flight[c] \in Nat /\ offset' \in {offset, flight[c]}
        /\ \A d \in Conns : flight'[d] \in {flight[d], NoWrite}
    BY <1>0, <1>7 DEF CommitWrite, TypeOK
  <2>2. OffsetCovered'
    BY <1>0, <1>7, <2>1, DispatcherAssumption
       DEF CommitWrite, IndInv, TypeOK, OffsetCovered, Covered, NoWrite, NoOffset
  <2>3. offset' = NoOffset => start' = 0
    BY <1>7, <2>1 DEF CommitWrite, IndInv, NoOffset
  <2> QED
    BY <1>0, <1>7, <2>2, <2>3
       DEF CommitWrite, IndInv, PageAccounted, QueueOrdered, LoopState, AcksHonest, InPage
<1>8. CASE Crash
  BY <1>0, <1>8, DispatcherAssumption
     DEF Crash, Forget, IndInv, OffsetCovered, Covered, PageAccounted,
         QueueOrdered, LoopState, AcksHonest, InPage, NoWrite
<1>9. CASE ReadPage
  <2> DEFINE to == IF lastSeq < polling + PageSize THEN lastSeq ELSE polling + PageSize
  <2>0. to \in Nat /\ polling \in Nat
    BY <1>0, PageSizeNat DEF TypeOK
  <2>1. /\ UNCHANGED <<offset, flight, polling, toSend, inflight, pending, start, acked>>
        /\ pc = "poll" /\ pc' \in {"idle", "fill"}
    BY <1>9 DEF ReadPage
  <2>2. toSend = {} /\ inflight = {}
    BY <2>1 DEF IndInv, LoopState, InPage
  <2>3. OffsetCovered' /\ AcksHonest' /\ LoopState' /\ (offset' = NoOffset => start' = 0)
    BY <2>1, <2>2 DEF IndInv, OffsetCovered, Covered, AcksHonest, LoopState, InPage
  <2>4. pc' = "fill" => highest' = to /\ matching' = ((polling + 1)..to) \cap Matches
    BY <1>9 DEF ReadPage
  <2>5. PageAccounted'
    BY <2>0, <2>1, <2>4, DispatcherAssumption DEF PageAccounted, InPage
  <2>6. QueueOrdered'
    BY <2>0, <2>1, <2>2, <2>4 DEF QueueOrdered, InPage
  <2> QED BY <1>0, <2>3, <2>5, <2>6 DEF IndInv
<1>10. CASE Wake
  BY <1>0, <1>10 DEF Wake, IndInv, OffsetCovered, Covered, PageAccounted,
                     QueueOrdered, LoopState, AcksHonest, InPage
<1>11. CASE Fill
  <2>1. PICK D \in SUBSET matching :
          /\ IF 1 + ReadAhead - Cardinality(inflight) >= Cardinality(matching)
             THEN D = matching
             ELSE Cardinality(D) = IF 1 + ReadAhead - Cardinality(inflight) > 0
                                   THEN 1 + ReadAhead - Cardinality(inflight) ELSE 0
          /\ \A d \in D, m \in matching \ D : d < m
          /\ toSend' = D
          /\ matching' = matching \ D
    BY <1>11 DEF Fill, MaxDispatch, OldestFirst
  <2>2. Cardinality({}) = 0
    BY FS_EmptySet
  <2>3. toSend' = {} /\ inflight' = {} => matching' = {}
    <3> SUFFICES ASSUME D = {}, inflight = {} PROVE matching = {}
      BY <1>11, <2>1 DEF Fill
    <3>1. 1 + ReadAhead - Cardinality(inflight) > 0
      BY <2>2, DispatcherAssumption
    <3> QED BY <2>1, <2>2, <3>1
  <2>a. /\ pc = "fill" /\ pc' = "send"
        /\ UNCHANGED <<polling, highest, nacked, inflight, acked>>
    BY <1>11 DEF Fill
  <2>4. PageAccounted'
    BY <2>a, <2>1 DEF IndInv, PageAccounted, LoopState, InPage
  <2>5. QueueOrdered'
    BY <2>a, <2>1 DEF IndInv, QueueOrdered, LoopState, InPage
  <2>6. LoopState'
    BY <2>a, <2>3 DEF LoopState, InPage
  <2>7. OffsetCovered' /\ AcksHonest' /\ (offset' = NoOffset => start' = 0)
    BY <1>11 DEF Fill, IndInv, OffsetCovered, Covered, AcksHonest
  <2> QED BY <1>0, <2>4, <2>5, <2>6, <2>7 DEF IndInv
<1>12. CASE MarkInflight
  <2>1. PICK e \in toSend : /\ \A y \in toSend : e <= y
                            /\ inflight' = inflight \cup {e}
                            /\ toSend' = toSend \ {e}
    BY <1>12 DEF MarkInflight, IsLeast
  <2>2. UNCHANGED <<offset, conn, flight, polling, pc, highest, matching, nacked, pending,
                    start, acked>>
    BY <1>12 DEF MarkInflight
  <2>3. PageAccounted'
    BY <2>1, <2>2 DEF IndInv, PageAccounted, InPage
  <2>4. QueueOrdered'
    BY <1>0, <2>1, <2>2 DEF IndInv, TypeOK, Seqno, QueueOrdered, InPage
  <2>5. LoopState'
    BY <1>12, <2>1, <2>2 DEF MarkInflight, IndInv, LoopState, InPage
  <2>6. OffsetCovered' /\ AcksHonest' /\ (offset' = NoOffset => start' = 0)
    BY <2>2 DEF IndInv, OffsetCovered, Covered, AcksHonest
  <2> QED BY <1>0, <2>3, <2>4, <2>5, <2>6 DEF IndInv
<1>13. CASE Push
  BY <1>0, <1>13, IndStutter DEF Push
<1>14. CASE Drained
  BY <1>0, <1>14, DispatcherAssumption
     DEF Drained, CommitOffset, IndInv, TypeOK, OffsetCovered, Covered, PageAccounted,
         QueueOrdered, LoopState, AcksHonest, InPage
<1>15. ASSUME NEW an \in pending, Receive(an) PROVE IndInv'
  <2>1. an.id \in Seqno
    BY <1>0 DEF TypeOK
  <2>2. CASE an.kind = "nack" /\ HandleNackOffsetUpdate(an.id)
    <3>1. polling' <= polling /\ polling' \in Nat
      BY <1>0, <2>1, <2>2 DEF HandleNackOffsetUpdate, NackClearsInflight, TypeOK, Seqno
    <3>2. OffsetCovered'
      BY <1>0, <1>15, <3>1, DispatcherAssumption
         DEF Receive, IndInv, TypeOK, OffsetCovered, Covered
    <3>3. QueueOrdered' /\ LoopState' /\ PageAccounted'
      BY <1>15, <2>2 DEF Receive, HandleNackOffsetUpdate, NackClearsInflight, IndInv, QueueOrdered, LoopState,
                         PageAccounted, InPage
    <3> QED BY <1>0, <1>15, <3>2, <3>3 DEF Receive, IndInv, AcksHonest
  <2>3. CASE an.kind = "ack" /\ ~nacked /\ HandleAckOffsetUpdate(an.id)
    <3>1. /\ pc = "select" /\ pc' = "fill" /\ pending' \subseteq pending
          /\ inflight' = inflight \ {an.id} /\ nacked' = nacked
          /\ UNCHANGED <<offset, flight, highest, matching, toSend, start, acked>>
      BY <1>15, <2>3 DEF Receive, HandleAckOffsetUpdate, WithoutAcked
    <3>2. an.id \in acked
      BY <2>3 DEF IndInv, AcksHonest
    <3>3. toSend = {} /\ inflight # {}
      BY <3>1 DEF IndInv, LoopState
    <3>4. QueueOrdered' /\ LoopState' /\ AcksHonest'
      BY <3>1, <3>3 DEF IndInv, QueueOrdered, LoopState, AcksHonest, InPage
    <3>5. CASE UNCHANGED polling
      <4>1. OffsetCovered' /\ PageAccounted'
        BY <3>1, <3>2, <3>5 DEF IndInv, OffsetCovered, Covered, PageAccounted, InPage
      <4> QED BY <1>0, <3>1, <3>4, <4>1 DEF IndInv
    <3>6. CASE /\ polling' = an.id /\ an.id > polling
               /\ \A i \in inflight \ {an.id} : i > an.id
      \* every matching event up to the acknowledged one is acknowledged
      <4>1. an.id <= highest
        BY <1>0, <2>1, <3>1, <3>3, <3>6 DEF IndInv, TypeOK, Seqno, QueueOrdered, InPage
      <4>2. \A m \in matching : m > an.id
        <5>1. PICK i \in inflight : TRUE
          BY <3>3
        <5>2. i \in Nat /\ an.id \in Nat /\ i >= an.id
          <6>1. i \in Nat /\ an.id \in Nat
            BY <1>0, <2>1, <5>1 DEF TypeOK, Seqno
          <6>2. i = an.id \/ i > an.id
            BY <3>6, <5>1
          <6> QED BY <6>1, <6>2
        <5>3. \A m \in matching : m \in Nat
          BY <1>0 DEF TypeOK, Seqno
        <5>4. \A m \in matching : i < m
          BY <3>1, <5>1 DEF IndInv, QueueOrdered, InPage
        <5> QED BY <5>2, <5>3, <5>4
      <4>3. ASSUME NEW e \in Matches, start < e, e <= an.id PROVE e \in acked
        <5>0. e \in Nat /\ polling \in Nat /\ highest \in Nat /\ an.id \in Nat
          BY <1>0, <2>1, DispatcherAssumption DEF TypeOK, Seqno
        <5>1. CASE e <= polling
          BY <4>3, <5>1 DEF IndInv, OffsetCovered, Covered
        <5>2. CASE polling < e
          <6>1. e \in matching \cup toSend \cup inflight \cup acked
            BY <2>3, <3>1, <4>1, <4>3, <5>0, <5>2 DEF IndInv, PageAccounted, InPage
          <6>2. e \notin matching /\ e \notin inflight \ {an.id}
            BY <3>6, <4>2, <4>3, <5>0
          <6> QED BY <3>2, <3>3, <6>1, <6>2
        <5> QED BY <5>0, <5>1, <5>2
      <4>4. OffsetCovered'
        BY <3>1, <3>6, <4>3 DEF IndInv, OffsetCovered, Covered
      <4>5. PageAccounted'
        BY <1>0, <2>1, <3>1, <3>2, <3>6, DispatcherAssumption
           DEF IndInv, TypeOK, Seqno, PageAccounted, InPage
      <4> QED BY <1>0, <3>1, <3>4, <4>4, <4>5 DEF IndInv
    <3> QED BY <2>3, <3>5, <3>6 DEF HandleAckOffsetUpdate, WithoutAcked, WasLowestInflight, CommitOffset
  <2>4. CASE an.kind = "ack" /\ nacked /\ UNCHANGED <<polling, tap, inflight, nacked, lastAck>>
    BY <1>0, <1>15, <2>4
       DEF Receive, IndInv, OffsetCovered, Covered, PageAccounted,
           QueueOrdered, LoopState, AcksHonest, InPage
  <2> QED BY <1>15, <2>2, <2>3, <2>4 DEF Receive
<1>16. ASSUME NEW an \in pending, GiveUp(an) PROVE IndInv'
  BY <1>0, <1>16, IndStutter DEF GiveUp
<1>17. CASE Deliver
  BY <1>0, <1>17, IndStutter DEF Deliver, TakeNext
<1>18. CASE DeliverFail
  BY <1>0, <1>18, IndStutter DEF DeliverFail, TakeNext
<1>19. CASE DelivererNack
  BY <1>0, <1>19, IndStutter DEF DelivererNack, DeliveryResponse
<1>20. CASE DelivererExit
  BY <1>0, <1>20, IndStutter DEF DelivererExit
<1>21. ASSUME NEW r \in Responders, NEW e \in 1..MaxSeq, Ack(r, e) PROVE IndInv'
  BY <1>0, <1>21, IndStutter DEF Ack, DeliveryResponse
<1>22. CASE UNCHANGED vars
  BY <1>0, <1>22, IndStutter DEF vars
<1> QED
  BY <1>1, <1>2, <1>3, <1>4, <1>5, <1>6, <1>7, <1>8, <1>9, <1>10, <1>11, <1>12, <1>13,
     <1>14, <1>15, <1>16, <1>17, <1>18, <1>19, <1>20, <1>21, <1>22 DEF Next

(***************************************************************************)
(* At-least-once delivery, for every filter, read-ahead and page size: the *)
(* offsets of commitOffset, of the offset row and of a late UpdateOffset   *)
(* never pass an unacknowledged event that matches the subscription.       *)
(***************************************************************************)
THEOREM AtLeastOnce == Spec => []OffsetCovered
<1>1. IndInv => OffsetCovered
  BY DEF IndInv
<1> QED BY IndInit, IndStep, <1>1, PTL DEF Spec

-----------------------------------------------------------------------------
(* What is dispatchable but not yet in flight takes its place in the window *)
(* already: the room is computed once per Fill, before the events are marked. *)
WindowInv ==
    /\ IsFiniteSet(matching) /\ IsFiniteSet(toSend) /\ IsFiniteSet(inflight)
    /\ Cardinality(inflight) + Cardinality(toSend) <= 1 + ReadAhead

(* Nothing is in flight at first.                                          *)
LEMMA WindowInit == Init => WindowInv
<1> SUFFICES ASSUME Init PROVE WindowInv
  OBVIOUS
<1>1. IsFiniteSet({}) /\ Cardinality({}) = 0
  BY FS_EmptySet
<1> QED BY <1>1, DispatcherAssumption DEF Init, WindowInv

(* The window only shrinks when nothing is made dispatchable.                *)
LEMMA WindowShrinks ==
    ASSUME WindowInv, matching' \subseteq matching, toSend' \subseteq toSend,
           inflight' \subseteq inflight
    PROVE  WindowInv'
<1>1. /\ IsFiniteSet(matching') /\ IsFiniteSet(toSend') /\ IsFiniteSet(inflight')
      /\ Cardinality(toSend') <= Cardinality(toSend)
      /\ Cardinality(inflight') <= Cardinality(inflight)
  BY FS_Subset DEF WindowInv
<1>2. /\ Cardinality(toSend) \in Nat /\ Cardinality(inflight) \in Nat
      /\ Cardinality(toSend') \in Nat /\ Cardinality(inflight') \in Nat
  BY <1>1, FS_CardinalityType DEF WindowInv
<1> QED BY <1>1, <1>2, DispatcherAssumption DEF WindowInv

(* Every step keeps the window within the read-ahead.                      *)
LEMMA WindowStep == IndInv /\ WindowInv /\ [Next]_vars => WindowInv'
<1> SUFFICES ASSUME IndInv, WindowInv, [Next]_vars PROVE WindowInv'
  OBVIOUS
<1>0. TypeOK
  BY DEF IndInv
<1> USE DEF pageVars, loopVars, dlvVars, boundVars, histVars, offsetVars
<1>c. /\ Cardinality(matching) \in Nat /\ Cardinality(toSend) \in Nat
      /\ Cardinality(inflight) \in Nat
  BY FS_CardinalityType DEF WindowInv
<1>1. CASE Crash \/ \E c \in Conns : PollerExit(c)
  BY <1>1, WindowShrinks DEF Crash, PollerExit, Forget
<1>2. CASE \E c \in Conns : \/ Connect(c) \/ ElectAndStart(c) \/ Close(c)
                            \/ CommitRead(c) \/ CommitWrite(c)
  BY <1>2, WindowShrinks DEF Connect, ElectAndStart, Close, CommitRead, CommitWrite
<1>3. CASE NewEvent \/ Wake \/ Push \/ Drained
  BY <1>3, WindowShrinks DEF NewEvent, Wake, Push, Drained
<1>4. CASE ReadPage
  <2> DEFINE to == IF lastSeq < polling + PageSize THEN lastSeq ELSE polling + PageSize
  <2>0. to \in Int /\ polling + 1 \in Int
    BY <1>0, PageSizeNat DEF TypeOK
  <2>1. /\ matching' = matching \/ matching' = ((polling + 1)..to) \cap Matches
        /\ toSend' = toSend /\ inflight' = inflight
    BY <1>4 DEF ReadPage
  <2>2. IsFiniteSet((polling + 1)..to)
    <3> HIDE DEF to
    <3> QED BY <2>0, FS_Interval
  <2>3. IsFiniteSet(((polling + 1)..to) \cap Matches)
    <3>1. ((polling + 1)..to) \cap Matches \subseteq (polling + 1)..to
      OBVIOUS
    <3> QED BY <2>2, <3>1, FS_Subset
  <2> QED BY <2>1, <2>3 DEF WindowInv
<1>5. CASE Fill
  <2>1. PICK D \in SUBSET matching :
          /\ IF MaxDispatch >= Cardinality(matching)
             THEN D = matching
             ELSE Cardinality(D) = IF MaxDispatch > 0 THEN MaxDispatch ELSE 0
          /\ toSend' = D
          /\ matching' = matching \ D
    BY <1>5 DEF Fill
  <2>2. inflight' = inflight /\ toSend = {}
    BY <1>5 DEF Fill, IndInv, LoopState
  <2>3. IsFiniteSet(D) /\ IsFiniteSet(matching \ D)
    BY FS_Subset DEF WindowInv
  <2>4. Cardinality(inflight) <= 1 + ReadAhead
    <3>1. Cardinality(toSend) = 0
      BY <2>2, FS_EmptySet
    <3> QED BY <1>c, <3>1 DEF WindowInv
  <2>5. Cardinality(inflight) + Cardinality(D) <= 1 + ReadAhead
    BY <1>c, <2>1, <2>4, DispatcherAssumption DEF MaxDispatch
  <2> QED BY <2>1, <2>2, <2>3, <2>5 DEF WindowInv
<1>6. CASE MarkInflight
  <2>1. PICK e \in toSend : /\ inflight' = inflight \cup {e}
                            /\ toSend' = toSend \ {e}
                            /\ matching' = matching
    BY <1>6 DEF MarkInflight
  <2>2. IsFiniteSet(toSend') /\ Cardinality(toSend') = Cardinality(toSend) - 1
    BY <2>1, FS_RemoveElement DEF WindowInv
  <2>3. IsFiniteSet(inflight') /\ Cardinality(inflight') <= Cardinality(inflight) + 1
    <3>1. /\ IsFiniteSet(inflight \cup {e})
          /\ Cardinality(inflight \cup {e}) =
                IF e \in inflight THEN Cardinality(inflight) ELSE Cardinality(inflight) + 1
      BY FS_AddElement DEF WindowInv
    <3> QED BY <1>c, <2>1, <3>1
  <2>4. Cardinality(inflight') \in Nat
    BY <2>3, FS_CardinalityType
  <2> QED BY <1>c, <2>1, <2>2, <2>3, <2>4, DispatcherAssumption DEF WindowInv
<1>7. ASSUME NEW an \in pending, Receive(an) \/ GiveUp(an) PROVE WindowInv'
  BY <1>7, WindowShrinks
     DEF Receive, GiveUp, HandleNackOffsetUpdate, NackClearsInflight, HandleAckOffsetUpdate,
         WithoutAcked
<1>8. CASE \/ Deliver \/ DeliverFail \/ DelivererNack \/ DelivererExit
           \/ \E r \in Responders, e \in 1..MaxSeq : Ack(r, e)
  BY <1>8, WindowShrinks DEF Deliver, DeliverFail, TakeNext, DelivererNack, DelivererExit, Ack
<1>9. CASE UNCHANGED vars
  BY <1>9, WindowShrinks DEF vars
<1> QED BY <1>1, <1>2, <1>3, <1>4, <1>5, <1>6, <1>7, <1>8, <1>9 DEF Next

(***************************************************************************)
(* While no delivery has failed, an event that is about to be sent, in the *)
(* channel, held by the application or answered but not yet received is in *)
(* flight, and is in one of these places only, once.                       *)
(***************************************************************************)
Sent(e) == \E j \in 1..Len(delivery) : e \in delivery[j]
Held(e) == e \in 1..MaxSeq /\ client[e] > 0
Answered(e) == \E an \in pending : an.id = e

NoNack == toNack = {} /\ ~nacked /\ \A an \in pending : an.kind = "ack"

Places ==
    /\ \A e \in sending : e \in inflight /\ ~Sent(e) /\ ~Held(e) /\ ~Answered(e)
    /\ \A e \in Seqno : Sent(e) => e \in inflight /\ ~Held(e) /\ ~Answered(e)
    /\ \A e \in 1..MaxSeq : Held(e) => e \in inflight /\ ~Answered(e) /\ client[e] = 1
    /\ \A e \in Seqno : Answered(e) => e \in inflight

OnceEach ==
    /\ \A j, k \in 1..Len(delivery) : \A e \in delivery[j] : e \in delivery[k] => j = k
    /\ \A a, b \in pending : a.id = b.id => a = b

Clean == NoNack /\ Places /\ OnceEach

(* Clean depends on these variables only.                                    *)
LEMMA CleanStutter ==
    ASSUME Clean, UNCHANGED <<toNack, nacked, pending, sending, inflight, delivery, client>>
    PROVE  Clean'
BY DEF Clean, NoNack, Places, OnceEach, Sent, Held, Answered

(* When responses are only given up, nothing is in two places.               *)
LEMMA CleanFewer ==
    ASSUME Clean, pending' \subseteq pending,
           UNCHANGED <<toNack, nacked, sending, inflight, delivery, client>>
    PROVE  Clean'
BY DEF Clean, NoNack, Places, OnceEach, Sent, Held, Answered

(* A dispatcher without memory is in order.                                  *)
LEMMA CleanForget == Forget => Clean'
<1> SUFFICES ASSUME Forget PROVE Clean'
  OBVIOUS
<1>1. /\ toNack' = {} /\ nacked' = FALSE /\ pending' = {} /\ sending' = {} /\ delivery' = <<>>
      /\ \A e \in 1..MaxSeq : client'[e] = 0
  BY DEF Forget
<1>2. 1..Len(delivery') = {}
  BY <1>1
<1> QED BY <1>1, <1>2 DEF Clean, NoNack, Places, OnceEach, Sent, Held, Answered

(* What is taken from the channel is in no other place.                      *)
LEMMA TakenIsApart ==
    ASSUME TypeOK, Clean, delivery # <<>>
    PROVE  /\ Head(delivery) \subseteq Seqno
           /\ Len(Tail(delivery)) \in Nat
           /\ \A j \in 1..Len(Tail(delivery)) :
                 j + 1 \in 1..Len(delivery) /\ Tail(delivery)[j] = delivery[j + 1]
           /\ \A e \in Head(delivery) :
                 /\ e \in inflight /\ Sent(e) /\ e \notin sending /\ ~Held(e) /\ ~Answered(e)
                 /\ \A j \in 1..Len(Tail(delivery)) : e \notin Tail(delivery)[j]
<1>1. PICK n \in Nat : n = Len(delivery)
  BY DEF TypeOK
<1>2. delivery \in Seq(SUBSET Seqno) /\ n > 0 /\ Head(delivery) = delivery[1] /\ 1 \in 1..n
  BY <1>1 DEF TypeOK
<1>3. Len(Tail(delivery)) = n - 1 /\ \A j \in 1..(n - 1) : Tail(delivery)[j] = delivery[j + 1]
  BY <1>1, <1>2
<1>4. \A j \in 1..(n - 1) : j + 1 \in 1..n /\ j + 1 # 1
  BY <1>1
<1>5. Head(delivery) \subseteq Seqno
  BY <1>1, <1>2
<1>6. ASSUME NEW e \in Head(delivery)
      PROVE  /\ e \in inflight /\ Sent(e) /\ e \notin sending /\ ~Held(e) /\ ~Answered(e)
             /\ \A j \in 1..(n - 1) : e \notin Tail(delivery)[j]
  <2>1. Sent(e) /\ e \in Seqno
    BY <1>1, <1>2, <1>5, <1>6 DEF Sent
  <2>2. \A j \in 1..n : e \in delivery[j] => j = 1
    BY <1>1, <1>2, <1>6 DEF Clean, OnceEach
  <2> HIDE DEF Sent, Held, Answered
  <2> QED BY <1>3, <1>4, <2>1, <2>2 DEF Clean, Places
<1> QED BY <1>1, <1>3, <1>4, <1>5, <1>6

(* As long as no delivery has failed, every step keeps it so.              *)
LEMMA CleanStep ==
    ASSUME IndInv, Clean, rejected' = {}, [Next]_vars
    PROVE  Clean'
<1>0. TypeOK
  BY DEF IndInv
<1>m. \A e \in 1..MaxSeq : e \in Seqno
  BY DispatcherAssumption DEF Seqno
<1> USE DEF pageVars, loopVars, dlvVars, boundVars, histVars, offsetVars
<1>1. CASE Crash \/ \E c \in Conns : PollerExit(c)
  BY <1>1, CleanForget DEF Crash, PollerExit
<1>2. CASE \E c \in Conns : \/ Connect(c) \/ ElectAndStart(c) \/ Close(c)
                            \/ CommitRead(c) \/ CommitWrite(c)
  BY <1>2, CleanStutter DEF Connect, ElectAndStart, Close, CommitRead, CommitWrite
<1>3. CASE NewEvent \/ Wake \/ Drained \/ Fill \/ DelivererExit
  BY <1>3, CleanStutter DEF NewEvent, Wake, Drained, Fill, DelivererExit
<1>4. CASE ReadPage
  <2>1. nacked' \in {nacked, FALSE} /\ ~nacked
    BY <1>4 DEF ReadPage, Clean, NoNack
  <2> QED BY <1>0, <1>4, <2>1, CleanStutter DEF ReadPage, TypeOK
<1>5. CASE MarkInflight
  <2>1. PICK e \in toSend : /\ inflight' = inflight \cup {e} /\ sending' = sending \cup {e}
                            /\ UNCHANGED <<toNack, nacked, pending, delivery, client>>
    BY <1>5 DEF MarkInflight
  <2>2. e \notin inflight /\ e \in Seqno
    <3>1. \A i \in inflight : i < e
      BY <1>5 DEF MarkInflight, IndInv, QueueOrdered, InPage
    <3> QED BY <1>0, <3>1 DEF TypeOK, Seqno
  <2>3. /\ \A x \in Seqno : Sent(x)' = Sent(x) /\ Answered(x)' = Answered(x)
        /\ \A x \in 1..MaxSeq : Held(x)' = Held(x)
        /\ Held(e) => e \in 1..MaxSeq
    BY <2>1 DEF Sent, Held, Answered
  <2>4. ~Sent(e) /\ ~Held(e) /\ ~Answered(e)
    <3> HIDE DEF Sent, Held, Answered, Seqno
    <3> QED BY <2>2, <2>3 DEF Clean, Places
  <2>5. Places'
    <3>1. \A x \in sending : x \in Seqno
      BY <1>0 DEF TypeOK
    <3> QED BY <2>1, <2>2, <2>4, <3>1 DEF Clean, Places, Sent, Held, Answered
  <2> QED BY <2>1, <2>5 DEF Clean, NoNack, OnceEach
<1>6. CASE Push
  <2>n. PICK n \in Nat : n = Len(delivery)
    BY <1>0 DEF TypeOK
  <2>1. /\ delivery' = Append(delivery, sending) /\ sending' = {}
        /\ UNCHANGED <<toNack, nacked, pending, inflight, client>>
    BY <1>6 DEF Push
  <2>2. /\ delivery \in Seq(SUBSET Seqno) /\ sending \subseteq Seqno
    BY <1>0 DEF TypeOK
  <2>3. /\ Len(delivery') = n + 1 /\ delivery'[n + 1] = sending
        /\ \A j \in 1..n : delivery'[j] = delivery[j]
        /\ \A j \in 1..(n + 1) : j \in 1..n \/ j = n + 1
    BY <2>1, <2>2, <2>n
  <2>4. \A e \in Seqno : Sent(e)' => Sent(e) \/ e \in sending
    BY <2>3, <2>n DEF Sent
  <2>5. \A e : Held(e)' = Held(e) /\ Answered(e)' = Answered(e)
    BY <2>1 DEF Held, Answered
  <2>6. Places'
    <3> HIDE DEF Sent, Held, Answered
    <3> QED BY <2>1, <2>2, <2>4, <2>5 DEF Clean, Places
  <2>7. OnceEach'
    <3>1. \A j \in 1..n : \A e \in delivery[j] : e \notin sending
      BY <2>n DEF Clean, Places, Sent
    <3>2. \A j, k \in 1..n : \A e \in delivery[j] : e \in delivery[k] => j = k
      BY <2>n DEF Clean, OnceEach
    <3> QED BY <2>1, <2>3, <3>1, <3>2 DEF Clean, OnceEach
  <2> QED BY <2>1, <2>6, <2>7 DEF Clean, NoNack
<1>7. ASSUME NEW an \in pending, Receive(an) PROVE Clean'
  <2>1. /\ pending' = pending \ {an} /\ inflight' = inflight \ {an.id}
        /\ UNCHANGED <<toNack, nacked, sending, delivery, client>>
    BY <1>7 DEF Receive, HandleNackOffsetUpdate, HandleAckOffsetUpdate, WithoutAcked, Clean, NoNack
  <2>2. an.id \in Seqno /\ Answered(an.id) /\ \A b \in pending : b.id \in Seqno
    BY <1>0 DEF TypeOK, Answered
  <2>3. \A b \in pending' : b.id # an.id
    BY <2>1 DEF Clean, OnceEach
  <2>4. \A e : Answered(e)' => Answered(e) /\ e # an.id
    BY <2>1, <2>3 DEF Answered
  <2>5. \A e : Held(e)' = Held(e) /\ Sent(e)' = Sent(e)
    BY <2>1 DEF Held, Sent
  <2>6. Places'
    <3> HIDE DEF Sent, Held, Answered
    <3> QED BY <2>1, <2>2, <2>4, <2>5 DEF Clean, Places
  <2> QED BY <2>1, <2>6 DEF Clean, NoNack, OnceEach
<1>8. ASSUME NEW an \in pending, GiveUp(an) PROVE Clean'
  BY <1>8, CleanFewer DEF GiveUp
<1>9. CASE Deliver \/ DeliverFail
  <2>1. /\ delivery # <<>> /\ delivery' = Tail(delivery)
        /\ UNCHANGED <<nacked, pending, sending, inflight>>
    BY <1>9 DEF Deliver, DeliverFail, TakeNext
  <2>2. DeliverFail => Head(delivery) = {}
    BY DEF DeliverFail
  <2>3. /\ toNack' = {}
        /\ \A e \in 1..MaxSeq : client'[e] = IF e \in Head(delivery) THEN client[e] + 1 ELSE client[e]
    <3>1. \A e \in 1..MaxSeq : client[e] + 0 = client[e]
      BY <1>0 DEF TypeOK
    <3>2. CASE Deliver
      BY <3>1, <3>2 DEF Deliver, Clean, NoNack
    <3>3. CASE DeliverFail
      BY <2>2, <3>3 DEF DeliverFail, Clean, NoNack
    <3> QED BY <1>9, <3>2, <3>3
  <2>4. PICK m \in Nat : m = Len(Tail(delivery))
    BY <1>0, <2>1, TakenIsApart
  <2>5. /\ \A j \in 1..m : j + 1 \in 1..Len(delivery) /\ Tail(delivery)[j] = delivery[j + 1]
        /\ \A e \in Head(delivery) :
                 /\ e \in inflight /\ Sent(e) /\ e \notin sending /\ ~Held(e) /\ ~Answered(e)
                 /\ \A j \in 1..m : e \notin Tail(delivery)[j]
    BY <1>0, <2>1, <2>4, TakenIsApart
  <2>6. \A e : Sent(e)' => Sent(e) /\ e \notin Head(delivery)
    BY <2>1, <2>4, <2>5 DEF Sent
  <2>7. \A e : Answered(e)' = Answered(e)
    BY <2>1 DEF Answered
  <2>8. \A e \in 1..MaxSeq : client[e] \in Nat
    BY <1>0 DEF TypeOK
  <2>9. \A e : Held(e)' => e \in Head(delivery) \/ Held(e)
    BY <2>3 DEF Held
  <2>10. \A e \in 1..MaxSeq : Held(e)' => client'[e] = 1
    <3>1. \A e \in 1..MaxSeq : Held(e) => client[e] = 1
      BY DEF Clean, Places
    <3> QED BY <2>3, <2>5, <2>8, <3>1 DEF Held
  <2>11. Places'
    <3>1. \A e : Held(e) => e \in 1..MaxSeq
      BY DEF Held
    <3>2. \A e \in sending : e \in Seqno
      BY <1>0 DEF TypeOK
    <3> HIDE DEF Sent, Held, Answered, Seqno
    <3> QED BY <1>m, <2>1, <2>5, <2>6, <2>7, <2>9, <2>10, <3>1, <3>2 DEF Clean, Places
  <2>12. OnceEach'
    <3>1. \A j, k \in 1..m : j + 1 = k + 1 => j = k
      OBVIOUS
    <3> QED BY <2>1, <2>4, <2>5, <3>1 DEF Clean, OnceEach
  <2> QED BY <2>1, <2>3, <2>11, <2>12 DEF Clean, NoNack
<1>10. CASE DelivererNack
  BY <1>10 DEF DelivererNack, Clean, NoNack
<1>11. ASSUME NEW r \in Responders, NEW e \in 1..MaxSeq, Ack(r, e) PROVE Clean'
  <2>1. /\ client[e] > 0 /\ client' = [client EXCEPT ![e] = @ - 1]
        /\ UNCHANGED <<toNack, nacked, sending, inflight, delivery>>
        /\ pending' = IF e \in inflight THEN pending \cup {[by |-> r, id |-> e, kind |-> "ack"]}
                                        ELSE pending
    BY <1>11 DEF Ack, DeliveryResponse
  <2>2. Held(e) /\ client[e] = 1 /\ e \in inflight /\ ~Answered(e) /\ e \notin sending /\ ~Sent(e)
    BY <1>m, <2>1 DEF Clean, Places, Held
  <2>3. client \in [1..MaxSeq -> Nat]
    BY <1>0 DEF TypeOK
  <2>4. client'[e] = 0 /\ \A x \in 1..MaxSeq : x # e => client'[x] = client[x]
    BY <2>1, <2>2, <2>3
  <2>5. \A x : Held(x)' => Held(x) /\ x # e
    BY <2>4 DEF Held
  <2>6. \A x : Answered(x)' => Answered(x) \/ x = e
    BY <2>1 DEF Answered
  <2>7. \A x : Sent(x)' = Sent(x)
    BY <2>1 DEF Sent
  <2>8. Places'
    <3>1. \A x \in 1..MaxSeq : Held(x)' => client'[x] = client[x]
      BY <2>4, <2>5
    <3> HIDE DEF Sent, Held, Answered
    <3> QED BY <2>1, <2>2, <2>5, <2>6, <2>7, <3>1 DEF Clean, Places
  <2>9. OnceEach'
    <3>1. \A b \in pending : b.id # e
      BY <2>2 DEF Answered
    <3> QED BY <2>1, <2>2, <3>1 DEF Clean, OnceEach
  <2> QED BY <2>1, <2>8, <2>9 DEF Clean, NoNack
<1>12. CASE UNCHANGED vars
  BY <1>12, CleanStutter DEF vars
<1> QED
  BY <1>1, <1>2, <1>3, <1>4, <1>5, <1>6, <1>7, <1>8, <1>9, <1>10, <1>11, <1>12 DEF Next

(* What was rejected is remembered.                                          *)
LEMMA RejectedGrow == [Next]_vars => rejected \subseteq rejected'
<1> SUFFICES ASSUME [Next]_vars PROVE rejected \subseteq rejected'
  OBVIOUS
<1> USE DEF pageVars, loopVars, dlvVars, boundVars, histVars, offsetVars
<1>1. CASE \E c \in Conns : \/ Connect(c) \/ ElectAndStart(c) \/ Close(c) \/ PollerExit(c)
                            \/ CommitRead(c) \/ CommitWrite(c)
  BY <1>1 DEF Connect, ElectAndStart, Close, PollerExit, CommitRead, CommitWrite
<1>2. CASE \/ NewEvent \/ Crash \/ ReadPage \/ Wake \/ Fill \/ MarkInflight \/ Push \/ Drained
           \/ Deliver \/ DeliverFail \/ DelivererNack \/ DelivererExit
  BY <1>2 DEF NewEvent, Crash, ReadPage, Wake, Fill, MarkInflight, Push, Drained, Deliver,
              DeliverFail, DelivererNack, DelivererExit
<1>3. CASE \/ \E an \in pending : Receive(an) \/ GiveUp(an)
           \/ \E r \in Responders, e \in 1..MaxSeq : Ack(r, e)
  BY <1>3 DEF Receive, GiveUp, Ack
<1>4. CASE UNCHANGED vars
  BY <1>4 DEF vars
<1> QED BY <1>1, <1>2, <1>3, <1>4 DEF Next

BoundedInv == IndInv /\ WindowInv /\ (rejected = {} => Clean)

(***************************************************************************)
(* Back-pressure, for every read-ahead, buffer length and filter: however  *)
(* acks arrive out of order while bufferedDelivery refills its window, no  *)
(* more than 1 + readAhead events are in flight; and until a delivery      *)
(* fails, what the application holds is in flight and held once, so the    *)
(* bound is a bound on the application's backlog too.                      *)
(***************************************************************************)
THEOREM WindowBounded == Spec => []ReadAheadRespected
<1>1. BoundedInv => ReadAheadRespected
  <2> SUFFICES ASSUME BoundedInv PROVE ReadAheadRespected
    OBVIOUS
  <2>1. WindowInv
    BY DEF BoundedInv
  <2>2. Cardinality(inflight) <= 1 + ReadAhead
    <3>1. Cardinality(toSend) \in Nat /\ Cardinality(inflight) \in Nat
      BY <2>1, FS_CardinalityType DEF WindowInv
    <3> QED BY <2>1, <3>1, DispatcherAssumption DEF WindowInv
  <2>3. rejected = {} => \A e \in 1..MaxSeq : client[e] > 0 => e \in inflight /\ client[e] = 1
    BY DEF BoundedInv, Clean, Places, Held
  <2> QED BY <2>2, <2>3 DEF ReadAheadRespected
<1>2. Init => BoundedInv
  <2> SUFFICES ASSUME Init PROVE BoundedInv
    OBVIOUS
  <2>1. /\ toNack = {} /\ nacked = FALSE /\ pending = {} /\ sending = {} /\ delivery = <<>>
        /\ \A e \in 1..MaxSeq : client[e] = 0
    BY DEF Init
  <2>2. 1..Len(delivery) = {}
    BY <2>1
  <2>3. Clean
    BY <2>1, <2>2 DEF Clean, NoNack, Places, OnceEach, Sent, Held, Answered
  <2> QED BY <2>3, IndInit, WindowInit DEF BoundedInv
<1>3. BoundedInv /\ [Next]_vars => BoundedInv'
  BY IndStep, WindowStep, CleanStep, RejectedGrow DEF BoundedInv
<1> QED BY <1>1, <1>2, <1>3, PTL DEF Spec

-----------------------------------------------------------------------------
(***************************************************************************)
(* The pipeline of first deliveries.  An event enters the pipeline in      *)
(* matching and moves through toSend, sending and the channel to the       *)
(* application, or to its rejection; at each stage every earlier matching  *)
(* event is at that stage or further on.  The clause does not depend on    *)
(* acks or nacks: a page read again starts at an offset whose events are   *)
(* all acknowledged.                                                       *)
(***************************************************************************)
Handed == delivered \cup rejected

Before(e, S) == \A f \in Matches : start < f /\ f < e => f \in S

InChannel(n) == {f \in Seqno : \E j \in 1..n : f \in delivery[j]}

Pipeline ==
    /\ \A e \in Handed : Before(e, Handed)
    /\ \A i \in 1..Len(delivery) : \A e \in delivery[i] : Before(e, Handed \cup InChannel(i))
    /\ LET sent == Handed \cup InChannel(Len(delivery)) \cup sending
       IN  /\ \A e \in sending : Before(e, sent)
           /\ \A e \in toSend : Before(e, sent \cup toSend)
           /\ \A e \in matching : Before(e, sent \cup toSend \cup matching)

AnswersDelivered ==
    /\ acked \subseteq delivered
    /\ \A e \in 1..MaxSeq : client[e] > 0 => e \in delivered

(* The application answers only what it was given.                           *)
LEMMA AnswersStep == TypeOK /\ AnswersDelivered /\ [Next]_vars => AnswersDelivered'
<1> SUFFICES ASSUME TypeOK, AnswersDelivered, [Next]_vars PROVE AnswersDelivered'
  OBVIOUS
<1> USE DEF AnswersDelivered, pageVars, loopVars, dlvVars, boundVars, histVars, offsetVars
<1>1. CASE Crash \/ \E c \in Conns : PollerExit(c)
  <2>1. client' = [e \in 1..MaxSeq |-> 0] /\ UNCHANGED <<acked, delivered>>
    BY <1>1 DEF Crash, PollerExit, Forget
  <2> QED BY <2>1
<1>2. CASE \E c \in Conns : \/ Connect(c) \/ ElectAndStart(c) \/ Close(c)
                            \/ CommitRead(c) \/ CommitWrite(c)
  BY <1>2 DEF Connect, ElectAndStart, Close, CommitRead, CommitWrite
<1>3. CASE \/ NewEvent \/ ReadPage \/ Wake \/ Fill \/ MarkInflight \/ Push \/ Drained
           \/ DelivererNack \/ DelivererExit \/ DeliverFail
  BY <1>3 DEF NewEvent, ReadPage, Wake, Fill, MarkInflight, Push, Drained, DelivererNack,
              DelivererExit, DeliverFail, TakeNext
<1>4. ASSUME NEW an \in pending, Receive(an) \/ GiveUp(an) PROVE AnswersDelivered'
  BY <1>4 DEF Receive, GiveUp
<1>5. CASE Deliver
  <2>1. /\ client' = [e \in 1..MaxSeq |-> client[e] + (IF e \in Head(delivery) THEN 1 ELSE 0)]
        /\ delivered' = delivered \cup Head(delivery) /\ acked' = acked
    BY <1>5 DEF Deliver, TakeNext
  <2>2. \A e \in 1..MaxSeq : client[e] \in Nat
    BY DEF TypeOK
  <2> QED BY <2>1, <2>2
<1>6. ASSUME NEW r \in Responders, NEW e \in 1..MaxSeq, Ack(r, e) PROVE AnswersDelivered'
  <2>1. /\ client[e] > 0 /\ client' = [client EXCEPT ![e] = @ - 1]
        /\ acked' = acked \cup {e} /\ delivered' = delivered
    BY <1>6 DEF Ack
  <2>2. client \in [1..MaxSeq -> Nat]
    BY DEF TypeOK
  <2> QED BY <2>1, <2>2
<1>7. CASE UNCHANGED vars
  BY <1>7 DEF vars
<1> QED BY <1>1, <1>2, <1>3, <1>4, <1>5, <1>6, <1>7 DEF Next

(* The pipeline depends on these variables only, and a later start asks less. *)
LEMMA PipelineStutter ==
    ASSUME TypeOK, TypeOK', Pipeline,
           UNCHANGED <<delivered, rejected, delivery, sending, toSend, matching>>,
           start <= start'
    PROVE  Pipeline'
<1>1. start \in Nat /\ start' \in Nat /\ \A f \in Matches : f \in Nat
  BY DispatcherAssumption DEF TypeOK
<1>2. \A f \in Matches : start' < f => start < f
  BY <1>1
<1> HIDE DEF Seqno
<1> QED BY <1>2 DEF Pipeline, Before, InChannel, Handed

(* Every step keeps the events in the order of their sequences.              *)
LEMMA PipelineStep ==
    ASSUME IndInv, TypeOK', AnswersDelivered, Pipeline, [Next]_vars
    PROVE  Pipeline'
<1>0. TypeOK /\ start \in Nat /\ \A f \in Matches : f \in Nat
  BY DispatcherAssumption DEF IndInv, TypeOK
<1> USE DEF pageVars, loopVars, dlvVars, boundVars, histVars, offsetVars
<1>1. CASE Crash \/ \E c \in Conns : PollerExit(c)
  <2>1. /\ delivery' = <<>> /\ sending' = {} /\ toSend' = {} /\ matching' = {}
        /\ UNCHANGED <<delivered, rejected, start>>
    BY <1>1 DEF Crash, PollerExit, Forget
  <2> QED BY <2>1 DEF Pipeline, Before, Handed
<1>2. CASE \E c \in Conns : Connect(c) \/ Close(c) \/ CommitRead(c) \/ CommitWrite(c)
  BY <1>0, <1>2, PipelineStutter DEF Connect, Close, CommitRead, CommitWrite
<1>3. ASSUME NEW c \in Conns, ElectAndStart(c) PROVE Pipeline'
  <2>1. start <= start'
    BY <1>0, <1>3 DEF ElectAndStart, IndInv, TypeOK
  <2> QED BY <1>0, <1>3, <2>1, PipelineStutter DEF ElectAndStart
<1>4. CASE NewEvent \/ Wake \/ Drained \/ DelivererNack \/ DelivererExit
  BY <1>0, <1>4, PipelineStutter DEF NewEvent, Wake, Drained, DelivererNack, DelivererExit
<1>5. ASSUME NEW an \in pending, Receive(an) \/ GiveUp(an) PROVE Pipeline'
  BY <1>0, <1>5, PipelineStutter DEF Receive, GiveUp
<1>6. CASE \E r \in Responders, e \in 1..MaxSeq : Ack(r, e)
  BY <1>0, <1>6, PipelineStutter DEF Ack
<1>7. CASE ReadPage
  <2> DEFINE to == IF lastSeq < polling + PageSize THEN lastSeq ELSE polling + PageSize
  <2>0. to \in Int /\ polling \in Nat
    BY <1>0, PageSizeNat DEF TypeOK
  <2>1. /\ matching' = matching \/ matching' = ((polling + 1)..to) \cap Matches
        /\ UNCHANGED <<delivered, rejected, delivery, sending, toSend, start>>
    BY <1>7 DEF ReadPage
  <2>2. CASE matching' = matching
    BY <1>0, <2>1, <2>2, PipelineStutter
  <2>3. CASE matching' = ((polling + 1)..to) \cap Matches
    <3>1. \A f \in Matches : start < f /\ f <= polling => f \in delivered
      BY DEF IndInv, OffsetCovered, Covered, AnswersDelivered
    <3>2. ASSUME NEW e \in matching', NEW f \in Matches, start < f, f < e
          PROVE  f \in Handed \/ f \in matching'
      <4> HIDE DEF to
      <4> QED BY <1>0, <2>0, <2>3, <3>1, <3>2 DEF Handed
    <3> HIDE DEF Seqno, to
    <3> QED BY <2>1, <3>2 DEF Pipeline, Before, InChannel, Handed
  <2> QED BY <2>1, <2>2, <2>3
<1>8. CASE Fill
  <2>1. PICK D \in SUBSET matching : /\ \A d \in D, m \in matching \ D : d < m
                                     /\ toSend' = D /\ matching' = matching \ D
    BY <1>8 DEF Fill, OldestFirst
  <2>2. toSend = {} /\ UNCHANGED <<delivered, rejected, delivery, sending, start>>
    BY <1>8 DEF Fill, IndInv, LoopState
  <2>3. D \subseteq Nat /\ matching \subseteq Nat
    BY <1>0 DEF TypeOK, Seqno
  <2>4. \A e \in D, f \in matching : f < e => f \in D
    BY <2>1, <2>3
  <2> HIDE DEF Seqno
  <2> QED BY <2>1, <2>2, <2>4 DEF Pipeline, Before, InChannel, Handed
<1>9. CASE MarkInflight
  <2>1. PICK e \in toSend : /\ \A y \in toSend : e <= y
                            /\ sending' = sending \cup {e} /\ toSend' = toSend \ {e}
                            /\ UNCHANGED <<delivered, rejected, delivery, matching, start>>
    BY <1>9 DEF MarkInflight, IsLeast
  <2>2. \A f \in toSend : ~(f < e)
    BY <1>0, <2>1 DEF TypeOK, Seqno
  <2> HIDE DEF Seqno
  <2> QED BY <2>1, <2>2 DEF Pipeline, Before, InChannel, Handed
<1>10. CASE Push
  <2>n. PICK n \in Nat : n = Len(delivery)
    BY <1>0 DEF TypeOK
  <2>1. /\ delivery' = Append(delivery, sending) /\ sending' = {}
        /\ UNCHANGED <<Handed, toSend, matching, start>>
    BY <1>10 DEF Push, Handed
  <2>2. delivery \in Seq(SUBSET Seqno) /\ sending \in SUBSET Seqno /\ n \in Nat
    BY <1>0, <2>n DEF TypeOK
  <2>3. /\ Len(delivery') = n + 1 /\ delivery'[n + 1] = sending
        /\ \A j \in 1..n : delivery'[j] = delivery[j]
    BY <2>1, <2>2, <2>n
  <2>4. ASSUME NEW i \in 0..n PROVE InChannel(i)' = InChannel(i)
    BY <2>2, <2>3 DEF InChannel
  <2>5. InChannel(n + 1)' = InChannel(n) \cup sending
    <3> HIDE DEF Seqno
    <3>1. \A j \in 1..(n + 1) : j \in 1..n \/ j = n + 1
      BY <2>2
    <3>2. 1..n \subseteq 1..(n + 1) /\ n + 1 \in 1..(n + 1)
      BY <2>2
    <3> QED BY <2>2, <2>3, <3>1, <3>2 DEF InChannel
  <2>6. \A i \in 1..(n + 1) : i \in 1..n \/ i = n + 1
    BY <2>2
  <2>7. \A i \in 1..n : i \in 0..n
    BY <2>2
  <2>8. \A i \in 1..(n + 1) : \A e \in delivery'[i] : Before(e, Handed \cup InChannel(i))'
    <3> SUFFICES ASSUME NEW i \in 1..(n + 1), NEW e \in delivery'[i]
                 PROVE  Before(e, Handed \cup InChannel(i))'
      OBVIOUS
    <3>1. CASE i \in 1..n
      <4>1. Before(e, Handed \cup InChannel(i))
        BY <2>3, <2>n, <3>1 DEF Pipeline
      <4> QED BY <2>1, <2>4, <2>7, <3>1, <4>1 DEF Before
    <3>2. CASE i = n + 1
      <4>1. Before(e, Handed \cup InChannel(n) \cup sending)
        BY <2>3, <2>n, <3>2 DEF Pipeline
      <4> QED BY <2>1, <2>5, <3>2, <4>1 DEF Before
    <3> QED BY <2>6, <3>1, <3>2
  <2>9. /\ \A e \in toSend : Before(e, Handed \cup InChannel(n) \cup sending \cup toSend)
        /\ \A e \in matching :
              Before(e, Handed \cup InChannel(n) \cup sending \cup toSend \cup matching)
        /\ \A e \in Handed : Before(e, Handed)
    BY <2>n DEF Pipeline
  <2> QED BY <2>1, <2>3, <2>5, <2>8, <2>9 DEF Pipeline, Before
<1>11. CASE Deliver \/ DeliverFail
  <2>n. PICK n \in Nat : n = Len(delivery)
    BY <1>0 DEF TypeOK
  <2>1. /\ delivery # <<>> /\ delivery' = Tail(delivery)
        /\ Handed' = Handed \cup Head(delivery)
        /\ UNCHANGED <<sending, toSend, matching, start>>
    BY <1>11 DEF Deliver, DeliverFail, TakeNext, Handed
  <2>2. /\ delivery \in Seq(SUBSET Seqno) /\ n \in Nat /\ n > 0
        /\ Head(delivery) = delivery[1]
    BY <1>0, <2>1, <2>n DEF TypeOK
  <2>3. Len(delivery') = n - 1 /\ \A j \in 1..(n - 1) : delivery'[j] = delivery[j + 1]
    BY <2>1, <2>2, <2>n
  <2>4. ASSUME NEW i \in 0..(n - 1)
        PROVE  Handed \cup InChannel(i + 1) \subseteq Handed' \cup InChannel(i)'
    <3> SUFFICES ASSUME NEW f \in Seqno, NEW j \in 1..(i + 1), f \in delivery[j]
                 PROVE  f \in Handed' \cup InChannel(i)'
      BY <2>1 DEF InChannel
    <3>1. CASE j = 1
      BY <2>1, <2>2, <3>1
    <3>2. CASE j # 1
      <4>1. j - 1 \in 1..i /\ j - 1 \in 1..(n - 1) /\ (j - 1) + 1 = j
        BY <2>2, <3>2
      <4>2. f \in delivery'[j - 1]
        BY <2>3, <4>1
      <4> QED BY <4>1, <4>2 DEF InChannel
    <3> QED BY <3>1, <3>2
  <2>5. \A e \in Handed' : Before(e, Handed)'
    <3> SUFFICES ASSUME NEW e \in Handed', NEW f \in Matches, start < f, f < e
                 PROVE  f \in Handed'
      BY <2>1 DEF Before
    <3>1. CASE e \in Handed
      BY <2>1, <3>1 DEF Pipeline, Before
    <3>2. CASE e \in delivery[1]
      <4>1. f \in Handed \cup InChannel(1)
        BY <2>2, <2>n, <3>2 DEF Pipeline, Before
      <4>2. \A j \in 1..1 : j = 1
        OBVIOUS
      <4> QED BY <2>1, <2>2, <4>1, <4>2 DEF InChannel
    <3> QED BY <2>1, <2>2, <3>1, <3>2
  <2>6. \A i \in 1..(n - 1) : \A e \in delivery'[i] : Before(e, Handed \cup InChannel(i))'
    <3> SUFFICES ASSUME NEW i \in 1..(n - 1), NEW e \in delivery'[i],
                        NEW f \in Matches, start < f, f < e
                 PROVE  f \in Handed' \cup InChannel(i)'
      BY <2>1 DEF Before
    <3>1. e \in delivery[i + 1] /\ i + 1 \in 1..n /\ i \in 0..(n - 1)
      BY <2>2, <2>3
    <3>2. f \in Handed \cup InChannel(i + 1)
      BY <2>n, <3>1 DEF Pipeline, Before
    <3> QED BY <2>4, <3>1, <3>2
  <2>7. Handed \cup InChannel(n) \subseteq Handed' \cup InChannel(n - 1)'
    <3>1. n - 1 \in 0..(n - 1) /\ (n - 1) + 1 = n
      BY <2>2
    <3> QED BY <2>4, <3>1
  <2>8. /\ \A e \in sending : Before(e, Handed \cup InChannel(n) \cup sending)
        /\ \A e \in toSend : Before(e, Handed \cup InChannel(n) \cup sending \cup toSend)
        /\ \A e \in matching :
              Before(e, Handed \cup InChannel(n) \cup sending \cup toSend \cup matching)
    BY <2>n DEF Pipeline
  <2>9. /\ \A e \in sending' : Before(e, Handed \cup InChannel(n - 1) \cup sending)'
        /\ \A e \in toSend' :
              Before(e, Handed \cup InChannel(n - 1) \cup sending \cup toSend)'
        /\ \A e \in matching' :
              Before(e, Handed \cup InChannel(n - 1) \cup sending \cup toSend \cup matching)'
    BY <2>1, <2>7, <2>8 DEF Before
  <2> QED BY <2>3, <2>5, <2>6, <2>9 DEF Pipeline
<1>12. CASE UNCHANGED vars
  BY <1>0, <1>12, PipelineStutter DEF vars
<1> QED
  BY <1>1, <1>2, <1>3, <1>4, <1>5, <1>6, <1>7, <1>8, <1>9, <1>10, <1>11, <1>12
     DEF Next

PipelineInv == IndInv /\ AnswersDelivered /\ Pipeline

(***************************************************************************)
(* First deliveries are in order: an event is given to the application     *)
(* only when each earlier matching event has been given to it or rejected. *)
(* Page boundaries, the read-ahead, acks out of order, nacks and the pages *)
(* read again after them, closes, a change of leader and crashes of the    *)
(* node change nothing, for every filter, read-ahead and page size,        *)
(* batched or not.                                                         *)
(***************************************************************************)
THEOREM FirstDeliveries == Spec => []FirstDeliveryInOrder
<1>1. Init => PipelineInv
  <2> SUFFICES ASSUME Init PROVE PipelineInv
    OBVIOUS
  <2>1. /\ delivery = <<>> /\ sending = {} /\ toSend = {} /\ matching = {}
        /\ delivered = {} /\ rejected = {} /\ acked = {} /\ client = [e \in 1..MaxSeq |-> 0]
    BY DEF Init
  <2>2. Pipeline
    BY <2>1 DEF Pipeline, Handed
  <2>3. AnswersDelivered
    BY <2>1 DEF AnswersDelivered
  <2> QED BY <2>2, <2>3, IndInit DEF PipelineInv
<1>2. PipelineInv /\ [Next]_vars => PipelineInv'
  BY IndStep, AnswersStep, TypeStep, PipelineStep DEF PipelineInv, IndInv
<1>3. PipelineInv => FirstDeliveryInOrder
  BY DEF PipelineInv, Pipeline, Before, FirstDeliveryInOrder, Handed
<1> QED BY <1>1, <1>2, <1>3, PTL DEF Spec
=============================================================================
