------------------------ MODULE BatchManagerProofs ------------------------
(***************************************************************************)
(* Proofs about BatchManager for any messages, processors and limits: the  *)
(* type invariant, that a running process sends no message twice, and the  *)
(* pins and the order of what is sent.  The inductive invariant follows a  *)
(* message from the page to the chain.                                     *)
(***************************************************************************)
EXTENDS BatchManager, FiniteSetTheorems, WellFoundedInduction, TLAPS

(* Channels are appended to at the end and read from the front *)
LEMMA AppendRange ==
  ASSUME NEW S, NEW s \in Seq(S), NEW x \in S
  PROVE  /\ Append(s, x) \in Seq(S)
         /\ \A i \in DOMAIN Append(s, x) : Append(s, x)[i] = x \/ \E j \in DOMAIN s : Append(s, x)[i] = s[j]
OBVIOUS

(* A sequence without repetition stays one when a new element is added at  *)
(* its end.                                                                *)
LEMMA AppendInjective ==
  ASSUME NEW S, NEW s \in Seq(S), NEW x \in S,
         \A i, j \in DOMAIN s : s[i] = s[j] => i = j,
         \A i \in DOMAIN s : s[i] # x
  PROVE  \A i, j \in DOMAIN Append(s, x) : Append(s, x)[i] = Append(s, x)[j] => i = j
OBVIOUS

(* The head and the tail of a sequence hold its elements.                  *)
LEMMA TailRange ==
  ASSUME NEW S, NEW s \in Seq(S), s # <<>>
  PROVE  /\ Head(s) \in S /\ Tail(s) \in Seq(S)
         /\ \E j \in DOMAIN s : Head(s) = s[j]
         /\ \A i \in DOMAIN Tail(s) : i + 1 \in DOMAIN s /\ Tail(s)[i] = s[i + 1]
OBVIOUS

(* The tail of a sequence without repetition has none, and lacks the head. *)
LEMMA TailInjective ==
  ASSUME NEW S, NEW s \in Seq(S), s # <<>>,
         \A i, j \in DOMAIN s : s[i] = s[j] => i = j
  PROVE  /\ \A i, j \in DOMAIN Tail(s) : Tail(s)[i] = Tail(s)[j] => i = j
         /\ \A i \in DOMAIN Tail(s) : Tail(s)[i] # Head(s)
OBVIOUS

(* A set of messages can be counted.                                       *)
LEMMA CardinalityNat == ASSUME NEW S, S \subseteq Messages PROVE Cardinality(S) \in Nat
<1>1. MaxSeq \in Int /\ 1 \in Int BY BatchConstants
<1>2. IsFiniteSet(Messages) BY <1>1, FS_Interval DEF Messages
<1>3. IsFiniteSet(S) BY <1>2, FS_Subset
<1> QED BY <1>3, FS_CardinalityType

---------------------------------------------------------------------------
(* Type correctness *)

(* The initial state is well typed.                                        *)
LEMMA TypeInit == Init => TypeOK
BY BatchConstants DEF Init, TypeOK, StoredType, SequencerType, ProcessorType, Steps, Messages

(* Every step leaves what is stored and sent well typed.                   *)
LEMMA TypeStored ==
  ASSUME TypeOK, [Next]_vars PROVE StoredType'
<1> USE DEF StoredType
<1>0. TypeOK => StoredType /\ SequencerType /\ ProcessorType BY DEF TypeOK
<1>1. ASSUME NEW m \in Messages, commitMessage(m) PROVE StoredType'
  BY <1>0, <1>1 DEF commitMessage, bounds
<1>2. ASSUME NEW p \in Procs, sealBatch(p) PROVE StoredType'
  <2>1. nonces' \in [Contexts -> Nat]
    <3>1. \A c \in Contexts : LatestDrawn(p, c) # {} => (CHOOSE m \in LatestDrawn(p, c) : TRUE) \in Messages
      BY DEF LatestDrawn, Drawn
    <3> QED BY <1>0, <1>2, <3>1 DEF sealBatch, NoncesWritten, ProcessorType
  <2>2. pins' \in [Messages -> Nat] BY <1>0, <1>2 DEF sealBatch, ProcessorType
  <2> QED BY <1>0, <1>2, <2>1, <2>2 DEF sealBatch, bounds
<1>3. ASSUME NEW p \in Procs, dispatchBatch(p) PROVE StoredType'
  <2>1. flushing[p] \subseteq Messages /\ PayloadPins(p) \subseteq Messages /\ crashes \in Nat
    BY <1>0 DEF ProcessorType, PayloadPins, Drawn
  <2> QED BY <1>0, <1>3, <2>1 DEF dispatchBatch, bounds
<1>4. ASSUME NEW p \in Procs, markPayloadDispatched(p) PROVE StoredType'
  BY <1>0, <1>4 DEF markPayloadDispatched, bounds, ProcessorType
<1>5. ASSUME NEW p \in Procs, retrySeal(p) PROVE StoredType'
  BY <1>0, <1>5 DEF retrySeal, stored
<1>6. CASE restart BY <1>0, <1>6 DEF restart, stored
<1>7. ASSUME UNCHANGED <<stored, bounds>> PROVE StoredType'
  BY <1>0, <1>7 DEF stored, bounds
<1>8. ASSUME NEW m \in Messages, newMessageNotification(m) \/ dispatchMessage(m) \/ skipMessage(m)
      PROVE  UNCHANGED <<stored, bounds>>
  BY <1>8 DEF newMessageNotification, dispatchMessage, skipMessage
<1>9. ASSUME reapQuiescing \/ readPage \/ filterFlushed \/ waitForNewMessages \/ UNCHANGED vars
      PROVE  UNCHANGED <<stored, bounds>>
  BY <1>9 DEF reapQuiescing, readPage, filterFlushed, waitForNewMessages, vars
<1>10. ASSUME NEW p \in Procs, \/ addWork(p) \/ flushQueue(p) \/ startQuiesce(p) \/ processorDone(p)
                               \/ calculateContexts(p) \/ notifyFlushComplete(p)
       PROVE  UNCHANGED <<stored, bounds>>
  BY <1>10 DEF addWork, flushQueue, startQuiesce, processorDone, calculateContexts, notifyFlushComplete
<1> QED BY <1>1, <1>2, <1>3, <1>4, <1>5, <1>6, <1>7, <1>8, <1>9, <1>10 DEF Next, messageSequencer, flush

(* Every step leaves the sequencer well typed.                             *)
LEMMA TypeSequencer ==
  ASSUME TypeOK, [Next]_vars PROVE SequencerType'
<1> USE DEF SequencerType
<1>0. TypeOK => StoredType /\ SequencerType /\ ProcessorType BY DEF TypeOK
<1>1. ASSUME NEW m \in Messages, commitMessage(m) PROVE SequencerType'
  BY <1>0, <1>1 DEF commitMessage, sequencer
<1>2. ASSUME NEW m \in Messages, newMessageNotification(m) PROVE SequencerType'
  BY <1>0, <1>2, BatchConstants DEF newMessageNotification, sequencer, LowestRewind, Messages
<1>3. CASE reapQuiescing BY <1>0, <1>3 DEF reapQuiescing
<1>4. CASE readPage
  <2>1. readOffset' \in 0..MaxSeq /\ rewindOffset' \in -1..MaxSeq
    BY <1>0, <1>4, BatchConstants DEF readPage, popRewind, RewoundOffset
  <2>2. page' \subseteq Messages
    BY <1>0, <1>4 DEF readPage, FirstPage, ReadyAfter, Committed, StoredType
  <2> QED BY <1>0, <1>4, <2>1, <2>2 DEF readPage
<1>5. CASE filterFlushed BY <1>0, <1>5 DEF filterFlushed, Unflushed
<1>6. CASE waitForNewMessages BY <1>0, <1>6 DEF waitForNewMessages
<1>7. ASSUME NEW m \in Messages, dispatchMessage(m) PROVE SequencerType'
  <2>1. readOffset' \in 0..MaxSeq
    BY <1>0, <1>7, BatchConstants DEF dispatchMessage, entryDone, Messages
  <2>2. page' \subseteq page /\ inflight' = inflight \cup {m}
    BY <1>7 DEF dispatchMessage, entryDone
  <2>3. UNCHANGED <<notices, rewindOffset, pc, fullPage, lastPageFull, flushed, quiescing, reaped>>
    BY <1>7 DEF dispatchMessage, entryDone
  <2> QED BY <1>0, <2>1, <2>2, <2>3
<1>8. ASSUME NEW m \in Messages, skipMessage(m) PROVE SequencerType'
  BY <1>0, <1>8, BatchConstants DEF skipMessage, entryDone, Messages
<1>9. ASSUME NEW p \in Procs, startQuiesce(p) PROVE SequencerType'
  BY <1>0, <1>9 DEF startQuiesce, sequencer
<1>10. ASSUME NEW p \in Procs, processorDone(p) PROVE SequencerType'
  BY <1>0, <1>10 DEF processorDone, sequencer
<1>11. ASSUME NEW p \in Procs, notifyFlushComplete(p) PROVE SequencerType'
  BY <1>0, <1>11 DEF notifyFlushComplete, sequencer, ProcessorType
<1>12. CASE restart BY <1>12, BatchConstants DEF restart, NewProcess
<1>13. ASSUME UNCHANGED <<notices, sequencer, rewindOffset, inflight, flushed, quiescing, reaped>>
       PROVE  SequencerType'
  BY <1>0, <1>13 DEF sequencer
<1>14. ASSUME NEW p \in Procs, \/ addWork(p) \/ flushQueue(p) \/ calculateContexts(p) \/ sealBatch(p)
                               \/ retrySeal(p) \/ dispatchBatch(p) \/ markPayloadDispatched(p)
       PROVE  UNCHANGED <<notices, sequencer, rewindOffset, inflight, flushed, quiescing, reaped>>
  BY <1>14 DEF addWork, flushQueue, calculateContexts, sealBatch, retrySeal, dispatchBatch,
               markPayloadDispatched
<1>15. CASE UNCHANGED vars BY <1>13, <1>15 DEF vars
<1> QED BY <1>1, <1>2, <1>3, <1>4, <1>5, <1>6, <1>7, <1>8, <1>9, <1>10, <1>11, <1>12, <1>13, <1>14, <1>15
        DEF Next, messageSequencer, flush

(* Every step leaves the processors well typed.                            *)
LEMMA TypeProcessor ==
  ASSUME TypeOK, [Next]_vars PROVE ProcessorType'
<1> USE DEF ProcessorType, Steps
<1>0. TypeOK => StoredType /\ SequencerType /\ ProcessorType BY DEF TypeOK
<1>1. ASSUME NEW m \in Messages, dispatchMessage(m) PROVE ProcessorType'
  BY <1>0, <1>1, BatchConstants DEF dispatchMessage, getProcessor
<1>2. ASSUME NEW p \in Procs, NEW batch \in SUBSET Messages, NEW over \in SUBSET Messages,
             startFlush(p, batch, over), UNCHANGED drawn, newWork' \in [Procs -> Seq(Messages)]
      PROVE  ProcessorType'
  BY <1>0, <1>2 DEF startFlush
<1>3. ASSUME NEW p \in Procs, addWork(p) PROVE ProcessorType'
  <2> DEFINE m == Head(newWork[p])
             q == queue[p] \cup {m}
  <2>1. m \in Messages /\ q \subseteq Messages /\ queue[p] \subseteq Messages
        /\ newWork' \in [Procs -> Seq(Messages)] /\ UNCHANGED drawn
    BY <1>0, <1>3, TailRange DEF addWork
  <2>2. Overflow(q) \subseteq q BY DEF Overflow
  <2>3. CASE \E batch, over \in SUBSET Messages : startFlush(p, batch, over)
    BY <2>1, <2>3, <1>2
  <2>4. CASE /\ queue' = [queue EXCEPT ![p] = q]
             /\ queueBytes' = [queueBytes EXCEPT ![p] = queueBytes[p] + SizeOf[m]]
             /\ UNCHANGED <<flushing, step>>
    <3>1. queueBytes[p] + SizeOf[m] \in Nat
      <4>1. queueBytes[p] \in Nat BY <1>0
      <4>2. SizeOf[m] \in Nat BY <2>1, BatchConstants
      <4> HIDE DEF ProcessorType, m
      <4> QED BY <4>1, <4>2
    <3>2. queue' \in [Procs -> SUBSET Messages] BY <1>0, <2>1, <2>4
    <3>3. queueBytes' \in [Procs -> Nat] BY <1>0, <2>4, <3>1
    <3> QED BY <1>0, <2>1, <2>4, <3>2, <3>3
  <2>5. \/ startFlush(p, q, {}) \/ startFlush(p, queue[p], {m})
        \/ startFlush(p, q \ Overflow(q), Overflow(q))
        \/ /\ queue' = [queue EXCEPT ![p] = q]
           /\ queueBytes' = [queueBytes EXCEPT ![p] = queueBytes[p] + SizeOf[m]]
           /\ UNCHANGED <<flushing, step>>
    BY <1>3, Zenon DEF addWork
  <2> QED BY <2>1, <2>2, <2>3, <2>4, <2>5
<1>4. ASSUME NEW p \in Procs, flushQueue(p) PROVE ProcessorType'
  <2>1. queue[p] \in SUBSET Messages /\ {} \in SUBSET Messages BY <1>0
  <2>2. startFlush(p, queue[p], {}) /\ UNCHANGED drawn /\ UNCHANGED newWork BY <1>4 DEF flushQueue
  <2>3. newWork' \in [Procs -> Seq(Messages)] BY <1>0, <2>2
  <2> HIDE DEF ProcessorType, Steps
  <2> QED BY <1>2, <2>1, <2>2, <2>3, Zenon
<1>5. ASSUME NEW p \in Procs, processorDone(p) PROVE ProcessorType'
  BY <1>0, <1>5 DEF processorDone, assembly
<1>6. ASSUME NEW p \in Procs, calculateContexts(p) PROVE ProcessorType'
  <2>1. \A m \in ToPin(p) : NextNonce(p, m) \in Nat
    <3> SUFFICES ASSUME NEW m \in ToPin(p) PROVE NextNonce(p, m) \in Nat
      OBVIOUS
    <3>1. ContextOf[m] \in Contexts
      BY <1>0, BatchConstants DEF ToPin, Private
    <3>2. Cardinality({k \in ToPin(p) : ContextOf[k] = ContextOf[m] /\ k <= m}) \in Nat
      BY <1>0, CardinalityNat DEF ToPin
    <3> QED BY <1>0, <3>1, <3>2 DEF NextNonce, StoredType
  <2> QED BY <1>0, <1>6, <2>1 DEF calculateContexts, assembly
<1>7. ASSUME NEW p \in Procs, sealBatch(p) \/ markPayloadDispatched(p) PROVE ProcessorType'
  BY <1>0, <1>7 DEF sealBatch, markPayloadDispatched, assembly
<1>8. ASSUME NEW p \in Procs, retrySeal(p) \/ dispatchBatch(p) PROVE ProcessorType'
  <2>1. [m \in Messages |-> 0] \in [Messages -> Nat] OBVIOUS
  <2>2. drawn' = [drawn EXCEPT ![p] = [m \in Messages |-> 0]] BY <1>8 DEF retrySeal, dispatchBatch
  <2>3. drawn' \in [Procs -> [Messages -> Nat]] BY <1>0, <2>1, <2>2
  <2> HIDE DEF ProcessorType
  <2>4. /\ step' \in [Procs -> Steps]
        /\ UNCHANGED <<assembly, flushing>>
    BY <1>0, <1>8 DEF retrySeal, dispatchBatch, ProcessorType
  <2> QED BY <1>0, <2>3, <2>4 DEF assembly, ProcessorType
<1>9. ASSUME NEW p \in Procs, notifyFlushComplete(p) PROVE ProcessorType'
  BY <1>0, <1>9 DEF notifyFlushComplete, assembly
<1>10. CASE restart BY <1>10 DEF restart, NewProcess
<1>11. ASSUME UNCHANGED <<step, assembly, flushing, drawn>> PROVE ProcessorType'
  BY <1>0, <1>11 DEF assembly
<1>12. ASSUME NEW m \in Messages, commitMessage(m) \/ newMessageNotification(m) \/ skipMessage(m)
       PROVE  UNCHANGED <<step, assembly, flushing, drawn>>
  BY <1>12 DEF commitMessage, newMessageNotification, skipMessage
<1>13. ASSUME reapQuiescing \/ readPage \/ filterFlushed \/ waitForNewMessages \/ UNCHANGED vars
       PROVE  UNCHANGED <<step, assembly, flushing, drawn>>
  BY <1>13 DEF reapQuiescing, readPage, filterFlushed, waitForNewMessages, vars
<1>14. ASSUME NEW p \in Procs, startQuiesce(p) PROVE UNCHANGED <<step, assembly, flushing, drawn>>
  BY <1>14 DEF startQuiesce
<1> QED BY <1>1, <1>3, <1>4, <1>5, <1>6, <1>7, <1>8, <1>9, <1>10, <1>11, <1>12, <1>13, <1>14
        DEF Next, messageSequencer, flush

(* Every step leaves the state well typed.                                 *)
LEMMA TypeStep == TypeOK /\ [Next]_vars => TypeOK'
BY TypeStored, TypeSequencer, TypeProcessor DEF TypeOK

(* The state of the sequencer and of every processor is well typed in each *)
(* reachable state; in particular nonces and byte counts stay natural.     *)
THEOREM TypeCorrect == Spec => []TypeOK
BY TypeInit, TypeStep, PTL DEF Spec

---------------------------------------------------------------------------
(* No message is sent twice by a running process *)

(* Nothing has been read or sent in the initial state.                     *)
LEMMA IndInit == Init => IndInv
<1> SUFFICES ASSUME Init PROVE IndInv OBVIOUS
<1>1. TypeOK BY TypeInit
<1>2. DOMAIN chain = {} /\ page = {} /\ flushed = {} BY DEF Init
<1>3. \A p \in Procs : DOMAIN newWork[p] = {} /\ queue[p] = {} /\ flushing[p] = {} BY DEF Init
<1>4. \A p \in Procs : Work(p) = {} BY <1>3 DEF Work
<1>5. BusyInflight BY <1>2, <1>3, <1>4 DEF BusyInflight
<1>6. OnePlace BY <1>3, <1>4 DEF OnePlace
<1>7. SentTracked /\ WorkUnsent /\ RunsPast /\ SentOnce /\ PageFresh
  BY <1>2, <1>3, <1>4 DEF SentTracked, WorkUnsent, RunsPast, SentOnce, PageFresh, Sent
<1> QED BY <1>1, <1>5, <1>6, <1>7 DEF IndInv

(* What was sent was sent by a run of the process.                         *)
LEMMA ChainRuns == TypeOK => \A i \in DOMAIN chain : chain[i].run \in Nat
<1> SUFFICES ASSUME TypeOK, NEW i \in DOMAIN chain PROVE chain[i].run \in Nat OBVIOUS
<1> DEFINE R == [proc : Procs, run : Nat, msgs : SUBSET Messages, pinned : SUBSET Messages]
<1>1. chain \in Seq(R) BY DEF TypeOK, StoredType
<1>2. chain[i] \in R
  <2> HIDE DEF R
  <2> QED BY <1>1
<1> QED BY <1>2

(* Facts about the chain survive a step that neither sends nor restarts *)
LEMMA ChainKept ==
  ASSUME UNCHANGED <<chain, crashes>>
  PROVE  /\ \A m \in Messages : Sent(m)' <=> Sent(m)
         /\ SentOnce => SentOnce'
         /\ RunsPast => RunsPast'
BY DEF Sent, SentOnce, RunsPast

(* A step of the sequencer that hands nothing over *)
LEMMA PlacesKept ==
  ASSUME IndInv, UNCHANGED <<chain, crashes, marked, inflight, flushed, step, newWork, queue, flushing>>
  PROVE  BusyInflight' /\ OnePlace' /\ SentTracked' /\ WorkUnsent' /\ RunsPast' /\ SentOnce'
<1>1. \A p \in Procs : Work(p)' = Work(p) BY DEF Work
<1>2. BusyInflight' BY <1>1 DEF IndInv, BusyInflight
<1>3. OnePlace' BY <1>1 DEF IndInv, OnePlace
<1>4. SentTracked' BY ChainKept DEF IndInv, SentTracked
<1>5. WorkUnsent' BY <1>1 DEF IndInv, WorkUnsent, Sent
<1> QED BY <1>2, <1>3, <1>4, <1>5, ChainKept DEF IndInv

(* A step of one processor between two stages of its loop or its flush *)
LEMMA StageChanged ==
  ASSUME IndInv, NEW p \in Procs, NEW s \in Steps,
         step' = [step EXCEPT ![p] = s],
         \/ step[p] = "loop" /\ s = "none"
         \/ step[p] \in {"seal", "write"} /\ s \in {"seal", "write", "dispatch"},
         UNCHANGED <<chain, crashes, marked, inflight, flushed, newWork, queue, flushing, page, pc>>
  PROVE  BusyInflight' /\ OnePlace' /\ SentTracked' /\ PageFresh' /\ WorkUnsent' /\ RunsPast' /\ SentOnce'
<1>1. \A q \in Procs : Work(q)' = Work(q) BY DEF Work
<1>2. \A q \in Procs : step'[q] = IF q = p THEN s ELSE step[q]
  BY DEF IndInv, TypeOK, ProcessorType
<1>3. BusyInflight' BY <1>1 DEF IndInv, BusyInflight
<1>4. OnePlace' BY <1>1, <1>2 DEF IndInv, OnePlace
<1>5. SentTracked' BY <1>2, ChainKept DEF IndInv, SentTracked
<1>6. PageFresh' BY ChainKept DEF IndInv, PageFresh, TypeOK, SequencerType
<1>7. WorkUnsent' BY <1>1, <1>2 DEF IndInv, WorkUnsent, Sent
<1> QED BY <1>3, <1>4, <1>5, <1>6, <1>7, ChainKept DEF IndInv

(* Work moves within one processor: from the channel to the queue, or from *)
(* the queue to the batch that is flushed.                                 *)
LEMMA WorkMoved ==
  ASSUME IndInv, TypeOK', NEW p \in Procs,
         step[p] = "loop",
         step'[p] = "seal" \/ (step'[p] = "loop" /\ flushing'[p] = {}),
         \A q \in Procs \ {p} : /\ step'[q] = step[q] /\ newWork'[q] = newWork[q]
                                /\ queue'[q] = queue[q] /\ flushing'[q] = flushing[q],
         \A m \in Work(p)' : m \in Work(p) /\ m \notin queue'[p] /\ m \notin flushing'[p],
         \A m \in queue'[p] : m \in Work(p) \cup queue[p] /\ m \notin flushing'[p],
         \A m \in flushing'[p] : m \in Work(p) \cup queue[p],
         \A i, j \in DOMAIN newWork'[p] : newWork'[p][i] = newWork'[p][j] => i = j,
         UNCHANGED <<chain, crashes, marked, inflight, flushed, page, pc>>
  PROVE  BusyInflight' /\ OnePlace' /\ SentTracked' /\ PageFresh' /\ WorkUnsent' /\ RunsPast' /\ SentOnce'
<1>1. \A q \in Procs \ {p} : Work(q)' = Work(q) BY DEF Work
<1>2. BusyInflight' BY <1>1 DEF IndInv, BusyInflight
<1>3. OnePlace' BY <1>1 DEF IndInv, OnePlace
<1>4. flushing[p] = {} BY DEF IndInv, OnePlace
<1>5. SentTracked' BY <1>4, ChainKept DEF IndInv, SentTracked
<1>6. PageFresh' BY ChainKept DEF IndInv, PageFresh, TypeOK, SequencerType
<1>7. WorkUnsent' BY <1>1 DEF IndInv, WorkUnsent, Sent
<1> QED BY <1>2, <1>3, <1>5, <1>6, <1>7, ChainKept DEF IndInv

(* A message leaves the channel for the queue, or starts a flush.          *)
LEMMA AddWorkStep ==
  ASSUME IndInv, TypeOK', NEW p \in Procs, addWork(p)
  PROVE  BusyInflight' /\ OnePlace' /\ SentTracked' /\ PageFresh' /\ WorkUnsent' /\ RunsPast' /\ SentOnce'
<1> DEFINE m == Head(newWork[p])
           q == queue[p] \cup {m}
<1>1. newWork[p] \in Seq(Messages) /\ newWork[p] # <<>> /\ step[p] = "loop"
  BY DEF addWork, IndInv, TypeOK, ProcessorType
<1>2. \A i, j \in DOMAIN newWork[p] : newWork[p][i] = newWork[p][j] => i = j
  BY DEF IndInv, OnePlace
<1>3. newWork' = [newWork EXCEPT ![p] = Tail(@)] BY DEF addWork
<1>4. newWork'[p] = Tail(newWork[p]) /\ \A r \in Procs \ {p} : newWork'[r] = newWork[r]
  BY <1>3 DEF IndInv, TypeOK, ProcessorType
<1>5. m \in Work(p) BY <1>1, TailRange DEF Work
<1>6. /\ \A k \in Work(p)' : k \in Work(p) /\ k # m
      /\ \A i, j \in DOMAIN newWork'[p] : newWork'[p][i] = newWork'[p][j] => i = j
  <2>1. \A i \in DOMAIN Tail(newWork[p]) : Tail(newWork[p])[i] \in Work(p) BY <1>1, TailRange DEF Work
  <2>2. /\ \A i, j \in DOMAIN Tail(newWork[p]) : Tail(newWork[p])[i] = Tail(newWork[p])[j] => i = j
        /\ \A i \in DOMAIN Tail(newWork[p]) : Tail(newWork[p])[i] # m
    BY <1>1, <1>2, TailInjective
  <2> QED BY <1>4, <2>1, <2>2 DEF Work
<1>7. \A k \in Work(p) : k \notin queue[p] BY DEF IndInv, OnePlace
<1>8. UNCHANGED <<chain, crashes, marked, inflight, flushed, page, pc>>
  BY DEF addWork, stored, sequencer, bounds
<1>9. \/ startFlush(p, q, {}) \/ startFlush(p, queue[p], {m})
      \/ startFlush(p, q \ Overflow(q), Overflow(q))
      \/ queue' = [queue EXCEPT ![p] = q] /\ UNCHANGED <<flushing, step>>
  BY Zenon DEF addWork
<1>10. Overflow(q) \subseteq q BY DEF Overflow
<1>11. ASSUME NEW batch, NEW over, startFlush(p, batch, over),
              batch \subseteq q, over \subseteq q, batch \cap over = {}
       PROVE  BusyInflight' /\ OnePlace' /\ SentTracked' /\ PageFresh' /\ WorkUnsent' /\ RunsPast' /\ SentOnce'
  <2>1. /\ flushing'[p] = batch /\ queue'[p] = over /\ step'[p] = "seal"
        /\ \A r \in Procs \ {p} : step'[r] = step[r] /\ queue'[r] = queue[r] /\ flushing'[r] = flushing[r]
    BY <1>11 DEF startFlush, IndInv, TypeOK, ProcessorType
  <2>2. \A r \in Procs \ {p} : /\ step'[r] = step[r] /\ newWork'[r] = newWork[r]
                               /\ queue'[r] = queue[r] /\ flushing'[r] = flushing[r]
    BY <1>4, <2>1
  <2>3. \A k \in Work(p)' : k \in Work(p) /\ k \notin queue'[p] /\ k \notin flushing'[p]
    <3>1. \A k \in Work(p)' : k \in Work(p) /\ k \notin q BY <1>6, <1>7
    <3> QED BY <1>11, <2>1, <3>1
  <2>4. \A k \in q : k \in Work(p) \cup queue[p] BY <1>5
  <2>5. \A k \in queue'[p] : k \in Work(p) \cup queue[p] /\ k \notin flushing'[p]
    BY <1>11, <2>1, <2>4
  <2>6. \A k \in flushing'[p] : k \in Work(p) \cup queue[p] BY <1>11, <2>1, <2>4
  <2> QED BY <1>1, <1>6, <1>8, <2>1, <2>2, <2>3, <2>5, <2>6, WorkMoved
<1>12. CASE startFlush(p, q, {}) BY <1>11, <1>12
<1>13. CASE startFlush(p, queue[p], {m}) BY <1>5, <1>7, <1>11, <1>13
<1>14. CASE startFlush(p, q \ Overflow(q), Overflow(q)) BY <1>10, <1>11, <1>14
<1>15. CASE queue' = [queue EXCEPT ![p] = q] /\ UNCHANGED <<flushing, step>>
  <2>1. queue'[p] = q /\ \A r \in Procs \ {p} : queue'[r] = queue[r]
    BY <1>15 DEF IndInv, TypeOK, ProcessorType
  <2>2. flushing[p] = {} BY <1>1 DEF IndInv, OnePlace
  <2> QED BY <1>1, <1>4, <1>5, <1>6, <1>7, <1>8, <1>15, <2>1, <2>2, WorkMoved
<1> QED BY <1>9, <1>12, <1>13, <1>14, <1>15

(* A flush takes the queue.                                                *)
LEMMA FlushQueueStep ==
  ASSUME IndInv, TypeOK', NEW p \in Procs, flushQueue(p)
  PROVE  BusyInflight' /\ OnePlace' /\ SentTracked' /\ PageFresh' /\ WorkUnsent' /\ RunsPast' /\ SentOnce'
<1>1. /\ step[p] = "loop"
      /\ flushing'[p] = queue[p] /\ queue'[p] = {} /\ step'[p] = "seal"
      /\ \A r \in Procs \ {p} : step'[r] = step[r] /\ queue'[r] = queue[r] /\ flushing'[r] = flushing[r]
  BY DEF flushQueue, startFlush, IndInv, TypeOK, ProcessorType
<1>2. UNCHANGED newWork BY DEF flushQueue
<1>3. UNCHANGED <<chain, crashes, marked, inflight, flushed, page, pc>>
  BY DEF flushQueue, stored, sequencer, bounds
<1>4. Work(p)' = Work(p) BY <1>2 DEF Work
<1>5. /\ \A k \in Work(p) : k \notin queue[p]
      /\ \A i, j \in DOMAIN newWork[p] : newWork[p][i] = newWork[p][j] => i = j
  BY DEF IndInv, OnePlace
<1> QED BY <1>1, <1>2, <1>3, <1>4, <1>5, WorkMoved

(* The page is filtered before the flushed messages are drained *)
LEMMA FilterStep ==
  ASSUME IndInv, filterFlushed
  PROVE  BusyInflight' /\ OnePlace' /\ SentTracked' /\ PageFresh' /\ WorkUnsent' /\ RunsPast' /\ SentOnce'
<1>1. /\ pc = "filter" /\ page' = page \ inflight /\ inflight' = inflight \ flushed
      /\ flushed' = {} /\ pc' = "dispatch"
      /\ UNCHANGED <<chain, crashes, marked, step, newWork, queue, flushing>>
  BY DEF filterFlushed, Unflushed, stored, assembly, bounds
<1>2. \A p \in Procs : Work(p)' = Work(p) BY <1>1 DEF Work
<1>3. BusyInflight' BY <1>1, <1>2 DEF IndInv, BusyInflight
<1>4. OnePlace' BY <1>1, <1>2 DEF IndInv, OnePlace
<1>5. SentTracked' BY <1>1, ChainKept DEF IndInv, SentTracked
<1>6. PageFresh'
  <2>1. \A m \in page : Sent(m) => m \in inflight BY <1>1 DEF IndInv, PageFresh
  <2>2. \A m \in page' : m \in Messages /\ m \in page /\ m \notin inflight
    BY <1>1 DEF IndInv, TypeOK, SequencerType
  <2> QED BY <1>1, <2>1, <2>2, ChainKept DEF PageFresh
<1>7. WorkUnsent' BY <1>1, <1>2 DEF IndInv, WorkUnsent, Sent
<1> QED BY <1>1, <1>3, <1>4, <1>5, <1>6, <1>7, ChainKept DEF IndInv

(* The sequencer hands over only what is in no other place.                *)
LEMMA DispatchMessageStep ==
  ASSUME IndInv, NEW m \in Messages, dispatchMessage(m)
  PROVE  BusyInflight' /\ OnePlace' /\ SentTracked' /\ PageFresh' /\ WorkUnsent' /\ RunsPast' /\ SentOnce'
<1> DEFINE p == ProcOf[m]
<1>1. /\ pc = "dispatch" /\ m \in page /\ page' = page \ {m} /\ pc' = "dispatch"
      /\ inflight' = inflight \cup {m}
      /\ UNCHANGED <<chain, crashes, marked, flushed, queue, flushing>>
  BY DEF dispatchMessage, NextEntry, entryDone, stored, bounds
<1>2. p \in Procs BY BatchConstants
<1>3. /\ newWork'[p] = Append(newWork[p], m)
      /\ \A r \in Procs \ {p} : newWork'[r] = newWork[r]
      /\ \A r \in Procs : step'[r] = step[r] \/ (step[r] = "none" /\ step'[r] = "loop")
  BY <1>2 DEF dispatchMessage, getProcessor, IndInv, TypeOK, ProcessorType
<1>4. m \notin inflight /\ ~Sent(m) BY <1>1 DEF IndInv, PageFresh
<1>5. newWork[p] \in Seq(Messages) BY <1>2 DEF IndInv, TypeOK, ProcessorType
<1>6. \A k \in Work(p) \cup queue[p] \cup flushing[p] : k # m
  BY <1>2, <1>4 DEF IndInv, BusyInflight
<1>7. \A k \in Work(p)' : k = m \/ k \in Work(p) BY <1>3, <1>5, AppendRange DEF Work
<1>8. \A r \in Procs \ {p} : Work(r)' = Work(r) BY <1>3 DEF Work
<1>9. \A i, j \in DOMAIN newWork'[p] : newWork'[p][i] = newWork'[p][j] => i = j
  <2>1. \A i, j \in DOMAIN newWork[p] : newWork[p][i] = newWork[p][j] => i = j
    BY <1>2 DEF IndInv, OnePlace
  <2>2. \A i \in DOMAIN newWork[p] : newWork[p][i] # m BY <1>6 DEF Work
  <2> QED BY <1>3, <1>5, <2>1, <2>2, AppendInjective
<1>10. BusyInflight' BY <1>1, <1>4, <1>7, <1>8 DEF IndInv, BusyInflight
<1>11. OnePlace'
  <2>1. \A k \in Work(p)' : k \notin queue[p] /\ k \notin flushing[p]
    BY <1>2, <1>6, <1>7 DEF IndInv, OnePlace
  <2>2. \A r \in Procs \ {p} :
          /\ \A i, j \in DOMAIN newWork'[r] : newWork'[r][i] = newWork'[r][j] => i = j
          /\ \A k \in Work(r)' : k \notin queue[r] /\ k \notin flushing[r]
    BY <1>3, <1>8 DEF IndInv, OnePlace
  <2>3. \A r \in Procs : /\ \A k \in queue[r] : k \notin flushing[r]
                         /\ step'[r] \in {"none", "loop"} => flushing[r] = {}
    BY <1>3 DEF IndInv, OnePlace
  <2> QED BY <1>1, <1>9, <2>1, <2>2, <2>3 DEF OnePlace
<1>12. SentTracked' BY <1>1, <1>3, ChainKept DEF IndInv, SentTracked
<1>13. PageFresh' BY <1>1, ChainKept DEF IndInv, PageFresh, TypeOK, SequencerType
<1>14. WorkUnsent' BY <1>1, <1>3, <1>4, <1>7, <1>8 DEF IndInv, WorkUnsent, Sent
<1> QED BY <1>1, <1>10, <1>11, <1>12, <1>13, <1>14, ChainKept DEF IndInv

(* The batch is sent: none of its messages has been, and none of them is   *)
(* in the page or in another place.                                        *)
LEMMA DispatchBatchStep ==
  ASSUME IndInv, TypeOK', NEW p \in Procs, dispatchBatch(p)
  PROVE  BusyInflight' /\ OnePlace' /\ SentTracked' /\ PageFresh' /\ WorkUnsent' /\ RunsPast' /\ SentOnce'
<1>1. /\ step[p] = "dispatch"
      /\ UNCHANGED <<crashes, marked, inflight, flushed, page, pc, newWork, queue, flushing>>
  BY DEF dispatchBatch, sequencer, assembly, bounds
<1>2. \A q \in Procs : step'[q] = IF q = p THEN "mark" ELSE step[q]
  BY DEF dispatchBatch, IndInv, TypeOK, ProcessorType
<1>3. \A q \in Procs : Work(q)' = Work(q) BY <1>1 DEF Work
<1>4. /\ DOMAIN chain = 1..Len(chain) /\ Len(chain) \in Nat
      /\ DOMAIN chain' = 1..(Len(chain) + 1)
      /\ \A i \in DOMAIN chain : chain'[i] = chain[i]
      /\ chain'[Len(chain) + 1].run = crashes
      /\ chain'[Len(chain) + 1].msgs = flushing[p]
  BY DEF dispatchBatch, IndInv, TypeOK, StoredType
<1>5. \A m : Sent(m)' <=> Sent(m) \/ m \in flushing[p]
  BY <1>1, <1>4 DEF Sent
<1>6. \A m \in flushing[p] : ~Sent(m) BY <1>1 DEF IndInv, WorkUnsent
<1>7. \A m \in flushing[p] : m \in inflight /\ ProcOf[m] = p BY DEF IndInv, BusyInflight
<1>8. BusyInflight' BY <1>1, <1>3 DEF IndInv, BusyInflight
<1>9. OnePlace' BY <1>1, <1>2, <1>3 DEF IndInv, OnePlace
<1>10. SentTracked' BY <1>1, <1>2, <1>5 DEF IndInv, SentTracked
<1>11. PageFresh' BY <1>1, <1>5, <1>7 DEF IndInv, PageFresh
<1>12. WorkUnsent'
  <2> SUFFICES ASSUME NEW q \in Procs
               PROVE  /\ \A m \in Work(q) \cup queue[q] : ~Sent(m)'
                      /\ step'[q] \in {"seal", "write", "dispatch"} => \A m \in flushing[q] : ~Sent(m)'
    BY <1>1, <1>3 DEF WorkUnsent
  <2>1. \A m \in Work(q) \cup queue[q] : m \notin flushing[p]
    BY <1>7 DEF IndInv, OnePlace, BusyInflight
  <2>2. q # p => \A m \in flushing[q] : m \notin flushing[p] BY <1>7 DEF IndInv, BusyInflight
  <2> QED BY <1>2, <1>5, <2>1, <2>2 DEF IndInv, WorkUnsent
<1>13. RunsPast'
  <2>1. RunsPast /\ crashes \in Nat BY DEF IndInv, TypeOK, StoredType
  <2> QED BY <1>1, <1>4, <2>1 DEF RunsPast
<1>14. SentOnce'
  <2>1. \A i \in DOMAIN chain : chain[i].run = crashes => chain[i].msgs \cap flushing[p] = {}
    BY <1>6 DEF Sent
  <2>2. SentOnce BY DEF IndInv
  <2> QED BY <1>4, <2>1, <2>2 DEF SentOnce
<1> QED BY <1>8, <1>9, <1>10, <1>11, <1>12, <1>13, <1>14

(* A batch that was sent is marked before it is forgotten.                 *)
LEMMA MarkStep ==
  ASSUME IndInv, NEW p \in Procs, markPayloadDispatched(p)
  PROVE  BusyInflight' /\ OnePlace' /\ SentTracked' /\ PageFresh' /\ WorkUnsent' /\ RunsPast' /\ SentOnce'
<1>1. /\ step[p] = "mark" /\ marked' = marked \cup flushing[p]
      /\ UNCHANGED <<chain, crashes, inflight, flushed, page, pc, newWork, queue, flushing>>
  BY DEF markPayloadDispatched, sequencer, assembly, bounds
<1>2. \A q \in Procs : step'[q] = IF q = p THEN "notify" ELSE step[q]
  BY DEF markPayloadDispatched, IndInv, TypeOK, ProcessorType
<1>3. \A q \in Procs : Work(q)' = Work(q) BY <1>1 DEF Work
<1>4. BusyInflight' BY <1>1, <1>3 DEF IndInv, BusyInflight
<1>5. OnePlace' BY <1>1, <1>2, <1>3 DEF IndInv, OnePlace
<1>6. SentTracked' BY <1>1, <1>2, ChainKept DEF IndInv, SentTracked
<1>7. PageFresh' BY <1>1, ChainKept DEF IndInv, PageFresh, TypeOK, SequencerType
<1>8. WorkUnsent' BY <1>1, <1>2, <1>3 DEF IndInv, WorkUnsent, Sent
<1> QED BY <1>1, <1>4, <1>5, <1>6, <1>7, <1>8, ChainKept DEF IndInv

(* The sequencer hears of the end of a flush.                              *)
LEMMA NotifyStep ==
  ASSUME IndInv, NEW p \in Procs, notifyFlushComplete(p)
  PROVE  BusyInflight' /\ OnePlace' /\ SentTracked' /\ PageFresh' /\ WorkUnsent' /\ RunsPast' /\ SentOnce'
<1>1. /\ step[p] = "notify" /\ flushed' = flushed \cup flushing[p]
      /\ UNCHANGED <<chain, crashes, marked, inflight, page, pc, newWork, queue>>
  BY DEF notifyFlushComplete, stored, sequencer, assembly, bounds
<1>2. \A q \in Procs : /\ step'[q] = IF q = p THEN "loop" ELSE step[q]
                       /\ flushing'[q] = IF q = p THEN {} ELSE flushing[q]
  BY DEF notifyFlushComplete, IndInv, TypeOK, ProcessorType
<1>3. \A q \in Procs : Work(q)' = Work(q) BY <1>1 DEF Work
<1>4. BusyInflight'
  <2>1. flushed' \subseteq inflight' BY <1>1 DEF IndInv, BusyInflight
  <2>2. ASSUME NEW q \in Procs, NEW m \in Work(q) \cup queue[q] \cup flushing'[q]
        PROVE  ProcOf[m] = q /\ m \in inflight /\ m \notin flushed'
    <3>1. ProcOf[m] = q /\ m \in inflight /\ m \notin flushed
      BY <1>2, <2>2 DEF IndInv, BusyInflight
    <3>2. m \notin flushing[p]
      BY <1>2, <2>2, <3>1 DEF IndInv, BusyInflight, OnePlace
    <3> QED BY <1>1, <3>1, <3>2
  <2> QED BY <1>1, <1>3, <2>1, <2>2 DEF BusyInflight
<1>5. OnePlace' BY <1>1, <1>2, <1>3 DEF IndInv, OnePlace
<1>6. SentTracked' BY <1>1, <1>2, ChainKept DEF IndInv, SentTracked
<1>7. PageFresh' BY <1>1, ChainKept DEF IndInv, PageFresh, TypeOK, SequencerType
<1>8. WorkUnsent' BY <1>1, <1>2, <1>3 DEF IndInv, WorkUnsent, Sent
<1> QED BY <1>1, <1>4, <1>5, <1>6, <1>7, <1>8, ChainKept DEF IndInv

(* A restart empties every place; what was sent belongs to an earlier run. *)
LEMMA RestartStep ==
  ASSUME IndInv, restart
  PROVE  BusyInflight' /\ OnePlace' /\ SentTracked' /\ PageFresh' /\ WorkUnsent' /\ RunsPast' /\ SentOnce'
<1>1. page' = {} /\ flushed' = {} /\ UNCHANGED chain /\ crashes' = crashes + 1 /\ crashes \in Nat
  BY DEF restart, NewProcess, stored, IndInv, TypeOK, StoredType
<1>2. \A p \in Procs : newWork'[p] = <<>> /\ queue'[p] = {} /\ flushing'[p] = {}
  BY DEF restart, NewProcess
<1>3. \A p \in Procs : Work(p)' = {} BY <1>2 DEF Work
<1>4. \A i \in DOMAIN chain : chain[i].run \in Nat /\ chain[i].run <= crashes
  BY ChainRuns DEF IndInv, RunsPast
<1>5. \A m : ~Sent(m)' BY <1>1, <1>4 DEF Sent
<1>6. BusyInflight' BY <1>1, <1>2, <1>3 DEF BusyInflight
<1>7. OnePlace' BY <1>2, <1>3 DEF OnePlace
<1>8. SentTracked' /\ PageFresh' /\ WorkUnsent' BY <1>1, <1>2, <1>5 DEF SentTracked, PageFresh, WorkUnsent
<1>9. RunsPast' BY <1>1, <1>4 DEF RunsPast
<1>10. SentOnce' BY <1>1 DEF IndInv, SentOnce
<1> QED BY <1>6, <1>7, <1>8, <1>9, <1>10

(* Every step keeps the invariant.                                         *)
LEMMA IndStep == IndInv /\ [Next]_vars => IndInv'
<1> SUFFICES ASSUME IndInv, [Next]_vars PROVE IndInv' OBVIOUS
<1>0. TypeOK' BY TypeStep DEF IndInv
<1> DEFINE Rest == BusyInflight /\ OnePlace /\ SentTracked /\ PageFresh /\ WorkUnsent /\ RunsPast /\ SentOnce
           Still == UNCHANGED <<chain, crashes, marked, inflight, flushed, step, newWork, queue, flushing>>
<1>1. ASSUME NEW m \in Messages, commitMessage(m) \/ newMessageNotification(m) PROVE Rest'
  <2>1. Still /\ UNCHANGED <<page, pc>>
    BY <1>1 DEF commitMessage, newMessageNotification, stored, sequencer, assembly, bounds
  <2>2. PageFresh' BY <2>1, ChainKept DEF IndInv, PageFresh, TypeOK, SequencerType
  <2> QED BY <2>1, <2>2, PlacesKept
<1>2. ASSUME reapQuiescing PROVE Rest'
  <2>1. Still /\ pc' = "read" BY <1>2 DEF reapQuiescing, stored, assembly, bounds
  <2> QED BY <2>1, PlacesKept DEF PageFresh
<1>3. ASSUME readPage PROVE Rest'
  <2>1. Still /\ pc' = "filter" BY <1>3 DEF readPage, stored, assembly, bounds
  <2>2. \A m \in page' : m \in Messages /\ m \notin marked
    BY <1>3 DEF readPage, FirstPage, ReadyAfter, Committed, IndInv, TypeOK, StoredType
  <2>3. \A m \in page' : Sent(m) => m \in inflight
    BY <2>2 DEF IndInv, SentTracked, BusyInflight
  <2>4. PageFresh' BY <2>1, <2>2, <2>3, ChainKept DEF PageFresh
  <2> QED BY <2>1, <2>4, PlacesKept
<1>4. ASSUME filterFlushed PROVE Rest' BY <1>4, FilterStep
<1>5. ASSUME waitForNewMessages PROVE Rest'
  <2>1. Still /\ pc' = "reap" BY <1>5 DEF waitForNewMessages, stored, assembly, bounds
  <2> QED BY <2>1, PlacesKept DEF PageFresh
<1>6. ASSUME NEW m \in Messages, dispatchMessage(m) PROVE Rest' BY <1>6, DispatchMessageStep
<1>7. ASSUME NEW m \in Messages, skipMessage(m) PROVE Rest'
  <2>1. Still /\ page' \subseteq page /\ UNCHANGED pc
    BY <1>7 DEF skipMessage, entryDone, stored, assembly, bounds
  <2>2. PageFresh' BY <2>1, ChainKept DEF IndInv, PageFresh, TypeOK, SequencerType
  <2> QED BY <2>1, <2>2, PlacesKept
<1>8. ASSUME NEW p \in Procs, addWork(p) PROVE Rest' BY <1>0, <1>8, AddWorkStep
<1>9. ASSUME NEW p \in Procs, flushQueue(p) PROVE Rest' BY <1>0, <1>9, FlushQueueStep
<1>10. ASSUME NEW p \in Procs, startQuiesce(p) PROVE Rest'
  <2>1. Still /\ UNCHANGED <<page, pc>> BY <1>10 DEF startQuiesce, stored, sequencer, assembly, bounds
  <2>2. PageFresh' BY <2>1, ChainKept DEF IndInv, PageFresh, TypeOK, SequencerType
  <2> QED BY <2>1, <2>2, PlacesKept
<1>11. ASSUME NEW p \in Procs, \/ processorDone(p) \/ calculateContexts(p) \/ sealBatch(p) \/ retrySeal(p)
       PROVE  Rest'
  <2>1. UNCHANGED <<chain, crashes, marked, inflight, flushed, newWork, queue, flushing, page, pc>>
    BY <1>11 DEF processorDone, calculateContexts, sealBatch, retrySeal, stored, sequencer, assembly, bounds
  <2>2. \E s \in Steps : /\ step' = [step EXCEPT ![p] = s]
                         /\ \/ step[p] = "loop" /\ s = "none"
                            \/ step[p] \in {"seal", "write"} /\ s \in {"seal", "write", "dispatch"}
    BY <1>11 DEF processorDone, calculateContexts, sealBatch, retrySeal, Steps
  <2> QED BY <2>1, <2>2, StageChanged
<1>12. ASSUME NEW p \in Procs, dispatchBatch(p) PROVE Rest' BY <1>0, <1>12, DispatchBatchStep
<1>13. ASSUME NEW p \in Procs, markPayloadDispatched(p) PROVE Rest' BY <1>13, MarkStep
<1>14. ASSUME NEW p \in Procs, notifyFlushComplete(p) PROVE Rest' BY <1>14, NotifyStep
<1>15. ASSUME restart PROVE Rest' BY <1>15, RestartStep
<1>16. ASSUME UNCHANGED vars PROVE Rest'
  <2>1. Still /\ UNCHANGED <<page, pc>> BY <1>16 DEF vars, stored, sequencer, assembly, bounds
  <2>2. PageFresh' BY <2>1, ChainKept DEF IndInv, PageFresh, TypeOK, SequencerType
  <2> QED BY <2>1, <2>2, PlacesKept
<1>17. Rest'
  BY <1>1, <1>2, <1>3, <1>4, <1>5, <1>6, <1>7, <1>8, <1>9, <1>10, <1>11, <1>12, <1>13, <1>14, <1>15, <1>16
     DEF Next, messageSequencer, flush
<1> QED BY <1>0, <1>17 DEF IndInv

(* The invariant holds what was to be shown.                               *)
LEMMA IndSentOnce == IndInv => SentOnce
BY DEF IndInv

(* However commits, rewinds, page reads, flushes, quiescing processors and *)
(* restarts interleave, no process sends a message in two batches.         *)
THEOREM NoDoubleSend == Spec => []SentOnce
BY IndInit, IndStep, IndSentOnce, PTL DEF Spec

---------------------------------------------------------------------------
(* The pins and the order of what is sent.  They rest on IndInv, the       *)
(* invariant above that follows a message through the processor.           *)

(* A nonempty set of natural numbers has a least element ...                *)
LEMMA LeastExists ==
  ASSUME NEW T, T \subseteq Nat, T # {}
  PROVE  \E x \in T : \A y \in T : x <= y
<1>1. PICK x \in T : \A y \in T : ~(<<y, x>> \in OpToRel(<, Nat))
  BY NatLessThanWellFounded, WFMin
<1>2. \A y \in T : ~(y < x)
  <2> SUFFICES ASSUME NEW y \in T, y < x PROVE <<y, x>> \in OpToRel(<, Nat)
    BY <1>1
  <2> QED BY DEF OpToRel
<1> QED BY <1>2

(* ... and one of messages has a greatest.                                  *)
LEMMA GreatestExists ==
  ASSUME NEW T, T \subseteq Messages, T # {}
  PROVE  \E x \in T : \A y \in T : y <= x
<1> DEFINE U == {MaxSeq - y : y \in T}
<1>0. MaxSeq \in Nat /\ \A y \in T : y \in Nat /\ y <= MaxSeq
  BY BatchConstants DEF Messages
<1>1. U \subseteq Nat /\ U # {}
  BY <1>0
<1>2. PICK u \in U : \A v \in U : u <= v
  <2> HIDE DEF U
  <2> QED BY <1>1, LeastExists
<1>3. PICK x \in T : u = MaxSeq - x
  OBVIOUS
<1>4. \A y \in T : MaxSeq - x <= MaxSeq - y
  BY <1>2, <1>3
<1> QED BY <1>0, <1>4

(* A set of messages is finite.                                            *)
LEMMA MessagesFinite == ASSUME NEW S, S \subseteq Messages PROVE IsFiniteSet(S)
<1>1. MaxSeq \in Int /\ 1 \in Int BY BatchConstants
<1>2. IsFiniteSet(Messages) BY <1>1, FS_Interval DEF Messages
<1> QED BY <1>2, FS_Subset

---------------------------------------------------------------------------
(* A slot is taken once *)

(* What a seal has drawn belongs to private messages of its own batch that *)
(* held no pin; once written it is their pin, and it is not on the chain.  *)
OnChain(m) == \E i \in DOMAIN chain : m \in chain[i].pinned
DrawnFor ==
  \A p \in Procs : \A m \in Drawn(p) :
    /\ step[p] \in {"write", "dispatch"}
    /\ m \in flushing[p] /\ m \in Private
    /\ step[p] = "write" => pins[m] = 0
    /\ step[p] = "dispatch" => pins[m] = drawn[p][m] /\ ~OnChain(m)
ChainHoldsPin == \A m \in Private : OnChain(m) => pins[m] # 0
PinInv == DrawnFor /\ ChainHoldsPin /\ PinnedOnce

(* The steps that touch neither pins, nor what was drawn, nor the chain, and *)
(* leave the batch of a processor that has drawn alone.                      *)
LEMMA PinStutter ==
  ASSUME PinInv, UNCHANGED <<pins, drawn, chain>>,
         \A p \in Procs : step[p] \in {"write", "dispatch"} =>
                            step'[p] = step[p] /\ flushing'[p] = flushing[p]
  PROVE  PinInv'
<1>1. \A p \in Procs : Drawn(p)' = Drawn(p) BY DEF Drawn
<1>2. \A m : OnChain(m)' <=> OnChain(m) BY DEF OnChain
<1>3. DrawnFor' BY <1>1, <1>2 DEF PinInv, DrawnFor
<1>4. ChainHoldsPin' BY <1>2 DEF PinInv, ChainHoldsPin
<1> QED BY <1>3, <1>4 DEF PinInv, PinnedOnce

(* No message has a pin at first.                                          *)
LEMMA PinInit == Init => PinInv
<1> SUFFICES ASSUME Init PROVE PinInv OBVIOUS
<1>1. DOMAIN chain = {} /\ drawn = [p \in Procs |-> [m \in Messages |-> 0]] BY DEF Init
<1>2. \A p \in Procs : Drawn(p) = {} BY <1>1 DEF Drawn
<1> QED BY <1>1, <1>2 DEF PinInv, DrawnFor, ChainHoldsPin, PinnedOnce, OnChain

(* Two batches being flushed have no message in common.                      *)
LEMMA FlushingApart ==
  ASSUME IndInv, NEW p \in Procs, NEW q \in Procs, p # q
  PROVE  flushing[p] \cap flushing[q] = {}
BY DEF IndInv, BusyInflight

(* A seal gives pins to messages that have none, and leaves the others     *)
(* alone.                                                                  *)
LEMMA SealPins ==
  ASSUME IndInv, PinInv, NEW p \in Procs, sealBatch(p)
  PROVE  PinInv'
<1>1. /\ step[p] = "write" /\ UNCHANGED <<drawn, chain, flushing>>
      /\ pins' = [m \in Messages |-> IF m \in Drawn(p) THEN drawn[p][m] ELSE pins[m]]
  BY DEF sealBatch
<1>2. \A q \in Procs : step'[q] = IF q = p THEN "dispatch" ELSE step[q]
  BY DEF sealBatch, IndInv, TypeOK, ProcessorType
<1>3. \A q \in Procs : Drawn(q)' = Drawn(q) BY <1>1 DEF Drawn
<1>4. \A m : OnChain(m)' <=> OnChain(m) BY <1>1 DEF OnChain
<1>5. \A m \in Drawn(p) : m \in Messages /\ drawn[p][m] # 0 /\ pins'[m] = drawn[p][m] /\ ~OnChain(m)
  BY <1>1 DEF Drawn, PinInv, DrawnFor, ChainHoldsPin, IndInv, TypeOK, ProcessorType
<1>6. \A q \in Procs \ {p} : \A m \in Drawn(q) : m \in Messages /\ pins'[m] = pins[m]
  BY <1>1, FlushingApart DEF PinInv, DrawnFor, Drawn
<1>7. DrawnFor' BY <1>1, <1>2, <1>3, <1>4, <1>5, <1>6 DEF PinInv, DrawnFor
<1>8. ChainHoldsPin'
  BY <1>1, <1>4, <1>5 DEF PinInv, ChainHoldsPin, Private
<1> QED BY <1>1, <1>7, <1>8 DEF PinInv, PinnedOnce

(* A dispatch touches no pin.                                              *)
LEMMA DispatchPins ==
  ASSUME IndInv, PinInv, NEW p \in Procs, dispatchBatch(p)
  PROVE  PinInv'
<1>1. /\ step[p] = "dispatch" /\ UNCHANGED <<pins, flushing>>
  BY DEF dispatchBatch
<1>2. \A q \in Procs : /\ step'[q] = IF q = p THEN "mark" ELSE step[q]
                       /\ drawn'[q] = IF q = p THEN [m \in Messages |-> 0] ELSE drawn[q]
  BY DEF dispatchBatch, IndInv, TypeOK, ProcessorType
<1>3. Drawn(p)' = {} /\ \A q \in Procs \ {p} : Drawn(q)' = Drawn(q) BY <1>2 DEF Drawn
<1>4. /\ DOMAIN chain = 1..Len(chain) /\ Len(chain) \in Nat
      /\ DOMAIN chain' = 1..(Len(chain) + 1)
      /\ \A i \in DOMAIN chain : chain'[i] = chain[i]
      /\ chain'[Len(chain) + 1].pinned = PayloadPins(p)
  BY DEF dispatchBatch, IndInv, TypeOK, StoredType
<1>5. \A m : OnChain(m)' <=> OnChain(m) \/ m \in PayloadPins(p) BY <1>4 DEF OnChain
<1>6. PayloadPins(p) \cap Private = Drawn(p) BY DEF PayloadPins, PinInv, DrawnFor
<1>7. \A m \in Drawn(p) : ~OnChain(m) /\ pins[m] # 0
  BY <1>1 DEF Drawn, PinInv, DrawnFor, IndInv, TypeOK, ProcessorType
<1>8. DrawnFor'
  <2> SUFFICES ASSUME NEW q \in Procs \ {p}, NEW m \in Drawn(q), step[q] = "dispatch"
               PROVE  ~OnChain(m)'
    BY <1>1, <1>2, <1>3 DEF PinInv, DrawnFor
  <2>1. ~OnChain(m) /\ m \in Private /\ m \in flushing[q] BY DEF PinInv, DrawnFor
  <2>2. m \notin Drawn(p) BY <2>1, FlushingApart DEF PinInv, DrawnFor
  <2> QED BY <1>5, <1>6, <2>1, <2>2
<1>9. ChainHoldsPin' BY <1>1, <1>5, <1>6, <1>7 DEF PinInv, ChainHoldsPin
<1>10. PinnedOnce'
  <2>1. \A i \in DOMAIN chain : chain[i].pinned \cap PayloadPins(p) \cap Private = {}
    BY <1>6, <1>7 DEF OnChain
  <2> QED BY <1>4, <2>1 DEF PinInv, PinnedOnce
<1> QED BY <1>8, <1>9, <1>10 DEF PinInv

(* Every step keeps the pins that were given.                              *)
LEMMA PinStep == IndInv /\ PinInv /\ [Next]_vars => PinInv'
<1> SUFFICES ASSUME IndInv, PinInv, [Next]_vars PROVE PinInv' OBVIOUS
<1> USE DEF stored, sequencer, assembly, bounds
<1>1. ASSUME NEW m \in Messages, \/ commitMessage(m) \/ newMessageNotification(m) \/ skipMessage(m)
      PROVE  PinInv'
  BY <1>1, PinStutter DEF commitMessage, newMessageNotification, skipMessage
<1>2. ASSUME NEW m \in Messages, dispatchMessage(m) PROVE PinInv'
  <2>1. UNCHANGED <<pins, drawn, chain, flushing>> BY <1>2 DEF dispatchMessage
  <2>2. \A q \in Procs : step[q] # "none" => step'[q] = step[q]
    BY <1>2 DEF dispatchMessage, getProcessor, IndInv, TypeOK, ProcessorType
  <2> QED BY <2>1, <2>2, PinStutter
<1>3. ASSUME reapQuiescing \/ readPage \/ filterFlushed \/ waitForNewMessages \/ UNCHANGED vars
      PROVE  PinInv'
  BY <1>3, PinStutter DEF reapQuiescing, readPage, filterFlushed, waitForNewMessages, vars
<1>4. ASSUME NEW p \in Procs, \/ addWork(p) \/ flushQueue(p) \/ startQuiesce(p) \/ processorDone(p)
                              \/ markPayloadDispatched(p) \/ notifyFlushComplete(p)
      PROVE  PinInv'
  <2>1. UNCHANGED <<pins, drawn, chain>> /\ step[p] \notin {"write", "dispatch"}
    BY <1>4 DEF addWork, flushQueue, startQuiesce, processorDone, markPayloadDispatched,
                notifyFlushComplete
  <2>2. \A q \in Procs \ {p} : step'[q] = step[q] /\ flushing'[q] = flushing[q]
    BY <1>4 DEF addWork, flushQueue, startFlush, startQuiesce, processorDone,
                markPayloadDispatched, notifyFlushComplete, IndInv, TypeOK, ProcessorType
  <2> QED BY <2>1, <2>2, PinStutter
<1>5. ASSUME NEW p \in Procs, calculateContexts(p) PROVE PinInv'
  <2>1. /\ step[p] = "seal" /\ UNCHANGED <<pins, chain, flushing>>
        /\ drawn' = [drawn EXCEPT ![p] = [m \in Messages |-> IF m \in ToPin(p) THEN NextNonce(p, m) ELSE 0]]
    BY <1>5 DEF calculateContexts
  <2>2. \A q \in Procs : step'[q] = IF q = p THEN "write" ELSE step[q]
    BY <1>5 DEF calculateContexts, IndInv, TypeOK, ProcessorType
  <2>3. Drawn(p)' \subseteq ToPin(p) /\ \A q \in Procs \ {p} : Drawn(q)' = Drawn(q) /\ drawn'[q] = drawn[q]
    BY <2>1 DEF Drawn, IndInv, TypeOK, ProcessorType
  <2>4. \A m : OnChain(m)' <=> OnChain(m) BY <2>1 DEF OnChain
  <2>5. DrawnFor' BY <2>1, <2>2, <2>3, <2>4 DEF PinInv, DrawnFor, ToPin
  <2>6. ChainHoldsPin' BY <2>1, <2>4 DEF PinInv, ChainHoldsPin
  <2> QED BY <2>1, <2>5, <2>6 DEF PinInv, PinnedOnce
<1>6. ASSUME NEW p \in Procs, sealBatch(p) PROVE PinInv' BY <1>6, SealPins
<1>7. ASSUME NEW p \in Procs, dispatchBatch(p) PROVE PinInv' BY <1>7, DispatchPins
<1>8. ASSUME NEW p \in Procs, retrySeal(p) PROVE PinInv'
  <2>1. UNCHANGED <<pins, chain, flushing>> BY <1>8 DEF retrySeal
  <2>2. \A q \in Procs : /\ step'[q] = IF q = p THEN "seal" ELSE step[q]
                         /\ drawn'[q] = IF q = p THEN [m \in Messages |-> 0] ELSE drawn[q]
    BY <1>8 DEF retrySeal, IndInv, TypeOK, ProcessorType
  <2>3. Drawn(p)' = {} /\ \A q \in Procs \ {p} : Drawn(q)' = Drawn(q) BY <2>2 DEF Drawn
  <2>4. \A m : OnChain(m)' <=> OnChain(m) BY <2>1 DEF OnChain
  <2>5. DrawnFor' BY <2>1, <2>2, <2>3, <2>4 DEF PinInv, DrawnFor
  <2>6. ChainHoldsPin' BY <2>1, <2>4 DEF PinInv, ChainHoldsPin
  <2> QED BY <2>1, <2>5, <2>6 DEF PinInv, PinnedOnce
<1>9. ASSUME restart PROVE PinInv'
  <2>1. UNCHANGED <<pins, chain>> /\ drawn' = [q \in Procs |-> [m \in Messages |-> 0]]
    BY <1>9 DEF restart, NewProcess
  <2>2. \A q \in Procs : Drawn(q)' = {} BY <2>1 DEF Drawn
  <2>3. \A m : OnChain(m)' <=> OnChain(m) BY <2>1 DEF OnChain
  <2> QED BY <2>1, <2>2, <2>3 DEF PinInv, DrawnFor, ChainHoldsPin, PinnedOnce
<1> QED BY <1>1, <1>2, <1>3, <1>4, <1>5, <1>6, <1>7, <1>8, <1>9 DEF Next, messageSequencer, flush

(* A private message takes its slot in its context at most once, although  *)
(* a retried seal draws again, a restart sends a batch again, and nothing  *)
(* but the pins written with the message remembers that it was sealed.     *)
THEOREM SlotTakenOnce == Spec => []PinnedOnce
<1>1. Init => IndInv /\ PinInv BY IndInit, PinInit
<1>2. IndInv /\ PinInv /\ [Next]_vars => (IndInv /\ PinInv)' BY IndStep, PinStep
<1>3. PinInv => PinnedOnce BY DEF PinInv
<1> QED BY <1>1, <1>2, <1>3, PTL DEF Spec

---------------------------------------------------------------------------
(* A batch carries the pins of its messages *)

(* Until the process restarts, a message holds a pin only from the seal of *)
(* the batch it is sent in, so that the seal draws one for each of them.   *)
PinsFromSeal ==
  \A m \in Private : pins[m] # 0 =>
    Sent(m) \/ \E p \in Procs : step[p] = "dispatch" /\ m \in flushing[p]
AllDrawn ==
  \A p \in Procs : step[p] \in {"write", "dispatch"} => flushing[p] \cap Private \subseteq Drawn(p)
PayloadInv == PinsFromSeal /\ AllDrawn /\ PinsSent

(* Steps outside of sealing and sending leave the payload alone.           *)
LEMMA PayloadStutter ==
  ASSUME PayloadInv, UNCHANGED <<pins, drawn, chain, crashes>>,
         \A p \in Procs : step[p] \in {"write", "dispatch"} =>
                            step'[p] = step[p] /\ flushing'[p] = flushing[p],
         \A p \in Procs : step[p] \notin {"write", "dispatch"} => step'[p] \notin {"write", "dispatch"}
  PROVE  PayloadInv'
<1>1. \A p \in Procs : Drawn(p)' = Drawn(p) BY DEF Drawn
<1>2. \A m : Sent(m)' <=> Sent(m) BY DEF Sent
<1>3. PinsFromSeal' BY <1>2 DEF PayloadInv, PinsFromSeal
<1>4. AllDrawn' BY <1>1 DEF PayloadInv, AllDrawn
<1> QED BY <1>3, <1>4 DEF PayloadInv, PinsSent

(* A message drawn for gets a nonce that is above those of the database.    *)
LEMMA NonceDrawn ==
  ASSUME TypeOK, NEW p \in Procs, NEW m \in ToPin(p)
  PROVE  /\ ContextOf[m] \in Contexts /\ nonces[ContextOf[m]] \in Nat
         /\ NextNonce(p, m) \in Nat /\ NextNonce(p, m) > nonces[ContextOf[m]]
<1> DEFINE S == {k \in ToPin(p) : ContextOf[k] = ContextOf[m] /\ k <= m}
<1>1. ContextOf[m] \in Contexts /\ m \in Messages /\ ToPin(p) \subseteq Messages
  BY BatchConstants DEF ToPin, Private
<1>2. m \in S /\ S \subseteq Messages BY <1>1 DEF Messages
<1>3. IsFiniteSet(S) BY <1>2, MessagesFinite
<1>4. Cardinality(S) \in Nat /\ Cardinality(S) # 0
  <2> HIDE DEF S
  <2> QED BY <1>2, <1>3, FS_CardinalityType, FS_EmptySet
<1>5. nonces[ContextOf[m]] \in Nat BY <1>1 DEF TypeOK, StoredType
<1>6. NextNonce(p, m) = nonces[ContextOf[m]] + Cardinality(S) BY DEF NextNonce
<1> HIDE DEF S
<1> QED BY <1>1, <1>4, <1>5, <1>6

(* Without a crash a payload in the making has the pins that are stored.   *)
LEMMA PayloadStep ==
  ASSUME IndInv, PinInv, PayloadInv, [Next]_vars, crashes' = crashes
  PROVE  PayloadInv'
<1> USE DEF stored, sequencer, assembly, bounds
<1>1. ASSUME NEW m \in Messages, \/ commitMessage(m) \/ newMessageNotification(m) \/ skipMessage(m)
      PROVE  PayloadInv'
  BY <1>1, PayloadStutter DEF commitMessage, newMessageNotification, skipMessage
<1>2. ASSUME NEW m \in Messages, dispatchMessage(m) PROVE PayloadInv'
  <2>1. UNCHANGED <<pins, drawn, chain, flushing, crashes>> BY <1>2 DEF dispatchMessage
  <2>2. \A q \in Procs : step'[q] = step[q] \/ (step[q] = "none" /\ step'[q] = "loop")
    BY <1>2 DEF dispatchMessage, getProcessor, IndInv, TypeOK, ProcessorType
  <2> QED BY <2>1, <2>2, PayloadStutter
<1>3. ASSUME reapQuiescing \/ readPage \/ filterFlushed \/ waitForNewMessages \/ UNCHANGED vars
      PROVE  PayloadInv'
  BY <1>3, PayloadStutter DEF reapQuiescing, readPage, filterFlushed, waitForNewMessages, vars
<1>4. ASSUME NEW p \in Procs, \/ addWork(p) \/ flushQueue(p) \/ startQuiesce(p) \/ processorDone(p)
                              \/ markPayloadDispatched(p) \/ notifyFlushComplete(p)
      PROVE  PayloadInv'
  <2>1. UNCHANGED <<pins, drawn, chain, crashes>> /\ step[p] \notin {"write", "dispatch"}
    BY <1>4 DEF addWork, flushQueue, startQuiesce, processorDone, markPayloadDispatched,
                notifyFlushComplete
  <2>2. \A q \in Procs \ {p} : step'[q] = step[q] /\ flushing'[q] = flushing[q]
    BY <1>4 DEF addWork, flushQueue, startFlush, startQuiesce, processorDone,
                markPayloadDispatched, notifyFlushComplete, IndInv, TypeOK, ProcessorType
  <2>3. step'[p] \notin {"write", "dispatch"}
    BY <1>4 DEF addWork, flushQueue, startFlush, startQuiesce, processorDone,
                markPayloadDispatched, notifyFlushComplete, IndInv, TypeOK, ProcessorType
  <2> QED BY <2>1, <2>2, <2>3, PayloadStutter
<1>5. ASSUME NEW p \in Procs, calculateContexts(p) PROVE PayloadInv'
  <2>1. /\ step[p] = "seal" /\ UNCHANGED <<pins, chain, flushing, crashes>>
        /\ drawn' = [drawn EXCEPT ![p] = [m \in Messages |-> IF m \in ToPin(p) THEN NextNonce(p, m) ELSE 0]]
    BY <1>5 DEF calculateContexts
  <2>2. \A q \in Procs : step'[q] = IF q = p THEN "write" ELSE step[q]
    BY <1>5 DEF calculateContexts, IndInv, TypeOK, ProcessorType
  <2>3. \A q \in Procs \ {p} : Drawn(q)' = Drawn(q)
    BY <2>1 DEF Drawn, IndInv, TypeOK, ProcessorType
  <2>4. flushing[p] \cap Private \subseteq ToPin(p)
    <3> SUFFICES ASSUME NEW m \in flushing[p] \cap Private PROVE pins[m] = 0 BY DEF ToPin
    <3>1. ~Sent(m) BY <2>1 DEF IndInv, WorkUnsent
    <3>2. \A q \in Procs : m \in flushing[q] => q = p BY FlushingApart
    <3> QED BY <2>1, <3>1, <3>2 DEF PayloadInv, PinsFromSeal
  <2>5. ToPin(p) \subseteq Drawn(p)'
    <3> SUFFICES ASSUME NEW m \in ToPin(p) PROVE m \in Drawn(p)' OBVIOUS
    <3>1. drawn'[p][m] = NextNonce(p, m) /\ m \in Messages
      BY <2>1 DEF IndInv, TypeOK, ProcessorType, ToPin, Private
    <3>2. NextNonce(p, m) > 0 BY NonceDrawn DEF IndInv
    <3> QED BY <3>1, <3>2 DEF Drawn
  <2>6. \A m : Sent(m)' <=> Sent(m) BY <2>1 DEF Sent
  <2>7. PinsFromSeal' BY <2>1, <2>2, <2>6 DEF PayloadInv, PinsFromSeal
  <2>8. AllDrawn' BY <2>1, <2>2, <2>3, <2>4, <2>5 DEF PayloadInv, AllDrawn
  <2> QED BY <2>1, <2>7, <2>8 DEF PayloadInv, PinsSent
<1>6. ASSUME NEW p \in Procs, sealBatch(p) PROVE PayloadInv'
  <2>1. /\ step[p] = "write" /\ UNCHANGED <<drawn, chain, flushing, crashes>>
        /\ pins' = [m \in Messages |-> IF m \in Drawn(p) THEN drawn[p][m] ELSE pins[m]]
    BY <1>6 DEF sealBatch
  <2>2. \A q \in Procs : step'[q] = IF q = p THEN "dispatch" ELSE step[q]
    BY <1>6 DEF sealBatch, IndInv, TypeOK, ProcessorType
  <2>3. \A q \in Procs : Drawn(q)' = Drawn(q) BY <2>1 DEF Drawn
  <2>4. \A m : Sent(m)' <=> Sent(m) BY <2>1 DEF Sent
  <2>5. \A m \in Private : pins'[m] # pins[m] => m \in flushing[p]
    BY <2>1 DEF PinInv, DrawnFor, Private
  <2>6. PinsFromSeal' BY <2>1, <2>2, <2>4, <2>5 DEF PayloadInv, PinsFromSeal
  <2>7. AllDrawn' BY <2>1, <2>2, <2>3 DEF PayloadInv, AllDrawn
  <2> QED BY <2>1, <2>6, <2>7 DEF PayloadInv, PinsSent
<1>7. ASSUME NEW p \in Procs, dispatchBatch(p) PROVE PayloadInv'
  <2>1. /\ step[p] = "dispatch" /\ UNCHANGED <<pins, flushing, crashes>>
    BY <1>7 DEF dispatchBatch
  <2>2. \A q \in Procs : /\ step'[q] = IF q = p THEN "mark" ELSE step[q]
                         /\ q # p => drawn'[q] = drawn[q]
    BY <1>7 DEF dispatchBatch, IndInv, TypeOK, ProcessorType
  <2>3. \A q \in Procs \ {p} : Drawn(q)' = Drawn(q) BY <2>2 DEF Drawn
  <2>4. /\ DOMAIN chain = 1..Len(chain) /\ Len(chain) \in Nat
        /\ DOMAIN chain' = 1..(Len(chain) + 1)
        /\ \A i \in DOMAIN chain : chain'[i] = chain[i]
        /\ chain'[Len(chain) + 1].run = crashes
        /\ chain'[Len(chain) + 1].msgs = flushing[p]
        /\ chain'[Len(chain) + 1].pinned = PayloadPins(p)
    BY <1>7 DEF dispatchBatch, IndInv, TypeOK, StoredType
  <2>5. PayloadPins(p) = flushing[p]
    BY <2>1 DEF PayloadPins, PayloadInv, AllDrawn, PinInv, DrawnFor
  <2>6. \A m : Sent(m)' <=> Sent(m) \/ m \in flushing[p] BY <2>1, <2>4 DEF Sent
  <2>7. PinsFromSeal' BY <2>1, <2>2, <2>6 DEF PayloadInv, PinsFromSeal
  <2>8. AllDrawn' BY <2>1, <2>2, <2>3 DEF PayloadInv, AllDrawn
  <2>9. PinsSent' BY <2>4, <2>5 DEF PayloadInv, PinsSent
  <2> QED BY <2>7, <2>8, <2>9 DEF PayloadInv
<1>8. ASSUME NEW p \in Procs, retrySeal(p) PROVE PayloadInv'
  <2>1. step[p] = "write" /\ UNCHANGED <<pins, chain, flushing, crashes>> BY <1>8 DEF retrySeal
  <2>2. \A q \in Procs : /\ step'[q] = IF q = p THEN "seal" ELSE step[q]
                         /\ q # p => drawn'[q] = drawn[q]
    BY <1>8 DEF retrySeal, IndInv, TypeOK, ProcessorType
  <2>3. \A q \in Procs \ {p} : Drawn(q)' = Drawn(q) BY <2>2 DEF Drawn
  <2>4. \A m : Sent(m)' <=> Sent(m) BY <2>1 DEF Sent
  <2>5. PinsFromSeal' BY <2>1, <2>2, <2>4 DEF PayloadInv, PinsFromSeal
  <2>6. AllDrawn' BY <2>1, <2>2, <2>3 DEF PayloadInv, AllDrawn
  <2> QED BY <2>1, <2>5, <2>6 DEF PayloadInv, PinsSent
<1>9. ASSUME restart PROVE FALSE
  BY <1>9 DEF restart, IndInv, TypeOK, StoredType
<1> QED BY <1>1, <1>2, <1>3, <1>4, <1>5, <1>6, <1>7, <1>8, <1>9 DEF Next, messageSequencer, flush

(* Only a restart is counted, and nothing takes it back.                     *)
LEMMA CrashesGrow == TypeOK /\ [Next]_vars => crashes' = crashes \/ crashes' = crashes + 1
<1> SUFFICES ASSUME TypeOK, [Next]_vars PROVE crashes' = crashes \/ crashes' = crashes + 1 OBVIOUS
<1> USE DEF bounds
<1>1. ASSUME NEW m \in Messages, \/ commitMessage(m) \/ newMessageNotification(m) \/ skipMessage(m)
                                 \/ dispatchMessage(m)
      PROVE  crashes' = crashes
  BY <1>1 DEF commitMessage, newMessageNotification, skipMessage, dispatchMessage
<1>2. ASSUME reapQuiescing \/ readPage \/ filterFlushed \/ waitForNewMessages \/ UNCHANGED vars
      PROVE  crashes' = crashes
  BY <1>2 DEF reapQuiescing, readPage, filterFlushed, waitForNewMessages, vars
<1>3. ASSUME NEW p \in Procs, \/ addWork(p) \/ flushQueue(p) \/ startQuiesce(p) \/ processorDone(p)
                              \/ retrySeal(p)
      PROVE  crashes' = crashes
  BY <1>3 DEF addWork, flushQueue, startQuiesce, processorDone, retrySeal
<1>4. ASSUME NEW p \in Procs, flush(p) PROVE crashes' = crashes
  BY <1>4 DEF flush, calculateContexts, sealBatch, dispatchBatch, markPayloadDispatched,
              notifyFlushComplete
<1>5. ASSUME restart PROVE crashes' = crashes + 1 BY <1>5 DEF restart
<1> QED BY <1>1, <1>2, <1>3, <1>4, <1>5 DEF Next, messageSequencer

(* As long as the process is not restarted, every batch carries the pins   *)
(* of all its messages, whatever seals are retried.  (After a restart it   *)
(* does not: ToPin passes over a message whose seal had committed.)        *)
THEOREM BatchCarriesPins == Spec => [](crashes = 0 => PinsSent)
<1> DEFINE Inv == IndInv /\ PinInv /\ (crashes = 0 => PayloadInv)
<1>1. Init => Inv
  <2> SUFFICES ASSUME Init PROVE PayloadInv BY IndInit, PinInit
  <2>1. /\ DOMAIN chain = {} /\ \A p \in Procs : step[p] = "none"
        /\ \A m \in Messages : pins[m] = 0
    BY DEF Init
  <2> QED BY <2>1 DEF PayloadInv, PinsFromSeal, AllDrawn, PinsSent, Private
<1>2. Inv /\ [Next]_vars => Inv'
  <2> SUFFICES ASSUME Inv, [Next]_vars PROVE Inv' OBVIOUS
  <2>1. IndInv' /\ PinInv' BY IndStep, PinStep
  <2>2. ASSUME crashes' = 0 PROVE PayloadInv'
    <3>1. TypeOK /\ crashes \in Nat BY DEF IndInv, TypeOK, StoredType
    <3>2. crashes' = crashes BY <2>2, <3>1, CrashesGrow
    <3> QED BY <2>2, <3>2, PayloadStep
  <2> QED BY <2>1, <2>2
<1>3. Inv => (crashes = 0 => PinsSent) BY DEF PayloadInv
<1> QED BY <1>1, <1>2, <1>3, PTL DEF Spec

---------------------------------------------------------------------------
(* Nonces of a context *)

(* The private messages of a context are all sent by one processor: there  *)
(* is one per dispatcher, author and group, a context is a topic of one    *)
(* author in one group, so it is enough that the messages of a topic are   *)
(* not spread over transaction types.                                      *)
OneProcPerContext ==
  \A k, m \in Private : ContextOf[k] = ContextOf[m] => ProcOf[k] = ProcOf[m]

SameContext(k, m) == ContextOf[k] = ContextOf[m]
PinsSpent == \A m \in Private : pins[m] <= nonces[ContextOf[m]]
DrawnAbove ==
  \A p \in Procs : step[p] = "write" =>
    \A m \in Drawn(p) : /\ drawn[p][m] > nonces[ContextOf[m]]
                        /\ \A k \in Drawn(p) : SameContext(k, m) /\ k < m => drawn[p][k] < drawn[p][m]
NextOnChain ==
  \A p \in Procs : step[p] = "dispatch" =>
    \A m \in Drawn(p), k \in Private : OnChain(k) /\ SameContext(k, m) => pins[k] < pins[m]
NonceInv == PinsSpent /\ DrawnAbove /\ NextOnChain /\ PinsUnique /\ NonceOrder

(* Steps that draw no nonce and send nothing keep the nonces in order.     *)
LEMMA NonceStutter ==
  ASSUME NonceInv, UNCHANGED <<pins, nonces, drawn, chain>>,
         \A p \in Procs : step'[p] \in {"write", "dispatch"} => step'[p] = step[p]
  PROVE  NonceInv'
<1>1. \A p \in Procs : Drawn(p)' = Drawn(p) BY DEF Drawn
<1>2. \A m : OnChain(m)' <=> OnChain(m) BY DEF OnChain
<1>3. DrawnAbove' BY <1>1 DEF NonceInv, DrawnAbove
<1>4. NextOnChain' BY <1>1, <1>2 DEF NonceInv, NextOnChain
<1> QED BY <1>3, <1>4 DEF NonceInv, PinsSpent, PinsUnique, NonceOrder

(* Messages drawn for by two processors are on different contexts.           *)
LEMMA ContextsApart ==
  ASSUME OneProcPerContext, IndInv, PinInv, NEW p \in Procs, NEW q \in Procs, p # q,
         NEW k \in Drawn(p), NEW m \in Drawn(q)
  PROVE  ~SameContext(k, m)
<1>1. k \in flushing[p] /\ m \in flushing[q] /\ k \in Private /\ m \in Private
  BY DEF PinInv, DrawnFor
<1>2. ProcOf[k] = p /\ ProcOf[m] = q BY <1>1 DEF IndInv, BusyInflight
<1> QED BY <1>1, <1>2 DEF OneProcPerContext, SameContext

(* Within a batch the nonces of a context follow the sequence.               *)
LEMMA NonceMonotone ==
  ASSUME TypeOK, NEW p \in Procs, NEW k \in ToPin(p), NEW m \in ToPin(p),
         SameContext(k, m), k < m
  PROVE  NextNonce(p, k) < NextNonce(p, m)
<1> DEFINE S(x) == {j \in ToPin(p) : ContextOf[j] = ContextOf[x] /\ j <= x}
<1>1. ToPin(p) \subseteq Messages /\ Messages \subseteq Nat
  BY DEF ToPin, Private, Messages
<1>2. S(k) \subseteq S(m) /\ m \in S(m) /\ m \notin S(k)
  <2>1. k \in Nat /\ m \in Nat /\ \A j \in ToPin(p) : j \in Nat BY <1>1
  <2>2. \A j \in ToPin(p) : j <= k => j <= m BY <2>1
  <2>3. m <= m /\ ~(m <= k) BY <2>1
  <2> QED BY <2>2, <2>3 DEF SameContext
<1>3. IsFiniteSet(S(m)) /\ IsFiniteSet(S(k)) BY <1>1, MessagesFinite
<1>4. Cardinality(S(k)) <= Cardinality(S(m)) /\ Cardinality(S(k)) # Cardinality(S(m))
  <2>1. S(k) \in SUBSET S(m) /\ S(k) # S(m) BY <1>2
  <2> HIDE DEF S
  <2> QED BY <1>3, <2>1, FS_Subset
<1>5. Cardinality(S(k)) \in Nat /\ Cardinality(S(m)) \in Nat BY <1>3, FS_CardinalityType
<1>6. nonces[ContextOf[m]] \in Nat BY NonceDrawn
<1>7. /\ NextNonce(p, k) = nonces[ContextOf[m]] + Cardinality(S(k))
      /\ NextNonce(p, m) = nonces[ContextOf[m]] + Cardinality(S(m))
  BY DEF NextNonce, SameContext
<1> HIDE DEF S
<1> QED BY <1>4, <1>5, <1>6, <1>7

(* flushNonceState writes the highest nonce drawn on each context.           *)
LEMMA NoncesRaised ==
  ASSUME TypeOK, DrawnAbove, DrawnFor, NEW p \in Procs, step[p] = "write", NEW c \in Contexts
  PROVE  /\ \A m \in Drawn(p) : ContextOf[m] = c =>
               drawn[p][m] <= NoncesWritten(p)[c] /\ nonces[c] < NoncesWritten(p)[c]
         /\ (\A m \in Drawn(p) : ContextOf[m] # c) => NoncesWritten(p)[c] = nonces[c]
         /\ nonces[c] <= NoncesWritten(p)[c]
<1> DEFINE T == {m \in Drawn(p) : ContextOf[m] = c}
<1>0. /\ nonces[c] \in Nat /\ Drawn(p) \subseteq Messages
      /\ \A m \in Drawn(p) : m \in Nat /\ drawn[p][m] \in Nat
  <2>1. \A m \in Messages : drawn[p][m] \in Nat BY DEF TypeOK, ProcessorType
  <2>2. nonces[c] \in Nat BY DEF TypeOK, StoredType
  <2>3. \A m \in Messages : m \in Nat BY DEF Messages
  <2> QED BY <2>1, <2>2, <2>3 DEF Drawn
<1>1. LatestDrawn(p, c) = {m \in T : \A k \in T : k <= m} BY DEF LatestDrawn
<1>2. CASE T = {}
  <2>1. NoncesWritten(p)[c] = nonces[c] BY <1>1, <1>2 DEF NoncesWritten
  <2> QED BY <1>0, <1>2, <2>1
<1>3. CASE T # {}
  <2>1. LatestDrawn(p, c) # {}
    <3>1. T \subseteq Messages BY <1>0
    <3> HIDE DEF T
    <3> QED BY <1>1, <1>3, <3>1, GreatestExists
  <2> DEFINE last == CHOOSE m \in LatestDrawn(p, c) : TRUE
  <2>2. last \in LatestDrawn(p, c) BY <2>1
  <2>3. NoncesWritten(p)[c] = drawn[p][last] BY <2>1 DEF NoncesWritten
  <2> HIDE DEF last
  <2>4. last \in Drawn(p) /\ ContextOf[last] = c /\ \A k \in T : k <= last BY <1>1, <2>2
  <2>5. nonces[c] < drawn[p][last] BY <2>4 DEF DrawnAbove
  <2>6. ASSUME NEW m \in Drawn(p), ContextOf[m] = c PROVE drawn[p][m] <= drawn[p][last]
    <3>1. m <= last /\ m \in Nat /\ last \in Nat BY <1>0, <2>4, <2>6
    <3>2. CASE m = last BY <1>0, <2>4, <3>2
    <3>3. CASE m < last
      <4>1. drawn[p][m] < drawn[p][last] BY <2>4, <2>6, <3>3 DEF DrawnAbove, SameContext
      <4> QED BY <1>0, <2>4, <4>1
    <3> QED BY <3>1, <3>2, <3>3
  <2> QED BY <1>0, <1>3, <2>3, <2>4, <2>5, <2>6
<1> QED BY <1>2, <1>3

(* A seal draws the next nonces of its contexts, which no other processor  *)
(* uses.                                                                   *)
LEMMA SealNonces ==
  ASSUME OneProcPerContext, IndInv, PinInv, NonceInv, NEW p \in Procs, sealBatch(p)
  PROVE  NonceInv'
<1>1. /\ step[p] = "write" /\ UNCHANGED <<drawn, chain>>
      /\ nonces' = NoncesWritten(p)
      /\ pins' = [m \in Messages |-> IF m \in Drawn(p) THEN drawn[p][m] ELSE pins[m]]
  BY DEF sealBatch
<1>2. \A q \in Procs : step'[q] = IF q = p THEN "dispatch" ELSE step[q]
  BY DEF sealBatch, IndInv, TypeOK, ProcessorType
<1>3. \A q \in Procs : Drawn(q)' = Drawn(q) BY <1>1 DEF Drawn
<1>4. \A m : OnChain(m)' <=> OnChain(m) BY <1>1 DEF OnChain
<1>5. TypeOK /\ TypeOK' /\ DrawnAbove /\ DrawnFor /\ ChainHoldsPin
  BY TypeStep DEF IndInv, NonceInv, PinInv, Next, flush
<1>6. /\ \A m \in Private : m \in Messages /\ ContextOf[m] \in Contexts
      /\ \A m \in Private : pins[m] \in Nat /\ pins'[m] \in Nat
      /\ \A c \in Contexts : nonces[c] \in Nat /\ nonces'[c] \in Nat
  BY <1>5, BatchConstants DEF TypeOK, StoredType, Private
<1>7. Drawn(p) \subseteq Private /\ \A m \in Drawn(p) : pins'[m] = drawn[p][m] /\ pins[m] = 0
  BY <1>1, <1>5 DEF DrawnFor, Drawn
<1>8. \A m \in Private \ Drawn(p) : pins'[m] = pins[m] BY <1>1, <1>6
<1>9. \A m \in Drawn(p), c \in Contexts : ContextOf[m] = c => nonces[c] < drawn[p][m]
  BY <1>1, <1>5 DEF DrawnAbove
<1>10. PinsSpent'
  <2> SUFFICES ASSUME NEW m \in Private PROVE pins'[m] <= nonces'[ContextOf[m]] BY DEF PinsSpent
  <2>1. CASE m \in Drawn(p) BY <1>1, <1>5, <1>6, <1>7, <2>1, NoncesRaised
  <2>2. CASE m \notin Drawn(p)
    <3>1. pins[m] <= nonces[ContextOf[m]] BY DEF NonceInv, PinsSpent
    <3>2. nonces[ContextOf[m]] <= nonces'[ContextOf[m]] BY <1>1, <1>5, <1>6, NoncesRaised
    <3> QED BY <1>6, <1>8, <2>2, <3>1, <3>2
  <2> QED BY <2>1, <2>2
<1>11. DrawnAbove'
  <2> SUFFICES ASSUME NEW q \in Procs, step'[q] = "write", NEW m \in Drawn(q)
               PROVE  /\ drawn[q][m] > nonces'[ContextOf[m]]
                      /\ \A k \in Drawn(q) : SameContext(k, m) /\ k < m => drawn[q][k] < drawn[q][m]
    BY <1>1, <1>3 DEF DrawnAbove, SameContext
  <2>1. q # p /\ step[q] = "write" BY <1>2
  <2>2. \A k \in Drawn(p) : ContextOf[k] # ContextOf[m] BY <2>1, ContextsApart DEF SameContext
  <2>3. ContextOf[m] \in Contexts BY <1>5, <1>6 DEF DrawnFor
  <2>4. nonces'[ContextOf[m]] = nonces[ContextOf[m]] BY <1>1, <1>5, <2>2, <2>3, NoncesRaised
  <2> QED BY <1>5, <2>1, <2>4 DEF DrawnAbove
<1>12. NextOnChain'
  <2> SUFFICES ASSUME NEW q \in Procs, step'[q] = "dispatch", NEW m \in Drawn(q), NEW k \in Private,
                      OnChain(k), SameContext(k, m)
               PROVE  pins'[k] < pins'[m]
    BY <1>3, <1>4 DEF NextOnChain, SameContext
  <2>1. pins[k] # 0 BY <1>5 DEF ChainHoldsPin
  <2>2. pins'[k] = pins[k] BY <1>7, <1>8, <2>1
  <2>3. CASE q = p
    <3>1. pins[k] <= nonces[ContextOf[k]] BY DEF NonceInv, PinsSpent
    <3>2. nonces[ContextOf[k]] < drawn[p][m] BY <1>6, <1>9, <2>3 DEF SameContext
    <3>3. m \in Private /\ pins'[m] = drawn[p][m] BY <1>7, <2>3
    <3> QED BY <1>6, <2>2, <3>1, <3>2, <3>3
  <2>4. CASE q # p
    <3>1. m \in Private /\ m \notin Drawn(p) BY <1>5, <2>4, FlushingApart DEF DrawnFor
    <3>2. pins[k] < pins[m] BY <1>2, <2>4 DEF NonceInv, NextOnChain
    <3> QED BY <1>8, <2>2, <3>1, <3>2
  <2> QED BY <2>3, <2>4
<1>13. PinsUnique'
  <2> SUFFICES ASSUME NEW k \in Private, NEW m \in Private, k # m, SameContext(k, m), pins'[k] # 0
               PROVE  pins'[k] # pins'[m]
    BY DEF PinsUnique, SameContext
  <2>0. \A x \in Private, y \in Private :
          x \in Drawn(p) /\ y \notin Drawn(p) /\ SameContext(x, y) => pins'[y] < pins'[x]
    <3> SUFFICES ASSUME NEW x \in Private, NEW y \in Private, x \in Drawn(p), y \notin Drawn(p),
                        SameContext(x, y)
                 PROVE  pins'[y] < pins'[x]
      OBVIOUS
    <3>1. pins[y] <= nonces[ContextOf[y]] BY DEF NonceInv, PinsSpent
    <3>2. nonces[ContextOf[y]] < drawn[p][x] BY <1>6, <1>9 DEF SameContext
    <3>3. pins'[x] = drawn[p][x] /\ pins'[y] = pins[y] BY <1>7, <1>8
    <3> QED BY <1>6, <3>1, <3>2, <3>3
  <2>1. CASE k \in Drawn(p) /\ m \in Drawn(p)
    <3>1. k \in Nat /\ m \in Nat BY <1>6 DEF Messages
    <3>2. k < m \/ m < k BY <3>1
    <3>3. drawn[p][k] < drawn[p][m] \/ drawn[p][m] < drawn[p][k]
      BY <1>1, <1>5, <2>1, <3>2 DEF DrawnAbove, SameContext
    <3> QED BY <1>6, <1>7, <2>1, <3>3
  <2>2. CASE k \in Drawn(p) /\ m \notin Drawn(p) BY <1>6, <2>0, <2>2
  <2>3. CASE k \notin Drawn(p) /\ m \in Drawn(p)
    <3>1. pins'[k] < pins'[m] BY <2>0, <2>3 DEF SameContext
    <3> QED BY <1>6, <3>1
  <2>4. CASE k \notin Drawn(p) /\ m \notin Drawn(p)
    BY <1>8, <2>4 DEF NonceInv, PinsUnique, SameContext
  <2> QED BY <2>1, <2>2, <2>3, <2>4
<1>14. NonceOrder'
  <2>1. \A k \in Private : OnChain(k) => pins'[k] = pins[k]
    BY <1>5, <1>7, <1>8 DEF ChainHoldsPin
  <2> QED BY <1>1, <2>1 DEF NonceInv, NonceOrder, OnChain
<1> QED BY <1>10, <1>11, <1>12, <1>13, <1>14 DEF NonceInv

(* A dispatch sends the nonces that its seal drew.                         *)
LEMMA DispatchNonces ==
  ASSUME OneProcPerContext, IndInv, PinInv, NonceInv, NEW p \in Procs, dispatchBatch(p)
  PROVE  NonceInv'
<1>1. step[p] = "dispatch" /\ UNCHANGED <<pins, nonces>> BY DEF dispatchBatch
<1>2. \A q \in Procs : /\ step'[q] = IF q = p THEN "mark" ELSE step[q]
                       /\ q # p => drawn'[q] = drawn[q]
  BY DEF dispatchBatch, IndInv, TypeOK, ProcessorType
<1>3. \A q \in Procs \ {p} : Drawn(q)' = Drawn(q) BY <1>2 DEF Drawn
<1>4. /\ DOMAIN chain = 1..Len(chain) /\ Len(chain) \in Nat
      /\ DOMAIN chain' = 1..(Len(chain) + 1)
      /\ \A i \in DOMAIN chain : chain'[i] = chain[i]
      /\ chain'[Len(chain) + 1].pinned = PayloadPins(p)
  BY DEF dispatchBatch, IndInv, TypeOK, StoredType
<1>5. \A m : OnChain(m)' <=> OnChain(m) \/ m \in PayloadPins(p) BY <1>4 DEF OnChain
<1>6. PayloadPins(p) \cap Private = Drawn(p) BY DEF PayloadPins, PinInv, DrawnFor
<1>7. DrawnAbove' BY <1>1, <1>2, <1>3 DEF NonceInv, DrawnAbove, SameContext
<1>8. NextOnChain'
  <2> SUFFICES ASSUME NEW q \in Procs \ {p}, step[q] = "dispatch", NEW m \in Drawn(q),
                      NEW k \in Private, OnChain(k) \/ k \in PayloadPins(p), SameContext(k, m)
               PROVE  pins[k] < pins[m]
    BY <1>1, <1>2, <1>3, <1>5 DEF NextOnChain, SameContext
  <2>1. k \notin Drawn(p) BY ContextsApart
  <2> QED BY <1>6, <2>1 DEF NonceInv, NextOnChain
<1>9. NonceOrder'
  <2>1. \A i \in DOMAIN chain : \A k \in chain[i].pinned \cap Private, m \in Drawn(p) :
          SameContext(k, m) => pins[k] < pins[m]
    BY <1>1 DEF NonceInv, NextOnChain, OnChain
  <2> SUFFICES ASSUME NEW i \in DOMAIN chain', NEW j \in DOMAIN chain', i < j,
                      NEW k \in chain'[i].pinned \cap Private, NEW m \in chain'[j].pinned \cap Private,
                      SameContext(k, m)
               PROVE  pins[k] < pins[m]
    BY <1>1 DEF NonceOrder, SameContext
  <2>2. CASE j \in DOMAIN chain
    <3>1. i \in DOMAIN chain BY <1>4, <2>2
    <3> QED BY <1>4, <2>2, <3>1 DEF NonceInv, NonceOrder, SameContext
  <2>3. CASE j = Len(chain) + 1
    <3>1. i \in DOMAIN chain BY <1>4, <2>3
    <3> QED BY <1>4, <1>6, <2>1, <2>3, <3>1
  <2> QED BY <1>4, <2>2, <2>3
<1> QED BY <1>1, <1>7, <1>8, <1>9 DEF NonceInv, PinsSpent, PinsUnique

(* Every step keeps the nonces in order.                                   *)
LEMMA NonceStep ==
  ASSUME OneProcPerContext
  PROVE  IndInv /\ PinInv /\ NonceInv /\ [Next]_vars => NonceInv'
<1> SUFFICES ASSUME IndInv, PinInv, NonceInv, [Next]_vars PROVE NonceInv' OBVIOUS
<1> USE DEF stored, sequencer, assembly, bounds
<1>1. ASSUME NEW m \in Messages, \/ commitMessage(m) \/ newMessageNotification(m) \/ skipMessage(m)
      PROVE  NonceInv'
  BY <1>1, NonceStutter DEF commitMessage, newMessageNotification, skipMessage
<1>2. ASSUME NEW m \in Messages, dispatchMessage(m) PROVE NonceInv'
  <2>1. UNCHANGED <<pins, nonces, drawn, chain>> BY <1>2 DEF dispatchMessage
  <2>2. \A q \in Procs : step'[q] = step[q] \/ step'[q] = "loop"
    BY <1>2 DEF dispatchMessage, getProcessor, IndInv, TypeOK, ProcessorType
  <2> QED BY <2>1, <2>2, NonceStutter
<1>3. ASSUME reapQuiescing \/ readPage \/ filterFlushed \/ waitForNewMessages \/ UNCHANGED vars
      PROVE  NonceInv'
  BY <1>3, NonceStutter DEF reapQuiescing, readPage, filterFlushed, waitForNewMessages, vars
<1>4. ASSUME NEW p \in Procs, \/ addWork(p) \/ flushQueue(p) \/ startQuiesce(p) \/ processorDone(p)
                              \/ markPayloadDispatched(p) \/ notifyFlushComplete(p)
      PROVE  NonceInv'
  <2>1. UNCHANGED <<pins, nonces, drawn, chain>>
    BY <1>4 DEF addWork, flushQueue, startQuiesce, processorDone, markPayloadDispatched,
                notifyFlushComplete
  <2>2. \A q \in Procs : step'[q] = step[q] \/ step'[q] \in {"loop", "none", "seal", "notify"}
    BY <1>4 DEF addWork, flushQueue, startFlush, startQuiesce, processorDone,
                markPayloadDispatched, notifyFlushComplete, IndInv, TypeOK, ProcessorType
  <2> QED BY <2>1, <2>2, NonceStutter
<1>5. ASSUME NEW p \in Procs, calculateContexts(p) PROVE NonceInv'
  <2>1. /\ UNCHANGED <<pins, nonces, chain>>
        /\ drawn' = [drawn EXCEPT ![p] = [m \in Messages |-> IF m \in ToPin(p) THEN NextNonce(p, m) ELSE 0]]
    BY <1>5 DEF calculateContexts
  <2>2. \A q \in Procs : step'[q] = IF q = p THEN "write" ELSE step[q]
    BY <1>5 DEF calculateContexts, IndInv, TypeOK, ProcessorType
  <2>3. /\ \A m \in Drawn(p)' : m \in ToPin(p) /\ drawn'[p][m] = NextNonce(p, m)
        /\ \A q \in Procs \ {p} : Drawn(q)' = Drawn(q) /\ drawn'[q] = drawn[q]
    BY <2>1 DEF Drawn, IndInv, TypeOK, ProcessorType
  <2>4. \A m : OnChain(m)' <=> OnChain(m) BY <2>1 DEF OnChain
  <2>5. DrawnAbove'
    <3> SUFFICES ASSUME NEW q \in Procs, step'[q] = "write", NEW m \in Drawn(q)'
                 PROVE  /\ drawn'[q][m] > nonces[ContextOf[m]]
                        /\ \A k \in Drawn(q)' : SameContext(k, m) /\ k < m => drawn'[q][k] < drawn'[q][m]
      BY <2>1 DEF DrawnAbove, SameContext
    <3>1. CASE q = p BY <2>3, <3>1, NonceDrawn, NonceMonotone DEF IndInv
    <3>2. CASE q # p BY <2>2, <2>3, <3>2 DEF NonceInv, DrawnAbove
    <3> QED BY <3>1, <3>2
  <2>6. NextOnChain' BY <2>1, <2>2, <2>3, <2>4 DEF NonceInv, NextOnChain, SameContext
  <2> QED BY <2>1, <2>5, <2>6 DEF NonceInv, PinsSpent, PinsUnique, NonceOrder
<1>6. ASSUME NEW p \in Procs, sealBatch(p) PROVE NonceInv' BY <1>6, SealNonces
<1>7. ASSUME NEW p \in Procs, dispatchBatch(p) PROVE NonceInv' BY <1>7, DispatchNonces
<1>8. ASSUME NEW p \in Procs, retrySeal(p) PROVE NonceInv'
  <2>1. UNCHANGED <<pins, nonces, chain>> BY <1>8 DEF retrySeal
  <2>2. \A q \in Procs : /\ step'[q] = IF q = p THEN "seal" ELSE step[q]
                         /\ q # p => drawn'[q] = drawn[q]
    BY <1>8 DEF retrySeal, IndInv, TypeOK, ProcessorType
  <2>3. \A q \in Procs \ {p} : Drawn(q)' = Drawn(q) BY <2>2 DEF Drawn
  <2>4. \A m : OnChain(m)' <=> OnChain(m) BY <2>1 DEF OnChain
  <2>5. DrawnAbove' BY <2>1, <2>2, <2>3 DEF NonceInv, DrawnAbove, SameContext
  <2>6. NextOnChain' BY <2>1, <2>2, <2>3, <2>4 DEF NonceInv, NextOnChain, SameContext
  <2> QED BY <2>1, <2>5, <2>6 DEF NonceInv, PinsSpent, PinsUnique, NonceOrder
<1>9. ASSUME restart PROVE NonceInv'
  <2>1. UNCHANGED <<pins, nonces, chain>> /\ step' = [q \in Procs |-> "none"]
    BY <1>9 DEF restart, NewProcess
  <2> QED BY <2>1 DEF NonceInv, DrawnAbove, NextOnChain, PinsSpent, PinsUnique, NonceOrder
<1> QED BY <1>1, <1>2, <1>3, <1>4, <1>5, <1>6, <1>7, <1>8, <1>9 DEF Next, messageSequencer, flush

(* No nonce has been drawn at first.                                       *)
LEMMA NonceInit == Init => NonceInv
<1> SUFFICES ASSUME Init PROVE NonceInv OBVIOUS
<1>1. /\ DOMAIN chain = {} /\ \A p \in Procs : step[p] = "none"
      /\ \A m \in Messages : pins[m] = 0
      /\ \A c \in Contexts : nonces[c] = 0
  BY DEF Init
<1>2. \A m \in Private : m \in Messages /\ ContextOf[m] \in Contexts
  BY BatchConstants DEF Private
<1> QED BY <1>1, <1>2 DEF NonceInv, PinsSpent, DrawnAbove, NextOnChain, PinsUnique, NonceOrder

(* The nonces are in order in every reachable state.                       *)
LEMMA NonceAlways ==
  ASSUME OneProcPerContext PROVE Spec => [](PinsUnique /\ NonceOrder)
<1>1. Init => IndInv /\ PinInv /\ NonceInv BY IndInit, PinInit, NonceInit
<1>2. IndInv /\ PinInv /\ NonceInv /\ [Next]_vars => (IndInv /\ PinInv /\ NonceInv)'
  BY IndStep, PinStep, NonceStep
<1>3. NonceInv => PinsUnique /\ NonceOrder BY DEF NonceInv
<1> QED BY <1>1, <1>2, <1>3, PTL DEF Spec

(* When the private messages of a context are sent by one processor, no    *)
(* two of them hold the same pin, through retried seals and restarts: the  *)
(* nonce that is read stays the latest until the seal writes the next.     *)
(* (Without the hypothesis this fails: see the run Batch_nonce.)           *)
THEOREM OwnPins == ASSUME OneProcPerContext PROVE Spec => []PinsUnique
BY NonceAlways, PTL

(* ... and their pins reach the chain in increasing order of the nonces.   *)
(* (That no nonce is left out is not stated.)                              *)
THEOREM PinsInNonceOrder == ASSUME OneProcPerContext PROVE Spec => []NonceOrder
BY NonceAlways, PTL

---------------------------------------------------------------------------
(* The order of an author's messages *)

(* A message that is on time is committed before every message that has a  *)
(* later sequence, and can be read.                                        *)
OnTime == {k \in Committed : k \notin NoData /\ ~CommittedLate(k)}
SentEver == {m \in Messages : \E i \in DOMAIN chain : m \in chain[i].msgs}

(* The sequencer: what is known to it was committed, a marked message was  *)
(* sent, and a message on time that the cursor has passed, or that precedes *)
(* an entry of the page, has been handed over.                             *)
CommittedOnce == \A i, j \in DOMAIN committed : committed[i] = committed[j] => i = j
KnownCommitted ==
  page \subseteq Committed /\ inflight \subseteq Committed /\ SentEver \subseteq Committed
MarkedSent ==
  /\ marked \subseteq SentEver /\ flushed \subseteq marked
  /\ \A p \in Procs : /\ step[p] \in {"mark", "notify"} => flushing[p] \subseteq SentEver
                      /\ step[p] = "notify" => flushing[p] \subseteq marked
CursorOrder ==
  /\ readOffset = 0 \/ \E y \in Committed : readOffset <= y
  /\ \A k \in OnTime : k <= readOffset => k \in marked \cup inflight
PageOrder ==
  pc \in {"filter", "dispatch"} =>
    \A m \in page, k \in OnTime : k < m => k \in page \cup marked \cup inflight

(* A processor: what precedes a message in the sequence precedes it on the *)
(* way through the channel, the queue and the batch to the chain.          *)
Placed == \A m \in inflight : m \in SentEver \/ \E p \in Procs : m \in Work(p) \cup queue[p] \cup flushing[p]
WorkOrder ==
  \A p \in Procs, k \in OnTime : ProcOf[k] = p =>
    \A i \in DOMAIN newWork[p] : k < newWork[p][i] =>
      k \in queue[p] \cup flushing[p] \cup SentEver \/ \E j \in 1..(i - 1) : newWork[p][j] = k
QueueOrder ==
  \A p \in Procs, k \in OnTime : ProcOf[k] = p =>
    \A m \in queue[p] : k < m => k \in queue[p] \cup flushing[p] \cup SentEver
BatchOrder ==
  \A p \in Procs, k \in OnTime : ProcOf[k] = p =>
    \A m \in flushing[p] : k < m => k \in flushing[p] \cup SentEver
ChainOrder ==
  \A k \in OnTime, i \in DOMAIN chain : \A m \in chain[i].msgs :
    k < m /\ ProcOf[k] = ProcOf[m] => \E j \in 1..i : k \in chain[j].msgs

ReaderInv == CommittedOnce /\ KnownCommitted /\ MarkedSent /\ CursorOrder /\ PageOrder
SenderInv == Placed /\ WorkOrder /\ QueueOrder /\ BatchOrder /\ ChainOrder

(* Nothing has been committed, read or sent at first.                      *)
LEMMA OrderInit == Init => ReaderInv /\ SenderInv
<1> SUFFICES ASSUME Init PROVE ReaderInv /\ SenderInv OBVIOUS
<1>1. /\ DOMAIN committed = {} /\ DOMAIN chain = {} /\ page = {} /\ inflight = {} /\ flushed = {}
      /\ marked = {} /\ readOffset = 0
      /\ \A p \in Procs : step[p] = "none"
  BY DEF Init
<1>2. Committed = {} /\ SentEver = {} BY <1>1 DEF Committed, SentEver
<1>3. OnTime = {} BY <1>2 DEF OnTime
<1> QED
  BY <1>1, <1>2, <1>3
     DEF ReaderInv, SenderInv, CommittedOnce, KnownCommitted, MarkedSent, CursorOrder, PageOrder,
         Placed, WorkOrder, QueueOrder, BatchOrder, ChainOrder

(* The position of a commit, and what a further commit does to it *)
LEMMA CommitPosition ==
  ASSUME CommittedOnce, NEW k \in Committed
  PROVE  /\ CommitOf(k) \in DOMAIN committed /\ committed[CommitOf(k)] = k
         /\ \A i \in DOMAIN committed : committed[i] = k => i = CommitOf(k)
<1>1. \E i \in DOMAIN committed : committed[i] = k BY DEF Committed
<1>2. CommitOf(k) \in DOMAIN committed /\ committed[CommitOf(k)] = k BY <1>1 DEF CommitOf
<1> QED BY <1>2 DEF CommittedOnce

(* Messages are numbered.                                                  *)
LEMMA CommittedNat == TypeOK => \A k \in Committed : k \in Messages /\ k \in Nat
<1> SUFFICES ASSUME TypeOK, NEW k \in Committed PROVE k \in Messages /\ k \in Nat OBVIOUS
<1>1. k \in Messages BY DEF TypeOK, StoredType, Committed
<1> QED BY <1>1 DEF Messages

(* A commit adds one message, on time only if it follows all others.       *)
LEMMA CommitGrows ==
  ASSUME TypeOK, CommittedOnce, NEW m \in Messages, commitMessage(m)
  PROVE  /\ CommittedOnce' /\ Committed' = Committed \cup {m}
         /\ \A k \in OnTime' : k \in OnTime \/ \A y \in Committed : y < k
<1>1. committed \in Seq(Messages) /\ m \notin Committed /\ committed' = Append(committed, m)
  BY DEF TypeOK, StoredType, commitMessage
<1>2. PICK n \in Nat : n = Len(committed) BY <1>1
<1>3. /\ DOMAIN committed = 1..n /\ DOMAIN committed' = 1..(n + 1)
      /\ committed'[n + 1] = m /\ \A i \in 1..n : committed'[i] = committed[i]
  BY <1>1, <1>2
<1>4. \A i \in 1..n : committed[i] # m BY <1>1, <1>3 DEF Committed
<1>5. CommittedOnce' BY <1>3, <1>4 DEF CommittedOnce
<1>6. Committed' = Committed \cup {m}
  <2>1. Committed' \subseteq Committed \cup {m} BY <1>3 DEF Committed
  <2>2. m \in Committed' /\ Committed \subseteq Committed' BY <1>3 DEF Committed
  <2> QED BY <2>1, <2>2
<1>7. ASSUME NEW k \in Committed PROVE CommitOf(k)' = CommitOf(k) /\ CommitOf(k) \in 1..n
  <2>1. CommitOf(k) \in 1..n /\ committed'[CommitOf(k)] = k BY <1>3, CommitPosition
  <2>2. CommitOf(k) \in 1..(n + 1) BY <2>1
  <2>3. k \in Committed' BY <1>6
  <2>4. \A i \in DOMAIN committed' : committed'[i] = k => i = CommitOf(k)'
    BY <1>5, <2>3 DEF CommitOf, Committed, CommittedOnce
  <2> QED BY <1>3, <2>1, <2>2, <2>4
<1>8. CommitOf(m)' = n + 1
  <2>1. n + 1 \in DOMAIN committed' BY <1>3
  <2>2. CommitOf(m)' \in DOMAIN committed' /\ committed'[CommitOf(m)'] = m BY <1>3, <2>1 DEF CommitOf
  <2> QED BY <1>3, <1>5, <2>1, <2>2 DEF CommittedOnce
<1>9. ASSUME NEW k \in OnTime' PROVE k \in OnTime \/ \A y \in Committed : y < k
  <2>1. k \in Committed \cup {m} /\ k \notin NoData BY <1>6 DEF OnTime
  <2>2. \A y \in Committed : ~(y > k /\ CommitOf(y)' < CommitOf(k)')
    BY <1>6 DEF OnTime, CommittedLate
  <2>3. CASE k \in Committed
    <3>1. \A y \in Committed : ~(y > k /\ CommitOf(y) < CommitOf(k)) BY <1>7, <2>2, <2>3
    <3> QED BY <2>1, <2>3, <3>1 DEF OnTime, CommittedLate
  <2>4. CASE k = m
    <3> SUFFICES ASSUME NEW y \in Committed PROVE y < k BY <2>4
    <3>1. CommitOf(y)' < CommitOf(k)' BY <1>2, <1>7, <1>8, <2>4
    <3>2. ~(y > k) /\ y # k BY <1>1, <2>2, <2>4, <3>1
    <3>3. y \in Nat /\ k \in Nat BY <2>4, CommittedNat DEF Messages
    <3> QED BY <3>2, <3>3
  <2> QED BY <2>1, <2>3, <2>4
<1> QED BY <1>5, <1>6, <1>9

(* Who was on time depends on the commits alone.                           *)
LEMMA OnTimeKept ==
  ASSUME UNCHANGED committed
  PROVE  Committed' = Committed /\ OnTime' = OnTime /\ (CommittedOnce => CommittedOnce')
BY DEF Committed, OnTime, CommittedLate, CommitOf, CommittedOnce

(* What was ever sent depends on the chain alone.                          *)
LEMMA SentKept == ASSUME UNCHANGED chain PROVE SentEver' = SentEver
BY DEF SentEver

(* What was sent are messages.                                             *)
LEMMA ChainMessages == TypeOK => \A i \in DOMAIN chain : \A m \in chain[i].msgs : m \in Messages
<1> SUFFICES ASSUME TypeOK, NEW i \in DOMAIN chain PROVE chain[i].msgs \subseteq Messages OBVIOUS
<1> DEFINE R == [proc : Procs, run : Nat, msgs : SUBSET Messages, pinned : SUBSET Messages]
<1>1. chain \in Seq(R) BY DEF TypeOK, StoredType
<1>2. chain[i] \in R
  <2> HIDE DEF R
  <2> QED BY <1>1
<1> QED BY <1>2

(* Each group of facts depends on these variables only *)
LEMMA ReaderStutter ==
  ASSUME ReaderInv,
         UNCHANGED <<committed, chain, marked, readOffset, inflight, flushed>>,
         UNCHANGED <<page, pc>> \/ (UNCHANGED page /\ pc' \in {"reap", "read"}),
         \A p \in Procs : \/ step'[p] = step[p] /\ flushing'[p] = flushing[p]
                          \/ step'[p] \notin {"mark", "notify"}
  PROVE  ReaderInv'
<1>1. CommittedOnce' BY OnTimeKept DEF ReaderInv
<1>2. KnownCommitted' BY OnTimeKept, SentKept DEF ReaderInv, KnownCommitted
<1>3. MarkedSent' BY SentKept DEF ReaderInv, MarkedSent
<1>4. CursorOrder' BY OnTimeKept DEF ReaderInv, CursorOrder
<1>5. PageOrder' BY OnTimeKept DEF ReaderInv, PageOrder
<1> QED BY <1>1, <1>2, <1>3, <1>4, <1>5 DEF ReaderInv

(* Steps that move no message keep the order of the senders.               *)
LEMMA SenderStutter ==
  ASSUME SenderInv, UNCHANGED <<committed, chain, newWork, queue, flushing>>, inflight' \subseteq inflight
  PROVE  SenderInv'
<1>1. \A p \in Procs : Work(p)' = Work(p) BY DEF Work
<1>2. Placed' BY <1>1, SentKept DEF SenderInv, Placed
<1>3. WorkOrder' BY OnTimeKept, SentKept DEF SenderInv, WorkOrder
<1>4. QueueOrder' /\ BatchOrder' BY OnTimeKept, SentKept DEF SenderInv, QueueOrder, BatchOrder
<1>5. ChainOrder' BY OnTimeKept DEF SenderInv, ChainOrder
<1> QED BY <1>2, <1>3, <1>4, <1>5 DEF SenderInv

(* A commit: a new message that is on time is above everything known.        *)
LEMMA CommitOrder ==
  ASSUME IndInv, ReaderInv, SenderInv, NEW m \in Messages, commitMessage(m)
  PROVE  ReaderInv' /\ SenderInv'
<1>1. UNCHANGED <<chain, marked, readOffset, page, pc, inflight, flushed, step, newWork, queue, flushing>>
  BY DEF commitMessage, sequencer, assembly
<1>2. TypeOK /\ CommittedOnce BY DEF IndInv, ReaderInv
<1>3. /\ CommittedOnce' /\ Committed' = Committed \cup {m}
      /\ \A k \in OnTime' : k \in OnTime \/ \A y \in Committed : y < k
  BY <1>2, CommitGrows
<1>n. /\ \A y \in Committed : y \in Nat
      /\ \A k \in OnTime' : k \in Nat
  <2>1. m \in Nat BY DEF Messages
  <2>2. \A y \in Committed : y \in Nat BY <1>2, CommittedNat
  <2> QED BY <1>3, <2>1, <2>2 DEF OnTime
<1>4. \A k \in OnTime' : k \notin OnTime => \A y \in Committed : ~(k < y)
  BY <1>3, <1>n
<1>5. KnownCommitted' BY <1>1, <1>3, SentKept DEF ReaderInv, KnownCommitted
<1>6. MarkedSent' BY <1>1, SentKept DEF ReaderInv, MarkedSent
<1>7. CursorOrder'
  <2>1. readOffset = 0 \/ \E y \in Committed : readOffset <= y BY DEF ReaderInv, CursorOrder
  <2>2. ASSUME NEW k \in OnTime', k <= readOffset PROVE k \in OnTime
    <3> SUFFICES ASSUME \A y \in Committed : y < k PROVE FALSE BY <1>3
    <3>0. readOffset \in Nat /\ k \in Nat /\ k > 0
      <4>1. readOffset \in Nat BY <1>2 DEF TypeOK, SequencerType
      <4>2. k \in Committed' BY DEF OnTime
      <4>3. k \in Messages BY <1>2, <1>3, <4>2, CommittedNat
      <4> QED BY <4>1, <4>3 DEF Messages
    <3>1. CASE readOffset = 0 BY <2>2, <3>0, <3>1
    <3>2. ASSUME NEW y \in Committed, readOffset <= y PROVE FALSE
      BY <1>n, <2>2, <3>0, <3>2
    <3> QED BY <2>1, <3>1, <3>2
  <2> QED BY <1>1, <1>3, <2>1, <2>2 DEF ReaderInv, CursorOrder
<1>8. PageOrder'
  <2>1. page \subseteq Committed BY DEF ReaderInv, KnownCommitted
  <2> QED BY <1>1, <1>4, <2>1 DEF ReaderInv, PageOrder
<1>9. Placed' BY <1>1, SentKept DEF SenderInv, Placed, Work
<1>10. \A p \in Procs : \A x \in Work(p) \cup queue[p] \cup flushing[p] : x \in Committed
  BY DEF IndInv, BusyInflight, ReaderInv, KnownCommitted
<1>11. WorkOrder'
  <2>1. \A p \in Procs : \A i \in DOMAIN newWork[p] : newWork[p][i] \in Committed BY <1>10 DEF Work
  <2> QED BY <1>1, <1>4, <2>1, SentKept DEF SenderInv, WorkOrder
<1>12. QueueOrder' BY <1>1, <1>4, <1>10, SentKept DEF SenderInv, QueueOrder
<1>13. BatchOrder' BY <1>1, <1>4, <1>10, SentKept DEF SenderInv, BatchOrder
<1>14. ChainOrder'
  <2>1. \A i \in DOMAIN chain : \A x \in chain[i].msgs : x \in Committed
    <3> SUFFICES ASSUME NEW i \in DOMAIN chain, NEW x \in chain[i].msgs PROVE x \in Committed OBVIOUS
    <3>1. x \in Messages BY <1>2, ChainMessages
    <3>2. x \in SentEver BY <3>1 DEF SentEver
    <3> QED BY <3>2 DEF ReaderInv, KnownCommitted
  <2> QED BY <1>1, <1>4, <2>1 DEF SenderInv, ChainOrder
<1> QED BY <1>3, <1>5, <1>6, <1>7, <1>8, <1>9, <1>11, <1>12, <1>13, <1>14 DEF ReaderInv, SenderInv

(* A page: what precedes an entry was passed before, is marked, or is an entry too *)
LEMMA ReadPageOrder ==
  ASSUME IndInv, ReaderInv, readPage
  PROVE  ReaderInv'
<1>1. /\ UNCHANGED <<committed, chain, marked, inflight, flushed, step, flushing>>
      /\ page' = FirstPage(ReadyAfter(readOffset')) /\ pc' = "filter"
  BY DEF readPage, stored
<1>2. TypeOK /\ TypeOK' BY TypeStep DEF IndInv, Next, messageSequencer
<1>3. readOffset \in Nat /\ readOffset' \in Nat BY <1>2 DEF TypeOK, SequencerType
<1>4. readOffset' <= readOffset
  BY <1>2, <1>3, BatchConstants DEF readPage, popRewind, RewoundOffset, TypeOK, SequencerType
<1>n. \A k \in Committed : k \in Nat BY <1>2, CommittedNat
<1>5. CursorOrder'
  <2>1. readOffset' = 0 \/ \E y \in Committed : readOffset' <= y
    <3>1. CASE readOffset = 0 BY <1>3, <1>4, <3>1
    <3>2. ASSUME NEW y \in Committed, readOffset <= y PROVE readOffset' <= y
      BY <1>3, <1>4, <1>n, <3>2
    <3> QED BY <3>1, <3>2 DEF ReaderInv, CursorOrder
  <2>2. \A k \in OnTime : k <= readOffset' => k \in marked \cup inflight
    BY <1>3, <1>4, <1>n DEF ReaderInv, CursorOrder, OnTime
  <2> QED BY <1>1, <2>1, <2>2, OnTimeKept DEF CursorOrder
<1>6. page' \subseteq Committed BY <1>1 DEF FirstPage, ReadyAfter
<1>7. PageOrder'
  <2> SUFFICES ASSUME NEW m \in page', NEW k \in OnTime, k < m
               PROVE  k \in page' \cup marked \cup inflight
    BY <1>1, OnTimeKept DEF PageOrder
  <2>1. k \in Committed /\ k \in Nat /\ m \in Nat BY <1>6, <1>n DEF OnTime
  <2>2. CASE k <= readOffset' BY <1>1, <1>5, <2>2, OnTimeKept DEF CursorOrder
  <2>3. CASE k > readOffset' /\ k \notin marked
    <3> DEFINE S == ReadyAfter(readOffset')
               Upto(x) == {j \in S : j <= x}
    <3>1. ReadyAfter(readOffset)' = S BY <1>1, OnTimeKept DEF ReadyAfter
    <3>2. k \in S BY <2>1, <2>3 DEF ReadyAfter
    <3>3. page' = {x \in S : Cardinality(Upto(x)) <= PageSize} BY <1>1 DEF FirstPage
    <3>4. \A j \in S : j \in Messages /\ j \in Nat BY <1>2, CommittedNat DEF ReadyAfter
    <3> HIDE DEF S
    <3>5. Upto(k) \subseteq Upto(m)
      <4>1. \A j \in S : j <= k => j <= m BY <2>1, <3>4
      <4> QED BY <4>1
    <3>6. Upto(m) \subseteq Messages BY <3>4
    <3>7. IsFiniteSet(Upto(m)) /\ IsFiniteSet(Upto(k)) BY <3>5, <3>6, MessagesFinite
    <3>8. Cardinality(Upto(m)) <= PageSize BY <3>3
    <3> HIDE DEF Upto
    <3>9. Cardinality(Upto(k)) <= Cardinality(Upto(m)) BY <3>5, <3>7, FS_Subset
    <3>10. Cardinality(Upto(k)) \in Nat /\ Cardinality(Upto(m)) \in Nat BY <3>7, FS_CardinalityType
    <3>11. Cardinality(Upto(k)) <= PageSize BY <3>8, <3>9, <3>10, BatchConstants
    <3> QED BY <3>2, <3>3, <3>11
  <2> QED BY <1>3, <2>1, <2>2, <2>3
<1>8. KnownCommitted' BY <1>1, <1>6, OnTimeKept, SentKept DEF ReaderInv, KnownCommitted
<1>9. MarkedSent' BY <1>1, SentKept DEF ReaderInv, MarkedSent
<1> QED BY <1>1, <1>5, <1>7, <1>8, <1>9, OnTimeKept DEF ReaderInv

(* The sequencer drops what was flushed from a page it has read.           *)
LEMMA FilterOrder ==
  ASSUME IndInv, ReaderInv, SenderInv, filterFlushed
  PROVE  ReaderInv' /\ SenderInv'
<1>1. /\ UNCHANGED <<committed, chain, marked, readOffset, step, newWork, queue, flushing>>
      /\ pc = "filter" /\ page' = page \ inflight /\ inflight' = inflight \ flushed /\ flushed' = {}
  BY DEF filterFlushed, Unflushed, stored, assembly
<1>2. marked \cup inflight = marked \cup inflight' BY <1>1 DEF ReaderInv, MarkedSent
<1>3. KnownCommitted' BY <1>1, OnTimeKept, SentKept DEF ReaderInv, KnownCommitted
<1>4. MarkedSent' BY <1>1, SentKept DEF ReaderInv, MarkedSent
<1>5. CursorOrder' BY <1>1, <1>2, OnTimeKept DEF ReaderInv, CursorOrder
<1>6. PageOrder' BY <1>1, <1>2, OnTimeKept DEF ReaderInv, PageOrder
<1>7. SenderInv' BY <1>1, SenderStutter
<1> QED BY <1>1, <1>3, <1>4, <1>5, <1>6, <1>7, OnTimeKept DEF ReaderInv

(* The next entry leaves the page, handed over or passed over *)
LEMMA EntryOrder ==
  ASSUME IndInv, ReaderInv, NEW m \in Messages, NextEntry(m), entryDone(m),
         UNCHANGED <<committed, chain, marked, flushed, flushing>>,
         inflight' = inflight \cup {m} \/ (inflight' = inflight /\ m \in NoData),
         \A p \in Procs : step'[p] = step[p] \/ step'[p] = "loop"
  PROVE  ReaderInv'
<1>1. /\ pc = "dispatch" /\ m \in page /\ page' = page \ {m} /\ pc' = pc
      /\ readOffset' = IF page = {m} THEN m ELSE readOffset
  BY DEF NextEntry, entryDone
<1>2. m \in Committed BY <1>1 DEF ReaderInv, KnownCommitted
<1>3. \A k \in OnTime : k # m \/ m \in inflight' BY DEF OnTime
<1>n. m \in Nat /\ \A k \in OnTime : k \in Nat BY CommittedNat DEF IndInv, OnTime, Messages
<1>4. KnownCommitted' BY <1>1, <1>2, OnTimeKept, SentKept DEF ReaderInv, KnownCommitted
<1>5. MarkedSent' BY SentKept DEF ReaderInv, MarkedSent
<1>6. PageOrder'
  BY <1>1, <1>3, OnTimeKept DEF ReaderInv, PageOrder
<1>7. CursorOrder'
  <2>1. CASE page = {m}
    <3>1. ASSUME NEW k \in OnTime, k <= m PROVE k \in marked \cup inflight'
      <4>1. CASE k = m BY <1>3, <4>1
      <4>2. CASE k < m
        <5>1. k \in page \cup marked \cup inflight BY <1>1, <4>2 DEF ReaderInv, PageOrder
        <5>2. k # m BY <1>n, <4>2
        <5> QED BY <2>1, <5>1, <5>2
      <4> QED BY <1>n, <3>1, <4>1, <4>2
    <3>2. m <= m BY <1>n
    <3> QED BY <1>1, <1>2, <2>1, <3>1, <3>2, OnTimeKept DEF CursorOrder
  <2>2. CASE page # {m} BY <1>1, <2>2, OnTimeKept DEF ReaderInv, CursorOrder
  <2> QED BY <2>1, <2>2
<1> QED BY <1>4, <1>5, <1>6, <1>7, OnTimeKept DEF ReaderInv

(* The message handed over comes last in the channel of its processor.       *)
LEMMA HandOverOrder ==
  ASSUME IndInv, ReaderInv, SenderInv, NEW m \in Messages, dispatchMessage(m)
  PROVE  SenderInv'
<1>1. /\ UNCHANGED <<committed, chain, queue, flushing>> /\ inflight' = inflight \cup {m}
      /\ pc = "dispatch" /\ m \in page /\ \A k \in page : m <= k
  BY DEF dispatchMessage, NextEntry, stored
<1>2. PICK p \in Procs : p = ProcOf[m] BY BatchConstants
<1>3. /\ newWork[p] \in Seq(Messages) /\ newWork'[p] = Append(newWork[p], m)
      /\ \A r \in Procs \ {p} : newWork'[r] = newWork[r]
  BY <1>2 DEF dispatchMessage, IndInv, TypeOK, ProcessorType
<1>4. PICK n \in Nat : n = Len(newWork[p]) BY <1>3
<1>5. /\ DOMAIN newWork[p] = 1..n /\ DOMAIN newWork'[p] = 1..(n + 1)
      /\ newWork'[p][n + 1] = m /\ \A i \in 1..n : newWork'[p][i] = newWork[p][i]
  BY <1>3, <1>4
<1>6. Work(p)' = Work(p) \cup {m} /\ \A r \in Procs \ {p} : Work(r)' = Work(r)
  <2>1. Work(p)' \subseteq Work(p) \cup {m} BY <1>5 DEF Work
  <2>2. m \in Work(p)' /\ Work(p) \subseteq Work(p)' BY <1>5 DEF Work
  <2> QED BY <1>3, <2>1, <2>2 DEF Work
<1>7. Placed' BY <1>1, <1>6, SentKept DEF SenderInv, Placed
<1>8. WorkOrder'
  <2> SUFFICES ASSUME NEW q \in Procs, NEW k \in OnTime, ProcOf[k] = q,
                      NEW i \in DOMAIN newWork'[q], k < newWork'[q][i]
               PROVE  \/ k \in queue[q] \cup flushing[q] \cup SentEver
                      \/ \E j \in 1..(i - 1) : newWork'[q][j] = k
    BY <1>1, OnTimeKept, SentKept DEF WorkOrder
  <2>1. CASE q # p BY <1>3, <2>1 DEF SenderInv, WorkOrder
  <2>2. CASE q = p /\ i \in 1..n
    <3>1. \/ k \in queue[q] \cup flushing[q] \cup SentEver
          \/ \E j \in 1..(i - 1) : newWork[q][j] = k
      BY <1>5, <2>2 DEF SenderInv, WorkOrder
    <3>2. \A j \in 1..(i - 1) : j \in 1..n BY <2>2
    <3> QED BY <1>5, <2>2, <3>1, <3>2
  <2>3. CASE q = p /\ i = n + 1
    <3>0. k < m BY <1>5, <2>3
    <3>1. k \in page \cup marked \cup inflight BY <1>1, <3>0 DEF ReaderInv, PageOrder
    <3>2. k \notin page
      <4>1. k \in Nat /\ m \in Nat BY CommittedNat DEF OnTime, Messages, IndInv
      <4> QED BY <1>1, <3>0, <4>1
    <3>3. CASE k \in marked BY <3>3 DEF ReaderInv, MarkedSent
    <3>4. CASE k \in inflight /\ k \notin SentEver
      <4>1. PICK r \in Procs : k \in Work(r) \cup queue[r] \cup flushing[r]
        BY <3>4 DEF SenderInv, Placed
      <4>2. r = q BY <4>1 DEF IndInv, BusyInflight
      <4>3. CASE k \in Work(q)
        <5>1. PICK j \in 1..n : newWork[q][j] = k BY <1>5, <2>3, <4>3 DEF Work
        <5>2. j \in 1..(i - 1) /\ newWork'[q][j] = k BY <1>5, <2>3, <5>1
        <5> QED BY <5>2
      <4> QED BY <4>1, <4>2, <4>3
    <3> QED BY <3>1, <3>2, <3>3, <3>4
  <2>4. i \in 1..n \/ i = n + 1 \/ q # p BY <1>5
  <2> QED BY <2>1, <2>2, <2>3, <2>4
<1>9. QueueOrder' /\ BatchOrder' BY <1>1, OnTimeKept, SentKept DEF SenderInv, QueueOrder, BatchOrder
<1>10. ChainOrder' BY <1>1, OnTimeKept DEF SenderInv, ChainOrder
<1> QED BY <1>7, <1>8, <1>9, <1>10 DEF SenderInv

(* Work moves within a processor: q is what it holds outside the channel,  *)
(* and a batch that is split off takes the lower part of it.               *)
Moved(p, q) ==
  /\ UNCHANGED <<committed, chain, inflight>> /\ step[p] = "loop"
  /\ \A r \in Procs \ {p} : newWork'[r] = newWork[r] /\ queue'[r] = queue[r] /\ flushing'[r] = flushing[r]
  /\ queue'[p] \cup flushing'[p] = q
  /\ Work(p) \cup queue[p] \subseteq Work(p)' \cup q
  /\ \A k \in OnTime, x \in q : ProcOf[k] = p /\ k < x => k \in q \cup SentEver
  /\ \A k \in OnTime, x \in flushing'[p] :
       ProcOf[k] = p /\ k \in q /\ k < x => k \in flushing'[p] \cup SentEver
  /\ \A k \in OnTime, i \in DOMAIN newWork'[p] :
       ProcOf[k] = p /\ k < newWork'[p][i] =>
         k \in q \cup SentEver \/ \E j \in 1..(i - 1) : newWork'[p][j] = k

(* A message that moves from the channel into the queue keeps its place in *)
(* the order.                                                              *)
LEMMA MoveOrder ==
  ASSUME IndInv, SenderInv, NEW p \in Procs, NEW q, Moved(p, q)
  PROVE  SenderInv'
<1>0. flushing[p] = {} BY DEF Moved, IndInv, OnePlace
<1>1. \A r \in Procs \ {p} : Work(r)' = Work(r) BY DEF Moved, Work
<1>2. Placed'
  <2> SUFFICES ASSUME NEW m \in inflight, m \notin SentEver
               PROVE  \E r \in Procs : m \in Work(r)' \cup queue'[r] \cup flushing'[r]
    BY SentKept DEF Moved, Placed
  <2>1. PICK r \in Procs : m \in Work(r) \cup queue[r] \cup flushing[r] BY DEF SenderInv, Placed
  <2>2. m \in Work(r)' \cup queue'[r] \cup flushing'[r] BY <1>0, <1>1, <2>1 DEF Moved
  <2> QED BY <2>2
<1>3. WorkOrder' BY OnTimeKept, SentKept DEF Moved, SenderInv, WorkOrder
<1>4. QueueOrder' BY OnTimeKept, SentKept DEF Moved, SenderInv, QueueOrder
<1>5. BatchOrder' BY OnTimeKept, SentKept DEF Moved, SenderInv, BatchOrder
<1>6. ChainOrder' BY OnTimeKept DEF Moved, SenderInv, ChainOrder
<1> QED BY <1>2, <1>3, <1>4, <1>5, <1>6 DEF SenderInv

(* A message that leaves the channel is later than all of the queue.       *)
LEMMA AddWorkOrder ==
  ASSUME IndInv, SenderInv, NEW p \in Procs, addWork(p)
  PROVE  SenderInv'
<1>1. /\ newWork[p] \in Seq(Messages) /\ newWork[p] # <<>> /\ step[p] = "loop"
      /\ queue[p] \subseteq Messages
  BY DEF addWork, IndInv, TypeOK, ProcessorType
<1>2. PICK m \in Messages : m = Head(newWork[p]) /\ m = newWork[p][1] /\ 1 \in DOMAIN newWork[p]
  BY <1>1
<1>3. PICK q : q = queue[p] \cup {m} OBVIOUS
<1>4. /\ newWork'[p] = Tail(newWork[p])
      /\ \A r \in Procs \ {p} : newWork'[r] = newWork[r]
      /\ UNCHANGED <<committed, chain, inflight>>
  BY DEF addWork, stored, IndInv, TypeOK, ProcessorType
<1>5. \A i \in DOMAIN newWork'[p] : i \in Nat /\ i + 1 \in DOMAIN newWork[p] /\ newWork'[p][i] = newWork[p][i + 1]
  BY <1>1, <1>4
<1>6. \A j \in DOMAIN newWork[p] : j # 1 => j - 1 \in DOMAIN newWork'[p] /\ newWork'[p][j - 1] = newWork[p][j]
  BY <1>1, <1>4
<1>7. flushing[p] = {} BY <1>1 DEF IndInv, OnePlace
<1>8. Work(p) \cup queue[p] \subseteq Work(p)' \cup q BY <1>2, <1>3, <1>6 DEF Work
<1>9. \A k \in OnTime, x \in q : ProcOf[k] = p /\ k < x => k \in queue[p] \cup SentEver
  <2> SUFFICES ASSUME NEW k \in OnTime, NEW x \in q, ProcOf[k] = p, k < x PROVE k \in queue[p] \cup SentEver
    OBVIOUS
  <2>1. CASE x \in queue[p] BY <1>7, <2>1 DEF SenderInv, QueueOrder
  <2>2. CASE x = m
    <3>1. ~ \E j \in 1..(1 - 1) : newWork[p][j] = k OBVIOUS
    <3> QED BY <1>2, <1>7, <2>2, <3>1 DEF SenderInv, WorkOrder
  <2> QED BY <1>3, <2>1, <2>2
<1>10. ASSUME NEW k \in OnTime, NEW i \in DOMAIN newWork'[p], ProcOf[k] = p, k < newWork'[p][i]
       PROVE  k \in q \cup SentEver \/ \E j \in 1..(i - 1) : newWork'[p][j] = k
  <2>1. \/ k \in queue[p] \cup SentEver
        \/ \E j \in 1..((i + 1) - 1) : newWork[p][j] = k
    BY <1>5, <1>7, <1>10 DEF SenderInv, WorkOrder
  <2>2. ASSUME NEW j \in 1..((i + 1) - 1), newWork[p][j] = k
        PROVE  k \in q \/ \E l \in 1..(i - 1) : newWork'[p][l] = k
    <3>0. i \in Nat /\ i + 1 \in DOMAIN newWork[p] BY <1>5
    <3>1. j \in DOMAIN newWork[p] BY <1>1, <3>0
    <3>2. CASE j = 1 BY <1>2, <1>3, <2>2, <3>2
    <3>3. CASE j # 1
      <4>1. j - 1 \in 1..(i - 1) BY <3>0, <3>3
      <4> QED BY <1>6, <2>2, <3>1, <3>3, <4>1
    <3> QED BY <3>2, <3>3
  <2> QED BY <1>3, <2>1, <2>2
<1>h. /\ \A k \in OnTime, i \in DOMAIN newWork'[p] :
           ProcOf[k] = p /\ k < newWork'[p][i] =>
             k \in q \cup SentEver \/ \E j \in 1..(i - 1) : newWork'[p][j] = k
      /\ \A k \in OnTime, x \in q : ProcOf[k] = p /\ k < x => k \in q \cup SentEver
  BY <1>3, <1>9, <1>10
<1>11. \/ startFlush(p, q, {}) \/ startFlush(p, queue[p], {m})
       \/ startFlush(p, q \ Overflow(q), Overflow(q))
       \/ queue' = [queue EXCEPT ![p] = q] /\ UNCHANGED <<flushing, step>>
  <2>1. LET h == Head(newWork[p])
            s == queue[p] \cup {h}
        IN  \/ startFlush(p, s, {}) \/ startFlush(p, queue[p], {h})
            \/ startFlush(p, s \ Overflow(s), Overflow(s))
            \/ queue' = [queue EXCEPT ![p] = s] /\ UNCHANGED <<flushing, step>>
    BY Zenon DEF addWork
  <2> QED BY <1>2, <1>3, <2>1
<1>12. Overflow(q) \subseteq q BY DEF Overflow
<1>13. ASSUME NEW batch, NEW over, startFlush(p, batch, over), batch \cup over = q,
              \A k \in OnTime, x \in batch : ProcOf[k] = p /\ k \in q /\ k < x => k \in batch \cup SentEver
       PROVE  SenderInv'
  <2>1. /\ flushing'[p] = batch /\ queue'[p] = over
        /\ \A r \in Procs \ {p} : queue'[r] = queue[r] /\ flushing'[r] = flushing[r]
    BY <1>13 DEF startFlush, IndInv, TypeOK, ProcessorType
  <2>2. queue'[p] \cup flushing'[p] = q BY <1>13, <2>1
  <2>3. \A r \in Procs \ {p} : newWork'[r] = newWork[r] /\ queue'[r] = queue[r] /\ flushing'[r] = flushing[r]
    BY <1>4, <2>1
  <2>4. \A k \in OnTime, x \in flushing'[p] :
          ProcOf[k] = p /\ k \in q /\ k < x => k \in flushing'[p] \cup SentEver
    BY <1>13, <2>1
  <2>5. Moved(p, q) BY <1>1, <1>4, <1>8, <1>h, <2>2, <2>3, <2>4, Zenon DEF Moved
  <2> QED BY <2>5, MoveOrder
<1>14. CASE startFlush(p, q, {}) BY <1>13, <1>14
<1>15. CASE startFlush(p, queue[p], {m})
  <2>1. ASSUME NEW k \in OnTime, NEW x \in queue[p], ProcOf[k] = p, k < x PROVE k \in queue[p] \cup SentEver
    BY <1>3, <1>9, <2>1
  <2>2. queue[p] \cup {m} = q BY <1>3
  <2> QED BY <1>13, <1>15, <2>1, <2>2
<1>16. CASE startFlush(p, q \ Overflow(q), Overflow(q))
  <2>1. ASSUME NEW k \in OnTime, NEW x \in q \ Overflow(q), k \in q, k < x PROVE k \in q \ Overflow(q)
    <3>1. k \in Nat /\ x \in Nat BY <1>1, <1>3, CommittedNat DEF IndInv, OnTime, Messages
    <3>2. k \notin Overflow(q) BY <2>1, <3>1 DEF Overflow
    <3> QED BY <2>1, <3>2
  <2>2. (q \ Overflow(q)) \cup Overflow(q) = q BY <1>12
  <2> QED BY <1>13, <1>16, <2>1, <2>2
<1>17. CASE queue' = [queue EXCEPT ![p] = q] /\ UNCHANGED <<flushing, step>>
  <2>1. /\ flushing'[p] = {} /\ queue'[p] = q
        /\ \A r \in Procs \ {p} : queue'[r] = queue[r] /\ flushing'[r] = flushing[r]
    BY <1>7, <1>17 DEF IndInv, TypeOK, ProcessorType
  <2>2. queue'[p] \cup flushing'[p] = q BY <2>1
  <2>3. \A r \in Procs \ {p} : newWork'[r] = newWork[r] /\ queue'[r] = queue[r] /\ flushing'[r] = flushing[r]
    BY <1>4, <2>1
  <2>4. \A k \in OnTime, x \in flushing'[p] :
          ProcOf[k] = p /\ k \in q /\ k < x => k \in flushing'[p] \cup SentEver
    BY <2>1
  <2>5. Moved(p, q) BY <1>1, <1>4, <1>8, <1>h, <2>2, <2>3, <2>4, Zenon DEF Moved
  <2> QED BY <2>5, MoveOrder
<1> QED BY <1>11, <1>14, <1>15, <1>16, <1>17

(* A flush takes the queue.                                                *)
LEMMA FlushQueueOrder ==
  ASSUME IndInv, SenderInv, NEW p \in Procs, flushQueue(p)
  PROVE  SenderInv'
<1>1. /\ step[p] = "loop" /\ UNCHANGED <<committed, chain, inflight, newWork>>
      /\ flushing'[p] = queue[p] /\ queue'[p] = {}
      /\ \A r \in Procs \ {p} : queue'[r] = queue[r] /\ flushing'[r] = flushing[r]
  BY DEF flushQueue, startFlush, stored, IndInv, TypeOK, ProcessorType
<1>2. flushing[p] = {} BY <1>1 DEF IndInv, OnePlace
<1>3. \A k \in OnTime, x \in queue[p] : ProcOf[k] = p /\ k < x => k \in queue[p] \cup SentEver
  BY <1>2 DEF SenderInv, QueueOrder
<1>4. \A k \in OnTime, i \in DOMAIN newWork'[p] :
        ProcOf[k] = p /\ k < newWork'[p][i] =>
          k \in queue[p] \cup SentEver \/ \E j \in 1..(i - 1) : newWork'[p][j] = k
  BY <1>1, <1>2 DEF SenderInv, WorkOrder
<1>5. Work(p)' = Work(p) BY <1>1 DEF Work
<1>6. Moved(p, queue[p])
  <2>1. queue'[p] \cup flushing'[p] = queue[p] BY <1>1
  <2>2. Work(p) \cup queue[p] \subseteq Work(p)' \cup queue[p] BY <1>5
  <2>3. \A k \in OnTime, x \in flushing'[p] :
          ProcOf[k] = p /\ k \in queue[p] /\ k < x => k \in flushing'[p] \cup SentEver
    BY <1>1
  <2>4. \A r \in Procs \ {p} : newWork'[r] = newWork[r] /\ queue'[r] = queue[r] /\ flushing'[r] = flushing[r]
    BY <1>1
  <2> QED BY <1>1, <1>3, <1>4, <2>1, <2>2, <2>3, <2>4, Zenon DEF Moved
<1> QED BY <1>6, MoveOrder

(* The batch is sent: what precedes its messages is in it, or was sent.      *)
LEMMA SendOrder ==
  ASSUME IndInv, ReaderInv, SenderInv, NEW p \in Procs, dispatchBatch(p)
  PROVE  ReaderInv' /\ SenderInv'
<1>1. UNCHANGED <<committed, marked, readOffset, page, pc, inflight, flushed, newWork, queue, flushing>>
  BY DEF dispatchBatch, sequencer, assembly
<1>2. \A q \in Procs : step'[q] = IF q = p THEN "mark" ELSE step[q]
  BY DEF dispatchBatch, IndInv, TypeOK, ProcessorType
<1>3. PICK n \in Nat : n = Len(chain) BY DEF IndInv, TypeOK, StoredType
<1>4. /\ DOMAIN chain = 1..n /\ DOMAIN chain' = 1..(n + 1)
      /\ \A i \in 1..n : chain'[i] = chain[i]
      /\ chain'[n + 1].msgs = flushing[p]
  BY <1>3 DEF dispatchBatch, IndInv, TypeOK, StoredType
<1>5. flushing[p] \subseteq Messages BY DEF IndInv, TypeOK, ProcessorType
<1>6. SentEver' = SentEver \cup flushing[p]
  <2>1. SentEver' \subseteq SentEver \cup flushing[p] BY <1>4 DEF SentEver
  <2>2. SentEver \subseteq SentEver' BY <1>4 DEF SentEver
  <2>3. flushing[p] \subseteq SentEver' BY <1>4, <1>5 DEF SentEver
  <2> QED BY <2>1, <2>2, <2>3
<1>7. KnownCommitted'
  BY <1>1, <1>6, OnTimeKept DEF ReaderInv, KnownCommitted, IndInv, BusyInflight
<1>8. MarkedSent' BY <1>1, <1>2, <1>6 DEF ReaderInv, MarkedSent
<1>9. CommittedOnce' /\ CursorOrder' /\ PageOrder'
  BY <1>1, OnTimeKept DEF ReaderInv, CursorOrder, PageOrder
<1>10. Placed' BY <1>1, <1>6 DEF SenderInv, Placed, Work
<1>11. WorkOrder' BY <1>1, <1>6, OnTimeKept DEF SenderInv, WorkOrder
<1>12. QueueOrder' /\ BatchOrder' BY <1>1, <1>6, OnTimeKept DEF SenderInv, QueueOrder, BatchOrder
<1>13. ChainOrder'
  <2> SUFFICES ASSUME NEW k \in OnTime, NEW i \in 1..(n + 1), NEW m \in chain'[i].msgs,
                      k < m, ProcOf[k] = ProcOf[m]
               PROVE  \E j \in 1..i : k \in chain'[j].msgs
    BY <1>1, <1>4, OnTimeKept DEF ChainOrder
  <2>1. CASE i \in 1..n
    <3>1. PICK j \in 1..i : k \in chain[j].msgs BY <1>4, <2>1 DEF SenderInv, ChainOrder
    <3>2. j \in 1..n BY <2>1
    <3> QED BY <1>4, <3>1, <3>2
  <2>2. CASE i = n + 1
    <3>1. m \in flushing[p] BY <1>4, <2>2
    <3>2. ProcOf[k] = p BY <3>1 DEF IndInv, BusyInflight
    <3>3. k \in flushing[p] \cup SentEver BY <3>1, <3>2 DEF SenderInv, BatchOrder
    <3>4. CASE k \in flushing[p]
      <4>1. n + 1 \in 1..i BY <2>2
      <4> QED BY <1>4, <3>4, <4>1
    <3>5. CASE k \in SentEver
      <4>1. PICK j \in 1..n : k \in chain[j].msgs BY <1>4, <3>5 DEF SentEver
      <4>2. j \in 1..i BY <2>2
      <4> QED BY <1>4, <4>1, <4>2
    <3> QED BY <3>3, <3>4, <3>5
  <2> QED BY <2>1, <2>2
<1> QED BY <1>7, <1>8, <1>9, <1>10, <1>11, <1>12, <1>13 DEF ReaderInv, SenderInv

(* Every step keeps the order in which messages are read and sent.         *)
LEMMA OrderStep == IndInv /\ ReaderInv /\ SenderInv /\ [Next]_vars => ReaderInv' /\ SenderInv'
<1> SUFFICES ASSUME IndInv, ReaderInv, SenderInv, [Next]_vars PROVE ReaderInv' /\ SenderInv' OBVIOUS
<1> DEFINE Kept == UNCHANGED <<committed, chain, marked, readOffset, page, inflight, flushed>>
<1>1. ASSUME NEW m \in Messages, commitMessage(m) PROVE ReaderInv' /\ SenderInv' BY <1>1, CommitOrder
<1>2. ASSUME \/ reapQuiescing \/ waitForNewMessages \/ UNCHANGED vars
             \/ \E m \in Messages : newMessageNotification(m)
             \/ \E p \in Procs : startQuiesce(p)
      PROVE  ReaderInv' /\ SenderInv'
  <2>1. Kept /\ UNCHANGED <<step, newWork, queue, flushing>> /\ (pc' = pc \/ pc' \in {"reap", "read"})
    BY <1>2 DEF reapQuiescing, waitForNewMessages, vars, newMessageNotification, startQuiesce,
                stored, sequencer, assembly
  <2> QED BY <2>1, ReaderStutter, SenderStutter
<1>3. ASSUME readPage PROVE ReaderInv' /\ SenderInv'
  <2>1. UNCHANGED <<committed, chain, newWork, queue, flushing, inflight>>
    BY <1>3 DEF readPage, stored, assembly
  <2> QED BY <1>3, <2>1, ReadPageOrder, SenderStutter
<1>4. ASSUME filterFlushed PROVE ReaderInv' /\ SenderInv' BY <1>4, FilterOrder
<1>5. ASSUME NEW m \in Messages, dispatchMessage(m) PROVE ReaderInv' /\ SenderInv'
  <2>1. /\ UNCHANGED <<committed, chain, marked, flushed, flushing>>
        /\ NextEntry(m) /\ entryDone(m) /\ inflight' = inflight \cup {m}
    BY <1>5 DEF dispatchMessage, stored
  <2>2. \A p \in Procs : step'[p] = step[p] \/ step'[p] = "loop"
    BY <1>5 DEF dispatchMessage, getProcessor, IndInv, TypeOK, ProcessorType
  <2>3. ReaderInv' BY <2>1, <2>2, EntryOrder
  <2> QED BY <1>5, <2>3, HandOverOrder
<1>6. ASSUME NEW m \in Messages, skipMessage(m) PROVE ReaderInv' /\ SenderInv'
  <2>1. /\ UNCHANGED <<committed, chain, marked, flushed, flushing, inflight, step, newWork, queue>>
        /\ NextEntry(m) /\ entryDone(m) /\ m \in NoData
    BY <1>6 DEF skipMessage, stored, assembly
  <2>2. ReaderInv' BY <2>1, EntryOrder
  <2> QED BY <2>1, <2>2, SenderStutter
<1>7. ASSUME NEW p \in Procs, addWork(p) \/ flushQueue(p) PROVE ReaderInv' /\ SenderInv'
  <2>1. Kept /\ pc' = pc
    BY <1>7 DEF addWork, flushQueue, stored, sequencer
  <2>2. \A r \in Procs : \/ step'[r] = step[r] /\ flushing'[r] = flushing[r]
                         \/ step'[r] \notin {"mark", "notify"}
    BY <1>7 DEF addWork, flushQueue, startFlush, IndInv, TypeOK, ProcessorType
  <2>3. ReaderInv' BY <2>1, <2>2, ReaderStutter
  <2> QED BY <1>7, <2>3, AddWorkOrder, FlushQueueOrder
<1>8. ASSUME NEW p \in Procs, \/ processorDone(p) \/ calculateContexts(p) \/ sealBatch(p) \/ retrySeal(p)
      PROVE  ReaderInv' /\ SenderInv'
  <2>1. Kept /\ pc' = pc /\ UNCHANGED <<newWork, queue, flushing>>
    BY <1>8 DEF processorDone, calculateContexts, sealBatch, retrySeal, stored, sequencer, assembly
  <2>2. \A r \in Procs : step'[r] = step[r] \/ step'[r] \notin {"mark", "notify"}
    BY <1>8 DEF processorDone, calculateContexts, sealBatch, retrySeal, IndInv, TypeOK, ProcessorType
  <2>3. ReaderInv' BY <2>1, <2>2, ReaderStutter
  <2> QED BY <2>1, <2>3, SenderStutter
<1>9. ASSUME NEW p \in Procs, dispatchBatch(p) PROVE ReaderInv' /\ SenderInv' BY <1>9, SendOrder
<1>10. ASSUME NEW p \in Procs, markPayloadDispatched(p) PROVE ReaderInv' /\ SenderInv'
  <2>1. /\ step[p] = "mark" /\ marked' = marked \cup flushing[p]
        /\ UNCHANGED <<committed, chain, readOffset, page, pc, inflight, flushed, newWork, queue, flushing>>
    BY <1>10 DEF markPayloadDispatched, sequencer, assembly
  <2>2. \A q \in Procs : step'[q] = IF q = p THEN "notify" ELSE step[q]
    BY <1>10 DEF markPayloadDispatched, IndInv, TypeOK, ProcessorType
  <2>3. KnownCommitted' BY <2>1, OnTimeKept, SentKept DEF ReaderInv, KnownCommitted
  <2>4. MarkedSent' BY <2>1, <2>2, SentKept DEF ReaderInv, MarkedSent
  <2>5. CommittedOnce' /\ CursorOrder' /\ PageOrder' BY <2>1, OnTimeKept DEF ReaderInv, CursorOrder, PageOrder
  <2> QED BY <2>1, <2>3, <2>4, <2>5, SenderStutter DEF ReaderInv
<1>11. ASSUME NEW p \in Procs, notifyFlushComplete(p) PROVE ReaderInv' /\ SenderInv'
  <2>1. /\ step[p] = "notify" /\ flushed' = flushed \cup flushing[p]
        /\ UNCHANGED <<committed, chain, marked, readOffset, page, pc, inflight, newWork, queue>>
    BY <1>11 DEF notifyFlushComplete, stored, sequencer, assembly
  <2>2. \A q \in Procs : /\ step'[q] = IF q = p THEN "loop" ELSE step[q]
                         /\ flushing'[q] = IF q = p THEN {} ELSE flushing[q]
    BY <1>11 DEF notifyFlushComplete, IndInv, TypeOK, ProcessorType
  <2>3. flushing[p] \subseteq SentEver BY <2>1 DEF ReaderInv, MarkedSent
  <2>4. KnownCommitted' BY <2>1, OnTimeKept, SentKept DEF ReaderInv, KnownCommitted
  <2>5. MarkedSent' BY <2>1, <2>2, SentKept DEF ReaderInv, MarkedSent
  <2>6. CommittedOnce' /\ CursorOrder' /\ PageOrder' BY <2>1, OnTimeKept DEF ReaderInv, CursorOrder, PageOrder
  <2>7. Placed'
    <3>1. \A q \in Procs : Work(q)' = Work(q) BY <2>1 DEF Work
    <3> QED BY <2>1, <2>2, <2>3, <3>1, SentKept DEF SenderInv, Placed
  <2>8. WorkOrder' BY <2>1, <2>2, <2>3, OnTimeKept, SentKept DEF SenderInv, WorkOrder
  <2>9. QueueOrder' BY <2>1, <2>2, <2>3, OnTimeKept, SentKept DEF SenderInv, QueueOrder
  <2>10. BatchOrder' BY <2>1, <2>2, OnTimeKept, SentKept DEF SenderInv, BatchOrder
  <2>11. ChainOrder' BY <2>1, OnTimeKept DEF SenderInv, ChainOrder
  <2> QED BY <2>4, <2>5, <2>6, <2>7, <2>8, <2>9, <2>10, <2>11 DEF ReaderInv, SenderInv
<1>12. ASSUME restart PROVE ReaderInv' /\ SenderInv'
  <2>1. /\ UNCHANGED <<committed, chain, marked>>
        /\ readOffset' = 0 /\ page' = {} /\ inflight' = {} /\ flushed' = {}
        /\ \A p \in Procs : step'[p] = "none" /\ newWork'[p] = <<>> /\ queue'[p] = {} /\ flushing'[p] = {}
    BY <1>12 DEF restart, NewProcess, stored
  <2>2. KnownCommitted' BY <2>1, OnTimeKept, SentKept DEF ReaderInv, KnownCommitted
  <2>3. MarkedSent' BY <2>1, SentKept DEF ReaderInv, MarkedSent
  <2>4. \A k \in OnTime : ~(k <= 0)
    <3>1. \A k \in OnTime : k \in Messages BY CommittedNat DEF IndInv, OnTime
    <3> QED BY <3>1 DEF Messages
  <2>5. CommittedOnce' /\ CursorOrder' /\ PageOrder'
    BY <2>1, <2>4, OnTimeKept DEF ReaderInv, CursorOrder, PageOrder
  <2>6. Placed' /\ WorkOrder' /\ QueueOrder' /\ BatchOrder'
    BY <2>1 DEF Placed, WorkOrder, QueueOrder, BatchOrder
  <2>7. ChainOrder' BY <2>1, OnTimeKept DEF SenderInv, ChainOrder
  <2> QED BY <2>2, <2>3, <2>5, <2>6, <2>7 DEF ReaderInv, SenderInv
<1> QED
  BY <1>1, <1>2, <1>3, <1>4, <1>5, <1>6, <1>7, <1>8, <1>9, <1>10, <1>11, <1>12
     DEF Next, messageSequencer, flush

(* FirstBatch is the least position, so ChainOrder says what is meant.       *)
LEMMA FirstBatchLeast ==
  ASSUME TypeOK, NEW m, m \in SentEver
  PROVE  /\ FirstBatch(m) \in DOMAIN chain /\ m \in chain[FirstBatch(m)].msgs
         /\ \A i \in DOMAIN chain : m \in chain[i].msgs => FirstBatch(m) <= i
<1> DEFINE T == {i \in DOMAIN chain : m \in chain[i].msgs}
<1>1. DOMAIN chain = 1..Len(chain) /\ Len(chain) \in Nat BY DEF TypeOK, StoredType
<1>2. T \subseteq Nat /\ T # {} BY <1>1 DEF SentEver
<1>3. PICK x \in T : \A y \in T : x <= y
  <2> HIDE DEF T
  <2> QED BY <1>2, LeastExists
<1>4. \A j \in 1..(x - 1) : m \notin chain[j].msgs
  <2> SUFFICES ASSUME NEW j \in 1..(x - 1), m \in chain[j].msgs PROVE FALSE OBVIOUS
  <2>1. j \in DOMAIN chain /\ j < x BY <1>1
  <2>2. x <= j BY <1>3, <2>1
  <2> QED BY <1>1, <2>1, <2>2
<1> DEFINE First(i) == m \in chain[i].msgs /\ \A j \in 1..(i - 1) : m \notin chain[j].msgs
           f == CHOOSE i \in DOMAIN chain : First(i)
<1>5. f \in DOMAIN chain /\ First(f) BY <1>4
<1>6. FirstBatch(m) = f BY DEF FirstBatch
<1>7. ASSUME NEW i \in DOMAIN chain, m \in chain[i].msgs PROVE f <= i
  <2>1. f \in Nat /\ i \in Nat /\ i >= 1
    <3> HIDE DEF f
    <3> QED BY <1>1, <1>5
  <2>2. i \notin 1..(f - 1)
    <3> HIDE DEF f
    <3> QED BY <1>5, <1>7
  <2> HIDE DEF f
  <2> QED BY <2>1, <2>2
<1> QED BY <1>5, <1>6, <1>7

(* The invariant holds what was to be shown.                               *)
LEMMA ChainOrdered == IndInv /\ ReaderInv /\ SenderInv => OrderPreserved
<1> SUFFICES ASSUME IndInv, ReaderInv, SenderInv,
                    NEW k \in Committed, NEW m \in Committed, k < m, ProcOf[k] = ProcOf[m],
                    k \notin NoData, ~CommittedLate(k)
             PROVE  FirstBatch(k) <= FirstBatch(m)
  BY DEF OrderPreserved
<1>0. k \in OnTime /\ TypeOK BY DEF OnTime, IndInv
<1>1. DOMAIN chain = 1..Len(chain) /\ Len(chain) \in Nat BY <1>0 DEF TypeOK, StoredType
<1>2. CASE m \in SentEver
  <2> DEFINE i == FirstBatch(m)
  <2>1. i \in DOMAIN chain /\ m \in chain[i].msgs BY <1>0, <1>2, FirstBatchLeast
  <2>2. PICK j \in 1..i : k \in chain[j].msgs BY <1>0, <2>1 DEF SenderInv, ChainOrder
  <2> HIDE DEF i
  <2>3. j \in DOMAIN chain /\ j <= i /\ i \in Nat /\ j \in Nat BY <1>1, <2>1
  <2>4. k \in SentEver
    <3>1. k \in Messages BY <1>0, CommittedNat
    <3> QED BY <2>2, <2>3, <3>1 DEF SentEver
  <2>5. FirstBatch(k) \in DOMAIN chain /\ FirstBatch(k) <= j BY <1>0, <2>2, <2>3, <2>4, FirstBatchLeast
  <2>6. FirstBatch(k) \in Nat BY <1>1, <2>5
  <2>7. FirstBatch(k) <= i BY <2>3, <2>5, <2>6
  <2> QED BY <2>7 DEF i
<1>3. CASE m \notin SentEver
  <2>1. FirstBatch(m) = Len(chain) + 1
    <3>1. m \in Messages BY <1>0, CommittedNat
    <3> QED BY <1>3, <3>1 DEF FirstBatch, SentEver
  <2>2. CASE k \in SentEver
    <3>1. FirstBatch(k) \in DOMAIN chain BY <1>0, <2>2, FirstBatchLeast
    <3> QED BY <1>1, <2>1, <3>1
  <2>3. CASE k \notin SentEver
    <3>1. k \in Messages BY <1>0, CommittedNat
    <3>2. FirstBatch(k) = Len(chain) + 1 BY <2>3, <3>1 DEF FirstBatch, SentEver
    <3> QED BY <1>1, <2>1, <3>2
  <2> QED BY <2>2, <2>3
<1> QED BY <1>2, <1>3

(* The order of an author's messages is preserved, through rewinds, full   *)
(* pages, batches split by size or signing key, processors that quiesce    *)
(* and restarts: a message is overtaken only by one that was committed     *)
(* before it although its sequence is later, or when its data is missing.  *)
THEOREM AuthorOrder == Spec => []OrderPreserved
<1> DEFINE Inv == IndInv /\ ReaderInv /\ SenderInv
<1>1. Init => Inv BY IndInit, OrderInit
<1>2. Inv /\ [Next]_vars => Inv' BY IndStep, OrderStep
<1>3. Inv => OrderPreserved BY ChainOrdered
<1> QED BY <1>1, <1>2, <1>3, PTL DEF Spec
=============================================================================
