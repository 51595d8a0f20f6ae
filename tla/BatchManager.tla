--------------------------- MODULE BatchManager ---------------------------
(***************************************************************************)
(* The sending side of a node (internal/batch).  Messages that the API has *)
(* stored as ready are read by one sequencer goroutine, in pages by        *)
(* database sequence, and handed over a channel to a batch processor: one  *)
(* goroutine per dispatcher, author and group.  The processor assembles a  *)
(* batch, draws nonces for the pins of private messages (seal), sends the  *)
(* batch (dispatch) and marks its messages as sent (mark), then tells the  *)
(* sequencer so.  Sequences become visible in commit order, not in         *)
(* sequence order, so that each commit may rewind the sequencer.           *)
(***************************************************************************)
EXTENDS Integers, Sequences, FiniteSets

CONSTANTS
  MaxSeq,          \* bound: messages 1..MaxSeq, named by their database sequence
  Procs,           \* processors: a dispatcher with an author and a group
  ProcOf,          \* the processor of a message
  KeyOf,           \* the signing key of a message
  SizeOf,          \* the estimated size of a message with its data
  NoData,          \* messages whose data cannot be found
  Contexts,        \* hashes of topic, group and author, for private messages
  ContextOf,       \* the context of a message, or NoContext for a broadcast
  NoContext,
  BatchOfOne,      \* processors of transaction type contract_invoke_pin
  PageSize,        \* batch.manager.readPageSize
  BatchMaxSize,    \* batch.size of the dispatcher
  BatchMaxBytes,   \* batch.payloadLimit of the dispatcher
  MaxFails,        \* bound: seal transactions that fail and are retried
  MaxCrashes       \* bound: restarts of the process

Messages == 1..MaxSeq
Private  == {m \in Messages : ContextOf[m] # NoContext}

ASSUME BatchConstants ==
  /\ MaxSeq \in Nat
  /\ ProcOf \in [Messages -> Procs]
  /\ SizeOf \in [Messages -> Nat]
  /\ ContextOf \in [Messages -> Contexts \cup {NoContext}]
  /\ NoContext \notin Contexts
  /\ PageSize \in Nat \ {0} /\ BatchMaxSize \in Nat \ {0} /\ BatchMaxBytes \in Nat
  /\ MaxFails \in Nat /\ MaxCrashes \in Nat

VARIABLES
  \* ---- database and network
  committed,     \* stored messages, in the order their transactions commit
  marked,        \* messages no longer in state ready
  pins,          \* the pin of a private message: its nonce plus one, or 0
  nonces,        \* nonces spent on each context
  chain,         \* batches sent, in order: [proc, run, msgs, pinned]
  \* ---- sequencer
  notices,       \* sequences in the newMessages channel
  readOffset, rewindOffset,
  pc,            \* "reap", "read", "filter" or "dispatch"
  page,          \* entries of the page still to be handled, in order
  fullPage, lastPageFull,
  inflight,      \* inflightSequences
  flushed,       \* inflightFlushed
  \* ---- processors
  step,          \* "none", "loop", "seal", "write", "dispatch", "mark" or "notify"
  newWork,       \* the newWork channel
  queue,         \* assemblyQueue, ordered by sequence
  queueBytes,    \* assemblyQueueBytes above batchSizeEstimateBase
  flushing,      \* messages of the batch being flushed
  drawn,         \* pins drawn in the open seal transaction
  quiescing,     \* processors whose quiescing channel holds a value
  reaped,        \* processors whose newWork channel is closed
  \* ---- bounds
  fails, crashes

stored     == <<committed, marked, pins, nonces, chain>>
sequencer  == <<readOffset, pc, page, fullPage, lastPageFull>>
assembly   == <<newWork, queue, queueBytes>>
bounds     == <<fails, crashes>>
vars == <<stored, notices, sequencer, rewindOffset, inflight, flushed, step, assembly,
          flushing, drawn, quiescing, reaped, bounds>>

Committed == {committed[i] : i \in DOMAIN committed}

NewProcess ==
  /\ notices' = {}
  /\ readOffset' = 0 /\ rewindOffset' = -1
  /\ pc' = "reap" /\ page' = {} /\ fullPage' = 0 /\ lastPageFull' = 0
  /\ inflight' = {} /\ flushed' = {}
  /\ step' = [p \in Procs |-> "none"]
  /\ newWork' = [p \in Procs |-> <<>>]
  /\ queue' = [p \in Procs |-> {}]
  /\ queueBytes' = [p \in Procs |-> 0]
  /\ flushing' = [p \in Procs |-> {}]
  /\ drawn' = [p \in Procs |-> [m \in Messages |-> 0]]
  /\ quiescing' = {} /\ reaped' = {}

Init ==
  /\ committed = <<>> /\ marked = {}
  /\ pins = [m \in Messages |-> 0]
  /\ nonces = [c \in Contexts |-> 0]
  /\ chain = <<>>
  /\ notices = {}
  /\ readOffset = 0 /\ rewindOffset = -1
  /\ pc = "reap" /\ page = {} /\ fullPage = 0 /\ lastPageFull = 0
  /\ inflight = {} /\ flushed = {}
  /\ step = [p \in Procs |-> "none"]
  /\ newWork = [p \in Procs |-> <<>>]
  /\ queue = [p \in Procs |-> {}]
  /\ queueBytes = [p \in Procs |-> 0]
  /\ flushing = [p \in Procs |-> {}]
  /\ drawn = [p \in Procs |-> [m \in Messages |-> 0]]
  /\ quiescing = {} /\ reaped = {}
  /\ fails = 0 /\ crashes = 0

---------------------------------------------------------------------------
(* New messages *)

(* A transaction that stored a message commits; its post-commit hook puts  *)
(* the sequence in the newMessages channel.                                *)
commitMessage(m) ==
  /\ m \notin Committed
  /\ committed' = Append(committed, m)
  /\ notices' = notices \cup {m}
  /\ UNCHANGED <<marked, pins, nonces, chain, sequencer, rewindOffset, inflight, flushed, step,
                 assembly, flushing, drawn, quiescing, reaped, bounds>>

FirstRewind(m) == IF rewindOffset = -1 THEN m - 1 ELSE rewindOffset     \* mutant: never lowered
LowestRewind(m) == IF rewindOffset = -1 \/ m - 1 < rewindOffset THEN m - 1 ELSE rewindOffset

newMessageNotification(m) ==
  /\ m \in notices
  /\ notices' = notices \ {m}
  /\ rewindOffset' = LowestRewind(m)
  /\ UNCHANGED <<stored, sequencer, inflight, flushed, step, assembly, flushing, drawn, quiescing,
                 reaped, bounds>>

---------------------------------------------------------------------------
(* messageSequencer *)

(* The channels of all processors that asked for it are closed, and the    *)
(* sequencer then waits for each of them to be done: see readPage.         *)
reapQuiescing ==
  /\ pc = "reap"
  /\ reaped' = quiescing
  /\ quiescing' = {}
  /\ pc' = "read"
  /\ UNCHANGED <<stored, notices, readOffset, page, fullPage, lastPageFull, rewindOffset, inflight,
                 flushed, step, assembly, flushing, drawn, bounds>>

(* popRewind: a rewind that is not behind the cursor is dropped *)
RewoundOffset == IF rewindOffset >= 0 /\ rewindOffset < readOffset THEN rewindOffset ELSE readOffset
popRewind ==
  IF lastPageFull = 0
    THEN readOffset' = RewoundOffset /\ rewindOffset' = -1
    ELSE UNCHANGED <<readOffset, rewindOffset>>

ReadyAfter(o) == {m \in Committed \ marked : m > o}
FirstPage(S) == {m \in S : Cardinality({k \in S : k <= m}) <= PageSize}

readPage ==
  /\ pc = "read"
  /\ reaped = {}
  /\ popRewind
  /\ page' = FirstPage(ReadyAfter(readOffset'))
  /\ fullPage' = IF Cardinality(page') = PageSize THEN 1 ELSE 0
  /\ pc' = "filter"
  /\ UNCHANGED <<stored, notices, lastPageFull, inflight, flushed, step, assembly, flushing, drawn,
                 quiescing, reaped, bounds>>

(* The page is filtered by what was in flight before the recently flushed  *)
(* messages are drained: the page may have been read before they were      *)
(* marked.                                                                 *)
DrainedFirst == page \ (inflight \ flushed)       \* mutant: drained before filtering
Unflushed == page \ inflight

filterFlushed ==
  /\ pc = "filter"
  /\ page' = Unflushed
  /\ inflight' = inflight \ flushed
  /\ flushed' = {}
  /\ pc' = "dispatch"
  /\ UNCHANGED <<stored, notices, readOffset, fullPage, lastPageFull, rewindOffset, step, assembly,
                 flushing, drawn, quiescing, reaped, bounds>>

NextEntry(m) == pc = "dispatch" /\ m \in page /\ \A k \in page : m <= k

(* After its last entry the page moves the read offset *)
entryDone(m) ==
  /\ page' = page \ {m}
  /\ readOffset' = IF page = {m} THEN m ELSE readOffset
  /\ UNCHANGED <<pc, fullPage, lastPageFull>>

(* A processor is started if there is none *)
getProcessor(p) == step' = [step EXCEPT ![p] = IF @ = "none" THEN "loop" ELSE @]

(* The send blocks while the channel of the processor is full *)
dispatchMessage(m) ==
  /\ NextEntry(m)
  /\ m \notin NoData
  /\ Len(newWork[ProcOf[m]]) < BatchMaxSize
  /\ inflight' = inflight \cup {m}
  /\ newWork' = [newWork EXCEPT ![ProcOf[m]] = Append(@, m)]
  /\ getProcessor(ProcOf[m])
  /\ entryDone(m)
  /\ UNCHANGED <<stored, notices, rewindOffset, flushed, queue, queueBytes, flushing, drawn,
                 quiescing, reaped, bounds>>

(* A message whose data is not found is logged and passed over *)
skipMessage(m) ==
  /\ NextEntry(m)
  /\ m \in NoData
  /\ entryDone(m)
  /\ UNCHANGED <<stored, notices, rewindOffset, inflight, flushed, step, assembly, flushing, drawn,
                 quiescing, reaped, bounds>>

(* The next read follows at once after a full page, and otherwise after a  *)
(* tap or the poll timeout, that is after any time.                        *)
waitForNewMessages ==
  /\ pc = "dispatch"
  /\ page = {}
  /\ lastPageFull' = fullPage
  /\ fullPage' = 0
  /\ pc' = "reap"
  /\ UNCHANGED <<stored, notices, readOffset, page, rewindOffset, inflight, flushed, step,
                 assembly, flushing, drawn, quiescing, reaped, bounds>>

---------------------------------------------------------------------------
(* assemblyLoop of a processor *)

startFlushDeducting(p, batch, overflow) ==     \* mutant: deducts the limit instead of a reset
  /\ flushing' = [flushing EXCEPT ![p] = batch]
  /\ queue' = [queue EXCEPT ![p] = overflow]
  /\ queueBytes' = [queueBytes EXCEPT ![p] = @ - BatchMaxBytes]
  /\ step' = [step EXCEPT ![p] = "seal"]
(* The queue is split, and the next assembly starts with the overflow; its *)
(* bytes are counted from zero all the same.                               *)
startFlush(p, batch, overflow) ==
  /\ flushing' = [flushing EXCEPT ![p] = batch]
  /\ queue' = [queue EXCEPT ![p] = overflow]
  /\ queueBytes' = [queueBytes EXCEPT ![p] = 0]
  /\ step' = [step EXCEPT ![p] = "seal"]

Oldest(S) == {m \in S : \A k \in S : m <= k}          \* mutant: the wrong end is kept back
Overflow(S) == {m \in S : \A k \in S : k <= m}

OtherKey(p, m) == \E k \in queue[p] : KeyOf[k] # KeyOf[m]

(* addWork: work that cannot join the batch flushes what is queued, and    *)
(* the rest is inserted in sequence order.  A batch of one never waits.    *)
addWork(p) ==
  LET m == Head(newWork[p])
      q == queue[p] \cup {m}
      b == queueBytes[p] + SizeOf[m]
  IN /\ step[p] = "loop"
     /\ newWork[p] # <<>>
     /\ newWork' = [newWork EXCEPT ![p] = Tail(@)]
     /\ \/ /\ p \in BatchOfOne \/ OtherKey(p, m)
           /\ IF queue[p] = {} THEN startFlush(p, q, {}) ELSE startFlush(p, queue[p], {m})
        \/ /\ ~(p \in BatchOfOne \/ OtherKey(p, m))
           /\ Cardinality(q) >= BatchMaxSize \/ b >= BatchMaxBytes
           /\ IF Cardinality(q) > 1 /\ b > BatchMaxBytes
                THEN startFlush(p, q \ Overflow(q), Overflow(q))
                ELSE startFlush(p, q, {})
        \/ /\ ~(p \in BatchOfOne \/ OtherKey(p, m))
           /\ ~(Cardinality(q) >= BatchMaxSize \/ b >= BatchMaxBytes)
           /\ queue' = [queue EXCEPT ![p] = q]
           /\ queueBytes' = [queueBytes EXCEPT ![p] = b]
           /\ UNCHANGED <<flushing, step>>
     /\ UNCHANGED <<stored, notices, sequencer, rewindOffset, inflight, flushed, drawn, quiescing,
                    reaped, bounds>>

(* The batch timer pops, or the closed channel has been emptied *)
flushQueue(p) ==
  /\ step[p] = "loop"
  /\ queue[p] # {}
  /\ startFlush(p, queue[p], {})
  /\ UNCHANGED <<stored, notices, sequencer, rewindOffset, inflight, flushed, newWork, drawn,
                 quiescing, reaped, bounds>>

(* The dispose timer pops with nothing queued.  Work may still be on its   *)
(* way: only the sequencer can close the channel.                          *)
startQuiesce(p) ==
  /\ step[p] = "loop"
  /\ queue[p] = {}
  /\ p \notin quiescing \cup reaped
  /\ quiescing' = quiescing \cup {p}
  /\ UNCHANGED <<stored, notices, sequencer, rewindOffset, inflight, flushed, step, assembly,
                 flushing, drawn, reaped, bounds>>

ChannelDrained(p) == newWork[p] = <<>> /\ queue[p] = {}
processorDone(p) ==
  /\ p \in reaped
  /\ step[p] = "loop"
  /\ ChannelDrained(p)
  /\ step' = [step EXCEPT ![p] = "none"]
  /\ reaped' = reaped \ {p}
  /\ UNCHANGED <<stored, notices, sequencer, rewindOffset, inflight, flushed, assembly, flushing,
                 drawn, quiescing, bounds>>

---------------------------------------------------------------------------
(* flush of a batch *)

(* A private message that holds a pin keeps it, and is given no other *)
EveryPrivate(p) == flushing[p] \cap Private         \* mutant: pins drawn again
ToPin(p) == {m \in flushing[p] \cap Private : pins[m] = 0}

(* getNextNonce: the latest nonce of the database at the first message on  *)
(* a context, and one more for each further message of the batch.          *)
SameNonce(p, m) == nonces[ContextOf[m]] + 1         \* mutant: no count within the batch
NextNonce(p, m) ==
  nonces[ContextOf[m]] + Cardinality({k \in ToPin(p) : ContextOf[k] = ContextOf[m] /\ k <= m})

calculateContexts(p) ==
  /\ step[p] = "seal"
  /\ drawn' = [drawn EXCEPT ![p] = [m \in Messages |-> IF m \in ToPin(p) THEN NextNonce(p, m) ELSE 0]]
  /\ step' = [step EXCEPT ![p] = "write"]
  /\ UNCHANGED <<stored, notices, sequencer, rewindOffset, inflight, flushed, assembly, flushing,
                 quiescing, reaped, bounds>>

Drawn(p) == {m \in Messages : drawn[p][m] > 0}
LatestDrawn(p, c) == {m \in Drawn(p) : ContextOf[m] = c /\ \A k \in Drawn(p) : ContextOf[k] = c => k <= m}
NoncesUnwritten(p) == nonces                        \* mutant: nonce state not flushed
NoncesWritten(p) ==
  [c \in Contexts |-> IF LatestDrawn(p, c) = {} THEN nonces[c]
                      ELSE drawn[p][CHOOSE m \in LatestDrawn(p, c) : TRUE]]

(* flushNonceState and updateMessagePins write what was drawn; neither a   *)
(* lock nor a unique index orders two processors on one context.           *)
sealBatch(p) ==
  /\ step[p] = "write"
  /\ nonces' = NoncesWritten(p)
  /\ pins' = [m \in Messages |-> IF m \in Drawn(p) THEN drawn[p][m] ELSE pins[m]]
  /\ step' = [step EXCEPT ![p] = "dispatch"]
  /\ UNCHANGED <<committed, marked, chain, notices, sequencer, rewindOffset, inflight, flushed,
                 assembly, flushing, drawn, quiescing, reaped, bounds>>

retrySealPinned(p) ==     \* mutant: the messages keep the pins of the failed transaction
  /\ step[p] = "write"
  /\ fails < MaxFails
  /\ fails' = fails + 1
  /\ step' = [step EXCEPT ![p] = "seal"]
  /\ pins' = [m \in Messages |-> IF m \in Drawn(p) THEN drawn[p][m] ELSE pins[m]]
  /\ drawn' = [drawn EXCEPT ![p] = [m \in Messages |-> 0]]
  /\ UNCHANGED <<committed, marked, nonces, chain, notices, sequencer, rewindOffset, inflight,
                 flushed, assembly, flushing, quiescing, reaped, crashes>>
(* The transaction fails: a fresh dispatchState is used for the retry *)
retrySeal(p) ==
  /\ step[p] = "write"
  /\ fails < MaxFails
  /\ fails' = fails + 1
  /\ step' = [step EXCEPT ![p] = "seal"]
  /\ drawn' = [drawn EXCEPT ![p] = [m \in Messages |-> 0]]
  /\ UNCHANGED <<stored, notices, sequencer, rewindOffset, inflight, flushed, assembly, flushing,
                 quiescing, reaped, crashes>>

(* payload.Pins holds the topics of broadcasts and the pins drawn above *)
PayloadPins(p) == Drawn(p) \cup (flushing[p] \ Private)

dispatchBatch(p) ==
  /\ step[p] = "dispatch"
  /\ chain' = Append(chain, [proc |-> p, run |-> crashes, msgs |-> flushing[p], pinned |-> PayloadPins(p)])
  /\ drawn' = [drawn EXCEPT ![p] = [m \in Messages |-> 0]]
  /\ step' = [step EXCEPT ![p] = "mark"]
  /\ UNCHANGED <<committed, marked, pins, nonces, notices, sequencer, rewindOffset, inflight,
                 flushed, assembly, flushing, quiescing, reaped, bounds>>

markPayloadDispatched(p) ==
  /\ step[p] = "mark"
  /\ marked' = marked \cup flushing[p]
  /\ step' = [step EXCEPT ![p] = "notify"]
  /\ UNCHANGED <<committed, pins, nonces, chain, notices, sequencer, rewindOffset, inflight, flushed,
                 assembly, flushing, drawn, quiescing, reaped, bounds>>

notifyFlushComplete(p) ==
  /\ step[p] = "notify"
  /\ flushed' = flushed \cup flushing[p]
  /\ flushing' = [flushing EXCEPT ![p] = {}]
  /\ step' = [step EXCEPT ![p] = "loop"]
  /\ UNCHANGED <<stored, notices, sequencer, rewindOffset, inflight, assembly, drawn, quiescing,
                 reaped, bounds>>

---------------------------------------------------------------------------
(* The process stops, or Close cancels the context of every goroutine; the *)
(* next one starts to read at the first ready message.                     *)
restart ==
  /\ crashes < MaxCrashes
  /\ crashes' = crashes + 1
  /\ NewProcess
  /\ UNCHANGED <<stored, fails>>

flush(p) ==
  \/ calculateContexts(p) \/ sealBatch(p) \/ dispatchBatch(p)
  \/ markPayloadDispatched(p) \/ notifyFlushComplete(p)

messageSequencer ==
  \/ reapQuiescing \/ readPage \/ filterFlushed \/ waitForNewMessages
  \/ \E m \in Messages : dispatchMessage(m) \/ skipMessage(m)

Next ==
  \/ \E m \in Messages : commitMessage(m) \/ newMessageNotification(m)
  \/ messageSequencer
  \/ \E p \in Procs : \/ addWork(p) \/ flushQueue(p) \/ startQuiesce(p) \/ processorDone(p)
                      \/ flush(p) \/ retrySeal(p)
  \/ restart

Spec == Init /\ [][Next]_vars

(* The goroutines run, timers fire, and the dispatch of a batch succeeds   *)
(* after finitely many of its unlimited retries.                           *)
Fairness ==
  /\ WF_vars(\E m \in Messages : newMessageNotification(m))
  /\ WF_vars(messageSequencer)
  /\ \A p \in Procs : /\ WF_vars(addWork(p)) /\ WF_vars(flushQueue(p))
                      /\ WF_vars(processorDone(p)) /\ WF_vars(flush(p))
FairSpec == Spec /\ Fairness

---------------------------------------------------------------------------
(* Properties *)

Steps == {"none", "loop", "seal", "write", "dispatch", "mark", "notify"}

StoredType ==
  /\ committed \in Seq(Messages)
  /\ marked \subseteq Messages
  /\ pins \in [Messages -> Nat]
  /\ nonces \in [Contexts -> Nat]
  /\ chain \in Seq([proc : Procs, run : Nat, msgs : SUBSET Messages, pinned : SUBSET Messages])
  /\ fails \in Nat /\ crashes \in Nat
SequencerType ==
  /\ notices \subseteq Messages
  /\ readOffset \in 0..MaxSeq /\ rewindOffset \in -1..MaxSeq
  /\ pc \in {"reap", "read", "filter", "dispatch"}
  /\ page \subseteq Messages
  /\ fullPage \in 0..1 /\ lastPageFull \in 0..1
  /\ inflight \subseteq Messages /\ flushed \subseteq Messages
  /\ quiescing \subseteq Procs /\ reaped \subseteq Procs
ProcessorType ==
  /\ step \in [Procs -> Steps]
  /\ newWork \in [Procs -> Seq(Messages)]
  /\ queue \in [Procs -> SUBSET Messages]
  /\ queueBytes \in [Procs -> Nat]
  /\ flushing \in [Procs -> SUBSET Messages]
  /\ drawn \in [Procs -> [Messages -> Nat]]
TypeOK == StoredType /\ SequencerType /\ ProcessorType

(* While the process runs no message is sent in two batches, although the  *)
(* sequencer rewinds over messages that are queued, being flushed, or      *)
(* marked after the page was read.                                         *)
SentOnce ==
  \A i, j \in DOMAIN chain : i # j /\ chain[i].run = chain[j].run => chain[i].msgs \cap chain[j].msgs = {}

(* Why: a message is accounted for, from the moment it is handed to a      *)
(* processor until the sequencer has drained it, in one place only.        *)
Work(p) == {newWork[p][i] : i \in DOMAIN newWork[p]}
Sent(m) == \E i \in DOMAIN chain : chain[i].run = crashes /\ m \in chain[i].msgs
BusyInflight ==
  /\ flushed \subseteq inflight
  /\ \A p \in Procs : \A m \in Work(p) \cup queue[p] \cup flushing[p] :
       ProcOf[m] = p /\ m \in inflight /\ m \notin flushed
OnePlace ==
  \A p \in Procs :
    /\ \A i, j \in DOMAIN newWork[p] : newWork[p][i] = newWork[p][j] => i = j
    /\ \A m \in Work(p) : m \notin queue[p] /\ m \notin flushing[p]
    /\ \A m \in queue[p] : m \notin flushing[p]
    /\ step[p] \in {"none", "loop"} => flushing[p] = {}
SentTracked ==
  \A m \in Messages : Sent(m) => m \in marked \/ \E p \in Procs : m \in flushing[p] /\ step[p] = "mark"
PageFresh ==
  \A m \in page :
    /\ pc = "filter" /\ Sent(m) => m \in inflight
    /\ pc = "dispatch" => m \notin inflight /\ ~Sent(m)
WorkUnsent ==
  \A p \in Procs :
    /\ \A m \in Work(p) \cup queue[p] : ~Sent(m)
    /\ step[p] \in {"seal", "write", "dispatch"} => \A m \in flushing[p] : ~Sent(m)
RunsPast == \A i \in DOMAIN chain : chain[i].run <= crashes
IndInv ==
  /\ TypeOK /\ BusyInflight /\ OnePlace /\ SentTracked /\ PageFresh /\ WorkUnsent /\ RunsPast
  /\ SentOnce

(* The slot a private message has been given in its context is used at     *)
(* most once, even when a crash makes it part of a second batch.           *)
PinnedOnce ==
  \A i, j \in DOMAIN chain : i # j => chain[i].pinned \cap chain[j].pinned \cap Private = {}

(* Position of the first batch with a message, past the end if there is none *)
FirstBatch(m) ==
  IF \E i \in DOMAIN chain : m \in chain[i].msgs
    THEN CHOOSE i \in DOMAIN chain : m \in chain[i].msgs /\ \A j \in 1..(i - 1) : m \notin chain[j].msgs
    ELSE Len(chain) + 1
CommitOf(m) == CHOOSE i \in DOMAIN committed : committed[i] = m
CommittedLate(m) == \E k \in Committed : k > m /\ CommitOf(k) < CommitOf(m)

(* An instance preserves the order in which it received the messages of an *)
(* author: a message is overtaken only by a failure to read its data, or   *)
(* when its own transaction committed after one with a later sequence.     *)
OrderPreserved ==
  \A k, m \in Committed :
    (k < m /\ ProcOf[k] = ProcOf[m] /\ k \notin NoData /\ ~CommittedLate(k)) => FirstBatch(k) <= FirstBatch(m)

(* The batch that is sent carries the pins of all its messages: a message  *)
(* that has grabbed a slot in its context is not sent without it.          *)
PinsSent == \A i \in DOMAIN chain : chain[i].msgs = chain[i].pinned

(* A nonce is what makes a pin unique to its message *)
PinsUnique ==
  \A k, m \in Private : k # m /\ ContextOf[k] = ContextOf[m] /\ pins[k] # 0 => pins[k] # pins[m]

(* The pins of a context reach the chain in the order of their nonces, as  *)
(* the receivers expect them.                                              *)
NonceOrder ==
  \A i, j \in DOMAIN chain : i < j =>
    \A k \in chain[i].pinned \cap Private, m \in chain[j].pinned \cap Private :
      ContextOf[k] = ContextOf[m] => pins[k] < pins[m]

(* Every message that is stored with its data is eventually sent, through  *)
(* rewinds, full pages of messages in flight, full channels, processors    *)
(* that quiesce, and restarts.                                             *)
EventuallySent == \A m \in Messages \ NoData : (m \in Committed) ~> (m \in marked)
=============================================================================
