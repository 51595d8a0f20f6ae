---------------------------- MODULE Aggregator ----------------------------
(***************************************************************************)
(* The aggregator (internal/events/aggregator*.go) joins two streams that  *)
(* reach a node independently: the pins of a batch, sequenced by the       *)
(* blockchain, and its off-chain payload, delivered by data exchange or    *)
(* shared storage.  A message is dispatched (confirmed or rejected, with   *)
(* one event per topic) when every ordering context it is pinned to is     *)
(* clear and its data is complete.  Three concurrent parties are modelled: *)
(* the event poller that reads pages of pins, the two loops of the         *)
(* rewinder that make it go back to pins it has passed, and the callbacks  *)
(* that persist what arrives.  Pins are unmasked (broadcast) pins.         *)
(***************************************************************************)
EXTENDS Integers, Sequences, FiniteSets

CONSTANTS
  Ledger,             \* the batch pin events in order: <<[batch, msg, topic], ...>>
  OwnBatches,         \* batches sealed by this node, stored before they are pinned
  NeedsBlob,          \* messages whose attachment (or token transfer) comes separately
  ClaimOf,            \* the identity claim that registers a message's author, or NoClaim
  NoClaim,
  NodeClaims,         \* claims of a node: the handler adds a PreFinalize call
  BadSigner,          \* messages whose key is not the pin's signer
  BadData,            \* messages that fail validation of their data
  PageSize,           \* event.aggregator.batchSize
  RewindQueueLength,  \* event.aggregator.rewindQueueLength
  MaxFails,           \* bound: transactions that fail and are retried
  MaxCrashes          \* bound: restarts of the process

Pins    == 1..Len(Ledger)       \* a pin is identified by its sequence
Msg(p)  == Ledger[p].msg
Msgs    == {Msg(p) : p \in Pins}
Batches == {Ledger[p].batch : p \in Pins}
Topics  == {Ledger[p].topic : p \in Pins}
PinsOf(m) == {p \in Pins : Msg(p) = m}
Claims  == {ClaimOf[m] : m \in Msgs} \ {NoClaim}

(* The rewind struct, of three of the four rewindTypes: a message rewind   *)
(* differs from a blob rewind only in the query that finds the batch.      *)
Rewinds == {<<"batch", b>> : b \in Batches} \cup {<<"blob", m>> : m \in NeedsBlob}
             \cup {<<"did", c>> : c \in Claims}

(* A message lies in one batch, and its pins are adjacent: calculateContexts *)
(* appends them message by message, and extractBatchMessagePin finds the     *)
(* message of a pin by counting them off in that order.                      *)
ASSUME AggregatorAssumption ==
  /\ Ledger \in Seq([batch : {Ledger[p].batch : p \in DOMAIN Ledger},
                     msg   : {Ledger[p].msg : p \in DOMAIN Ledger},
                     topic : {Ledger[p].topic : p \in DOMAIN Ledger}])
  /\ \A p, q \in Pins : Msg(p) = Msg(q) => Ledger[p].batch = Ledger[q].batch
  /\ \A p, q, r \in Pins : p < q /\ q < r /\ Msg(p) = Msg(r) => Msg(q) = Msg(p)
  /\ OwnBatches \subseteq Batches
  /\ NeedsBlob \subseteq Msgs
  /\ ClaimOf \in [Msgs -> Msgs \cup {NoClaim}]
  /\ NodeClaims \subseteq Claims
  /\ PageSize \in Nat \ {0}
  /\ RewindQueueLength \in Nat \ {0}
  /\ MaxFails \in Nat
  /\ MaxCrashes \in Nat

VARIABLES
  \* ---- in the database
  inserted,    \* pins 1..inserted are in the pins table
  dispatched,  \* the ones marked dispatched
  arrived,     \* batches stored with their messages and data
  blobs,       \* messages whose attachment is stored
  identities,  \* claims whose identity and verifier are stored
  events,      \* message_confirmed/message_rejected, in sequence; an entry
               \* stands for the message's events, one per topic
  offset,      \* the aggregator's row of the offsets table
  acked,       \* batches whose delivery the callback has acknowledged
  \* ---- callbacks
  cached,      \* batches in the batch cache
  owed,        \* rewinds to be queued for data already committed
  \* ---- event poller and batchState
  phase,       \* "poll", "pins", "final", "prefinalized", "rewinds"
  polling,     \* pollingOffset
  tap,         \* values in the offsetCommitted channel, of capacity 1
  page, left,  \* the pins of the page, and those not yet processed
  localCache,  \* result of the batch lookups of this page
  seen,        \* dupMsgCheck
  context,     \* unmaskedContexts: blockedBy of each topic
  todo,        \* dispatchedMessages, with their Finalize callbacks
  \* ---- rewinder
  requests, queued, staged, resolving, ready,
  tap2,        \* values in loop2ShoulderTap, of capacity 1
  loop2,       \* "idle", "timer" or "resolving"
  \* ---- bounds
  fails, crashes

stored     == <<inserted, dispatched, arrived, blobs, identities, events, acked>>
poller     == <<phase, polling, tap, page>>
batchState == <<left, localCache, seen, context, todo>>
rewinder   == <<queued, staged, resolving, ready, tap2, loop2>>
bounds     == <<fails, crashes>>
vars == <<stored, offset, cached, owed, poller, batchState, requests, rewinder, bounds>>

(* newBatchState, and the maps processPins starts with *)
FreshState(pins) ==
  /\ left' = pins
  /\ localCache' = [b \in Batches |-> "unread"]
  /\ seen' = {}
  /\ context' = [t \in Topics |-> "untouched"]
  /\ todo' = <<>>

Init ==
  /\ inserted = 0
  /\ dispatched = {}
  /\ arrived = OwnBatches
  /\ blobs = {}
  /\ identities = {}
  /\ events = <<>>
  /\ offset = 0
  /\ acked = OwnBatches
  /\ cached = {}
  /\ owed = {}
  /\ phase = "poll" /\ polling = 0 /\ tap = 0
  /\ page = {} /\ left = {}
  /\ localCache = [b \in Batches |-> "unread"]
  /\ seen = {}
  /\ context = [t \in Topics |-> "untouched"]
  /\ todo = <<>>
  /\ requests = <<>>
  /\ queued = {} /\ staged = {} /\ resolving = {} /\ ready = {}
  /\ tap2 = 0
  /\ loop2 = "idle"
  /\ fails = 0 /\ crashes = 0

---------------------------------------------------------------------------
(* Arrivals *)

Undispatched == (1..inserted) \ dispatched

(* A batch pin event: its pins are inserted in one transaction.  A replay  *)
(* finds them, and the fallback to UpsertPin changes nothing.              *)
persistContexts ==
  /\ inserted < Len(Ledger)
  /\ \E last \in Pins :
       /\ \A p \in Pins : (p > inserted /\ p <= last) <=>
            (p > inserted /\ Ledger[p].batch = Ledger[inserted + 1].batch)
       /\ inserted' = last
  /\ UNCHANGED <<dispatched, arrived, blobs, identities, events, acked, offset,
                 cached, owed, poller, batchState, requests, rewinder, bounds>>

(* persistBatch puts the batch in the cache inside the transaction ... *)
cacheBatch(b) ==
  /\ b \notin arrived \cup cached
  /\ cached' = cached \cup {b}
  /\ UNCHANGED <<stored, offset, owed, poller, batchState, requests, rewinder, bounds>>

(* ... which then commits.  The rewind is queued after the commit.  Data   *)
(* exchange and the download recovery deliver an unacknowledged batch      *)
(* again after a restart; it is found to exist, and the rewind is repeated. *)
persistBatch(b) ==
  /\ b \in arrived \cup cached
  /\ b \notin acked
  /\ <<"batch", b>> \notin owed
  /\ arrived' = arrived \cup {b}
  /\ owed' = owed \cup {<<"batch", b>>}
  /\ UNCHANGED <<inserted, dispatched, blobs, identities, events, acked, offset,
                 cached, poller, batchState, requests, rewinder, bounds>>

(* The blob receiver acknowledges before it queues the rewind, and a blob  *)
(* it finds in the database makes no rewind.                               *)
insertNewBlobs(m) ==
  /\ m \in NeedsBlob \ blobs
  /\ blobs' = blobs \cup {m}
  /\ owed' = owed \cup {<<"blob", m>>}
  /\ UNCHANGED <<inserted, dispatched, arrived, identities, events, acked, offset,
                 cached, poller, batchState, requests, rewinder, bounds>>

(* queueBatchRewind, queueBlobRewind, queueDIDRewind: a blocking send to   *)
(* the rewindRequests channel.  The batch callback then acknowledges.      *)
queueRewind(r) ==
  /\ r \in owed
  /\ Len(requests) < RewindQueueLength
  /\ requests' = Append(requests, r)
  /\ owed' = owed \ {r}
  /\ acked' = IF r[1] = "batch" THEN acked \cup {r[2]} ELSE acked
  /\ UNCHANGED <<inserted, dispatched, arrived, blobs, identities, events, offset,
                 cached, poller, batchState, rewinder, bounds>>

---------------------------------------------------------------------------
(* The rewinder *)

rewindReceiveLoop ==
  /\ requests # <<>>
  /\ queued' = queued \cup {Head(requests)}
  /\ requests' = Tail(requests)
  /\ UNCHANGED <<stored, offset, cached, owed, poller, batchState,
                 staged, resolving, ready, tap2, loop2, bounds>>

(* rewindProcessLoop: the tap starts the timer if none is running *)
startRewindTimer ==
  /\ tap2 = 1
  /\ loop2 \in {"idle", "timer"}
  /\ tap2' = 0
  /\ loop2' = "timer"
  /\ UNCHANGED <<stored, offset, cached, owed, poller, batchState, requests,
                 queued, staged, resolving, ready, bounds>>

(* processStagedRewinds takes the staged rewinds under the lock, ... *)
takeStagedRewinds ==
  /\ loop2 = "timer"
  /\ loop2' = "resolving"
  /\ resolving' = staged
  /\ staged' = {}
  /\ UNCHANGED <<stored, offset, cached, owed, poller, batchState, requests,
                 queued, ready, tap2, bounds>>

(* The batches a rewind stands for: getRewindsForMessages, Blobs and DIDs  *)
(* query the messages that are stored, and for a DID those still pending.  *)
(* Their limit on the rows (rewindQueryLimit) is taken not to be reached.  *)
BatchesOf(r) ==
  CASE r[1] = "batch" -> {r[2]}
    [] r[1] = "blob"  -> {Ledger[p].batch : p \in PinsOf(r[2])} \cap arrived
    [] r[1] = "did"   -> {Ledger[p].batch : p \in {q \in Pins \ dispatched : ClaimOf[Msg(q)] = r[2]}}
                            \cap arrived

(* ... resolves them to batches, and hands those to the poller. *)
storeReadyRewinds ==
  /\ loop2 = "resolving"
  /\ loop2' = "idle"
  /\ ready' = ready \cup UNION {BatchesOf(r) : r \in resolving}
  /\ resolving' = {}
  /\ UNCHANGED <<stored, offset, cached, owed, poller, batchState, requests,
                 queued, staged, tap2, bounds>>

---------------------------------------------------------------------------
(* The event poller *)

popRewindsUntapped ==                 \* mutant: loop 2 is not woken
  /\ staged' = staged \cup queued
  /\ queued' = {}
  /\ ready' = {}
  /\ UNCHANGED tap2

(* popRewinds: queued rewinds become staged, and loop 2 is tapped *)
popRewinds ==
  /\ staged' = staged \cup queued
  /\ queued' = {}
  /\ tap2' = IF staged \cup queued # {} THEN 1 ELSE tap2
  /\ ready' = {}

NoRewind == {polling}                 \* mutant: popped rewinds are dropped

(* rewindOffchainBatches and rewindPollingOffset: one before the oldest    *)
(* undispatched pin of the ready batches, if that goes back.               *)
RewoundOffset ==
  LET behind == {p \in Undispatched : Ledger[p].batch \in ready}
  IN  {o \in 0..polling :
         /\ \A p \in behind : o < p
         /\ o < polling => o + 1 \in behind}

OldestFirst(S) == {p \in S : Cardinality({q \in S : q < p}) < PageSize}

(* readPage.  The poller waits for a tap or the poll timeout between two   *)
(* reads; as the timeout may always fire, taps of the poller are left out. *)
readPage ==
  /\ phase = "poll"
  /\ popRewinds
  /\ polling' \in RewoundOffset
  /\ page' = OldestFirst({p \in Undispatched : p > polling'})
  /\ phase' = IF page' = {} THEN "poll" ELSE "pins"
  /\ FreshState(page')
  /\ UNCHANGED <<stored, offset, cached, owed, tap, requests, resolving, loop2, bounds>>

(* GetBatchForPin, through the local cache that keeps misses too *)
BatchLookup(b) ==
  IF localCache[b] # "unread" THEN localCache[b]
  ELSE IF b \in arrived \cup cached THEN "found" ELSE "nil"

(* checkOnchainConsistency: the identity may have been confirmed earlier   *)
(* in this page, in the same transaction.                                  *)
AuthorResolved(m) ==
  \/ ClaimOf[m] \in {NoClaim} \cup identities
  \/ \E i \in DOMAIN todo : todo[i].msg = ClaimOf[m] /\ todo[i].type = "confirmed"

FirstTouchFree(t, p) == context[t] # "blocked"   \* mutant: no query

(* checkUnmaskedContextReady: the first touch of a context in a page       *)
(* queries for an earlier undispatched pin, later ones use the answer.     *)
ContextReady(t, p) ==
  IF context[t] # "untouched" THEN context[t] = "free"
  ELSE \A q \in Undispatched : Ledger[q].topic = t => q >= p

(* Topics are checked in order, up to the first that is not ready *)
Checked(p) ==
  {t \in Topics : \E i \in PinsOf(Msg(p)) :
     /\ Ledger[i].topic = t
     /\ \A j \in PinsOf(Msg(p)) : j < i => ContextReady(Ledger[j].topic, p)}

TopicsOf(m) == {Ledger[p].topic : p \in PinsOf(m)}
AllReady(p) == \A t \in TopicsOf(Msg(p)) : ContextReady(t, p)

Touched(p) == [t \in Topics |->
  IF t \notin Checked(p) THEN context[t]
  ELSE IF ContextReady(t, p) THEN "free" ELSE "blocked"]

(* SetContextBlockedBy on each of the message's contexts *)
BlockContexts(p) ==
  [t \in Topics |-> IF t \in TopicsOf(Msg(p)) THEN "blocked" ELSE context[t]]

NextPin(p) == p \in left /\ \A q \in left : p <= q

(* What processPins does for every pin: look up the batch, drop the pin *)
takePin(p) ==
  /\ phase = "pins"
  /\ NextPin(p)
  /\ left' = left \ {p}
  /\ localCache' = [localCache EXCEPT ![Ledger[p].batch] = BatchLookup(Ledger[p].batch)]
  /\ UNCHANGED <<stored, offset, cached, owed, poller, requests, rewinder, bounds>>

(* No batch yet, or the message has had its turn in this page *)
skipPin(p) ==
  /\ BatchLookup(Ledger[p].batch) = "nil" \/ Msg(p) \in seen
  /\ takePin(p)
  /\ UNCHANGED <<seen, context, todo>>

(* The message of the pin gets its turn, in one of the ways below *)
takeMessage(p) ==
  /\ BatchLookup(Ledger[p].batch) = "found"
  /\ Msg(p) \notin seen
  /\ takePin(p)
  /\ seen' = seen \cup {Msg(p)}

(* The message or its author is not known: wait, touching no context *)
Unprocessable(p) ==
  \/ Ledger[p].batch \notin arrived
  \/ Msg(p) \notin BadSigner /\ ~AuthorResolved(Msg(p))

parkMessage(p) ==
  /\ takeMessage(p)
  /\ Unprocessable(p)
  /\ UNCHANGED <<context, todo>>

(* A context is blocked: return, leaving the contexts checked before it *)
blockedMessage(p) ==
  /\ takeMessage(p)
  /\ ~Unprocessable(p)
  /\ ~AllReady(p)
  /\ context' = Touched(p)
  /\ UNCHANGED todo

(* readyForDispatch says wait: block every context of the message *)
waitForBlob(p) ==
  /\ takeMessage(p)
  /\ ~Unprocessable(p)
  /\ AllReady(p)
  /\ Msg(p) \in NeedsBlob \ (blobs \cup BadSigner)
  /\ context' = BlockContexts(p)
  /\ UNCHANGED todo

(* completeDispatch and markMessageDispatched *)
dispatchMessage(p) ==
  /\ takeMessage(p)
  /\ ~Unprocessable(p)
  /\ AllReady(p)
  /\ Msg(p) \notin NeedsBlob \ (blobs \cup BadSigner)
  /\ context' = Touched(p)
  /\ todo' = Append(todo, [msg  |-> Msg(p),
                           type |-> IF Msg(p) \in BadSigner \cup BadData
                                    THEN "rejected" ELSE "confirmed"])

Confirmed(ms) == {m \in Claims : \E i \in DOMAIN ms : ms[i] = [msg |-> m, type |-> "confirmed"]}

PastLastPin == {p + 1 : p \in {q \in page : \A r \in page : r <= q}}   \* mutant: off by one
LastPin == {p \in page : \A q \in page : q <= p}

(* The end of processPins: commitOffset, inside the open transaction *)
commitOffset ==
  /\ phase = "pins"
  /\ left = {}
  /\ phase' = "final"
  /\ polling' \in LastPin
  /\ tap' = 1
  /\ UNCHANGED <<stored, offset, cached, owed, page, batchState, requests, rewinder, bounds>>

(* With PreFinalize callbacks the transaction commits here, and they run   *)
(* outside of one; identities are stored, nothing is dispatched yet.       *)
RunPreFinalize ==
  /\ phase = "final"
  /\ Confirmed(todo) \cap NodeClaims # {}
  /\ phase' = "prefinalized"
  /\ identities' = identities \cup Confirmed(todo)
  /\ UNCHANGED <<inserted, dispatched, arrived, blobs, events, acked, offset, cached, owed,
                 polling, tap, page, batchState, requests, rewinder, bounds>>

PinsInPage == page \cap UNION {PinsOf(todo[i].msg) : i \in DOMAIN todo}   \* mutant
DispatchedPins == UNION {PinsOf(todo[i].msg) : i \in DOMAIN todo}

(* RunFinalize and the commit: the events, and every pin of the messages,  *)
(* also those outside of the page.                                         *)
RunFinalize ==
  /\ \/ phase = "final" /\ Confirmed(todo) \cap NodeClaims = {}
     \/ phase = "prefinalized"
  /\ phase' = "rewinds"
  /\ dispatched' = dispatched \cup DispatchedPins
  /\ events' = events \o todo
  /\ identities' = identities \cup Confirmed(todo)
  /\ owed' = owed \cup {<<"did", c>> : c \in Confirmed(todo)}
  /\ page' = {}
  /\ FreshState({})
  /\ UNCHANGED <<inserted, arrived, blobs, acked, offset, cached, polling, tap,
                 requests, rewinder, bounds>>

(* queueRewinds has sent every DID rewind; the poller goes on *)
finishPage ==
  /\ phase = "rewinds"
  /\ \A c \in Claims : <<"did", c>> \notin owed
  /\ phase' = "poll"
  /\ UNCHANGED <<stored, offset, cached, owed, polling, tap, page, batchState,
                 requests, rewinder, bounds>>

(* dispatchEventsRetry: any error before the last commit rolls back, and   *)
(* the same pins are processed again.  The polling offset stays moved.     *)
retryPage ==
  /\ phase \in {"pins", "final", "prefinalized"}
  /\ fails < MaxFails
  /\ fails' = fails + 1
  /\ phase' = "pins"
  /\ FreshState(page)
  /\ UNCHANGED <<stored, offset, cached, owed, polling, tap, page, requests, rewinder, crashes>>

(* offsetCommitLoop *)
persistOffset ==
  /\ tap = 1
  /\ tap' = 0
  /\ offset' = polling
  /\ UNCHANGED <<stored, cached, owed, phase, polling, page, batchState,
                 requests, rewinder, bounds>>

(* The process stops and starts again: restoreOffset *)
restart ==
  /\ crashes < MaxCrashes
  /\ crashes' = crashes + 1
  /\ polling' = offset
  /\ phase' = "poll" /\ tap' = 0 /\ page' = {}
  /\ FreshState({})
  /\ cached' = {} /\ owed' = {} /\ requests' = <<>>
  /\ queued' = {} /\ staged' = {} /\ resolving' = {} /\ ready' = {}
  /\ tap2' = 0
  /\ loop2' = "idle"
  /\ UNCHANGED <<stored, offset, fails>>

processPin ==
  \E p \in left : \/ skipPin(p)
                  \/ parkMessage(p)
                  \/ blockedMessage(p)
                  \/ waitForBlob(p)
                  \/ dispatchMessage(p)

Next ==
  \/ persistContexts
  \/ \E b \in Batches : cacheBatch(b) \/ persistBatch(b)
  \/ \E m \in NeedsBlob : insertNewBlobs(m)
  \/ \E r \in Rewinds : queueRewind(r)
  \/ rewindReceiveLoop
  \/ startRewindTimer
  \/ takeStagedRewinds
  \/ storeReadyRewinds
  \/ readPage
  \/ processPin
  \/ commitOffset
  \/ RunPreFinalize
  \/ RunFinalize
  \/ finishPage
  \/ retryPage
  \/ persistOffset
  \/ restart

Spec == Init /\ [][Next]_vars

(* Each goroutine keeps running, a delivery once begun is retried until it *)
(* commits, and repeated until it is acknowledged.  Nothing makes data     *)
(* arrive, a transaction fail or the process stop.                         *)
Fairness ==
  /\ \A b \in Batches : WF_vars(persistBatch(b))
  /\ \A r \in Rewinds : WF_vars(queueRewind(r))
  /\ WF_vars(rewindReceiveLoop)
  /\ WF_vars(startRewindTimer)
  /\ WF_vars(takeStagedRewinds)
  /\ WF_vars(storeReadyRewinds)
  /\ WF_vars(readPage)
  /\ WF_vars(processPin)
  /\ WF_vars(commitOffset)
  /\ WF_vars(RunPreFinalize)
  /\ WF_vars(RunFinalize)
  /\ WF_vars(finishPage)
  /\ WF_vars(persistOffset)

FairSpec == Spec /\ Fairness

---------------------------------------------------------------------------
Results == [msg : Msgs, type : {"confirmed", "rejected"}]

(* Every variable stays in the range the code's types and queues allow. *)
TypeOK ==
  /\ inserted \in 0..Len(Ledger)
  /\ dispatched \subseteq 1..inserted
  /\ arrived \subseteq Batches
  /\ acked \subseteq arrived
  /\ cached \subseteq Batches
  /\ blobs \subseteq NeedsBlob
  /\ identities \subseteq Claims
  /\ events \in Seq(Results) /\ todo \in Seq(Results)
  /\ offset \in 0..inserted /\ polling \in 0..inserted
  /\ tap \in 0..1 /\ tap2 \in 0..1
  /\ phase \in {"poll", "pins", "final", "prefinalized", "rewinds"}
  /\ page \subseteq 1..inserted /\ left \subseteq page
  /\ phase \in {"pins", "final", "prefinalized"} <=> page # {}
  /\ localCache \in [Batches -> {"unread", "found", "nil"}]
  /\ seen \subseteq Msgs
  /\ context \in [Topics -> {"untouched", "free", "blocked"}]
  /\ requests \in Seq(Rewinds) /\ Len(requests) <= RewindQueueLength
  /\ owed \subseteq Rewinds /\ queued \subseteq Rewinds
  /\ staged \subseteq Rewinds /\ resolving \subseteq Rewinds
  /\ ready \subseteq Batches
  /\ loop2 \in {"idle", "timer", "resolving"}
  /\ loop2 # "resolving" => resolving = {}
  /\ fails \in 0..MaxFails /\ crashes \in 0..MaxCrashes

(* A message is confirmed or rejected at most once, whatever transactions  *)
(* fail, whatever is redelivered and wherever the process stops, and it    *)
(* has its events exactly when all of its pins are marked dispatched       *)
(* (flushPins: "It's important we don't re-process the message").          *)
DispatchedOnce ==
  /\ \A i, j \in DOMAIN events : events[i].msg = events[j].msg => i = j
  /\ dispatched = UNION {PinsOf(events[i].msg) : i \in DOMAIN events}

(* What makes DispatchedOnce inductive: batches are pinned whole, a rewind *)
(* is owed for stored batches only, and the page in memory agrees with the *)
(* database until its transaction commits.                                 *)
WholeBatches ==
  \A p, q \in Pins : p <= inserted /\ Ledger[p].batch = Ledger[q].batch => q <= inserted
OwedStored == \A b \in Batches : <<"batch", b>> \in owed => b \in arrived
PinsHaveEvents ==
  \A p \in Pins : p \in dispatched <=> \E i \in DOMAIN events : events[i].msg = Msg(p)
EventsOnce == \A i, j \in DOMAIN events : events[i].msg = events[j].msg => i = j
PageUndispatched == page \cap dispatched = {}
TodoFresh ==
  /\ \A i, j \in DOMAIN todo : todo[i].msg = todo[j].msg => i = j
  /\ \A i \in DOMAIN todo : /\ todo[i].msg \in seen
                            /\ PinsOf(todo[i].msg) \subseteq 1..inserted
                            /\ \A k \in DOMAIN events : events[k].msg # todo[i].msg

IndInv == /\ TypeOK /\ WholeBatches /\ OwedStored
          /\ PinsHaveEvents /\ EventsOnce /\ PageUndispatched /\ TodoFresh

PinOn(m, t) == CHOOSE p \in PinsOf(m) : Ledger[p].topic = t

(* On every topic, events are in the order of the pins on the blockchain. *)
TopicOrder ==
  \A i, j \in DOMAIN events : \A t \in TopicsOf(events[i].msg) \cap TopicsOf(events[j].msg) :
     i < j => PinOn(events[i].msg, t) < PinOn(events[j].msg, t)

(* Everything processMessage needs of a message is in the database *)
Available(m) ==
  /\ \A p \in PinsOf(m) : Ledger[p].batch \in arrived
  /\ \/ m \in BadSigner
     \/ ClaimOf[m] \in {NoClaim} \cup identities /\ m \notin NeedsBlob \ blobs

(* Rewinds that some queue, or the rest of this page, still holds *)
Pending == owed \cup {requests[i] : i \in DOMAIN requests} \cup queued \cup staged \cup resolving
             \cup {<<"did", c>> : c \in {Msg(p) : p \in page} \cap Claims}
Rewinding == ready \cup UNION {BatchesOf(r) : r \in Pending}

(* Until the process stops, no dispatchable pin is left behind: a pin the  *)
(* poller has passed is in the page being processed, or waits for data, or *)
(* for an earlier pin on a topic of its message, or a rewind to its batch  *)
(* is on its way through the callbacks and the two loops of the rewinder.  *)
(* A page that fails after RunPreFinalize leaves identities of claims that *)
(* may be blocked when it is processed again; the rewind then follows when *)
(* the claim is dispatched.                                                *)
NoPinForgotten ==
  crashes = 0 =>
    \A p \in Undispatched \ page : p <= polling =>
      \/ ~Available(Msg(p))
      \/ Ledger[p].batch \in Rewinding
      \/ \E q \in Undispatched : q < p /\ Ledger[q].topic \in TopicsOf(Msg(p))
      \/ fails > 0 /\ \E q \in Undispatched : Msg(q) = ClaimOf[Msg(p)]

(* A message never overtakes, on one of its topics, a pin of an earlier    *)
(* page: only pins of the very page it is dispatched from may be passed.   *)
OvertakesOnlyInPage ==
  [][\A p \in dispatched' \ dispatched : \A q \in Undispatched \ dispatched' :
       q < p /\ Ledger[q].topic = Ledger[p].topic => q \in page]_vars

(* Once the pins of a prefix of the ledger, and all data of its messages,  *)
(* have reached the node, every message of the prefix is dispatched.       *)
PrefixComplete(p) ==
  /\ inserted >= p
  /\ \A q \in 1..p : /\ Ledger[q].batch \in arrived
                     /\ Msg(q) \notin NeedsBlob \ blobs
                     /\ ClaimOf[Msg(q)] \in {NoClaim} \cup {Msg(c) : c \in 1..p}
EventuallyDispatched == \A p \in Pins : PrefixComplete(p) ~> (1..p \subseteq dispatched)
=============================================================================
