-------------------------- MODULE AggregatorProofs --------------------------
(***************************************************************************)
(* Proofs about Aggregator, for every ledger whose messages lie in one     *)
(* batch each, every page size, queue length and bound, and every set of   *)
(* late, invalid or identity-claiming messages.  The second half is about  *)
(* the order in which it dispatches and the rewinds that keep it from      *)
(* leaving a pin behind; it rests on the invariant of the first, which     *)
(* keeps the page in step with the database.                               *)
(***************************************************************************)
EXTENDS Aggregator, SequenceTheorems, FiniteSetTheorems, TLAPS

(* The ledger is a sequence.                                                *)
LEMMA LedgerLength == Len(Ledger) \in Nat
BY AggregatorAssumption

(* The pins of a message share a batch, so they are inserted together.      *)
LEMMA MessagesWhole ==
  ASSUME WholeBatches, inserted \in 0..Len(Ledger), NEW p \in 1..inserted
  PROVE  PinsOf(Msg(p)) \subseteq 1..inserted
<1>1. Len(Ledger) \in Nat /\ p \in Pins /\ p <= inserted
  BY LedgerLength DEF Pins
<1>2. \A q \in PinsOf(Msg(p)) : Ledger[p].batch = Ledger[q].batch /\ q \in Pins
  BY <1>1, AggregatorAssumption DEF PinsOf
<1>3. \A q \in PinsOf(Msg(p)) : q <= inserted
  BY <1>1, <1>2 DEF WholeBatches
<1> QED BY <1>1, <1>2, <1>3 DEF Pins

(* A rewind resolves to batches of the ledger.                              *)
LEMMA BatchesOfTyped == \A r \in Rewinds : BatchesOf(r) \subseteq Batches
<1> SUFFICES ASSUME NEW r \in Rewinds PROVE BatchesOf(r) \subseteq Batches
  OBVIOUS
<1>1. CASE r \in {<<"batch", b>> : b \in Batches}
  BY <1>1 DEF BatchesOf
<1>2. CASE r \in {<<"blob", m>> : m \in NeedsBlob}
  <2>1. BatchesOf(r) = {Ledger[p].batch : p \in PinsOf(r[2])} \cap arrived
    BY <1>2 DEF BatchesOf
  <2> QED BY <2>1 DEF PinsOf, Batches
<1>3. CASE r \in {<<"did", c>> : c \in Claims}
  <2>1. BatchesOf(r) = {Ledger[p].batch : p \in {q \in Pins \ dispatched : ClaimOf[Msg(q)] = r[2]}}
                          \cap arrived
    BY <1>3 DEF BatchesOf
  <2> QED BY <2>1 DEF Batches
<1> QED BY <1>1, <1>2, <1>3 DEF Rewinds

(* A batch rewind names a batch.                                            *)
LEMMA BatchRewind == \A r \in Rewinds : r[1] = "batch" => r[2] \in Batches /\ r = <<"batch", r[2]>>
BY DEF Rewinds

(* The parts of TypeOK about the database, the poller with its page, and    *)
(* the rewinder.                                                            *)
StoredTyped ==
  /\ inserted \in 0..Len(Ledger)
  /\ dispatched \subseteq 1..inserted
  /\ arrived \subseteq Batches
  /\ acked \subseteq arrived
  /\ cached \subseteq Batches
  /\ blobs \subseteq NeedsBlob
  /\ identities \subseteq Claims
  /\ events \in Seq(Results)
  /\ offset \in 0..inserted
PollerTyped ==
  /\ polling \in 0..inserted
  /\ tap \in 0..1
  /\ phase \in {"poll", "pins", "final", "prefinalized", "rewinds"}
  /\ page \subseteq 1..inserted /\ left \subseteq page
  /\ phase \in {"pins", "final", "prefinalized"} <=> page # {}
PageTyped ==
  /\ localCache \in [Batches -> {"unread", "found", "nil"}]
  /\ seen \subseteq Msgs
  /\ context \in [Topics -> {"untouched", "free", "blocked"}]
  /\ todo \in Seq(Results)
RewinderTyped ==
  /\ requests \in Seq(Rewinds) /\ Len(requests) <= RewindQueueLength
  /\ owed \subseteq Rewinds /\ queued \subseteq Rewinds
  /\ staged \subseteq Rewinds /\ resolving \subseteq Rewinds
  /\ ready \subseteq Batches
  /\ tap2 \in 0..1
  /\ loop2 \in {"idle", "timer", "resolving"}
  /\ loop2 # "resolving" => resolving = {}
BoundsTyped == fails \in 0..MaxFails /\ crashes \in 0..MaxCrashes

(* TypeOK is the conjunction of its parts.                                  *)
LEMMA TypeParts ==
  TypeOK <=> StoredTyped /\ PollerTyped /\ PageTyped /\ RewinderTyped /\ BoundsTyped
BY DEF TypeOK, StoredTyped, PollerTyped, PageTyped, RewinderTyped, BoundsTyped

(* The same, of the state after a step.                                     *)
LEMMA TypePartsNext ==
  StoredTyped' /\ PollerTyped' /\ PageTyped' /\ RewinderTyped' /\ BoundsTyped' => TypeOK'
BY DEF TypeOK, StoredTyped, PollerTyped, PageTyped, RewinderTyped, BoundsTyped

(* A fresh batch state is well typed and has nothing to dispatch.           *)
LEMMA FreshTyped ==
  ASSUME NEW pins, FreshState(pins) PROVE PageTyped' /\ left' = pins /\ todo' = <<>>
BY DEF FreshState, PageTyped

(* Init establishes the invariant.                                          *)
LEMMA IndInit == Init => IndInv
<1> SUFFICES ASSUME Init PROVE IndInv
  OBVIOUS
<1>1. StoredTyped
  BY AggregatorAssumption DEF Init, StoredTyped
<1>2. PollerTyped
  <2>1. phase = "poll" /\ page = {} /\ left = {} /\ polling = 0 /\ inserted = 0 /\ tap = 0
    BY DEF Init
  <2> QED BY <2>1 DEF PollerTyped
<1>3. PageTyped
  BY DEF Init, PageTyped
<1>6. RewinderTyped
  <2>1. RewindQueueLength \in Nat
    BY AggregatorAssumption
  <2>2. /\ requests = <<>> /\ owed = {} /\ queued = {} /\ staged = {} /\ resolving = {}
        /\ ready = {} /\ loop2 = "idle" /\ tap2 = 0
    BY DEF Init
  <2> QED BY <2>1, <2>2 DEF RewinderTyped
<1>7. BoundsTyped
  <2>1. MaxFails \in Nat /\ MaxCrashes \in Nat
    BY AggregatorAssumption
  <2> QED BY <2>1 DEF Init, BoundsTyped
<1>4. WholeBatches /\ OwedStored
  BY AggregatorAssumption DEF Init, WholeBatches, OwedStored, Pins
<1>5. PinsHaveEvents /\ EventsOnce /\ PageUndispatched /\ TodoFresh
  BY DEF Init, PinsHaveEvents, EventsOnce, PageUndispatched, TodoFresh
<1> QED BY <1>1, <1>2, <1>3, <1>4, <1>5, <1>6, <1>7, TypeParts DEF IndInv

(* A step that leaves the database alone but for arrivals, and the page and *)
(* its results alone, keeps the invariant once types are known.             *)
LEMMA KeepPage ==
  ASSUME IndInv, TypeOK', OwedStored',
         UNCHANGED <<inserted, dispatched, events, page, seen, todo>>
  PROVE  IndInv'
BY DEF IndInv, WholeBatches, PinsHaveEvents, EventsOnce, PageUndispatched, TodoFresh, Undispatched

(* Arrival callbacks and the rewinder touch no pin, event or page.          *)
LEMMA ArrivalStep ==
  ASSUME IndInv,
         \/ \E b \in Batches : cacheBatch(b) \/ persistBatch(b)
         \/ \E m \in NeedsBlob : insertNewBlobs(m)
         \/ \E r \in Rewinds : queueRewind(r)
  PROVE  IndInv'
<1> USE DEF stored, poller, batchState, rewinder, bounds
<1>0. /\ StoredTyped /\ PollerTyped /\ PageTyped /\ RewinderTyped /\ BoundsTyped
      /\ OwedStored
  BY TypeParts DEF IndInv
<1>1. ASSUME NEW b \in Batches, cacheBatch(b) PROVE IndInv'
  <2>1. StoredTyped' /\ PollerTyped' /\ PageTyped' /\ RewinderTyped' /\ BoundsTyped'
    BY <1>0, <1>1 DEF cacheBatch, StoredTyped, PollerTyped, PageTyped, RewinderTyped, BoundsTyped
  <2>2. OwedStored'
    BY <1>0, <1>1 DEF cacheBatch, OwedStored
  <2> QED BY <1>1, <2>1, <2>2, TypePartsNext, KeepPage DEF cacheBatch
<1>2. ASSUME NEW b \in Batches, persistBatch(b) PROVE IndInv'
  <2>1. StoredTyped' /\ PollerTyped' /\ PageTyped' /\ BoundsTyped'
    BY <1>0, <1>2 DEF persistBatch, StoredTyped, PollerTyped, PageTyped, BoundsTyped
  <2>2. RewinderTyped'
    <3>1. <<"batch", b>> \in Rewinds
      BY DEF Rewinds
    <3> QED BY <1>0, <1>2, <3>1 DEF persistBatch, RewinderTyped
  <2>3. OwedStored'
    BY <1>0, <1>2 DEF persistBatch, OwedStored
  <2> QED BY <1>2, <2>1, <2>2, <2>3, TypePartsNext, KeepPage DEF persistBatch
<1>3. ASSUME NEW m \in NeedsBlob, insertNewBlobs(m) PROVE IndInv'
  <2>1. StoredTyped' /\ PollerTyped' /\ PageTyped' /\ BoundsTyped'
    BY <1>0, <1>3 DEF insertNewBlobs, StoredTyped, PollerTyped, PageTyped, BoundsTyped
  <2>2. RewinderTyped'
    <3>1. <<"blob", m>> \in Rewinds
      BY DEF Rewinds
    <3> QED BY <1>0, <1>3, <3>1 DEF insertNewBlobs, RewinderTyped
  <2>3. OwedStored'
    BY <1>0, <1>3 DEF insertNewBlobs, OwedStored
  <2> QED BY <1>3, <2>1, <2>2, <2>3, TypePartsNext, KeepPage DEF insertNewBlobs
<1>4. ASSUME NEW r \in Rewinds, queueRewind(r) PROVE IndInv'
  <2>1. r[1] = "batch" => r[2] \in arrived
    BY <1>0, <1>4, BatchRewind DEF queueRewind, OwedStored
  <2>2. StoredTyped'
    BY <1>0, <1>4, <2>1 DEF queueRewind, StoredTyped
  <2>3. PollerTyped' /\ PageTyped' /\ BoundsTyped'
    BY <1>0, <1>4 DEF queueRewind, PollerTyped, PageTyped, BoundsTyped
  <2>4. RewinderTyped'
    <3>1. requests' \in Seq(Rewinds) /\ Len(requests') = Len(requests) + 1
      BY <1>0, <1>4 DEF queueRewind, RewinderTyped
    <3>2. RewindQueueLength \in Nat /\ Len(requests) \in Nat
      BY <1>0, AggregatorAssumption DEF RewinderTyped
    <3> QED BY <1>0, <1>4, <3>1, <3>2 DEF queueRewind, RewinderTyped
  <2>5. OwedStored'
    BY <1>0, <1>4 DEF queueRewind, OwedStored
  <2> QED BY <1>4, <2>2, <2>3, <2>4, <2>5, TypePartsNext, KeepPage DEF queueRewind
<1> QED BY <1>1, <1>2, <1>3, <1>4

(* The rewinder's two loops and the offset commit loop.                     *)
LEMMA RewinderStep ==
  ASSUME IndInv,
         \/ rewindReceiveLoop \/ startRewindTimer \/ takeStagedRewinds
         \/ storeReadyRewinds \/ persistOffset
  PROVE  IndInv'
<1> USE DEF stored, poller, batchState, rewinder, bounds
<1>0. /\ StoredTyped /\ PollerTyped /\ PageTyped /\ RewinderTyped /\ BoundsTyped
      /\ OwedStored
  BY TypeParts DEF IndInv
<1>1. CASE rewindReceiveLoop
  <2>1. StoredTyped' /\ PollerTyped' /\ PageTyped' /\ BoundsTyped'
    BY <1>0, <1>1 DEF rewindReceiveLoop, StoredTyped, PollerTyped, PageTyped, BoundsTyped
  <2>2. RewinderTyped'
    <3>1. RewindQueueLength \in Nat
      BY AggregatorAssumption
    <3>2. /\ Head(requests) \in Rewinds /\ Tail(requests) \in Seq(Rewinds)
          /\ Len(Tail(requests)) = Len(requests) - 1 /\ Len(requests) \in Nat
      BY <1>0, <1>1, HeadTailProperties DEF rewindReceiveLoop, RewinderTyped
    <3> QED BY <1>0, <1>1, <3>1, <3>2 DEF rewindReceiveLoop, RewinderTyped
  <2>3. OwedStored'
    BY <1>0, <1>1 DEF rewindReceiveLoop, OwedStored
  <2> QED BY <1>1, <2>1, <2>2, <2>3, TypePartsNext, KeepPage DEF rewindReceiveLoop
<1>2. CASE startRewindTimer
  <2>1. StoredTyped' /\ PollerTyped' /\ PageTyped' /\ BoundsTyped' /\ RewinderTyped'
    BY <1>0, <1>2 DEF startRewindTimer, StoredTyped, PollerTyped, PageTyped, BoundsTyped, RewinderTyped
  <2>2. OwedStored'
    BY <1>0, <1>2 DEF startRewindTimer, OwedStored
  <2> QED BY <1>2, <2>1, <2>2, TypePartsNext, KeepPage DEF startRewindTimer
<1>3. CASE takeStagedRewinds
  <2>1. StoredTyped' /\ PollerTyped' /\ PageTyped' /\ BoundsTyped' /\ RewinderTyped'
    BY <1>0, <1>3 DEF takeStagedRewinds, StoredTyped, PollerTyped, PageTyped, BoundsTyped, RewinderTyped
  <2>2. OwedStored'
    BY <1>0, <1>3 DEF takeStagedRewinds, OwedStored
  <2> QED BY <1>3, <2>1, <2>2, TypePartsNext, KeepPage DEF takeStagedRewinds
<1>4. CASE storeReadyRewinds
  <2>1. StoredTyped' /\ PollerTyped' /\ PageTyped' /\ BoundsTyped'
    BY <1>0, <1>4 DEF storeReadyRewinds, StoredTyped, PollerTyped, PageTyped, BoundsTyped
  <2>2. RewinderTyped'
    <3>1. UNION {BatchesOf(r) : r \in resolving} \subseteq Batches
      BY <1>0, BatchesOfTyped DEF RewinderTyped
    <3>2. /\ ready' = ready \cup UNION {BatchesOf(r) : r \in resolving}
          /\ loop2' = "idle" /\ resolving' = {}
          /\ UNCHANGED <<requests, owed, queued, staged, tap2>>
      BY <1>4 DEF storeReadyRewinds
    <3> QED BY <1>0, <3>1, <3>2 DEF RewinderTyped
  <2>3. OwedStored'
    BY <1>0, <1>4 DEF storeReadyRewinds, OwedStored
  <2> QED BY <1>4, <2>1, <2>2, <2>3, TypePartsNext, KeepPage DEF storeReadyRewinds
<1>5. CASE persistOffset
  <2>1. StoredTyped' /\ PollerTyped' /\ PageTyped' /\ BoundsTyped' /\ RewinderTyped'
    BY <1>0, <1>5 DEF persistOffset, StoredTyped, PollerTyped, PageTyped, BoundsTyped, RewinderTyped
  <2>2. OwedStored'
    BY <1>0, <1>5 DEF persistOffset, OwedStored
  <2> QED BY <1>5, <2>1, <2>2, TypePartsNext, KeepPage DEF persistOffset
<1> QED BY <1>1, <1>2, <1>3, <1>4, <1>5

(* A batch pin event adds whole batches.                                    *)
LEMMA PinsStep == ASSUME IndInv, persistContexts PROVE IndInv'
<1> USE DEF stored, poller, batchState, rewinder, bounds
<1>0. /\ StoredTyped /\ PollerTyped /\ PageTyped /\ RewinderTyped /\ BoundsTyped
      /\ OwedStored /\ WholeBatches
  BY TypeParts DEF IndInv
<1>1. UNCHANGED <<dispatched, arrived, blobs, identities, events, acked, offset, cached, owed,
                  poller, batchState, requests, rewinder, bounds>>
  BY DEF persistContexts
<1>2. PICK last \in Pins :
        /\ \A p \in Pins : (p > inserted /\ p <= last) <=>
             (p > inserted /\ Ledger[p].batch = Ledger[inserted + 1].batch)
        /\ inserted' = last
  BY DEF persistContexts
<1>3. Len(Ledger) \in Nat /\ inserted \in Nat /\ inserted + 1 \in Pins
  BY <1>0, LedgerLength DEF persistContexts, StoredTyped, Pins
<1>4. last > inserted /\ inserted' \in 0..Len(Ledger)
  BY <1>2, <1>3 DEF Pins
<1>11. 1..inserted \subseteq 1..inserted' /\ 0..inserted \subseteq 0..inserted'
  BY <1>2, <1>3, <1>4
<1>5. StoredTyped'
  BY <1>0, <1>1, <1>4, <1>11 DEF StoredTyped
<1>6. PollerTyped'
  BY <1>0, <1>1, <1>11 DEF PollerTyped
<1>7. PageTyped' /\ RewinderTyped' /\ BoundsTyped' /\ OwedStored'
  BY <1>0, <1>1 DEF PageTyped, RewinderTyped, BoundsTyped, OwedStored
<1>8. WholeBatches'
  <2> SUFFICES ASSUME NEW p \in Pins, NEW q \in Pins,
                      p <= last, Ledger[p].batch = Ledger[q].batch
               PROVE  q <= last
    BY <1>2 DEF WholeBatches
  <2>1. p \in Int /\ q \in Int /\ last \in Int
    BY <1>3 DEF Pins
  <2>2. CASE p <= inserted
    BY <1>0, <1>3, <1>4, <2>1, <2>2 DEF WholeBatches
  <2>3. CASE p > inserted
    BY <1>2, <1>3, <1>4, <2>1, <2>3
  <2> QED BY <1>3, <2>1, <2>2, <2>3
<1>9. PinsHaveEvents' /\ EventsOnce' /\ PageUndispatched'
  BY <1>1 DEF IndInv, PinsHaveEvents, EventsOnce, PageUndispatched
<1>10. TodoFresh'
  BY <1>1, <1>11 DEF IndInv, TodoFresh
<1> QED BY <1>5, <1>6, <1>7, <1>8, <1>9, <1>10, TypePartsNext DEF IndInv

(* A step that takes undispatched pins and has nothing ready to be flushed. *)
LEMMA FreshStep ==
  ASSUME IndInv, TypeOK', OwedStored', PageUndispatched', todo' = <<>>,
         UNCHANGED <<inserted, dispatched, events>>
  PROVE  IndInv'
<1>1. WholeBatches' /\ PinsHaveEvents' /\ EventsOnce'
  BY DEF IndInv, WholeBatches, PinsHaveEvents, EventsOnce
<1>2. TodoFresh'
  BY DEF TodoFresh
<1> QED BY <1>1, <1>2 DEF IndInv

(* The steps of the poller between two pages.                               *)
LEMMA PollerStep ==
  ASSUME IndInv, readPage \/ retryPage \/ finishPage \/ restart
  PROVE  IndInv'
<1> USE DEF stored, poller, batchState, rewinder, bounds
<1>0. /\ StoredTyped /\ PollerTyped /\ PageTyped /\ RewinderTyped /\ BoundsTyped
      /\ OwedStored /\ PageUndispatched
  BY TypeParts DEF IndInv
<1>n. MaxFails \in Nat /\ MaxCrashes \in Nat /\ RewindQueueLength \in Nat
  BY AggregatorAssumption
<1>1. CASE readPage
  <2>1. UNCHANGED <<stored, offset, cached, owed, tap, requests, resolving, loop2, bounds>>
    BY <1>1 DEF readPage
  <2>2. FreshState(page') /\ popRewinds
    BY <1>1 DEF readPage
  <2>3. PageTyped' /\ left' = page' /\ todo' = <<>>
    BY <2>2, FreshTyped
  <2>4. page' \subseteq Undispatched /\ polling' \in 0..polling
    BY <1>1 DEF readPage, OldestFirst, RewoundOffset
  <2>5. phase' = IF page' = {} THEN "poll" ELSE "pins"
    BY <1>1 DEF readPage
  <2>6. StoredTyped' /\ BoundsTyped' /\ OwedStored'
    BY <1>0, <2>1 DEF StoredTyped, BoundsTyped, OwedStored
  <2>7. PollerTyped'
    <3>1. page' \subseteq 1..inserted /\ inserted' = inserted /\ tap' = tap
      BY <2>1, <2>4 DEF Undispatched
    <3>2. polling' \in 0..inserted
      BY <1>0, <2>4, LedgerLength DEF PollerTyped, StoredTyped
    <3> QED BY <1>0, <2>3, <2>5, <3>1, <3>2 DEF PollerTyped
  <2>8. RewinderTyped'
    BY <1>0, <2>1, <2>2 DEF popRewinds, RewinderTyped
  <2>9. PageUndispatched'
    BY <2>1, <2>4 DEF PageUndispatched, Undispatched
  <2>10. TypeOK'
    BY <2>3, <2>6, <2>7, <2>8, TypePartsNext
  <2> QED BY <2>1, <2>3, <2>6, <2>9, <2>10, FreshStep
<1>2. CASE retryPage
  <2>1. /\ UNCHANGED <<stored, offset, cached, owed, polling, tap, page, requests, rewinder, crashes>>
        /\ FreshState(page) /\ phase' = "pins" /\ fails' = fails + 1 /\ fails < MaxFails
        /\ phase \in {"pins", "final", "prefinalized"}
    BY <1>2 DEF retryPage
  <2>2. PageTyped' /\ left' = page /\ todo' = <<>>
    BY <2>1, FreshTyped
  <2>3. StoredTyped' /\ RewinderTyped' /\ OwedStored' /\ PageUndispatched'
    BY <1>0, <2>1 DEF StoredTyped, RewinderTyped, OwedStored, PageUndispatched
  <2>4. PollerTyped'
    BY <1>0, <2>1, <2>2 DEF PollerTyped
  <2>5. BoundsTyped'
    BY <1>0, <1>n, <2>1 DEF BoundsTyped
  <2>6. TypeOK'
    BY <2>2, <2>3, <2>4, <2>5, TypePartsNext
  <2> QED BY <2>1, <2>2, <2>3, <2>6, FreshStep
<1>3. CASE finishPage
  <2>1. StoredTyped' /\ PollerTyped' /\ PageTyped' /\ BoundsTyped' /\ RewinderTyped'
    BY <1>0, <1>3 DEF finishPage, StoredTyped, PollerTyped, PageTyped, BoundsTyped, RewinderTyped
  <2>2. OwedStored'
    BY <1>0, <1>3 DEF finishPage, OwedStored
  <2> QED BY <1>3, <2>1, <2>2, TypePartsNext, KeepPage DEF finishPage
<1>4. CASE restart
  <2>1. /\ UNCHANGED <<stored, offset, fails>>
        /\ FreshState({}) /\ phase' = "poll" /\ tap' = 0 /\ page' = {} /\ polling' = offset
        /\ crashes' = crashes + 1 /\ crashes < MaxCrashes
        /\ cached' = {} /\ owed' = {} /\ requests' = <<>> /\ queued' = {} /\ staged' = {}
        /\ resolving' = {} /\ ready' = {} /\ tap2' = 0 /\ loop2' = "idle"
    BY <1>4 DEF restart
  <2>2. PageTyped' /\ left' = {} /\ todo' = <<>>
    BY <2>1, FreshTyped
  <2>3. StoredTyped'
    BY <1>0, <2>1 DEF StoredTyped
  <2>4. PollerTyped'
    BY <1>0, <2>1, <2>2 DEF PollerTyped, StoredTyped
  <2>5. RewinderTyped'
    BY <1>n, <2>1 DEF RewinderTyped
  <2>6. BoundsTyped'
    BY <1>0, <1>n, <2>1 DEF BoundsTyped
  <2>7. OwedStored' /\ PageUndispatched'
    BY <2>1 DEF OwedStored, PageUndispatched
  <2>8. TypeOK'
    BY <2>2, <2>3, <2>4, <2>5, <2>6, TypePartsNext
  <2> QED BY <2>1, <2>2, <2>7, <2>8, FreshStep
<1> QED BY <1>1, <1>2, <1>3, <1>4

(* A pin of the page is processed: at most its message joins the results,   *)
(* which it can do once, as the pin is undispatched and the message is new. *)
LEMMA PinStep == ASSUME IndInv, processPin PROVE IndInv'
<1> USE DEF stored, poller, batchState, rewinder, bounds
<1>0. /\ StoredTyped /\ PollerTyped /\ PageTyped /\ RewinderTyped /\ BoundsTyped
      /\ OwedStored /\ PageUndispatched /\ TodoFresh /\ PinsHaveEvents /\ WholeBatches
  BY TypeParts DEF IndInv
<1>1. PICK p \in left : \/ skipPin(p) \/ parkMessage(p) \/ blockedMessage(p)
                        \/ waitForBlob(p) \/ dispatchMessage(p)
  BY DEF processPin
<1>2. takePin(p)
  BY <1>1 DEF skipPin, parkMessage, blockedMessage, waitForBlob, dispatchMessage, takeMessage
<1>3. /\ UNCHANGED <<stored, offset, cached, owed, poller, requests, rewinder, bounds>>
      /\ left' = left \ {p}
      /\ localCache' = [localCache EXCEPT ![Ledger[p].batch] = BatchLookup(Ledger[p].batch)]
  BY <1>2 DEF takePin
<1>4. p \in 1..inserted /\ p \in Pins /\ p \notin dispatched
  BY <1>0, LedgerLength DEF PollerTyped, StoredTyped, Pins, PageUndispatched
<1>5. Msg(p) \in Msgs /\ Ledger[p].batch \in Batches
  BY <1>4 DEF Msgs, Batches
<1>6. localCache' \in [Batches -> {"unread", "found", "nil"}]
  <2>1. BatchLookup(Ledger[p].batch) \in {"unread", "found", "nil"}
    BY <1>0, <1>5 DEF BatchLookup, PageTyped
  <2> QED BY <1>0, <1>3, <1>5, <2>1 DEF PageTyped
<1>7. context' \in [Topics -> {"untouched", "free", "blocked"}]
  <2>1. context' \in {context, Touched(p), BlockContexts(p)}
    BY <1>1 DEF skipPin, parkMessage, blockedMessage, waitForBlob, dispatchMessage
  <2>2. Touched(p) \in [Topics -> {"untouched", "free", "blocked"}]
    BY <1>0 DEF Touched, PageTyped
  <2>3. BlockContexts(p) \in [Topics -> {"untouched", "free", "blocked"}]
    BY <1>0 DEF BlockContexts, PageTyped
  <2> QED BY <1>0, <2>1, <2>2, <2>3 DEF PageTyped
<1>8. StoredTyped' /\ PollerTyped' /\ RewinderTyped' /\ BoundsTyped' /\ OwedStored'
  BY <1>0, <1>3 DEF StoredTyped, PollerTyped, RewinderTyped, BoundsTyped, OwedStored
<1>9. WholeBatches' /\ PinsHaveEvents' /\ EventsOnce' /\ PageUndispatched'
  BY <1>3 DEF IndInv, WholeBatches, PinsHaveEvents, EventsOnce, PageUndispatched
<1>10. CASE todo' = todo /\ (seen' = seen \/ seen' = seen \cup {Msg(p)})
  <2>1. PageTyped'
    BY <1>0, <1>5, <1>6, <1>7, <1>10 DEF PageTyped
  <2>2. TodoFresh'
    BY <1>0, <1>3, <1>10 DEF TodoFresh
  <2> QED BY <1>8, <1>9, <2>1, <2>2, TypePartsNext DEF IndInv
<1>11. CASE dispatchMessage(p)
  <2> DEFINE res == [msg  |-> Msg(p),
                     type |-> IF Msg(p) \in BadSigner \cup BadData THEN "rejected" ELSE "confirmed"]
  <2>1. todo' = Append(todo, res) /\ Msg(p) \notin seen /\ seen' = seen \cup {Msg(p)}
    BY <1>11 DEF dispatchMessage, takeMessage
  <2>2. res \in Results /\ res.msg = Msg(p)
    BY <1>5 DEF Results
  <2>3. todo \in Seq(Results)
    BY <1>0 DEF PageTyped
  <2> HIDE DEF res
  <2>4. /\ todo' \in Seq(Results) /\ DOMAIN todo' = 1..(Len(todo) + 1)
        /\ \A i \in DOMAIN todo : todo'[i] = todo[i]
        /\ todo'[Len(todo) + 1] = res
        /\ DOMAIN todo = 1..Len(todo) /\ Len(todo) \in Nat
    BY <2>1, <2>2, <2>3, AppendProperties
  <2>5. PageTyped'
    BY <1>0, <1>5, <1>6, <1>7, <2>1, <2>4 DEF PageTyped
  <2>6. \A i \in DOMAIN todo : todo[i].msg # Msg(p)
    BY <1>0, <2>1 DEF TodoFresh
  <2>7. \A k \in DOMAIN events : events[k].msg # Msg(p)
    BY <1>0, <1>4 DEF PinsHaveEvents
  <2>8. PinsOf(Msg(p)) \subseteq 1..inserted
    BY <1>0, <1>4, MessagesWhole DEF StoredTyped
  <2>9. \A i \in DOMAIN todo' : i \in DOMAIN todo \/ i = Len(todo) + 1
    BY <2>4
  <2>10. \A i, j \in DOMAIN todo' : todo'[i].msg = todo'[j].msg => i = j
    BY <1>0, <2>2, <2>4, <2>6, <2>9 DEF TodoFresh
  <2>11. \A i \in DOMAIN todo' :
           /\ todo'[i].msg \in seen'
           /\ PinsOf(todo'[i].msg) \subseteq 1..inserted'
           /\ \A k \in DOMAIN events' : events'[k].msg # todo'[i].msg
    <3> SUFFICES ASSUME NEW i \in DOMAIN todo'
                 PROVE  /\ todo'[i].msg \in seen'
                        /\ PinsOf(todo'[i].msg) \subseteq 1..inserted'
                        /\ \A k \in DOMAIN events' : events'[k].msg # todo'[i].msg
      OBVIOUS
    <3>1. CASE i \in DOMAIN todo
      BY <1>0, <1>3, <2>1, <2>4, <3>1 DEF TodoFresh
    <3>2. CASE i = Len(todo) + 1
      BY <1>3, <2>1, <2>2, <2>4, <2>7, <2>8, <3>2
    <3> QED BY <2>9, <3>1, <3>2
  <2>12. TodoFresh'
    BY <2>10, <2>11 DEF TodoFresh
  <2> QED BY <1>8, <1>9, <2>5, <2>12, TypePartsNext DEF IndInv
<1> QED
  BY <1>1, <1>10, <1>11 DEF skipPin, parkMessage, blockedMessage, waitForBlob, takeMessage

(* The end of a page before its results are written.                        *)
LEMMA EndPageStep == ASSUME IndInv, commitOffset \/ RunPreFinalize PROVE IndInv'
<1> USE DEF stored, poller, batchState, rewinder, bounds
<1>0. /\ StoredTyped /\ PollerTyped /\ PageTyped /\ RewinderTyped /\ BoundsTyped
      /\ OwedStored
  BY TypeParts DEF IndInv
<1>1. CASE commitOffset
  <2>1. /\ phase = "pins" /\ phase' = "final" /\ tap' = 1 /\ polling' \in page
        /\ UNCHANGED <<stored, offset, cached, owed, page, batchState, requests, rewinder, bounds>>
    BY <1>1 DEF commitOffset, LastPin
  <2>2. StoredTyped' /\ PageTyped' /\ BoundsTyped' /\ RewinderTyped' /\ OwedStored'
    BY <1>0, <2>1 DEF StoredTyped, PageTyped, BoundsTyped, RewinderTyped, OwedStored
  <2>3. PollerTyped'
    <3>1. polling' \in 0..inserted
      BY <1>0, <2>1, LedgerLength DEF PollerTyped, StoredTyped
    <3> QED BY <1>0, <2>1, <3>1 DEF PollerTyped
  <2> QED BY <2>1, <2>2, <2>3, TypePartsNext, KeepPage
<1>2. CASE RunPreFinalize
  <2>1. /\ phase = "final" /\ phase' = "prefinalized"
        /\ identities' = identities \cup Confirmed(todo)
        /\ UNCHANGED <<inserted, dispatched, arrived, blobs, events, acked, offset, cached, owed,
                       polling, tap, page, batchState, requests, rewinder, bounds>>
    BY <1>2 DEF RunPreFinalize
  <2>2. Confirmed(todo) \subseteq Claims
    BY DEF Confirmed
  <2>3. StoredTyped' /\ PageTyped' /\ BoundsTyped' /\ RewinderTyped' /\ OwedStored'
    BY <1>0, <2>1, <2>2 DEF StoredTyped, PageTyped, BoundsTyped, RewinderTyped, OwedStored
  <2>4. PollerTyped'
    BY <1>0, <2>1 DEF PollerTyped
  <2> QED BY <2>1, <2>3, <2>4, TypePartsNext, KeepPage
<1> QED BY <1>1, <1>2

(* The commit: the messages in todo have no events yet and no two entries,  *)
(* so appending them keeps events unique, and marking all of their pins     *)
(* keeps pins and events in step.                                           *)
LEMMA FinalizeStep == ASSUME IndInv, RunFinalize PROVE IndInv'
<1> USE DEF stored, poller, batchState, rewinder, bounds
<1>0. /\ StoredTyped /\ PollerTyped /\ PageTyped /\ RewinderTyped /\ BoundsTyped
      /\ OwedStored /\ PinsHaveEvents /\ EventsOnce /\ TodoFresh /\ WholeBatches
  BY TypeParts DEF IndInv
<1>1. /\ phase' = "rewinds" /\ dispatched' = dispatched \cup DispatchedPins
      /\ events' = events \o todo /\ identities' = identities \cup Confirmed(todo)
      /\ owed' = owed \cup {<<"did", c>> : c \in Confirmed(todo)}
      /\ page' = {} /\ FreshState({})
      /\ UNCHANGED <<inserted, arrived, blobs, acked, offset, cached, polling, tap,
                     requests, rewinder, bounds>>
  BY DEF RunFinalize
<1>2. PageTyped' /\ left' = {} /\ todo' = <<>>
  BY <1>1, FreshTyped
<1>3. Confirmed(todo) \subseteq Claims
  BY DEF Confirmed
<1>4. events \in Seq(Results) /\ todo \in Seq(Results)
  BY <1>0 DEF StoredTyped, PageTyped
<1>5. /\ events' \in Seq(Results)
      /\ Len(events) \in Nat /\ Len(todo) \in Nat
      /\ DOMAIN events = 1..Len(events) /\ DOMAIN todo = 1..Len(todo)
      /\ DOMAIN events' = 1..(Len(events) + Len(todo))
      /\ \A i \in DOMAIN events' :
           events'[i] = IF i <= Len(events) THEN events[i] ELSE todo[i - Len(events)]
  BY <1>1, <1>4, ConcatProperties
<1>6. \A p \in Pins : p \in DispatchedPins <=> \E i \in DOMAIN todo : todo[i].msg = Msg(p)
  BY DEF DispatchedPins, PinsOf
<1>7. \A i \in DOMAIN events : i \in DOMAIN events' /\ events'[i] = events[i]
  BY <1>5
<1>8. \A i \in DOMAIN todo : /\ Len(events) + i \in DOMAIN events'
                             /\ events'[Len(events) + i] = todo[i]
  BY <1>5
<1>9. \A i \in DOMAIN events' : i \notin DOMAIN events =>
        i - Len(events) \in DOMAIN todo /\ events'[i] = todo[i - Len(events)]
  BY <1>5
<1>10. PinsHaveEvents'
  <2> SUFFICES ASSUME NEW p \in Pins
               PROVE  p \in dispatched' <=> \E i \in DOMAIN events' : events'[i].msg = Msg(p)
    BY DEF PinsHaveEvents
  <2>1. p \in dispatched => \E i \in DOMAIN events' : events'[i].msg = Msg(p)
    BY <1>0, <1>7 DEF PinsHaveEvents
  <2>2. p \in DispatchedPins => \E i \in DOMAIN events' : events'[i].msg = Msg(p)
    BY <1>6, <1>8
  <2>3. ASSUME NEW i \in DOMAIN events', events'[i].msg = Msg(p) PROVE p \in dispatched'
    <3>1. CASE i \in DOMAIN events
      BY <1>0, <1>1, <1>7, <2>3, <3>1 DEF PinsHaveEvents
    <3>2. CASE i \notin DOMAIN events
      BY <1>1, <1>6, <1>9, <2>3, <3>2
    <3> QED BY <3>1, <3>2
  <2> QED BY <1>1, <2>1, <2>2, <2>3
<1>11. EventsOnce'
  <2> SUFFICES ASSUME NEW i \in DOMAIN events', NEW j \in DOMAIN events',
                      events'[i].msg = events'[j].msg
               PROVE  i = j
    BY DEF EventsOnce
  <2>1. CASE i \in DOMAIN events /\ j \in DOMAIN events
    BY <1>0, <1>7, <2>1 DEF EventsOnce
  <2>2. CASE i \notin DOMAIN events /\ j \notin DOMAIN events
    <3>1. i - Len(events) = j - Len(events)
      BY <1>0, <1>9, <2>2 DEF TodoFresh
    <3> QED BY <1>5, <3>1
  <2>3. CASE i \in DOMAIN events /\ j \notin DOMAIN events
    BY <1>0, <1>7, <1>9, <2>3 DEF TodoFresh
  <2>4. CASE i \notin DOMAIN events /\ j \in DOMAIN events
    BY <1>0, <1>7, <1>9, <2>4 DEF TodoFresh
  <2> QED BY <2>1, <2>2, <2>3, <2>4
<1>12. StoredTyped'
  <2>1. DispatchedPins \subseteq 1..inserted
    BY <1>0 DEF TodoFresh, DispatchedPins
  <2> QED BY <1>0, <1>1, <1>3, <1>5, <2>1 DEF StoredTyped
<1>13. PollerTyped'
  BY <1>0, <1>1, <1>2 DEF PollerTyped
<1>14. RewinderTyped'
  <2>1. {<<"did", c>> : c \in Confirmed(todo)} \subseteq Rewinds
    BY <1>3 DEF Rewinds
  <2> QED BY <1>0, <1>1, <2>1 DEF RewinderTyped
<1>15. BoundsTyped' /\ WholeBatches'
  BY <1>0, <1>1 DEF BoundsTyped, WholeBatches
<1>16. OwedStored'
  <2>1. \A b \in Batches : <<"batch", b>> \in owed' => <<"batch", b>> \in owed
    BY <1>1
  <2> QED BY <1>0, <1>1, <2>1 DEF OwedStored
<1>17. PageUndispatched' /\ TodoFresh'
  BY <1>1, <1>2 DEF PageUndispatched, TodoFresh
<1> QED BY <1>2, <1>10, <1>11, <1>12, <1>13, <1>14, <1>15, <1>16, <1>17, TypePartsNext DEF IndInv

(* Every step keeps the invariant.                                          *)
LEMMA IndStep == IndInv /\ [Next]_vars => IndInv'
<1> SUFFICES ASSUME IndInv, [Next]_vars PROVE IndInv'
  OBVIOUS
<1>1. CASE UNCHANGED vars
  <2>1. TypeOK' /\ OwedStored'
    BY <1>1 DEF IndInv, TypeOK, OwedStored, vars, stored, poller, batchState, rewinder, bounds
  <2> QED BY <1>1, <2>1, KeepPage DEF vars, stored, poller, batchState
<1>2. CASE Next
  BY <1>2, PinsStep, ArrivalStep, RewinderStep, PollerStep, PinStep, EndPageStep, FinalizeStep
     DEF Next
<1> QED BY <1>1, <1>2

(* Type correctness of the aggregator, in particular that the saved offset  *)
(* and the page never go past the pins table and that only what is stored   *)
(* is acknowledged.                                                         *)
THEOREM TypeCorrect == Spec => []TypeOK
<1>1. IndInv => TypeOK
  BY DEF IndInv
<1> QED BY <1>1, IndInit, IndStep, PTL DEF Spec

(* The invariant yields DispatchedOnce.                                     *)
LEMMA IndOnce == IndInv => DispatchedOnce
<1> SUFFICES ASSUME IndInv PROVE DispatchedOnce
  OBVIOUS
<1>1. dispatched \subseteq Pins
  BY LedgerLength DEF IndInv, TypeOK, Pins
<1>2. \A p \in Pins : p \in dispatched <=> p \in UNION {PinsOf(events[i].msg) : i \in DOMAIN events}
  BY DEF IndInv, PinsHaveEvents, PinsOf
<1>3. UNION {PinsOf(events[i].msg) : i \in DOMAIN events} \subseteq Pins
  BY DEF PinsOf
<1> QED BY <1>1, <1>2, <1>3 DEF IndInv, EventsOnce, DispatchedOnce

(* A message is confirmed or rejected at most once, with all of its pins,   *)
(* for every ledger and in spite of retries, redeliveries and restarts.     *)
THEOREM OncePerMessage == Spec => []DispatchedOnce
BY IndInit, IndStep, IndOnce, PTL DEF Spec

---------------------------------------------------------------------------
(* Pins of the table, the page and a message are numbers of the ledger.     *)
LEMMA PinTypes ==
  ASSUME IndInv
  PROVE  /\ inserted \in Nat /\ inserted \in 0..Len(Ledger) /\ Len(Ledger) \in Nat
         /\ \A q \in Undispatched : q \in Nat /\ q \in Pins /\ q <= inserted /\ q \notin dispatched
         /\ \A p \in page : p \in Undispatched
         /\ \A p \in left : p \in page
         /\ \A p \in dispatched : p \in Nat /\ p \in Pins /\ p <= inserted
<1>1. Len(Ledger) \in Nat /\ inserted \in 0..Len(Ledger)
  BY LedgerLength DEF IndInv, TypeOK
<1>2. dispatched \subseteq 1..inserted /\ page \subseteq 1..inserted /\ left \subseteq page
  BY DEF IndInv, TypeOK
<1>3. \A q \in 1..inserted : q \in Nat /\ q \in Pins /\ q <= inserted
  BY <1>1 DEF Pins
<1>4. page \cap dispatched = {}
  BY DEF IndInv, PageUndispatched
<1> QED BY <1>1, <1>2, <1>3, <1>4 DEF Undispatched

(* The pins of a message that is in the page are all undispatched.          *)
LEMMA MessageUndispatched ==
  ASSUME IndInv, NEW p \in Undispatched, NEW q \in PinsOf(Msg(p))
  PROVE  q \in Undispatched
<1>1. q \in Pins /\ Msg(q) = Msg(p) /\ p \in Pins
  BY PinTypes DEF PinsOf
<1>2. q \notin dispatched
  BY <1>1, PinTypes DEF IndInv, PinsHaveEvents
<1>3. p \in 1..inserted /\ WholeBatches /\ inserted \in 0..Len(Ledger)
  BY PinTypes DEF IndInv, Undispatched
<1>4. q \in 1..inserted
  BY <1>3, MessagesWhole
<1> QED BY <1>2, <1>4 DEF Undispatched

---------------------------------------------------------------------------
(* What a page may overtake *)

InTodo(m) == \E i \in DOMAIN todo : todo[i].msg = m

(* The page leaves out no undispatched pin between its first and its last. *)
PageWhole ==
  \A q \in Undispatched \ page : (\A r \in page : q < r) \/ (\A r \in page : r < q)

(* Outside of the page, what a topic still has comes after the page: so it *)
(* is for a context found free, and for the topics of what is dispatched.  *)
Clear(t) ==
  \A q \in Undispatched : Ledger[q].topic = t => q \in page \/ \A r \in page : r < q
FreeClear == \A t \in Topics : context[t] = "free" => Clear(t)
TodoClear ==
  \A i \in DOMAIN todo :
     /\ \E p \in page : Msg(p) = todo[i].msg
     /\ \A t \in TopicsOf(todo[i].msg) : Clear(t) /\ context[t] # "untouched"
PageInv == PageWhole /\ FreeClear /\ TodoClear

(* Steps that leave the pins, the page and its contexts alone.              *)
LEMMA PageKept ==
  ASSUME PageInv, UNCHANGED <<inserted, dispatched, page, context, todo>>
  PROVE  PageInv'
BY DEF PageInv, PageWhole, FreeClear, TodoClear, Clear, Undispatched

(* Pins that are inserted come after all others.                            *)
LEMMA PinsAppended ==
  ASSUME IndInv, persistContexts
  PROVE  /\ inserted' \in Pins /\ inserted < inserted'
         /\ Undispatched \subseteq Undispatched'
         /\ \A q \in Undispatched' \ Undispatched : q \in Pins /\ inserted < q
         /\ UNCHANGED <<dispatched, arrived, blobs, identities, events, acked, offset, cached,
                        owed, poller, batchState, requests, rewinder, bounds>>
<1>1. PICK last \in Pins :
        /\ \A p \in Pins : (p > inserted /\ p <= last) <=>
             (p > inserted /\ Ledger[p].batch = Ledger[inserted + 1].batch)
        /\ inserted' = last
  BY DEF persistContexts
<1>2. inserted < Len(Ledger) /\ Len(Ledger) \in Nat /\ inserted \in Nat
  BY PinTypes DEF persistContexts
<1>3. inserted + 1 \in Pins
  BY <1>2 DEF Pins
<1>4. inserted < last
  BY <1>1, <1>2, <1>3 DEF Pins
<1>5. /\ UNCHANGED <<dispatched, arrived, blobs, identities, events, acked, offset, cached,
                     owed, poller, batchState, requests, rewinder, bounds>>
  BY DEF persistContexts
<1>6. dispatched' = dispatched /\ last \in Nat /\ last <= Len(Ledger)
  BY <1>1, <1>2, <1>5 DEF Pins
<1>7. \A q \in Undispatched' : q \notin dispatched /\ q \in 1..last
  BY <1>1, <1>6 DEF Undispatched
<1>8. Undispatched \subseteq Undispatched'
  BY <1>1, <1>2, <1>4, <1>6 DEF Undispatched
<1>9. \A q \in Undispatched' \ Undispatched : q \in Pins /\ inserted < q
  BY <1>2, <1>6, <1>7 DEF Undispatched, Pins
<1> QED BY <1>1, <1>4, <1>5, <1>8, <1>9

(* The contexts of a page are written: its pins keep their order and       *)
(* marks.                                                                  *)
LEMMA PagePins == ASSUME IndInv, PageInv, persistContexts PROVE PageInv'
<1>1. UNCHANGED <<page, context, todo>> /\ Undispatched \subseteq Undispatched'
  BY PinsAppended DEF poller, batchState
<1>2. \A q \in Undispatched' : q \in Undispatched \/ \A r \in page : r < q
  <2> SUFFICES ASSUME NEW q \in Undispatched', q \notin Undispatched, NEW r \in page
               PROVE  r < q
    OBVIOUS
  <2>1. q \in Nat /\ inserted < q /\ inserted \in Nat
    BY PinsAppended, PinTypes DEF Pins
  <2> QED BY <2>1, PinTypes
<1>3. \A t : Clear(t) => Clear(t)'
  <2> SUFFICES ASSUME NEW t, Clear(t), NEW q \in Undispatched', Ledger[q].topic = t
               PROVE  q \in page \/ \A r \in page : r < q
    BY <1>1 DEF Clear
  <2> QED BY <1>2 DEF Clear
<1>4. PageWhole'
  BY <1>1, <1>2 DEF PageInv, PageWhole
<1>5. FreeClear' /\ TodoClear'
  BY <1>1, <1>3 DEF PageInv, FreeClear, TodoClear
<1> QED BY <1>4, <1>5 DEF PageInv

(* The first PageSize elements of a set are a prefix of it.                 *)
LEMMA PrefixOfSet ==
  ASSUME NEW S, S \subseteq Nat, IsFiniteSet(S),
         NEW q \in S \ OldestFirst(S), NEW r \in OldestFirst(S)
  PROVE  r < q
<1>1. r \in S /\ r \in Nat /\ q \in Nat
  BY DEF OldestFirst
<1> SUFFICES ASSUME q <= r PROVE FALSE
  BY <1>1
<1> DEFINE Q == {x \in S : x < q}
           R == {x \in S : x < r}
<1>2. Q \subseteq R
  <2>1. \A x \in S : x \in Nat
    OBVIOUS
  <2>2. \A x \in S : x < q => x < r
    BY <1>1, <2>1
  <2> QED BY <2>2
<1>3. IsFiniteSet(R) /\ IsFiniteSet(Q)
  BY FS_Subset
<1>4. Cardinality(Q) <= Cardinality(R) /\ Cardinality(Q) \in Nat /\ Cardinality(R) \in Nat
  <2> HIDE DEF Q, R
  <2> QED BY <1>2, <1>3, FS_Subset, FS_CardinalityType
<1>5. Cardinality(R) < PageSize /\ ~(Cardinality(Q) < PageSize)
  BY DEF OldestFirst
<1> QED BY <1>4, <1>5, AggregatorAssumption

(* A page that is read is a prefix of what is undispatched after polling.   *)
LEMMA PageRead ==
  ASSUME IndInv, readPage
  PROVE  /\ UNCHANGED <<stored, offset, cached, owed, tap, requests, resolving, loop2, bounds>>
         /\ polling' \in Nat /\ polling' <= polling /\ page = {} /\ page' \subseteq Undispatched
         /\ \A p \in page' : polling' < p
         /\ \A q \in Undispatched \ page' : q <= polling' \/ \A r \in page' : r < q
         /\ Undispatched' = Undispatched
         /\ FreshState(page')
<1>1. UNCHANGED <<stored, offset, cached, owed, tap, requests, resolving, loop2, bounds>>
  BY DEF readPage
<1>2. phase = "poll" /\ FreshState(page') /\ polling' \in RewoundOffset
  BY DEF readPage
<1>3. polling \in 0..inserted /\ inserted \in Nat
  BY PinTypes DEF IndInv, TypeOK
<1>4. polling' \in 0..polling
  BY <1>2 DEF RewoundOffset
<1>5. polling' \in Nat /\ polling' <= polling
  BY <1>3, <1>4
<1>6. page = {}
  BY <1>2 DEF IndInv, TypeOK
<1> DEFINE S == {p \in Undispatched : p > polling'}
<1>7. page' = OldestFirst(S)
  BY DEF readPage
<1>8. S \subseteq Nat /\ IsFiniteSet(S)
  <2>1. S \subseteq 1..inserted /\ 1..inserted \subseteq Nat
    BY <1>3 DEF Undispatched
  <2>2. IsFiniteSet(1..inserted)
    BY <1>3, FS_Interval
  <2> QED BY <2>1, <2>2, FS_Subset
<1>9. page' \subseteq S
  BY <1>7 DEF OldestFirst
<1>10. \A q \in S \ page' : \A r \in page' : r < q
  <2> HIDE DEF S
  <2> QED BY <1>7, <1>8, PrefixOfSet
<1>11. \A q \in Undispatched \ page' : q <= polling' \/ \A r \in page' : r < q
  <2> SUFFICES ASSUME NEW q \in Undispatched \ page' PROVE q <= polling' \/ q \in S
    BY <1>10
  <2>1. q \in Nat
    BY PinTypes
  <2> QED BY <2>1, <1>5
<1>12. Undispatched' = Undispatched
  BY <1>1 DEF stored, Undispatched
<1>13. \A p \in page' : p \in Undispatched /\ polling' < p
  <2>1. \A p \in S : p \in Undispatched /\ p \in Nat /\ polling' < p
    BY <1>5, <1>8
  <2> QED BY <1>9, <2>1
<1> QED BY <1>1, <1>2, <1>5, <1>6, <1>11, <1>12, <1>13

(* Steps that start over with a page that leaves nothing out.               *)
LEMMA PageFresh ==
  ASSUME NEW pins, FreshState(pins), PageWhole' PROVE PageInv'
<1>1. todo' = <<>> /\ context' = [t \in Topics |-> "untouched"]
  BY DEF FreshState
<1>2. TodoClear' /\ FreeClear'
  BY <1>1 DEF TodoClear, FreeClear
<1> QED BY <1>2 DEF PageInv

(* Steps that begin a page, or give it up, find no pin of it finished.     *)
LEMMA PageStart ==
  ASSUME IndInv, PageInv, readPage \/ retryPage \/ restart \/ RunFinalize
  PROVE  PageInv'
<1>1. CASE readPage
  <2>1. PageWhole'
    <3> SUFFICES ASSUME NEW q \in Undispatched \ page', ~(\A r \in page' : r < q),
                        NEW r \in page'
                 PROVE  q < r
      BY <1>1, PageRead DEF PageWhole
    <3>1. q <= polling' /\ polling' < r /\ polling' \in Nat /\ r \in Undispatched
      BY <1>1, PageRead
    <3>2. q \in Nat /\ r \in Nat
      BY <3>1, PinTypes
    <3> QED BY <3>1, <3>2
  <2> QED BY <1>1, <2>1, PageFresh, PageRead
<1>2. CASE retryPage
  <2>1. FreshState(page) /\ UNCHANGED <<page, inserted, dispatched>>
    BY <1>2 DEF retryPage, stored
  <2>2. PageWhole'
    BY <2>1 DEF PageInv, PageWhole, Undispatched
  <2> QED BY <2>1, <2>2, PageFresh
<1>3. CASE restart \/ RunFinalize
  <2>1. FreshState({}) /\ page' = {}
    BY <1>3 DEF restart, RunFinalize
  <2>2. PageWhole'
    BY <2>1 DEF PageWhole
  <2> QED BY <2>1, <2>2, PageFresh
<1> QED BY <1>1, <1>2, <1>3

(* What a step of processPin does, whichever way the pin goes.              *)
LEMMA PinTaken ==
  ASSUME IndInv, NEW p \in left,
         \/ skipPin(p) \/ parkMessage(p) \/ blockedMessage(p)
         \/ waitForBlob(p) \/ dispatchMessage(p)
  PROVE  /\ UNCHANGED <<stored, offset, cached, owed, poller, requests, rewinder, bounds>>
         /\ Undispatched' = Undispatched
         /\ phase = "pins" /\ page # {}
         /\ left' = left \ {p} /\ \A q \in left : p <= q
         /\ p \in page /\ p \in Pins /\ p \in Undispatched
         /\ localCache' = [localCache EXCEPT ![Ledger[p].batch] = BatchLookup(Ledger[p].batch)]
<1>1. takePin(p)
  BY DEF skipPin, parkMessage, blockedMessage, waitForBlob, dispatchMessage, takeMessage
<1>2. UNCHANGED <<stored, offset, cached, owed, poller, requests, rewinder, bounds>>
  BY <1>1 DEF takePin
<1>3. Undispatched' = Undispatched
  BY <1>2 DEF stored, Undispatched
<1>4. p \in page /\ p \in Undispatched /\ p \in Pins
  BY PinTypes
<1> QED BY <1>1, <1>2, <1>3, <1>4 DEF takePin, NextPin

(* A context that is ready for a pin of the page is clear.                  *)
LEMMA ReadyClear ==
  ASSUME IndInv, PageInv, NEW p \in page, NEW t \in Topics, ContextReady(t, p)
  PROVE  Clear(t)
<1>1. CASE context[t] # "untouched"
  BY <1>1 DEF ContextReady, PageInv, FreeClear
<1>2. CASE context[t] = "untouched"
  <2> SUFFICES ASSUME NEW q \in Undispatched, Ledger[q].topic = t, q \notin page, NEW r \in page
               PROVE  r < q
    BY DEF Clear
  <2>1. q >= p
    BY <1>2 DEF ContextReady
  <2>2. q \in Nat /\ p \in Nat /\ r \in Nat
    BY PinTypes
  <2>3. ~(q < p)
    BY <2>1, <2>2
  <2> QED BY <2>3 DEF PageInv, PageWhole
<1> QED BY <1>1, <1>2

(* The topics of a pin of the ledger.                                       *)
LEMMA TopicTypes ==
  /\ \A p \in Pins : Ledger[p].topic \in Topics /\ Ledger[p].batch \in Batches /\ Msg(p) \in Msgs
  /\ \A m : TopicsOf(m) \subseteq Topics
  /\ \A p \in Pins : p \in PinsOf(Msg(p)) /\ Ledger[p].topic \in TopicsOf(Msg(p))
BY DEF Topics, Batches, Msgs, TopicsOf, PinsOf

(* Every topic of a ready message is checked.                               *)
LEMMA ReadyChecked ==
  ASSUME NEW p \in Pins, AllReady(p), NEW t \in TopicsOf(Msg(p))
  PROVE  t \in Checked(p) /\ ContextReady(t, p)
<1>1. PICK i \in PinsOf(Msg(p)) : Ledger[i].topic = t
  BY DEF TopicsOf
<1>2. \A j \in PinsOf(Msg(p)) : ContextReady(Ledger[j].topic, p)
  BY DEF AllReady, TopicsOf
<1> QED BY <1>1, <1>2, TopicTypes DEF Checked, AllReady

(* A context only becomes free when it is clear.                            *)
LEMMA PagePin == ASSUME IndInv, PageInv, processPin PROVE PageInv'
<1>1. PICK p \in left : \/ skipPin(p) \/ parkMessage(p) \/ blockedMessage(p)
                        \/ waitForBlob(p) \/ dispatchMessage(p)
  BY DEF processPin
<1>2. /\ Undispatched' = Undispatched /\ UNCHANGED <<inserted, dispatched, page>>
      /\ p \in page /\ p \in Pins
  BY <1>1, PinTaken DEF stored, poller
<1>3. \A t : Clear(t)' <=> Clear(t)
  BY <1>2 DEF Clear
<1>4. PageWhole'
  BY <1>2 DEF PageInv, PageWhole
<1>5. context \in [Topics -> {"untouched", "free", "blocked"}]
  BY DEF IndInv, TypeOK
<1>6. /\ context' \in {context, Touched(p), BlockContexts(p)}
      /\ context' = Touched(p) \/ todo' = todo
  BY <1>1 DEF skipPin, parkMessage, blockedMessage, waitForBlob, dispatchMessage
<1>7. FreeClear'
  <2> SUFFICES ASSUME NEW t \in Topics, context'[t] = "free" PROVE Clear(t)
    BY <1>3 DEF FreeClear
  <2>1. context[t] = "free" \/ ContextReady(t, p)
    BY <1>5, <1>6 DEF Touched, BlockContexts
  <2> QED BY <1>2, <2>1, ReadyClear DEF PageInv, FreeClear
<1>8. \A t \in Topics : context[t] # "untouched" => context'[t] # "untouched"
  BY <1>5, <1>6 DEF Touched, BlockContexts
<1>9. CASE todo' = todo
  <2>1. TodoClear'
    BY <1>2, <1>3, <1>8, <1>9, TopicTypes DEF PageInv, TodoClear
  <2> QED BY <1>4, <1>7, <2>1 DEF PageInv
<1>10. CASE dispatchMessage(p)
  <2> DEFINE res == [msg  |-> Msg(p),
                     type |-> IF Msg(p) \in BadSigner \cup BadData THEN "rejected" ELSE "confirmed"]
  <2>1. todo' = Append(todo, res) /\ context' = Touched(p) /\ AllReady(p)
    BY <1>10 DEF dispatchMessage
  <2>2. todo \in Seq(Results) /\ res \in Results /\ res.msg = Msg(p)
    BY <1>2, TopicTypes DEF IndInv, TypeOK, Results
  <2> HIDE DEF res
  <2>3. /\ \A i \in DOMAIN todo : i \in DOMAIN todo' /\ todo'[i] = todo[i]
        /\ \A i \in DOMAIN todo' : i \in DOMAIN todo \/ todo'[i] = res
    BY <2>1, <2>2, AppendProperties
  <2>4. \A t \in TopicsOf(Msg(p)) : Clear(t) /\ context'[t] # "untouched"
    <3> SUFFICES ASSUME NEW t \in TopicsOf(Msg(p)) PROVE Clear(t) /\ context'[t] # "untouched"
      OBVIOUS
    <3>1. t \in Topics /\ t \in Checked(p) /\ ContextReady(t, p)
      BY <1>2, <2>1, ReadyChecked, TopicTypes
    <3> QED BY <1>2, <2>1, <3>1, ReadyClear DEF Touched
  <2>5. TodoClear'
    <3> SUFFICES ASSUME NEW i \in DOMAIN todo'
                 PROVE  /\ \E r \in page : Msg(r) = todo'[i].msg
                        /\ \A t \in TopicsOf(todo'[i].msg) : Clear(t) /\ context'[t] # "untouched"
      BY <1>2, <1>3 DEF TodoClear
    <3>1. CASE i \in DOMAIN todo
      BY <1>8, <2>3, <3>1, TopicTypes DEF PageInv, TodoClear
    <3>2. CASE todo'[i] = res
      BY <1>2, <2>2, <2>4, <3>2
    <3> QED BY <2>3, <3>1, <3>2
  <2> QED BY <1>4, <1>7, <2>5 DEF PageInv
<1> QED
  BY <1>1, <1>9, <1>10 DEF skipPin, parkMessage, blockedMessage, waitForBlob

(* No page has been read yet.                                              *)
LEMMA PageInit == Init => PageInv
BY DEF Init, PageInv, PageWhole, FreeClear, TodoClear

(* Every step keeps what a page knows of its pins.                         *)
LEMMA PageStep == IndInv /\ PageInv /\ [Next]_vars => PageInv'
<1> SUFFICES ASSUME IndInv, PageInv, [Next]_vars PROVE PageInv'
  OBVIOUS
<1> USE DEF stored, poller, batchState, rewinder, bounds
<1>1. CASE UNCHANGED vars
  BY <1>1, PageKept DEF vars
<1>2. CASE \/ \E b \in Batches : cacheBatch(b) \/ persistBatch(b)
           \/ \E m \in NeedsBlob : insertNewBlobs(m)
           \/ \E r \in Rewinds : queueRewind(r)
  BY <1>2, PageKept DEF cacheBatch, persistBatch, insertNewBlobs, queueRewind
<1>3. CASE \/ rewindReceiveLoop \/ startRewindTimer \/ takeStagedRewinds
           \/ storeReadyRewinds \/ persistOffset
  BY <1>3, PageKept DEF rewindReceiveLoop, startRewindTimer, takeStagedRewinds,
                        storeReadyRewinds, persistOffset
<1>4. CASE commitOffset \/ RunPreFinalize \/ finishPage
  BY <1>4, PageKept DEF commitOffset, RunPreFinalize, finishPage
<1> QED BY <1>1, <1>2, <1>3, <1>4, PagePins, PageStart, PagePin DEF Next

(* Nothing is dispatched over an undispatched pin of an earlier page.       *)
LEMMA NoOvertaking ==
  ASSUME IndInv, PageInv, RunFinalize,
         NEW p \in dispatched' \ dispatched, NEW q \in Undispatched, q \notin dispatched',
         q < p, Ledger[q].topic = Ledger[p].topic
  PROVE  q \in page
<1>1. dispatched' = dispatched \cup DispatchedPins
  BY DEF RunFinalize
<1>2. PICK i \in DOMAIN todo : p \in PinsOf(todo[i].msg)
  BY <1>1 DEF DispatchedPins
<1>3. p \in Pins /\ Msg(p) = todo[i].msg /\ Ledger[p].topic \in TopicsOf(todo[i].msg)
  BY <1>2 DEF PinsOf, TopicsOf
<1>4. PICK r \in page : Msg(r) = todo[i].msg
  BY DEF PageInv, TodoClear
<1>5. q \in page \/ r < q
  BY <1>3, <1>4 DEF PageInv, TodoClear, Clear
<1>6. ASSUME r < q PROVE FALSE
  <2>1. r \in Pins /\ q \in Pins
    BY <1>4, PinTypes
  <2>2. Msg(q) = todo[i].msg
    BY <1>3, <1>4, <1>6, <2>1, AggregatorAssumption
  <2>3. q \in DispatchedPins
    BY <2>1, <2>2 DEF DispatchedPins, PinsOf
  <2> QED BY <1>1, <2>3
<1> QED BY <1>5, <1>6

(* Pins are marked dispatched, with their events, by the end of a page alone. *)
LEMMA DispatchedSteps ==
  ASSUME [Next]_vars, ~RunFinalize
  PROVE  /\ UNCHANGED <<dispatched, events>>
         /\ persistContexts \/ inserted' = inserted
<1> USE DEF stored
<1>1. CASE UNCHANGED vars
  BY <1>1 DEF vars
<1>2. CASE processPin
  BY <1>2 DEF processPin, skipPin, parkMessage, blockedMessage, waitForBlob, dispatchMessage,
              takeMessage, takePin
<1>3. CASE \/ \E b \in Batches : cacheBatch(b) \/ persistBatch(b)
           \/ \E m \in NeedsBlob : insertNewBlobs(m)
           \/ \E r \in Rewinds : queueRewind(r)
  BY <1>3 DEF cacheBatch, persistBatch, insertNewBlobs, queueRewind
<1>4. CASE \/ rewindReceiveLoop \/ startRewindTimer \/ takeStagedRewinds \/ storeReadyRewinds
           \/ persistOffset \/ persistContexts
  BY <1>4 DEF rewindReceiveLoop, startRewindTimer, takeStagedRewinds, storeReadyRewinds,
              persistOffset, persistContexts
<1>5. CASE readPage \/ commitOffset \/ RunPreFinalize \/ finishPage \/ retryPage \/ restart
  BY <1>5 DEF readPage, commitOffset, RunPreFinalize, finishPage, retryPage, restart
<1> QED BY <1>1, <1>2, <1>3, <1>4, <1>5 DEF Next

(* A message never overtakes, on one of its topics, a pin of an earlier     *)
(* page, whatever the ledger and the page size: a context is only taken for *)
(* free when the pins it still has lie in the page or after it, and the     *)
(* pins of a message are adjacent.                                          *)
THEOREM PagesInOrder == Spec => OvertakesOnlyInPage
<1> DEFINE A == \A p \in dispatched' \ dispatched : \A q \in Undispatched \ dispatched' :
                  q < p /\ Ledger[q].topic = Ledger[p].topic => q \in page
<1>1. IndInv /\ PageInv /\ [Next]_vars => [A]_vars
  <2> SUFFICES ASSUME IndInv, PageInv, [Next]_vars,
                      NEW p \in dispatched' \ dispatched, NEW q \in Undispatched \ dispatched',
                      q < p, Ledger[q].topic = Ledger[p].topic
               PROVE  q \in page
    OBVIOUS
  <2>1. RunFinalize
    BY DispatchedSteps
  <2> QED BY <2>1, NoOvertaking
<1>2. IndInv /\ PageInv /\ [Next]_vars => IndInv' /\ PageInv'
  BY IndStep, PageStep
<1>3. Init => IndInv /\ PageInv
  BY IndInit, PageInit
<1> HIDE DEF A
<1>4. Spec => [][A]_vars
  BY <1>1, <1>2, <1>3, PTL DEF Spec
<1> USE DEF A
<1> QED BY <1>4 DEF OvertakesOnlyInPage

---------------------------------------------------------------------------
(* No pin is left behind *)

(* The pin that stands for a message on one of its topics.                  *)
LEMMA PinOnTopic ==
  ASSUME NEW m, NEW t \in TopicsOf(m)
  PROVE  PinOn(m, t) \in PinsOf(m) /\ Ledger[PinOn(m, t)].topic = t
<1>1. \E p \in PinsOf(m) : Ledger[p].topic = t
  BY DEF TopicsOf
<1> QED BY <1>1 DEF PinOn

(* A rewind to the pin's batch is queued, by the batch itself, by the       *)
(* message's blob or by its author's claim, unless the batch is still       *)
(* missing: then its arrival will queue one.                                *)
Held == owed \cup {requests[i] : i \in DOMAIN requests} \cup queued \cup staged \cup resolving
Covered(p) ==
  \/ Ledger[p].batch \in ready
  \/ <<"batch", Ledger[p].batch>> \in Held
  \/ <<"blob", Msg(p)>> \in Held
  \/ <<"did", ClaimOf[Msg(p)]>> \in Held
Waits(p) == Ledger[p].batch \notin arrived \/ Covered(p)

NoBlob(p) == Msg(p) \in NeedsBlob \ (blobs \cup BadSigner)
HasEvent(m) == \E i \in DOMAIN events : events[i].msg = m
NoAuthor(p) ==
  /\ Msg(p) \notin BadSigner /\ ClaimOf[Msg(p)] # NoClaim
  /\ ~(ClaimOf[Msg(p)] \in identities /\ HasEvent(ClaimOf[Msg(p)]))
BlockedBy(p, q) == q < p /\ Ledger[q].topic \in TopicsOf(Msg(p))

(* A pin the poller has passed has a reason to be undispatched.             *)
Passed(p) ==
  \/ Waits(p) \/ NoBlob(p) \/ NoAuthor(p)
  \/ \E q \in Undispatched : BlockedBy(p, q)
Remembered == \A p \in Undispatched \ page : p <= polling => Passed(p)

(* The identity of a claim is stored with the claim's event, unless the     *)
(* transaction of the event is yet to come, or failed.                      *)
ClaimsKnown ==
  \A c \in identities :
     /\ c \notin BadSigner \cup BadData
     /\ \/ HasEvent(c)
        \/ /\ \E q \in Undispatched : Msg(q) = c
           /\ fails > 0 \/ (phase = "prefinalized" /\ InTodo(c))

(* A pin that this page will not dispatch any more: its message has had its *)
(* turn, or its batch was looked up in vain, or it lies before the page.    *)
NilPin(p) == localCache[Ledger[p].batch] = "nil"
Settled(q) ==
  /\ ~InTodo(Msg(q))
  /\ Msg(q) \in seen \/ NilPin(q) \/ \A r \in page : q < r

(* A pin of the page whose turn has passed without dispatching its message  *)
(* has a reason, which lasts until the page is written.                     *)
AuthorLate(p) ==
  /\ Msg(p) \notin BadSigner /\ ClaimOf[Msg(p)] # NoClaim
  /\ ClaimOf[Msg(p)] \notin identities \/ ClaimOf[Msg(p)] \in Confirmed(todo)
Stuck(p) ==
  \/ Waits(p) \/ NoBlob(p) \/ AuthorLate(p)
  \/ \E q \in Undispatched : BlockedBy(p, q) /\ Settled(q)
StuckPins ==
  \A p \in page : (Msg(p) \in seen \/ NilPin(p)) /\ ~InTodo(Msg(p)) => Stuck(p)

(* A blocked context holds a settled pin before all that are to come.       *)
BlockedContexts ==
  \A t \in Topics : context[t] = "blocked" =>
     \E q \in Undispatched : /\ Ledger[q].topic = t /\ Settled(q)
                             /\ \A r \in left : Msg(r) \notin seen => q < r

(* A pin that has left the page's queue had its turn.                       *)
TurnsTaken == \A p \in page \ left : Msg(p) \in seen \/ NilPin(p)

(* What is ahead of the poller is in the page or after it, and the offset   *)
(* is moved to the end of the page.                                         *)
PollerAhead ==
  /\ \A q \in Undispatched : q > polling => q \in page \/ \A r \in page : r < q
  /\ phase \in {"final", "prefinalized"} => left = {} /\ polling \in LastPin

TodoTypes ==
  \A i \in DOMAIN todo :
     todo[i].type = IF todo[i].msg \in BadSigner \cup BadData THEN "rejected" ELSE "confirmed"

TurnInv == StuckPins /\ BlockedContexts /\ TurnsTaken /\ PollerAhead /\ TodoTypes
RewindInv == TurnInv /\ (crashes = 0 => Remembered /\ ClaimsKnown)

(* A step of a callback or of the rewinder loses no rewind.                 *)
Calm ==
  /\ UNCHANGED <<inserted, dispatched, events, identities, polling, page, batchState, bounds>>
  /\ phase' = phase \/ (phase = "rewinds" /\ phase' = "poll")
  /\ \A p \in Undispatched : Waits(p) => Waits(p)'
  /\ \A p \in Undispatched : NoBlob(p) => NoBlob(p)' \/ Waits(p)'

(* A calm step, one that takes no rewind away and no pin back, forgets no  *)
(* pin.                                                                    *)
LEMMA CalmKeeps == ASSUME IndInv, RewindInv, Calm PROVE RewindInv'
<1>1. /\ Undispatched' = Undispatched
      /\ UNCHANGED <<events, identities, polling, page, left, seen, localCache, context, todo>>
      /\ UNCHANGED <<fails, crashes>>
  BY DEF Calm, Undispatched, batchState, bounds
<1>2. \A m : (InTodo(m)' <=> InTodo(m)) /\ (HasEvent(m)' <=> HasEvent(m))
  BY <1>1 DEF InTodo, HasEvent
<1>3. \A q : (Settled(q)' <=> Settled(q)) /\ (NilPin(q)' <=> NilPin(q))
  BY <1>1, <1>2 DEF Settled, NilPin
<1>4. \A p \in Undispatched : Stuck(p) => Stuck(p)'
  <2> SUFFICES ASSUME NEW p \in Undispatched, Stuck(p) PROVE Stuck(p)'
    OBVIOUS
  <2>1. Waits(p) \/ NoBlob(p) => Stuck(p)'
    BY DEF Calm, Stuck
  <2>2. AuthorLate(p) => AuthorLate(p)'
    BY <1>1 DEF AuthorLate
  <2>3. (\E q \in Undispatched : BlockedBy(p, q) /\ Settled(q)) => Stuck(p)'
    BY <1>1, <1>3 DEF Stuck, BlockedBy
  <2> QED BY <2>1, <2>2, <2>3 DEF Stuck
<1>5. \A p \in Undispatched : Passed(p) => Passed(p)'
  <2> SUFFICES ASSUME NEW p \in Undispatched, Passed(p) PROVE Passed(p)'
    OBVIOUS
  <2>1. Waits(p) \/ NoBlob(p) => Passed(p)'
    BY DEF Calm, Passed
  <2>2. NoAuthor(p) => NoAuthor(p)'
    BY <1>1, <1>2 DEF NoAuthor
  <2>3. (\E q \in Undispatched : BlockedBy(p, q)) => Passed(p)'
    BY <1>1 DEF Passed, BlockedBy
  <2> QED BY <2>1, <2>2, <2>3 DEF Passed
<1>6. StuckPins'
  BY <1>1, <1>2, <1>3, <1>4, PinTypes DEF RewindInv, TurnInv, StuckPins
<1>7. BlockedContexts'
  BY <1>1, <1>3 DEF RewindInv, TurnInv, BlockedContexts
<1>8. TurnsTaken' /\ TodoTypes'
  BY <1>1, <1>3 DEF RewindInv, TurnInv, TurnsTaken, TodoTypes
<1>9. PollerAhead'
  BY <1>1 DEF Calm, RewindInv, TurnInv, PollerAhead, LastPin
<1>10. crashes = 0 => Remembered'
  BY <1>1, <1>5 DEF RewindInv, Remembered
<1>11. crashes = 0 => ClaimsKnown'
  BY <1>1, <1>2 DEF Calm, RewindInv, ClaimsKnown
<1> QED BY <1>1, <1>6, <1>7, <1>8, <1>9, <1>10, <1>11 DEF RewindInv, TurnInv

(* Waiting for a rewind, or for the batch that will bring one, outlasts a   *)
(* step that keeps what is held and ready.                                  *)
LEMMA WaitsKept ==
  ASSUME Held \subseteq Held', ready \subseteq ready',
         \A b \in Batches : b \in arrived' => b \in arrived \/ <<"batch", b>> \in Held'
  PROVE  \A p \in Pins : Waits(p) => Waits(p)'
<1> SUFFICES ASSUME NEW p \in Pins, Waits(p) PROVE Waits(p)'
  OBVIOUS
<1>1. Covered(p) => Covered(p)'
  BY DEF Covered
<1>2. Ledger[p].batch \in Batches
  BY TopicTypes
<1>3. Ledger[p].batch \notin arrived => Waits(p)'
  BY <1>2 DEF Waits, Covered
<1> QED BY <1>1, <1>3 DEF Waits

(* What callbacks store or queue takes nothing away.                       *)
LEMMA CallbacksCalm ==
  ASSUME IndInv,
         \/ \E b \in Batches : cacheBatch(b) \/ persistBatch(b)
         \/ \E m \in NeedsBlob : insertNewBlobs(m)
         \/ \E r \in Rewinds : queueRewind(r)
  PROVE  Calm
<1> USE DEF stored, poller, batchState, rewinder, bounds
<1>1. \A p \in Undispatched : p \in Pins
  BY PinTypes
<1>2. ASSUME NEW b \in Batches, cacheBatch(b) PROVE Calm
  <2>1. Held' = Held
    BY <1>2 DEF cacheBatch, Held
  <2> QED BY <1>1, <1>2, <2>1, WaitsKept DEF cacheBatch, Calm, NoBlob
<1>3. ASSUME NEW b \in Batches, persistBatch(b) PROVE Calm
  <2>1. Held' = Held \cup {<<"batch", b>>}
    BY <1>3 DEF persistBatch, Held
  <2>2. arrived' = arrived \cup {b} /\ ready' = ready
    BY <1>3 DEF persistBatch
  <2>3. \A p \in Pins : Waits(p) => Waits(p)'
    BY <2>1, <2>2, WaitsKept
  <2> QED BY <1>1, <1>3, <2>3 DEF persistBatch, Calm, NoBlob
<1>4. ASSUME NEW m \in NeedsBlob, insertNewBlobs(m) PROVE Calm
  <2>1. Held' = Held \cup {<<"blob", m>>} /\ blobs' = blobs \cup {m}
    BY <1>4 DEF insertNewBlobs, Held
  <2>2. \A p \in Pins : Waits(p) => Waits(p)'
    BY <1>4, <2>1, WaitsKept DEF insertNewBlobs
  <2>3. \A p \in Pins : NoBlob(p) => NoBlob(p)' \/ Waits(p)'
    BY <2>1 DEF NoBlob, Waits, Covered
  <2> QED BY <1>1, <1>4, <2>2, <2>3 DEF insertNewBlobs, Calm
<1>5. ASSUME NEW r \in Rewinds, queueRewind(r) PROVE Calm
  <2>1. requests \in Seq(Rewinds) /\ requests' = Append(requests, r) /\ owed' = owed \ {r}
    BY <1>5 DEF queueRewind, IndInv, TypeOK
  <2>2. /\ \A i \in DOMAIN requests : i \in DOMAIN requests' /\ requests'[i] = requests[i]
        /\ \E i \in DOMAIN requests' : requests'[i] = r
    BY <2>1, AppendProperties
  <2>3. UNCHANGED <<queued, staged, resolving, ready, arrived>>
    BY <1>5 DEF queueRewind
  <2>4. Held \subseteq Held'
    BY <2>1, <2>2, <2>3 DEF Held
  <2>5. \A p \in Pins : Waits(p) => Waits(p)'
    BY <2>3, <2>4, WaitsKept
  <2> QED BY <1>1, <1>5, <2>5 DEF queueRewind, Calm, NoBlob
<1> QED BY <1>2, <1>3, <1>4, <1>5

(* What loop 2 resolves becomes ready for every pin that waits for it.      *)
LEMMA ResolvedReady ==
  ASSUME NEW p \in Pins, p \notin dispatched, Ledger[p].batch \in arrived,
         NEW r, r \in {<<"batch", Ledger[p].batch>>, <<"blob", Msg(p)>>,
                       <<"did", ClaimOf[Msg(p)]>>}
  PROVE  Ledger[p].batch \in BatchesOf(r)
<1>1. CASE r = <<"batch", Ledger[p].batch>>
  BY <1>1 DEF BatchesOf
<1>2. CASE r = <<"blob", Msg(p)>>
  <2>1. BatchesOf(r) = {Ledger[q].batch : q \in PinsOf(Msg(p))} \cap arrived
    BY <1>2 DEF BatchesOf
  <2> QED BY <2>1, TopicTypes
<1>3. CASE r = <<"did", ClaimOf[Msg(p)]>>
  <2>1. BatchesOf(r) = {Ledger[q].batch : q \in {x \in Pins \ dispatched :
                                                  ClaimOf[Msg(x)] = ClaimOf[Msg(p)]}} \cap arrived
    BY <1>3 DEF BatchesOf
  <2> QED BY <2>1
<1> QED BY <1>1, <1>2, <1>3

(* The rewinder hands a rewind from one of its places to the next.         *)
LEMMA RewinderCalm ==
  ASSUME IndInv,
         \/ rewindReceiveLoop \/ startRewindTimer \/ takeStagedRewinds
         \/ storeReadyRewinds \/ persistOffset \/ finishPage
  PROVE  Calm
<1> USE DEF stored, poller, batchState, rewinder, bounds
<1>1. \A p \in Undispatched : p \in Pins /\ p \notin dispatched
  BY PinTypes
<1>2. CASE rewindReceiveLoop
  <2>1. /\ requests \in Seq(Rewinds) /\ requests # <<>> /\ requests' = Tail(requests)
        /\ queued' = queued \cup {Head(requests)}
        /\ UNCHANGED <<owed, staged, resolving, ready, arrived>>
    BY <1>2 DEF rewindReceiveLoop, IndInv, TypeOK
  <2>2. \A i \in DOMAIN requests : \/ requests[i] = Head(requests)
                                   \/ \E j \in DOMAIN requests' : requests'[j] = requests[i]
    <3>0. Head(requests) = requests[1]
      BY DEF Head
    <3> SUFFICES ASSUME NEW i \in DOMAIN requests, i # 1
                 PROVE  \E j \in DOMAIN requests' : requests'[j] = requests[i]
      BY <3>0
    <3>1. /\ Len(requests) \in Nat /\ DOMAIN requests = 1..Len(requests)
          /\ requests' \in Seq(Rewinds) /\ Len(requests') = Len(requests) - 1
          /\ DOMAIN requests' = 1..Len(requests')
          /\ \A j \in 1..Len(requests') : requests'[j] = requests[j + 1]
      BY <2>1, HeadTailProperties
    <3>2. i - 1 \in 1..Len(requests') /\ (i - 1) + 1 = i
      BY <3>1
    <3> QED BY <3>1, <3>2
  <2>3. Held \subseteq Held'
    BY <2>1, <2>2 DEF Held
  <2>4. \A p \in Pins : Waits(p) => Waits(p)'
    BY <2>1, <2>3, WaitsKept
  <2> QED BY <1>1, <1>2, <2>4 DEF rewindReceiveLoop, Calm, NoBlob
<1>3. CASE startRewindTimer \/ persistOffset \/ finishPage
  <2>1. Held' = Held /\ UNCHANGED <<ready, arrived>>
    BY <1>3 DEF startRewindTimer, persistOffset, finishPage, Held
  <2>2. \A p \in Pins : Waits(p) => Waits(p)'
    BY <2>1, WaitsKept
  <2> QED BY <1>1, <1>3, <2>2 DEF startRewindTimer, persistOffset, finishPage, Calm, NoBlob
<1>4. CASE takeStagedRewinds
  <2>1. resolving = {}
    BY <1>4 DEF takeStagedRewinds, IndInv, TypeOK
  <2>2. Held' = Held /\ UNCHANGED <<ready, arrived>>
    BY <1>4, <2>1 DEF takeStagedRewinds, Held
  <2>3. \A p \in Pins : Waits(p) => Waits(p)'
    BY <2>2, WaitsKept
  <2> QED BY <1>1, <1>4, <2>3 DEF takeStagedRewinds, Calm, NoBlob
<1>5. CASE storeReadyRewinds
  <2>1. /\ ready' = ready \cup UNION {BatchesOf(r) : r \in resolving} /\ resolving' = {}
        /\ UNCHANGED <<owed, requests, queued, staged, arrived>>
    BY <1>5 DEF storeReadyRewinds
  <2>2. Held' = Held \ (resolving \ (owed \cup {requests[i] : i \in DOMAIN requests}
                                          \cup queued \cup staged))
    BY <2>1 DEF Held
  <2>3. \A r \in Held : r \in Held' \/ r \in resolving
    BY <2>2
  <2>4. ASSUME NEW p \in Undispatched, Waits(p), Ledger[p].batch \in arrived PROVE Waits(p)'
    <3>1. ASSUME NEW r \in resolving,
                 r \in {<<"batch", Ledger[p].batch>>, <<"blob", Msg(p)>>,
                        <<"did", ClaimOf[Msg(p)]>>}
          PROVE  Ledger[p].batch \in ready'
      <4>1. Ledger[p].batch \in BatchesOf(r)
        BY <1>1, <2>4, <3>1, ResolvedReady
      <4> QED BY <2>1, <4>1
    <3>2. Covered(p)
      BY <2>4 DEF Waits
    <3>3. Covered(p)'
      BY <2>1, <2>3, <3>1, <3>2 DEF Covered
    <3> QED BY <3>3 DEF Waits
  <2>5. \A p \in Undispatched : Waits(p) => Waits(p)'
    BY <2>1, <2>4 DEF Waits
  <2> QED BY <1>5, <2>5 DEF storeReadyRewinds, Calm, NoBlob
<1> QED BY <1>2, <1>3, <1>4, <1>5

(* The pins of a batch that is pinned are ahead of the poller.              *)
LEMMA RewindPins == ASSUME IndInv, RewindInv, persistContexts PROVE RewindInv'
<1>1. /\ Undispatched \subseteq Undispatched'
      /\ UNCHANGED <<dispatched, arrived, blobs, identities, events, owed, phase, polling, page,
                     left, seen, localCache, context, todo, requests, queued, staged, resolving,
                     ready, fails, crashes>>
  BY PinsAppended DEF poller, batchState, rewinder, bounds
<1>2. \A q \in Undispatched' : q \in Undispatched \/ (polling < q /\ \A r \in page : r < q)
  <2> SUFFICES ASSUME NEW q \in Undispatched', q \notin Undispatched
               PROVE  polling < q /\ \A r \in page : r < q
    OBVIOUS
  <2>1. q \in Nat /\ inserted < q /\ inserted \in Nat
    BY PinsAppended, PinTypes DEF Pins
  <2>2. polling \in 0..inserted
    BY DEF IndInv, TypeOK
  <2>3. \A r \in page : r \in Nat /\ r <= inserted
    BY PinTypes
  <2> QED BY <2>1, <2>2, <2>3
<1>3. \A m : (InTodo(m)' <=> InTodo(m)) /\ (HasEvent(m)' <=> HasEvent(m))
  BY <1>1 DEF InTodo, HasEvent
<1>4. \A q : /\ Settled(q)' <=> Settled(q)
             /\ NilPin(q)' <=> NilPin(q)
  BY <1>1, <1>3 DEF Settled, NilPin
<1>5. Held' = Held
  BY <1>1 DEF Held
<1>6. \A q : /\ Waits(q)' <=> Waits(q)
             /\ NoBlob(q)' <=> NoBlob(q)
             /\ NoAuthor(q)' <=> NoAuthor(q)
             /\ AuthorLate(q)' <=> AuthorLate(q)
  BY <1>1, <1>3, <1>5 DEF Waits, Covered, NoBlob, NoAuthor, AuthorLate
<1>7. \A p, q : BlockedBy(p, q)' <=> BlockedBy(p, q)
  BY DEF BlockedBy
<1>8. \A p : Stuck(p) => Stuck(p)'
  BY <1>1, <1>4, <1>6, <1>7 DEF Stuck
<1>9. \A p : Passed(p) => Passed(p)'
  BY <1>1, <1>6, <1>7 DEF Passed
<1>10. StuckPins'
  BY <1>1, <1>3, <1>4, <1>8 DEF RewindInv, TurnInv, StuckPins
<1>11. BlockedContexts' /\ TurnsTaken' /\ TodoTypes'
  BY <1>1, <1>4 DEF RewindInv, TurnInv, BlockedContexts, TurnsTaken, TodoTypes
<1>12. PollerAhead'
  BY <1>1, <1>2 DEF RewindInv, TurnInv, PollerAhead, LastPin
<1>13. crashes = 0 => Remembered'
  <2> SUFFICES ASSUME crashes = 0, NEW p \in Undispatched' \ page, p <= polling PROVE Passed(p)'
    BY <1>1 DEF Remembered
  <2>1. p \in Nat /\ polling \in Nat
    <3>1. polling \in 0..inserted /\ inserted \in Nat
      BY PinTypes DEF IndInv, TypeOK
    <3>2. p \in Undispatched \/ p \in Pins
      BY PinsAppended
    <3> QED BY <3>1, <3>2, PinTypes DEF Pins
  <2>2. p \in Undispatched
    BY <1>2, <2>1
  <2> QED BY <1>9, <2>2 DEF RewindInv, Remembered
<1>14. crashes = 0 => ClaimsKnown'
  BY <1>1, <1>3 DEF RewindInv, ClaimsKnown
<1> QED BY <1>1, <1>10, <1>11, <1>12, <1>13, <1>14 DEF RewindInv, TurnInv

(* A fresh page has had no turns.                                           *)
LEMMA TurnsFresh ==
  ASSUME NEW pins, FreshState(pins), page' \subseteq pins,
         \A p \in page' : p \in Pins, PollerAhead'
  PROVE  TurnInv'
<1>1. /\ left' = pins /\ seen' = {} /\ todo' = <<>>
      /\ localCache' = [b \in Batches |-> "unread"]
      /\ context' = [t \in Topics |-> "untouched"]
  BY DEF FreshState
<1>2. \A p \in page' : ~NilPin(p)'
  BY <1>1, TopicTypes DEF NilPin
<1>3. StuckPins' /\ BlockedContexts' /\ TurnsTaken' /\ TodoTypes'
  BY <1>1, <1>2 DEF StuckPins, BlockedContexts, TurnsTaken, TodoTypes
<1> QED BY <1>3 DEF TurnInv

(* Before a page is read the poller goes back to before the pins that are   *)
(* ready, and what is queued moves on.                                      *)
LEMMA RewindRead == ASSUME IndInv, RewindInv, readPage PROVE RewindInv'
<1>1. /\ UNCHANGED <<dispatched, arrived, blobs, identities, events, owed, requests, resolving,
                     fails, crashes>>
      /\ page = {} /\ polling' \in Nat /\ polling' <= polling /\ Undispatched' = Undispatched
      /\ FreshState(page') /\ page' \subseteq Undispatched
  BY PageRead DEF stored, bounds
<1>2. \A p \in page' : p \in Pins
  BY <1>1, PinTypes
<1>3. phase = "poll" /\ phase' \in {"poll", "pins"} /\ polling' \in RewoundOffset
      /\ staged' = staged \cup queued /\ queued' = {}
  BY DEF readPage, popRewinds
<1>4. PollerAhead'
  <2>1. \A q \in Undispatched : q > polling' => q \in page' \/ \A r \in page' : r < q
    <3> SUFFICES ASSUME NEW q \in Undispatched, q > polling', q \notin page'
                 PROVE  \A r \in page' : r < q
      OBVIOUS
    <3>1. q \in Nat /\ ~(q <= polling')
      BY <1>1, PinTypes
    <3> QED BY <3>1, PageRead
  <2> QED BY <1>1, <1>3, <2>1 DEF PollerAhead
<1>5. TurnInv'
  BY <1>1, <1>2, <1>4, TurnsFresh
<1>6. \A m : HasEvent(m)' <=> HasEvent(m)
  BY <1>1 DEF HasEvent
<1>7. Held' = Held
  BY <1>1, <1>3 DEF Held
<1>8. crashes = 0 => Remembered'
  <2> SUFFICES ASSUME crashes = 0, NEW p \in Undispatched, p <= polling' PROVE Passed(p)'
    BY <1>1 DEF Remembered
  <2>1. p \in Nat /\ polling \in Nat
    <3>1. polling \in 0..inserted /\ inserted \in Nat
      BY PinTypes DEF IndInv, TypeOK
    <3> QED BY <3>1, PinTypes
  <2>2. Passed(p)
    BY <1>1, <2>1 DEF RewindInv, Remembered
  <2>3. Ledger[p].batch \notin ready
    BY <1>1, <1>3, <2>1 DEF RewoundOffset
  <2>4. Waits(p) => Waits(p)'
    BY <1>1, <1>7, <2>3 DEF Waits, Covered
  <2>5. NoBlob(p) \/ NoAuthor(p) => NoBlob(p)' \/ NoAuthor(p)'
    BY <1>1, <1>6 DEF NoBlob, NoAuthor
  <2>6. (\E q \in Undispatched : BlockedBy(p, q)) => (\E q \in Undispatched : BlockedBy(p, q))'
    BY <1>1 DEF BlockedBy
  <2> QED BY <2>2, <2>4, <2>5, <2>6 DEF Passed
<1>9. crashes = 0 => ClaimsKnown'
  BY <1>1, <1>3, <1>6 DEF RewindInv, ClaimsKnown
<1> QED BY <1>1, <1>5, <1>8, <1>9 DEF RewindInv

(* A failed page starts over, and a restart is outside of the promise.      *)
LEMMA RewindAgain == ASSUME IndInv, RewindInv, retryPage \/ restart PROVE RewindInv'
<1>1. CASE retryPage
  <2>1. /\ UNCHANGED <<inserted, dispatched, arrived, blobs, identities, events, owed, polling, page,
                       requests, queued, staged, resolving, ready, crashes>>
        /\ FreshState(page) /\ phase' = "pins" /\ fails' = fails + 1
    BY <1>1 DEF retryPage, stored, rewinder
  <2>2. Undispatched' = Undispatched /\ Held' = Held /\ \A m : HasEvent(m)' <=> HasEvent(m)
    BY <2>1 DEF Undispatched, Held, HasEvent
  <2>3. PollerAhead'
    BY <2>1, <2>2 DEF RewindInv, TurnInv, PollerAhead
  <2>4. TurnInv'
    BY <2>1, <2>3, PinTypes, TurnsFresh
  <2>5. \A p : Passed(p) => Passed(p)'
    BY <2>1, <2>2 DEF Passed, Waits, Covered, NoBlob, NoAuthor, BlockedBy
  <2>6. crashes = 0 => Remembered'
    BY <2>1, <2>2, <2>5 DEF RewindInv, Remembered
  <2>7. fails' > 0
    <3>1. fails \in Nat
      BY AggregatorAssumption DEF IndInv, TypeOK
    <3> QED BY <2>1, <3>1
  <2>8. crashes = 0 => ClaimsKnown'
    BY <2>1, <2>2, <2>7 DEF RewindInv, ClaimsKnown
  <2> QED BY <2>1, <2>4, <2>6, <2>8 DEF RewindInv
<1>2. CASE restart
  <2>1. FreshState({}) /\ page' = {} /\ phase' = "poll" /\ crashes' = crashes + 1
    BY <1>2 DEF restart
  <2>2. PollerAhead'
    BY <2>1 DEF PollerAhead
  <2>3. TurnInv'
    BY <2>1, <2>2, TurnsFresh
  <2>4. crashes \in Nat
    BY AggregatorAssumption DEF IndInv, TypeOK
  <2> QED BY <2>1, <2>3, <2>4 DEF RewindInv
<1> QED BY <1>1, <1>2

(* The end of a page before its results are written.                        *)
LEMMA RewindEndPage ==
  ASSUME IndInv, PageInv, RewindInv, commitOffset \/ RunPreFinalize PROVE RewindInv'
<1> USE DEF stored, batchState, rewinder, bounds
<1>0. \A p \in page : p \in Nat /\ p \in Undispatched
  BY PinTypes
<1>1. CASE commitOffset
  <2>1. /\ phase = "pins" /\ phase' = "final" /\ left = {} /\ polling' \in LastPin
        /\ UNCHANGED <<inserted, dispatched, arrived, blobs, identities, events, owed, page, left,
                       seen, localCache, context, todo, requests, queued, staged, resolving, ready,
                       fails, crashes>>
    BY <1>1 DEF commitOffset
  <2>2. Undispatched' = Undispatched /\ Held' = Held /\ LastPin' = LastPin
    BY <2>1 DEF Undispatched, Held, LastPin
  <2>3. \A m : (InTodo(m)' <=> InTodo(m)) /\ (HasEvent(m)' <=> HasEvent(m))
    BY <2>1 DEF InTodo, HasEvent
  <2>4. polling' \in page /\ polling' \in Nat
    BY <1>0, <2>1 DEF LastPin
  <2>5. PollerAhead'
    <3>1. \A q \in Undispatched : q > polling' => q \in page \/ \A r \in page : r < q
      <4> SUFFICES ASSUME NEW q \in Undispatched, q > polling', q \notin page
                   PROVE  \A r \in page : r < q
        OBVIOUS
      <4>1. ~(q < polling')
        BY <2>4, PinTypes
      <4> QED BY <2>4, <4>1 DEF PageInv, PageWhole
    <3> QED BY <2>1, <2>2, <3>1 DEF PollerAhead
  <2>6. \A q : (Settled(q)' <=> Settled(q)) /\ (NilPin(q)' <=> NilPin(q))
    BY <2>1, <2>3 DEF Settled, NilPin
  <2>7. \A p : (Stuck(p) => Stuck(p)') /\ (Passed(p) => Passed(p)')
    <3> TAKE p
    <3>1. /\ Waits(p)' <=> Waits(p)
          /\ NoBlob(p)' <=> NoBlob(p)
          /\ NoAuthor(p)' <=> NoAuthor(p)
          /\ AuthorLate(p)' <=> AuthorLate(p)
          /\ \A q : BlockedBy(p, q)' <=> BlockedBy(p, q)
      BY <2>1, <2>2, <2>3 DEF Waits, Covered, NoBlob, NoAuthor, AuthorLate, BlockedBy
    <3> QED BY <2>2, <2>6, <3>1 DEF Stuck, Passed
  <2>8. StuckPins' /\ BlockedContexts' /\ TurnsTaken' /\ TodoTypes'
    BY <2>1, <2>2, <2>3, <2>6, <2>7
       DEF RewindInv, TurnInv, StuckPins, BlockedContexts, TurnsTaken, TodoTypes
  <2>9. crashes = 0 => Remembered'
    <3> SUFFICES ASSUME crashes = 0, NEW p \in Undispatched, p \notin page, p <= polling'
                 PROVE  Passed(p)
      BY <2>1, <2>2, <2>7 DEF Remembered
    <3>1. polling \in Nat /\ p \in Nat
      <4>1. polling \in 0..inserted /\ inserted \in Nat
        BY PinTypes DEF IndInv, TypeOK
      <4> QED BY <4>1, PinTypes
    <3>2. ~(polling' < p)
      BY <2>4, <3>1
    <3>3. ~(p > polling)
      BY <2>4, <3>2 DEF RewindInv, TurnInv, PollerAhead
    <3> QED BY <3>1, <3>3 DEF RewindInv, Remembered
  <2>10. crashes = 0 => ClaimsKnown'
    BY <2>1, <2>2, <2>3 DEF RewindInv, ClaimsKnown
  <2> QED BY <2>1, <2>5, <2>8, <2>9, <2>10 DEF RewindInv, TurnInv
<1>2. CASE RunPreFinalize
  <2>1. /\ phase = "final" /\ phase' = "prefinalized"
        /\ identities' = identities \cup Confirmed(todo)
        /\ UNCHANGED <<inserted, dispatched, arrived, blobs, events, owed, polling, page, left,
                       seen, localCache, context, todo, requests, queued, staged, resolving, ready,
                       fails, crashes>>
    BY <1>2 DEF RunPreFinalize
  <2>2. Undispatched' = Undispatched /\ Held' = Held /\ LastPin' = LastPin
    BY <2>1 DEF Undispatched, Held, LastPin
  <2>3. \A m : (InTodo(m)' <=> InTodo(m)) /\ (HasEvent(m)' <=> HasEvent(m))
    BY <2>1 DEF InTodo, HasEvent
  <2>4. \A c \in Confirmed(todo) : InTodo(c) /\ ~HasEvent(c) /\ c \notin BadSigner \cup BadData
                                   /\ \E q \in Undispatched : Msg(q) = c
    <3> SUFFICES ASSUME NEW c \in Confirmed(todo)
                 PROVE  InTodo(c) /\ ~HasEvent(c) /\ c \notin BadSigner \cup BadData
                        /\ \E q \in Undispatched : Msg(q) = c
      OBVIOUS
    <3>1. PICK i \in DOMAIN todo : todo[i] = [msg |-> c, type |-> "confirmed"]
      BY DEF Confirmed
    <3>2. todo[i].msg = c /\ todo[i].type = "confirmed"
      BY <3>1
    <3>3. c \notin BadSigner \cup BadData
      BY <3>2 DEF RewindInv, TurnInv, TodoTypes
    <3>4. ~HasEvent(c)
      BY <3>2 DEF IndInv, TodoFresh, HasEvent
    <3>5. \E q \in page : Msg(q) = c
      BY <3>2 DEF PageInv, TodoClear
    <3> QED BY <1>0, <3>2, <3>3, <3>4, <3>5 DEF InTodo
  <2>5. PollerAhead'
    BY <2>1, <2>2 DEF RewindInv, TurnInv, PollerAhead
  <2>6. \A q : (Settled(q)' <=> Settled(q)) /\ (NilPin(q)' <=> NilPin(q))
    BY <2>1, <2>3 DEF Settled, NilPin
  <2>7. \A p : (Stuck(p) => Stuck(p)') /\ (Passed(p) => Passed(p)')
    <3> TAKE p
    <3>1. /\ Waits(p)' <=> Waits(p)
          /\ NoBlob(p)' <=> NoBlob(p)
          /\ \A q : BlockedBy(p, q)' <=> BlockedBy(p, q)
      BY <2>1, <2>2 DEF Waits, Covered, NoBlob, BlockedBy
    <3>2. NoAuthor(p) => NoAuthor(p)'
      BY <2>1, <2>3, <2>4 DEF NoAuthor
    <3>3. AuthorLate(p) => AuthorLate(p)'
      BY <2>1 DEF AuthorLate
    <3> QED BY <2>2, <2>6, <3>1, <3>2, <3>3 DEF Stuck, Passed
  <2>8. StuckPins' /\ BlockedContexts' /\ TurnsTaken' /\ TodoTypes'
    BY <2>1, <2>2, <2>3, <2>6, <2>7
       DEF RewindInv, TurnInv, StuckPins, BlockedContexts, TurnsTaken, TodoTypes
  <2>9. crashes = 0 => Remembered'
    BY <2>1, <2>2, <2>7 DEF RewindInv, Remembered
  <2>10. crashes = 0 => ClaimsKnown'
    <3> SUFFICES ASSUME crashes = 0, NEW c \in identities'
                 PROVE  /\ c \notin BadSigner \cup BadData
                        /\ \/ HasEvent(c)
                           \/ /\ \E q \in Undispatched : Msg(q) = c
                              /\ fails > 0 \/ InTodo(c)
      BY <2>1, <2>2, <2>3 DEF ClaimsKnown
    <3>1. CASE c \in identities
      BY <3>1 DEF RewindInv, ClaimsKnown
    <3>2. CASE c \in Confirmed(todo)
      BY <2>4, <3>2
    <3> QED BY <2>1, <3>1, <3>2
  <2> QED BY <2>1, <2>5, <2>8, <2>9, <2>10 DEF RewindInv, TurnInv
<1> QED BY <1>1, <1>2

(* A context that is not ready for the pin whose turn it is holds a settled *)
(* pin before it.                                                           *)
LEMMA BlockerExists ==
  ASSUME IndInv, PageInv, RewindInv, NEW p \in left, \A q \in left : p <= q,
         Msg(p) \notin seen, NEW t \in Topics, ~ContextReady(t, p)
  PROVE  \E q \in Undispatched : Ledger[q].topic = t /\ Settled(q) /\ q < p
<1>1. p \in page /\ p \in Nat
  BY PinTypes
<1>2. context[t] \in {"untouched", "free", "blocked"}
  BY DEF IndInv, TypeOK
<1>3. CASE context[t] # "untouched"
  <2>1. context[t] = "blocked"
    BY <1>2, <1>3 DEF ContextReady
  <2> QED BY <2>1 DEF RewindInv, TurnInv, BlockedContexts
<1>4. CASE context[t] = "untouched"
  <2>1. PICK q \in Undispatched : Ledger[q].topic = t /\ ~(q >= p)
    BY <1>4 DEF ContextReady
  <2>2. q < p /\ q \in Nat /\ q \in Pins
    BY <1>1, <2>1, PinTypes
  <2>3. ~InTodo(Msg(q))
    <3>1. t \in TopicsOf(Msg(q))
      BY <2>1, <2>2, TopicTypes
    <3> QED BY <1>4, <3>1 DEF InTodo, PageInv, TodoClear
  <2>4. CASE q \in page
    <3>1. q \notin left
      BY <1>1, <2>2
    <3> QED BY <2>1, <2>2, <2>3, <2>4, <3>1 DEF RewindInv, TurnInv, TurnsTaken, Settled
  <2>5. CASE q \notin page
    <3>1. \A r \in page : q < r
      BY <1>1, <2>2, <2>5 DEF PageInv, PageWhole
    <3> QED BY <2>1, <2>2, <2>3, <3>1 DEF Settled
  <2> QED BY <2>4, <2>5
<1> QED BY <1>3, <1>4

(* A lookup in vain is remembered, and is made of a batch that is missing.  *)
LEMMA NilKept ==
  ASSUME IndInv, NEW p \in Pins,
         localCache' = [localCache EXCEPT ![Ledger[p].batch] = BatchLookup(Ledger[p].batch)],
         NEW q \in Pins
  PROVE  /\ NilPin(q) => NilPin(q)'
         /\ NilPin(q)' => NilPin(q) \/ Ledger[q].batch \notin arrived
         /\ Ledger[q].batch = Ledger[p].batch /\ BatchLookup(Ledger[p].batch) = "found" => ~NilPin(q)
         /\ BatchLookup(Ledger[p].batch) = "nil" => NilPin(p)'
<1>1. localCache \in [Batches -> {"unread", "found", "nil"}]
  BY DEF IndInv, TypeOK
<1>2. Ledger[p].batch \in Batches /\ Ledger[q].batch \in Batches
  BY TopicTypes
<1>3. CASE Ledger[q].batch = Ledger[p].batch
  <2>1. NilPin(q)' <=> BatchLookup(Ledger[p].batch) = "nil"
    BY <1>1, <1>2, <1>3 DEF NilPin
  <2>2. NilPin(p)' <=> BatchLookup(Ledger[p].batch) = "nil"
    BY <1>1, <1>2 DEF NilPin
  <2> QED BY <1>1, <1>3, <2>1, <2>2 DEF BatchLookup, NilPin
<1>4. CASE Ledger[q].batch # Ledger[p].batch
  <2>1. NilPin(q)' <=> NilPin(q)
    BY <1>1, <1>2, <1>4 DEF NilPin
  <2>2. NilPin(p)' <=> BatchLookup(Ledger[p].batch) = "nil"
    BY <1>1, <1>2 DEF NilPin
  <2> QED BY <1>4, <2>1, <2>2
<1> QED BY <1>3, <1>4

(* A settled pin stays settled: a message that is dispatched has found its  *)
(* batch, has not had its turn, and is on no topic with a pin before the    *)
(* page.                                                                    *)
LEMMA SettledKept ==
  ASSUME IndInv, PageInv, NEW p \in left,
         \/ skipPin(p) \/ parkMessage(p) \/ blockedMessage(p)
         \/ waitForBlob(p) \/ dispatchMessage(p),
         NEW q \in Undispatched, Settled(q)
  PROVE  Settled(q)'
<1>1. /\ page' = page /\ p \in page /\ p \in Pins /\ q \in Pins /\ q \in Nat /\ p \in Nat
      /\ localCache' = [localCache EXCEPT ![Ledger[p].batch] = BatchLookup(Ledger[p].batch)]
  BY PinTaken, PinTypes DEF poller
<1>2. seen \subseteq seen'
  BY DEF skipPin, parkMessage, blockedMessage, waitForBlob, dispatchMessage, takeMessage
<1>3. NilPin(q) => NilPin(q)'
  BY <1>1, NilKept
<1>4. ASSUME InTodo(Msg(q))' PROVE FALSE
  <2>1. todo' # todo
    BY <1>4 DEF InTodo, Settled
  <2>2. dispatchMessage(p)
    BY <2>1 DEF skipPin, parkMessage, blockedMessage, waitForBlob
  <2> DEFINE res == [msg  |-> Msg(p),
                     type |-> IF Msg(p) \in BadSigner \cup BadData THEN "rejected" ELSE "confirmed"]
  <2>3. todo' = Append(todo, res) /\ todo \in Seq(Results) /\ res \in Results /\ res.msg = Msg(p)
    BY <1>1, <2>2, TopicTypes DEF dispatchMessage, IndInv, TypeOK, Results
  <2> HIDE DEF res
  <2>4. \A i \in DOMAIN todo' : (i \in DOMAIN todo /\ todo'[i] = todo[i]) \/ todo'[i] = res
    BY <2>3, AppendProperties
  <2>5. Msg(q) = Msg(p)
    BY <1>4, <2>3, <2>4 DEF InTodo, Settled
  <2>6. /\ BatchLookup(Ledger[p].batch) = "found" /\ Msg(p) \notin seen /\ AllReady(p)
    BY <2>2 DEF dispatchMessage, takeMessage
  <2>7. ~NilPin(q)
    <3>1. Ledger[q].batch = Ledger[p].batch
      BY <1>1, <2>5, AggregatorAssumption
    <3> QED BY <1>1, <2>6, <3>1, NilKept
  <2>8. \A r \in page : q < r
    BY <2>5, <2>6, <2>7 DEF Settled
  <2>9. Clear(Ledger[q].topic)
    <3>1. Ledger[q].topic \in TopicsOf(Msg(p)) /\ Ledger[q].topic \in Topics
      BY <1>1, <2>5, TopicTypes
    <3> QED BY <1>1, <2>6, <3>1, ReadyChecked, ReadyClear
  <2>10. q \notin page
    BY <1>1, <2>8
  <2>11. p < q /\ q < p
    BY <1>1, <2>8, <2>9, <2>10 DEF Clear
  <2> QED BY <1>1, <2>11
<1> QED BY <1>1, <1>2, <1>3, <1>4 DEF Settled

(* A pin has its turn.                                                      *)
LEMMA RewindPin == ASSUME IndInv, PageInv, RewindInv, processPin PROVE RewindInv'
<1>1. PICK p \in left : \/ skipPin(p) \/ parkMessage(p) \/ blockedMessage(p)
                        \/ waitForBlob(p) \/ dispatchMessage(p)
  BY DEF processPin
<1>2. /\ UNCHANGED <<inserted, dispatched, arrived, blobs, identities, events, owed, phase, polling,
                     page, requests, queued, staged, resolving, ready, fails, crashes>>
      /\ Undispatched' = Undispatched /\ phase = "pins"
      /\ left' = left \ {p} /\ \A q \in left : p <= q
      /\ p \in page /\ p \in Pins /\ p \in Undispatched /\ p \in Nat
      /\ localCache' = [localCache EXCEPT ![Ledger[p].batch] = BatchLookup(Ledger[p].batch)]
  BY <1>1, PinTaken, PinTypes DEF stored, poller, rewinder, bounds
<1>3. \A r \in page : r \in Pins /\ r \in Nat /\ r \in Undispatched
  BY PinTypes
<1>4. \A q \in Undispatched : Settled(q) => Settled(q)'
  BY <1>1, SettledKept
<1>5. \A q \in Pins : /\ NilPin(q) => NilPin(q)'
                      /\ NilPin(q)' => NilPin(q) \/ Ledger[q].batch \notin arrived
  BY <1>2, NilKept
<1>6. \/ seen' = seen /\ todo' = todo /\ context' = context /\ skipPin(p)
      \/ /\ seen' = seen \cup {Msg(p)} /\ Msg(p) \notin seen
         /\ BatchLookup(Ledger[p].batch) = "found"
  BY <1>1 DEF skipPin, parkMessage, blockedMessage, waitForBlob, dispatchMessage, takeMessage
<1> DEFINE res == [msg  |-> Msg(p),
                   type |-> IF Msg(p) \in BadSigner \cup BadData THEN "rejected" ELSE "confirmed"]
<1>7. todo \in Seq(Results) /\ res \in Results
  BY <1>2, TopicTypes DEF IndInv, TypeOK, Results
<1>8. \/ todo' = todo /\ ~dispatchMessage(p)
      \/ dispatchMessage(p) /\ todo' = Append(todo, res)
  <2>1. CASE dispatchMessage(p)
    BY <2>1 DEF dispatchMessage
  <2>2. CASE ~dispatchMessage(p)
    BY <1>1, <2>2 DEF skipPin, parkMessage, blockedMessage, waitForBlob
  <2> QED BY <2>1, <2>2
<1>9. /\ \A i \in DOMAIN todo : i \in DOMAIN todo' /\ todo'[i] = todo[i]
      /\ \A i \in DOMAIN todo' : (i \in DOMAIN todo /\ todo'[i] = todo[i])
                                 \/ (dispatchMessage(p) /\ todo'[i] = res)
      /\ dispatchMessage(p) => \E i \in DOMAIN todo' : todo'[i] = res
  <2>1. CASE todo' = todo /\ ~dispatchMessage(p)
    BY <2>1
  <2>2. CASE dispatchMessage(p) /\ todo' = Append(todo, res)
    <3> HIDE DEF res
    <3> QED BY <1>7, <2>2, AppendProperties
  <2> QED BY <1>8, <2>1, <2>2
<1>10. /\ res.msg = Msg(p)
       /\ res.type = IF res.msg \in BadSigner \cup BadData THEN "rejected" ELSE "confirmed"
  OBVIOUS
<1> HIDE DEF res
<1>11. \A m : InTodo(m) => InTodo(m)'
  BY <1>9 DEF InTodo
<1>12. Held' = Held /\ \A m : HasEvent(m)' <=> HasEvent(m)
  BY <1>2 DEF Held, HasEvent
<1>13. Confirmed(todo) \subseteq Confirmed(todo')
  BY <1>9 DEF Confirmed
<1>14. \A q : /\ Waits(q)' <=> Waits(q)
              /\ NoBlob(q)' <=> NoBlob(q)
              /\ NoAuthor(q)' <=> NoAuthor(q)
              /\ AuthorLate(q) => AuthorLate(q)'
  BY <1>2, <1>12, <1>13 DEF Waits, Covered, NoBlob, NoAuthor, AuthorLate
<1>15. \A r, q : BlockedBy(r, q)' <=> BlockedBy(r, q)
  BY DEF BlockedBy
<1>16. \A r : Stuck(r) => Stuck(r)'
  BY <1>2, <1>4, <1>14, <1>15 DEF Stuck
<1>17. ASSUME NEW t \in Topics, ~ContextReady(t, p), Msg(p) \notin seen
       PROVE  \E q \in Undispatched : Ledger[q].topic = t /\ Settled(q) /\ q < p
  BY <1>2, <1>17, BlockerExists
<1>18. ASSUME NEW r \in page, Msg(r) = Msg(p), Msg(p) \notin seen,
              BatchLookup(Ledger[p].batch) = "found"
       PROVE  p <= r
  <2>1. ~NilPin(r)
    <3>1. Ledger[r].batch = Ledger[p].batch
      BY <1>2, <1>3, <1>18, AggregatorAssumption
    <3> QED BY <1>2, <1>3, <1>18, <3>1, NilKept
  <2>2. r \in left
    BY <1>18, <2>1 DEF RewindInv, TurnInv, TurnsTaken
  <2> QED BY <1>2, <2>2
<1>19. StuckPins'
  <2> SUFFICES ASSUME NEW r \in page, Msg(r) \in seen' \/ NilPin(r)', ~InTodo(Msg(r))'
               PROVE  Stuck(r)'
    BY <1>2 DEF StuckPins
  <2>1. CASE Msg(r) \in seen \/ NilPin(r)
    BY <1>11, <1>16, <2>1 DEF RewindInv, TurnInv, StuckPins
  <2>2. CASE Ledger[r].batch \notin arrived
    BY <1>16, <2>2 DEF Stuck, Waits
  <2>3. ASSUME Msg(r) \notin seen, Msg(r) \in seen' PROVE Stuck(r)'
    <3>1. /\ Msg(r) = Msg(p) /\ Msg(p) \notin seen /\ BatchLookup(Ledger[p].batch) = "found"
          /\ p <= r
      BY <1>6, <1>18, <2>3
    <3>2. Ledger[r].batch = Ledger[p].batch
      BY <1>2, <1>3, <3>1, AggregatorAssumption
    <3>3. ~dispatchMessage(p) /\ ~skipPin(p)
      <4>1. dispatchMessage(p) => InTodo(Msg(p))'
        BY <1>9, <1>10 DEF InTodo
      <4> QED BY <2>3, <3>1, <4>1 DEF skipPin
    <3>4. CASE parkMessage(p)
      <4>1. Unprocessable(p)
        BY <3>4 DEF parkMessage
      <4>2. Waits(r) \/ AuthorLate(r)
        BY <3>1, <3>2, <4>1 DEF Unprocessable, AuthorResolved, Waits, AuthorLate
      <4> QED BY <1>16, <4>2 DEF Stuck
    <3>5. CASE blockedMessage(p)
      <4>1. PICK t \in TopicsOf(Msg(p)) : ~ContextReady(t, p)
        BY <3>5 DEF blockedMessage, AllReady
      <4>2. PICK q \in Undispatched : Ledger[q].topic = t /\ Settled(q) /\ q < p
        BY <1>17, <3>1, <4>1, TopicTypes
      <4>3. q < r
        BY <1>2, <1>3, <3>1, <4>2, PinTypes
      <4> QED BY <1>16, <3>1, <4>1, <4>2, <4>3 DEF Stuck, BlockedBy
    <3>6. CASE waitForBlob(p)
      <4>1. NoBlob(r)
        BY <3>1, <3>6 DEF waitForBlob, NoBlob
      <4> QED BY <1>16, <4>1 DEF Stuck
    <3> QED BY <1>1, <3>3, <3>4, <3>5, <3>6
  <2> QED BY <1>3, <1>5, <2>1, <2>2, <2>3
<1>20. BlockedContexts'
  <2> SUFFICES ASSUME NEW t \in Topics, context'[t] = "blocked"
               PROVE  \E q \in Undispatched : /\ Ledger[q].topic = t /\ Settled(q)'
                                              /\ \A r \in left' : Msg(r) \notin seen' => q < r
    BY <1>2 DEF BlockedContexts
  <2>0. context \in [Topics -> {"untouched", "free", "blocked"}]
    BY DEF IndInv, TypeOK
  <2>1. CASE context[t] = "blocked"
    <3>1. PICK q \in Undispatched : /\ Ledger[q].topic = t /\ Settled(q)
                                    /\ \A r \in left : Msg(r) \notin seen => q < r
      BY <2>1 DEF RewindInv, TurnInv, BlockedContexts
    <3>2. \A r \in left' : Msg(r) \notin seen' => r \in left /\ Msg(r) \notin seen
      BY <1>2, <1>6
    <3> QED BY <1>4, <3>1, <3>2
  <2>2. ASSUME context[t] # "blocked", context' = Touched(p), Msg(p) \notin seen
        PROVE  \E q \in Undispatched : /\ Ledger[q].topic = t /\ Settled(q)'
                                       /\ \A r \in left' : Msg(r) \notin seen' => q < r
    <3>1. ~ContextReady(t, p)
      BY <2>0, <2>2 DEF Touched
    <3>2. PICK q \in Undispatched : Ledger[q].topic = t /\ Settled(q) /\ q < p
      BY <1>17, <2>2, <3>1
    <3>3. \A r \in left' : q < r
      <4> SUFFICES ASSUME NEW r \in left PROVE q < r
        BY <1>2
      <4>1. p <= r /\ q \in Nat /\ r \in Nat
        BY <1>2, PinTypes
      <4> QED BY <1>2, <3>2, <4>1
    <3> QED BY <1>4, <3>2, <3>3
  <2>3. ASSUME context[t] # "blocked", waitForBlob(p)
        PROVE  \E q \in Undispatched : /\ Ledger[q].topic = t /\ Settled(q)'
                                       /\ \A r \in left' : Msg(r) \notin seen' => q < r
    <3>1. /\ context' = BlockContexts(p) /\ todo' = todo /\ seen' = seen \cup {Msg(p)}
          /\ Msg(p) \notin seen
      BY <2>3 DEF waitForBlob, takeMessage
    <3>2. t \in TopicsOf(Msg(p))
      BY <2>0, <2>3, <3>1 DEF BlockContexts
    <3> DEFINE q == PinOn(Msg(p), t)
    <3>3. q \in PinsOf(Msg(p)) /\ Ledger[q].topic = t
      BY <3>2, PinOnTopic
    <3> HIDE DEF q
    <3>4. q \in Undispatched /\ Msg(q) = Msg(p) /\ q \in Pins /\ q \in Nat
      BY <1>2, <3>3, MessageUndispatched, PinTypes DEF PinsOf
    <3>5. Settled(q)'
      <4>1. ~InTodo(Msg(p))
        BY <3>1 DEF IndInv, TodoFresh, InTodo
      <4>2. ~InTodo(Msg(q))'
        BY <3>1, <3>4, <4>1 DEF InTodo
      <4> QED BY <3>1, <3>4, <4>2 DEF Settled
    <3>6. ASSUME NEW r \in left', Msg(r) \notin seen' PROVE q < r
      <4>1. r \in left /\ r # p /\ p <= r /\ r \in Nat /\ r \in Pins /\ Msg(r) # Msg(p)
        BY <1>2, <3>1, <3>6, PinTypes
      <4>2. p < r
        BY <1>2, <4>1
      <4>3. ~(r < q)
        BY <1>2, <3>4, <4>1, <4>2, AggregatorAssumption
      <4> QED BY <3>4, <4>1, <4>3
    <3> QED BY <3>3, <3>4, <3>5, <3>6
  <2>4. \/ context' = context
        \/ context' = Touched(p) /\ Msg(p) \notin seen
        \/ waitForBlob(p)
    BY <1>1, <1>6 DEF skipPin, parkMessage, blockedMessage, dispatchMessage
  <2> QED BY <2>1, <2>2, <2>3, <2>4
<1>21. TurnsTaken'
  <2>1. Msg(p) \in seen' \/ NilPin(p)'
    <3>1. CASE skipPin(p) /\ seen' = seen
      <4>1. BatchLookup(Ledger[p].batch) = "nil" \/ Msg(p) \in seen
        BY <3>1 DEF skipPin
      <4>2. BatchLookup(Ledger[p].batch) = "nil" => NilPin(p)'
        BY <1>2, NilKept
      <4> QED BY <3>1, <4>1, <4>2
    <3> QED BY <1>6, <3>1
  <2>2. \A r \in page \ left : Msg(r) \in seen' \/ NilPin(r)'
    BY <1>3, <1>5, <1>6 DEF RewindInv, TurnInv, TurnsTaken
  <2> QED BY <1>2, <2>1, <2>2 DEF TurnsTaken
<1>22. PollerAhead'
  BY <1>2 DEF RewindInv, TurnInv, PollerAhead
<1>23. TodoTypes'
  BY <1>9, <1>10 DEF RewindInv, TurnInv, TodoTypes
<1>24. crashes = 0 => Remembered'
  <2>1. \A q : Passed(q) => Passed(q)'
    BY <1>2, <1>14, <1>15 DEF Passed
  <2> QED BY <1>2, <2>1 DEF RewindInv, Remembered
<1>25. crashes = 0 => ClaimsKnown'
  BY <1>2, <1>12 DEF RewindInv, ClaimsKnown
<1> QED BY <1>2, <1>19, <1>20, <1>21, <1>22, <1>23, <1>24, <1>25 DEF RewindInv, TurnInv

(* The page is written: its rejected pins have their reasons, its confirmed *)
(* claims their rewinds, and what held up a pin before the page, or a pin   *)
(* of the page that was not dispatched, is not dispatched either.           *)
LEMMA RewindFinalize ==
  ASSUME IndInv, PageInv, RewindInv, RunFinalize PROVE RewindInv'
<1>1. /\ phase \in {"final", "prefinalized"} /\ phase' = "rewinds"
      /\ dispatched' = dispatched \cup DispatchedPins /\ events' = events \o todo
      /\ identities' = identities \cup Confirmed(todo)
      /\ owed' = owed \cup {<<"did", c>> : c \in Confirmed(todo)}
      /\ page' = {} /\ FreshState({})
      /\ UNCHANGED <<inserted, arrived, blobs, polling, requests, queued, staged, resolving, ready,
                     fails, crashes>>
  BY DEF RunFinalize, rewinder, bounds
<1>2. events \in Seq(Results) /\ todo \in Seq(Results) /\ identities \subseteq Claims
  BY DEF IndInv, TypeOK
<1>3. /\ Len(events) \in Nat /\ Len(todo) \in Nat
      /\ DOMAIN events = 1..Len(events) /\ DOMAIN todo = 1..Len(todo)
      /\ DOMAIN events' = 1..(Len(events) + Len(todo))
      /\ \A i \in DOMAIN events' :
           events'[i] = IF i <= Len(events) THEN events[i] ELSE todo[i - Len(events)]
  BY <1>1, <1>2, ConcatProperties
<1>4. \A m : HasEvent(m)' <=> HasEvent(m) \/ InTodo(m)
  <2>1. \A i \in DOMAIN events' : IF i \in DOMAIN events THEN events'[i] = events[i]
          ELSE i - Len(events) \in DOMAIN todo /\ events'[i] = todo[i - Len(events)]
    BY <1>3
  <2>2. \A i \in DOMAIN events : i \in DOMAIN events' /\ events'[i] = events[i]
    BY <1>3
  <2>3. \A i \in DOMAIN todo : Len(events) + i \in DOMAIN events' /\ events'[Len(events) + i] = todo[i]
    BY <1>3
  <2> QED BY <2>1, <2>2, <2>3 DEF HasEvent, InTodo
<1>5. \A q \in Pins : q \in DispatchedPins <=> InTodo(Msg(q))
  BY DEF DispatchedPins, PinsOf, InTodo
<1>6. \A q \in Undispatched' : q \in Undispatched /\ q \in Pins /\ ~InTodo(Msg(q))
  BY <1>1, <1>5, PinTypes DEF Undispatched
<1>7. \A q \in Undispatched : ~InTodo(Msg(q)) => q \in Undispatched'
  BY <1>1, <1>5, PinTypes DEF Undispatched
<1>8. left = {} /\ polling \in page /\ \A r \in page : r <= polling
  BY <1>1 DEF RewindInv, TurnInv, PollerAhead, LastPin
<1>9. \A c : c \in Confirmed(todo) <=> c \in Claims /\ InTodo(c) /\ c \notin BadSigner \cup BadData
  <2>1. \A i \in DOMAIN todo : todo[i].type = "confirmed" <=> todo[i].msg \notin BadSigner \cup BadData
    BY DEF RewindInv, TurnInv, TodoTypes
  <2>2. \A i \in DOMAIN todo : todo[i] = [msg |-> todo[i].msg, type |-> todo[i].type]
    <3>1. \A r \in Results : r = [msg |-> r.msg, type |-> r.type]
      BY DEF Results
    <3>2. \A i \in DOMAIN todo : todo[i] \in Results
      BY <1>2
    <3> QED BY <3>1, <3>2
  <2>3. \A i \in DOMAIN todo : \A c :
          todo[i] = [msg |-> c, type |-> "confirmed"] <=> todo[i].msg = c /\ todo[i].type = "confirmed"
    <3> TAKE i \in DOMAIN todo
    <3> TAKE c
    <3>1. todo[i] = [msg |-> c, type |-> "confirmed"] => todo[i].msg = c /\ todo[i].type = "confirmed"
      OBVIOUS
    <3>2. todo[i].msg = c /\ todo[i].type = "confirmed" => todo[i] = [msg |-> c, type |-> "confirmed"]
      BY <2>2
    <3> QED BY <3>1, <3>2
  <2> QED BY <2>1, <2>3 DEF Confirmed, InTodo
<1>10. Held \subseteq Held' /\ \A c \in Confirmed(todo) : <<"did", c>> \in Held'
  BY <1>1 DEF Held
<1>11. \A p : Waits(p) => Waits(p)'
  BY <1>1, <1>10 DEF Waits, Covered
<1>12. \A p : ClaimOf[Msg(p)] \in Confirmed(todo) => Waits(p)'
  BY <1>10 DEF Waits, Covered
<1>13. \A p : NoBlob(p) => NoBlob(p)'
  BY <1>1 DEF NoBlob
<1>14. PollerAhead'
  BY <1>1 DEF PollerAhead
<1>15. TurnInv'
  BY <1>1, <1>14, TurnsFresh
<1>16. ASSUME crashes = 0, NEW p \in Undispatched', p \in page PROVE Passed(p)'
  <2>1. ~InTodo(Msg(p))
    BY <1>6
  <2>2. Stuck(p)
    BY <1>8, <1>16, <2>1 DEF RewindInv, TurnInv, TurnsTaken, StuckPins
  <2>3. CASE Waits(p) \/ NoBlob(p)
    BY <1>11, <1>13, <2>3 DEF Passed
  <2>4. CASE AuthorLate(p)
    <3>1. CASE ClaimOf[Msg(p)] \in Confirmed(todo)
      BY <1>12, <3>1 DEF Passed
    <3>2. CASE ClaimOf[Msg(p)] \notin Confirmed(todo)
      <4>1. NoAuthor(p)'
        BY <1>1, <2>4, <3>2 DEF AuthorLate, NoAuthor
      <4> QED BY <4>1 DEF Passed
    <3> QED BY <3>1, <3>2
  <2>5. CASE \E q \in Undispatched : BlockedBy(p, q) /\ Settled(q)
    <3>1. PICK q \in Undispatched : BlockedBy(p, q) /\ Settled(q)
      BY <2>5
    <3>2. q \in Undispatched' /\ BlockedBy(p, q)'
      BY <1>7, <3>1 DEF Settled, BlockedBy
    <3> QED BY <3>2 DEF Passed
  <2> QED BY <2>2, <2>3, <2>4, <2>5 DEF Stuck
<1>17. ASSUME crashes = 0, NEW p \in Undispatched', p \notin page, p <= polling PROVE Passed(p)'
  <2>1. p \in Undispatched /\ p \in Nat /\ polling \in Nat
    BY <1>6, <1>8, PinTypes
  <2>2. Passed(p)
    BY <1>17, <2>1 DEF RewindInv, Remembered
  <2>3. \A r \in page : p < r
    <3>1. ~(polling < p)
      BY <1>17, <2>1
    <3> QED BY <1>8, <1>17, <2>1, <3>1 DEF PageInv, PageWhole
  <2>4. CASE Waits(p) \/ NoBlob(p)
    BY <1>11, <1>13, <2>4 DEF Passed
  <2>5. CASE NoAuthor(p)
    <3>1. CASE ClaimOf[Msg(p)] \in Confirmed(todo)
      BY <1>12, <3>1 DEF Passed
    <3>2. CASE ClaimOf[Msg(p)] \notin Confirmed(todo)
      <4>1. NoAuthor(p)'
        <5> SUFFICES ASSUME ClaimOf[Msg(p)] \in identities, HasEvent(ClaimOf[Msg(p)])' PROVE FALSE
          BY <1>1, <2>5, <3>2 DEF NoAuthor
        <5>1. InTodo(ClaimOf[Msg(p)])
          BY <1>4, <2>5 DEF NoAuthor
        <5>2. ClaimOf[Msg(p)] \in Claims /\ ClaimOf[Msg(p)] \notin BadSigner \cup BadData
          BY <1>2, <1>17 DEF RewindInv, ClaimsKnown
        <5> QED BY <1>9, <3>2, <5>1, <5>2
      <4> QED BY <4>1 DEF Passed
    <3> QED BY <3>1, <3>2
  <2>6. CASE \E q \in Undispatched : BlockedBy(p, q)
    <3>1. PICK q \in Undispatched : BlockedBy(p, q)
      BY <2>6
    <3>2. \A r \in page : ~(r < q) /\ q # r
      <4> SUFFICES ASSUME NEW r \in page PROVE ~(r < q) /\ q # r
        OBVIOUS
      <4>1. q < p /\ p < r /\ q \in Nat /\ r \in Nat
        BY <2>3, <3>1, PinTypes DEF BlockedBy
      <4> QED BY <2>1, <4>1
    <3>3. ~InTodo(Msg(q))
      <4>1. ~Clear(Ledger[q].topic)
        BY <1>8, <3>2 DEF Clear
      <4>2. Ledger[q].topic \in TopicsOf(Msg(q))
        BY PinTypes, TopicTypes
      <4> QED BY <4>1, <4>2 DEF InTodo, PageInv, TodoClear
    <3>4. q \in Undispatched' /\ BlockedBy(p, q)'
      BY <1>7, <3>1, <3>3 DEF BlockedBy
    <3> QED BY <3>4 DEF Passed
  <2> QED BY <2>2, <2>4, <2>5, <2>6 DEF Passed
<1>18. crashes = 0 => Remembered'
  BY <1>1, <1>16, <1>17 DEF Remembered
<1>19. crashes = 0 => ClaimsKnown'
  <2> SUFFICES ASSUME crashes = 0, NEW c \in identities'
               PROVE  /\ c \notin BadSigner \cup BadData
                      /\ HasEvent(c)' \/ ((\E q \in Undispatched' : Msg(q) = c) /\ fails > 0)
    BY <1>1 DEF ClaimsKnown
  <2>1. CASE c \in Confirmed(todo)
    BY <1>4, <1>9, <2>1
  <2>2. CASE c \in identities
    <3>1. c \notin BadSigner \cup BadData
      BY <2>2 DEF RewindInv, ClaimsKnown
    <3>2. HasEvent(c) \/ InTodo(c) \/ ((\E q \in Undispatched : Msg(q) = c) /\ fails > 0)
      BY <2>2 DEF RewindInv, ClaimsKnown
    <3> QED BY <1>4, <1>7, <3>1, <3>2
  <2> QED BY <1>1, <2>1, <2>2
<1> QED BY <1>1, <1>15, <1>18, <1>19 DEF RewindInv

(* Before the first page the poller has passed no pin.                     *)
LEMMA RewindInit == Init => RewindInv
<1> SUFFICES ASSUME Init PROVE RewindInv
  OBVIOUS
<1>1. /\ inserted = 0 /\ phase = "poll" /\ page = {} /\ left = {} /\ todo = <<>> /\ identities = {}
      /\ context = [t \in Topics |-> "untouched"]
  BY DEF Init
<1>2. Undispatched = {}
  BY <1>1 DEF Undispatched
<1>3. TurnInv
  BY <1>1 DEF TurnInv, StuckPins, BlockedContexts, TurnsTaken, PollerAhead, TodoTypes
<1>4. Remembered /\ ClaimsKnown
  BY <1>1, <1>2 DEF Remembered, ClaimsKnown
<1> QED BY <1>3, <1>4 DEF RewindInv

(* Every step keeps a reason for each pin that the poller has passed.      *)
LEMMA RewindStep == IndInv /\ PageInv /\ RewindInv /\ [Next]_vars => RewindInv'
<1> SUFFICES ASSUME IndInv, PageInv, RewindInv, [Next]_vars PROVE RewindInv'
  OBVIOUS
<1>1. CASE UNCHANGED vars
  <2>1. Held' = Held
    BY <1>1 DEF vars, rewinder, Held
  <2>2. \A p \in Undispatched : Waits(p) => Waits(p)'
    BY <1>1, <2>1 DEF vars, stored, rewinder, Waits, Covered
  <2>3. \A p \in Undispatched : NoBlob(p) => NoBlob(p)'
    BY <1>1 DEF vars, stored, NoBlob
  <2>4. Calm
    BY <1>1, <2>2, <2>3 DEF vars, stored, poller, Calm
  <2> QED BY <2>4, CalmKeeps
<1>2. CASE \/ \E b \in Batches : cacheBatch(b) \/ persistBatch(b)
           \/ \E m \in NeedsBlob : insertNewBlobs(m)
           \/ \E r \in Rewinds : queueRewind(r)
  BY <1>2, CallbacksCalm, CalmKeeps
<1>3. CASE \/ rewindReceiveLoop \/ startRewindTimer \/ takeStagedRewinds
           \/ storeReadyRewinds \/ persistOffset \/ finishPage
  BY <1>3, RewinderCalm, CalmKeeps
<1> QED BY <1>1, <1>2, <1>3, RewindPins, RewindRead, RewindAgain, RewindEndPage, RewindPin,
           RewindFinalize DEF Next

(* A rewind that is held, or the identity claim in the page, brings the     *)
(* poller back.                                                             *)
LEMMA WaitsRewinding ==
  ASSUME NEW p \in Pins, p \notin dispatched, Ledger[p].batch \in arrived,
         Covered(p) \/ <<"did", ClaimOf[Msg(p)]>> \in Pending
  PROVE  Ledger[p].batch \in Rewinding
<1>1. Held \subseteq Pending
  BY DEF Held, Pending
<1>2. ASSUME NEW r \in Pending,
             r \in {<<"batch", Ledger[p].batch>>, <<"blob", Msg(p)>>, <<"did", ClaimOf[Msg(p)]>>}
      PROVE  Ledger[p].batch \in Rewinding
  <2>1. Ledger[p].batch \in BatchesOf(r)
    BY <1>2, ResolvedReady
  <2> QED BY <2>1 DEF Rewinding
<1>3. CASE Ledger[p].batch \in ready
  BY <1>3 DEF Rewinding
<1> QED BY <1>1, <1>2, <1>3 DEF Covered

(* The reasons of the invariant are those that the property allows.        *)
LEMMA RewindForgotten == ASSUME IndInv, PageInv, RewindInv PROVE NoPinForgotten
<1> SUFFICES ASSUME crashes = 0, NEW p \in Undispatched \ page, p <= polling,
                    Available(Msg(p)), Ledger[p].batch \notin Rewinding,
                    ~(\E q \in Undispatched : BlockedBy(p, q))
             PROVE  fails > 0 /\ \E q \in Undispatched : Msg(q) = ClaimOf[Msg(p)]
  BY DEF NoPinForgotten, BlockedBy
<1>1. p \in Pins /\ p \notin dispatched /\ Ledger[p].batch \in arrived
  BY PinTypes, TopicTypes DEF Available
<1>2. NoAuthor(p)
  <2>1. Passed(p)
    BY DEF RewindInv, Remembered
  <2>2. ~Waits(p)
    BY <1>1, WaitsRewinding DEF Waits
  <2>3. ~NoBlob(p)
    BY DEF NoBlob, Available
  <2> QED BY <2>1, <2>2, <2>3 DEF Passed
<1>3. ClaimOf[Msg(p)] \in identities /\ ~HasEvent(ClaimOf[Msg(p)])
  BY <1>2 DEF NoAuthor, Available
<1>4. /\ \E q \in Undispatched : Msg(q) = ClaimOf[Msg(p)]
      /\ fails > 0 \/ InTodo(ClaimOf[Msg(p)])
  BY <1>3 DEF RewindInv, ClaimsKnown
<1>5. ~InTodo(ClaimOf[Msg(p)])
  <2> SUFFICES ASSUME InTodo(ClaimOf[Msg(p)]) PROVE <<"did", ClaimOf[Msg(p)]>> \in Pending
    BY <1>1, WaitsRewinding
  <2>1. \E r \in page : Msg(r) = ClaimOf[Msg(p)]
    BY DEF InTodo, PageInv, TodoClear
  <2>2. ClaimOf[Msg(p)] \in Claims
    BY <1>3 DEF IndInv, TypeOK
  <2> QED BY <2>1, <2>2 DEF Pending
<1> QED BY <1>4, <1>5

(* Until the process stops, no dispatchable pin is left behind the poller:  *)
(* whatever the order in which pins, batches, attachments and identities    *)
(* arrive, fail and are retried, each pin that the poller has passed waits  *)
(* for data, for an earlier pin of a topic, or for a rewind that some       *)
(* queue of the callbacks or of the rewinder's two loops still holds.       *)
THEOREM NoLostRewind == Spec => []NoPinForgotten
<1>1. Init => IndInv /\ PageInv /\ RewindInv
  BY IndInit, PageInit, RewindInit
<1>2. IndInv /\ PageInv /\ RewindInv /\ [Next]_vars => IndInv' /\ PageInv' /\ RewindInv'
  BY IndStep, PageStep, RewindStep
<1>3. IndInv /\ PageInv /\ RewindInv => NoPinForgotten
  BY RewindForgotten
<1> QED BY <1>1, <1>2, <1>3, PTL DEF Spec
=============================================================================
