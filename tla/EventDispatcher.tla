--------------------------- MODULE EventDispatcher ---------------------------
(***************************************************************************)
(* Delivery of the local event stream to one durable subscription.         *)
(*                                                                         *)
(* Every connection that starts the subscription owns an eventDispatcher;  *)
(* the dispatcherElection channel lets one of them at a time be leader.    *)
(* The leader runs an eventPoller goroutine (read a page, mark events in   *)
(* flight, hand them to a channel, wait for acks and nacks), a deliverer   *)
(* goroutine (take from the channel, call the transport) and a goroutine   *)
(* that persists the polling offset in the background.  The application's  *)
(* acknowledgements arrive on goroutines of the transport and reach the    *)
(* poller by a rendezvous on the unbuffered acksNacks channel.             *)
(*                                                                         *)
(* Events are their sequence numbers 1 .. lastSeq.  Matches is what the    *)
(* subscription's filter selects; everything else about an event is left   *)
(* out.  A page always starts just after the polling offset, so it is an   *)
(* interval of sequence numbers.                                           *)
(***************************************************************************)
EXTENDS Integers, Sequences, FiniteSets

CONSTANTS Conns,         \* connections that start this subscription
          Responders,    \* transport goroutines that carry acknowledgements
          Matches,       \* sequence numbers the subscription filter accepts
          ReadAhead,     \* options.readAhead of the subscription
          BufferLength,  \* event.dispatcher.bufferLength
          Newest,        \* options.firstEvent is "newest" (else "oldest")
          MaxSeq,        \* bound: events ever written
          MaxFails,      \* bound: failed calls to the transport
          MaxCloses,     \* bound: connections closed by their application
          MaxCrashes     \* bound: crashes of the node

ASSUME DispatcherAssumption ==
    /\ ReadAhead \in Nat
    /\ BufferLength \in Nat \ {0}
    /\ Newest \in BOOLEAN
    /\ Matches \subseteq Nat \ {0}
    /\ MaxSeq \in Nat /\ MaxFails \in Nat
    /\ MaxCloses \in Nat /\ MaxCrashes \in Nat

VARIABLES
    batch,      \* options.batch of the subscription; newEventDispatcher refuses it
                \* without a read-ahead
    lastSeq,    \* the newest event in the database
    offset,     \* the offset row of the subscription, NoOffset before the first start
    conn,       \* per connection: where its dispatcher is
    flight,     \* per connection: the value of an UpdateOffset that is under way
    polling,    \* eventPoller.pollingOffset of the leader
    tap,        \* the offsetCommitted channel (capacity 1) holds an item
    pc,         \* where the leader's poller goroutine is
    highest,    \* highestOffset of the page being delivered
    matching,   \* events of the page still to be made dispatchable
    toSend,     \* dispatchable events not yet marked in flight
    sending,    \* marked in flight, about to be sent on eventDelivery
    nacked,     \* the page has seen a nack (nacks > 0)
    lastAck,
    inflight,
    delivery,   \* the eventDelivery channel
    toNack,     \* events the deliverer has still to reject after an error
    dlvDone,    \* the deliverer has returned on its cancelled context
    pending,    \* acks and nacks blocked on the acksNacks channel
    client,     \* per event: deliveries the application has not answered
    start,      \* history: the offset the subscription began from
    delivered,  \* history: events the transport has accepted
    rejected,   \* history: events whose delivery failed
    acked,      \* history: events the application has acknowledged
    fails, closes, crashes

pageVars == <<highest, matching, nacked, lastAck>>
loopVars == <<pc, pageVars, toSend, sending, inflight>>
dlvVars  == <<delivery, toNack, dlvDone, pending, client>>
boundVars == <<fails, closes, crashes>>
histVars == <<batch, start, delivered, rejected, acked, boundVars>>
offsetVars == <<offset, flight, polling, tap>>
vars == <<lastSeq, offsetVars, conn, loopVars, dlvVars, histVars>>

NoOffset == -1
NoWrite == -1
Deliverer == "deliverer"

IsLeast(x, S) == x \in S /\ \A y \in S : x <= y

\* pollerConf.eventBatchSize
PageSize == IF batch \/ BufferLength < ReadAhead THEN ReadAhead ELSE BufferLength

Leading == {c \in Conns : conn[c] \in {"leader", "closing"}}
Closing == \E c \in Conns : conn[c] = "closing"

Seqno == Nat \ {0}

TypeOK ==
    /\ lastSeq \in Nat
    /\ offset \in Nat \cup {NoOffset}
    /\ conn \in [Conns -> {"off", "waiting", "leader", "closing"}]
    /\ flight \in [Conns -> Nat \cup {NoWrite}]
    /\ polling \in Nat /\ highest \in Nat /\ lastAck \in Nat /\ start \in Nat
    /\ tap \in BOOLEAN /\ nacked \in BOOLEAN /\ dlvDone \in BOOLEAN
    /\ pc \in {"off", "poll", "idle", "fill", "send", "select"}
    /\ matching \subseteq Seqno /\ toSend \subseteq Seqno /\ sending \subseteq Seqno
    /\ inflight \subseteq Seqno /\ toNack \subseteq Seqno
    /\ batch \in BOOLEAN /\ delivered \subseteq Seqno /\ rejected \subseteq Seqno
    /\ acked \subseteq Seqno
    /\ delivery \in Seq(SUBSET Seqno)
    /\ pending \subseteq [by : Responders \cup {Deliverer}, id : Seqno, kind : {"ack", "nack"}]
    /\ client \in [1..MaxSeq -> Nat]
    /\ fails \in Nat /\ closes \in Nat /\ crashes \in Nat

Init ==
    /\ batch \in {b \in BOOLEAN : b => ReadAhead > 0}
    /\ lastSeq = 0 /\ offset = NoOffset
    /\ conn = [c \in Conns |-> "off"]
    /\ flight = [c \in Conns |-> NoWrite]
    /\ polling = 0 /\ tap = FALSE
    /\ pc = "off" /\ highest = 0
    /\ matching = {} /\ toSend = {} /\ sending = {} /\ inflight = {}
    /\ nacked = FALSE /\ lastAck = 0
    /\ delivery = <<>> /\ toNack = {} /\ dlvDone = FALSE /\ pending = {}
    /\ client = [e \in 1..MaxSeq |-> 0]
    /\ start = 0 /\ delivered = {} /\ rejected = {} /\ acked = {}
    /\ fails = 0 /\ closes = 0 /\ crashes = 0

-----------------------------------------------------------------------------
(* The environment: the rest of the node writes events.                     *)

NewEvent ==
    /\ lastSeq < MaxSeq
    /\ lastSeq' = lastSeq + 1
    /\ UNCHANGED <<offsetVars, conn, loopVars, dlvVars, histVars>>

-----------------------------------------------------------------------------
(* Connections and the election of the leader.                              *)

Connect(c) ==
    /\ conn[c] = "off" /\ flight[c] = NoWrite
    /\ conn' = [conn EXCEPT ![c] = "waiting"]
    /\ UNCHANGED <<lastSeq, offsetVars, loopVars, dlvVars, histVars>>

\* Mutants: a missing offset row is not noticed; every start is at the newest event
RestoreNoRow == offset
RestoreNewest == lastSeq

\* restoreOffset: the row, which the first start of the subscription writes
RestoreOffset == IF offset # NoOffset THEN offset ELSE IF Newest THEN lastSeq ELSE 0

\* electAndStart, and start of the eventPoller
ElectAndStart(c) ==
    /\ conn[c] = "waiting" /\ Leading = {}
    /\ conn' = [conn EXCEPT ![c] = "leader"]
    /\ pc' = "poll"
    /\ offset' = RestoreOffset /\ polling' = RestoreOffset
    /\ start' = IF offset = NoOffset THEN RestoreOffset ELSE start
    /\ UNCHANGED <<lastSeq, flight, tap, pageVars, toSend, sending, inflight, dlvVars,
                   batch, delivered, rejected, acked, boundVars>>

\* close(): cancel the dispatcher's context
Close(c) ==
    /\ closes < MaxCloses
    /\ conn[c] \in {"waiting", "leader"}
    /\ conn' = [conn EXCEPT ![c] = IF @ = "leader" THEN "closing" ELSE "off"]
    /\ closes' = closes + 1
    /\ UNCHANGED <<lastSeq, offsetVars, loopVars, dlvVars, batch, start, delivered, rejected,
                   acked, fails, crashes>>

\* Everything the leader's goroutines hold in memory goes away
Forget ==
    /\ pc' = "off" /\ highest' = 0 /\ nacked' = FALSE /\ lastAck' = 0
    /\ matching' = {} /\ toSend' = {} /\ sending' = {} /\ inflight' = {}
    /\ tap' = FALSE /\ delivery' = <<>> /\ toNack' = {} /\ dlvDone' = FALSE
    /\ pending' = {} /\ client' = [e \in 1..MaxSeq |-> 0]

\* Mutant: the wait for an ack does not watch the context
WatchesNotSelect == {"poll", "idle"}

\* Where the poller goroutine notices that its context is cancelled
WatchesContext == {"poll", "idle", "select"}

\* The poller returns; electAndStart unelects.  A tap in offsetCommitted is lost:
\* UpdateOffset fails on the cancelled context
PollerExit(c) ==
    /\ conn[c] = "closing" /\ pc \in WatchesContext
    /\ conn' = [conn EXCEPT ![c] = "off"]
    /\ Forget
    /\ UNCHANGED <<lastSeq, offset, flight, polling, histVars>>

\* The node stops and starts again: only the database is left
Crash ==
    /\ crashes < MaxCrashes /\ Leading # {}
    /\ crashes' = crashes + 1
    /\ conn' = [c \in Conns |-> "off"]
    /\ flight' = [c \in Conns |-> NoWrite]
    /\ Forget
    /\ UNCHANGED <<lastSeq, offset, polling, batch, start, delivered, rejected, acked, fails,
                   closes>>

-----------------------------------------------------------------------------
(* The eventPoller goroutine: eventLoop, and bufferedDelivery as its handler. *)

CommitOffset(n) ==
    /\ polling' = n
    /\ tap' = TRUE

ReadPage ==
    /\ pc = "poll" /\ ~Closing
    /\ LET to == IF lastSeq < polling + PageSize THEN lastSeq ELSE polling + PageSize
           page == (polling + 1)..to
       IN  IF page = {}
           THEN pc' = "idle" /\ UNCHANGED pageVars
           ELSE /\ pc' = "fill"
                /\ highest' = to
                /\ matching' = page \cap Matches
                /\ nacked' = FALSE /\ lastAck' = 0
    /\ UNCHANGED <<lastSeq, offsetVars, conn, toSend, sending, inflight, dlvVars, histVars>>

\* waitForShoulderTapOrPollTimeout: woken by the notifier or by the timeout
Wake ==
    /\ pc = "idle" /\ pc' = "poll"
    /\ UNCHANGED <<lastSeq, offsetVars, conn, pageVars, toSend, sending, inflight, dlvVars,
                   histVars>>

\* Mutant: the room for dispatch does not count what is already in flight
RoomIgnoringInflight == 1 + ReadAhead

MaxDispatch == 1 + ReadAhead - Cardinality(inflight)

OldestFirst(D, rest) == \A d \in D, m \in rest : d < m

\* The head of bufferedDelivery's loop: as many of the queued events as the
\* read-ahead leaves room for
Fill ==
    /\ pc = "fill" /\ pc' = "send"
    /\ \E D \in SUBSET matching :
          /\ IF MaxDispatch >= Cardinality(matching)
             THEN D = matching
             ELSE Cardinality(D) = IF MaxDispatch > 0 THEN MaxDispatch ELSE 0
          /\ OldestFirst(D, matching \ D)
          /\ toSend' = D
          /\ matching' = matching \ D
    /\ UNCHANGED <<lastSeq, offsetVars, conn, highest, nacked, lastAck, sending, inflight,
                   dlvVars, histVars>>

\* An event is in flight before the send on eventDelivery that may block
MarkInflight ==
    /\ pc = "send" /\ (batch \/ sending = {})
    /\ \E e \in toSend : /\ IsLeast(e, toSend)
                        /\ inflight' = inflight \cup {e}
                        /\ sending' = sending \cup {e}
                        /\ toSend' = toSend \ {e}
    /\ UNCHANGED <<lastSeq, offsetVars, conn, pc, pageVars, dlvVars, histVars>>

Push ==
    /\ pc = "send" /\ sending # {} /\ (batch => toSend = {})
    /\ Len(delivery) < ReadAhead + 1
    /\ delivery' = Append(delivery, sending)
    /\ sending' = {}
    /\ UNCHANGED <<lastSeq, offsetVars, conn, pc, pageVars, toSend, inflight, toNack, dlvDone,
                   pending, client, histVars>>

\* Nothing left to send: block on acksNacks, or leave the page when nothing is
\* in flight, committing its highest offset if no event of it was rejected
Drained ==
    /\ pc = "send" /\ toSend = {} /\ sending = {}
    /\ pc' = IF inflight = {} THEN "poll" ELSE "select"
    /\ IF inflight = {} /\ ~nacked /\ lastAck # highest
       THEN CommitOffset(highest)
       ELSE UNCHANGED <<polling, tap>>
    /\ UNCHANGED <<lastSeq, offset, flight, conn, pageVars, toSend, sending, inflight, dlvVars,
                   histVars>>

\* Mutant: a nack leaves the in-flight map as it is
NackKeepsInflight == inflight

NackClearsInflight == {}

HandleNackOffsetUpdate(id) ==
    /\ polling' = IF polling > id THEN id - 1 ELSE polling
    /\ inflight' = NackClearsInflight
    /\ nacked' = TRUE
    /\ UNCHANGED <<tap, lastAck>>

\* Mutants: a lower event in flight is not looked for; the ack stays in flight
AnyInflight(id) == TRUE
AckStaysInflight(id) == inflight

WasLowestInflight(id) == \A i \in inflight \ {id} : i > id

WithoutAcked(id) == inflight \ {id}

HandleAckOffsetUpdate(id) ==
    /\ inflight' = WithoutAcked(id)
    /\ lastAck' = id
    /\ IF id > polling /\ WasLowestInflight(id)
       THEN CommitOffset(id)
       ELSE UNCHANGED <<polling, tap>>
    /\ UNCHANGED nacked

\* The rendezvous with a responder; an ack after a nack is dropped as it is
Receive(an) ==
    /\ pc = "select" /\ an \in pending /\ pc' = "fill"
    /\ pending' = pending \ {an}
    /\ \/ an.kind = "nack" /\ HandleNackOffsetUpdate(an.id)
       \/ an.kind = "ack" /\ ~nacked /\ HandleAckOffsetUpdate(an.id)
       \/ an.kind = "ack" /\ nacked /\ UNCHANGED <<polling, tap, inflight, nacked, lastAck>>
    /\ UNCHANGED <<lastSeq, offset, flight, conn, highest, matching, toSend, sending, delivery,
                   toNack, dlvDone, client, histVars>>

-----------------------------------------------------------------------------
(* offsetCommitLoop: read the polling offset, then update the row.  The      *)
(* update of a closed dispatcher may land late, or fail.                     *)

CommitRead(c) ==
    /\ conn[c] = "leader" /\ tap /\ flight[c] = NoWrite
    /\ tap' = FALSE
    /\ flight' = [flight EXCEPT ![c] = polling]
    /\ UNCHANGED <<lastSeq, offset, conn, polling, loopVars, dlvVars, histVars>>

CommitWrite(c) ==
    /\ flight[c] # NoWrite
    /\ \/ offset' = flight[c]
       \/ conn[c] # "leader" /\ UNCHANGED offset
    /\ flight' = [flight EXCEPT ![c] = NoWrite]
    /\ UNCHANGED <<lastSeq, conn, polling, tap, loopVars, dlvVars, histVars>>

-----------------------------------------------------------------------------
(* The deliverer goroutine and the application.                             *)

DelivererIdle == \A an \in pending : an.by # Deliverer

\* deliverEvents takes the next event (or batch) from the channel
TakeNext ==
    /\ pc # "off" /\ ~dlvDone /\ toNack = {} /\ DelivererIdle
    /\ delivery # <<>> /\ delivery' = Tail(delivery)
    /\ UNCHANGED <<lastSeq, offsetVars, conn, loopVars, dlvDone, pending, batch, start, acked,
                   closes, crashes>>

\* ... and the transport accepts it
Deliver ==
    /\ TakeNext
    /\ client' = [e \in 1..MaxSeq |-> client[e] + (IF e \in Head(delivery) THEN 1 ELSE 0)]
    /\ delivered' = delivered \cup Head(delivery)
    /\ UNCHANGED <<toNack, rejected, fails>>

\* ... or the lookup of its data, or the transport, returns an error
DeliverFail ==
    /\ fails < MaxFails
    /\ TakeNext
    /\ fails' = fails + 1
    /\ toNack' = Head(delivery)
    /\ rejected' = rejected \cup Head(delivery)
    /\ UNCHANGED <<client, delivered>>

\* deliveryResponse up to its send on acksNacks: a response for an event that is
\* not in flight is dropped
DeliveryResponse(by, id, kind) ==
    pending' = IF id \in inflight
               THEN pending \cup {[by |-> by, id |-> id, kind |-> kind]}
               ELSE pending

DelivererNack ==
    /\ DelivererIdle
    /\ \E e \in toNack : /\ IsLeast(e, toNack)
                        /\ toNack' = toNack \ {e}
                        /\ DeliveryResponse(Deliverer, e, "nack")
    /\ UNCHANGED <<lastSeq, offsetVars, conn, loopVars, delivery, dlvDone, client, histVars>>

\* The application acknowledges a delivery, once
Ack(r, e) ==
    /\ client[e] > 0 /\ \A an \in pending : an.by # r
    /\ client' = [client EXCEPT ![e] = @ - 1]
    /\ acked' = acked \cup {e}
    /\ DeliveryResponse(r, e, "ack")
    /\ UNCHANGED <<lastSeq, offsetVars, conn, loopVars, delivery, toNack, dlvDone, batch,
                   start, delivered, rejected, boundVars>>

\* Once the context is cancelled the deliverer may return from its select, and a
\* blocked response is given up
DelivererExit ==
    /\ Closing /\ ~dlvDone /\ toNack = {} /\ DelivererIdle
    /\ dlvDone' = TRUE
    /\ UNCHANGED <<lastSeq, offsetVars, conn, loopVars, delivery, toNack, pending, client,
                   histVars>>

GiveUp(an) ==
    /\ Closing /\ an \in pending
    /\ pending' = pending \ {an}
    /\ UNCHANGED <<lastSeq, offsetVars, conn, loopVars, delivery, toNack, dlvDone, client,
                   histVars>>

-----------------------------------------------------------------------------
Next ==
    \/ NewEvent
    \/ \E c \in Conns : \/ Connect(c) \/ ElectAndStart(c) \/ Close(c) \/ PollerExit(c)
                        \/ CommitRead(c) \/ CommitWrite(c)
    \/ Crash
    \/ ReadPage \/ Wake \/ Fill \/ MarkInflight \/ Push \/ Drained
    \/ \E an \in pending : Receive(an) \/ GiveUp(an)
    \/ Deliver \/ DeliverFail \/ DelivererNack \/ DelivererExit
    \/ \E r \in Responders, e \in 1..MaxSeq : Ack(r, e)

Spec == Init /\ [][Next]_vars

PollerStep == \/ ReadPage \/ Wake \/ Fill \/ MarkInflight \/ Push \/ Drained
              \/ \E an \in pending : Receive(an)

(***************************************************************************)
(* Every goroutine that can run does run; the application answers what it  *)
(* has been given and reconnects when it is off.  Nothing obliges the rest *)
(* of the node to write events, a connection to close, or a call to fail.  *)
(***************************************************************************)
Fairness ==
    /\ WF_vars(PollerStep)
    /\ WF_vars(Deliver \/ DeliverFail) /\ WF_vars(DelivererNack) /\ WF_vars(DelivererExit)
    /\ WF_vars(\E an \in pending : GiveUp(an))
    /\ WF_vars(\E r \in Responders, e \in 1..MaxSeq : Ack(r, e))
    /\ \A c \in Conns : /\ WF_vars(Connect(c)) /\ WF_vars(ElectAndStart(c))
                        /\ WF_vars(PollerExit(c))
                        /\ WF_vars(CommitRead(c)) /\ WF_vars(CommitWrite(c))

FairSpec == Spec /\ Fairness

-----------------------------------------------------------------------------
(* Every event the filter selects, up to n, has been acknowledged.           *)
Covered(n) == \A e \in Matches : start < e /\ e <= n => e \in acked

(***************************************************************************)
(* What the inductive invariant adds.  While a page is delivered and no    *)
(* nack has been seen, every matching event above the offset is queued, in *)
(* flight or acknowledged; what is queued is above what is in flight.      *)
(***************************************************************************)
InPage == pc \in {"fill", "send", "select"}

PageAccounted ==
    InPage /\ ~nacked =>
        \A e \in Matches : polling < e /\ e <= highest =>
            e \in matching \cup toSend \cup inflight \cup acked

QueueOrdered ==
    InPage => /\ \A x \in matching \cup toSend \cup inflight : x <= highest
              /\ \A i \in inflight, m \in matching \cup toSend : i < m
              /\ \A t \in toSend, m \in matching : t < m

LoopState ==
    /\ ~InPage => toSend = {} /\ inflight = {}
    /\ pc = "fill" => toSend = {}
    /\ pc = "select" => toSend = {} /\ inflight # {}
    /\ pc = "send" /\ toSend = {} /\ inflight = {} => matching = {}

LeaderRuns == pc # "off" => Leading # {}

AcksHonest == \A an \in pending : an.kind = "ack" => an.id \in acked

(***************************************************************************)
(* At-least-once delivery: neither the polling offset, nor the offset row, *)
(* nor a write of it under way (even one of a closed dispatcher) is past   *)
(* a matching event that the application has not acknowledged, however     *)
(* acks, nacks, redeliveries, closes and crashes interleave.               *)
(***************************************************************************)
OffsetCovered ==
    /\ Covered(polling)
    /\ Covered(offset)
    /\ \A c \in Conns : Covered(flight[c])

IndInv ==
    /\ TypeOK /\ OffsetCovered
    /\ PageAccounted /\ QueueOrdered /\ LoopState /\ LeaderRuns /\ AcksHonest
    /\ offset = NoOffset => start = 0

(***************************************************************************)
(* An event reaches the application for the first time only after every   *)
(* earlier matching event has, or has been rejected: page boundaries, the  *)
(* read-ahead, rejections, redeliveries, closes and crashes do not reorder *)
(* first deliveries, and of what was never rejected nothing is passed over *)
(* (the rest of a page is dispatched even after a nack).                   *)
(***************************************************************************)
FirstDeliveryInOrder ==
    \A e \in delivered : \A f \in Matches :
        start < f /\ f < e => f \in delivered \cup rejected

(***************************************************************************)
(* The read-ahead bounds the events in flight, whatever out-of-order acks  *)
(* slid the window; and, while no delivery has failed, an application      *)
(* holds nothing else, and each event once.  (A nack empties the in-flight *)
(* map while the application may still hold what it was given.)            *)
(***************************************************************************)
ReadAheadRespected ==
    /\ Cardinality(inflight) <= 1 + ReadAhead
    /\ rejected = {} =>
           \A e \in 1..MaxSeq : client[e] > 0 => e \in inflight /\ client[e] = 1

(***************************************************************************)
(* Every event that matches the subscription is eventually acknowledged,   *)
(* unless events are delivered one by one and a delivery has failed: the   *)
(* poller may then wait for ever on an acknowledgement it has dropped.     *)
(***************************************************************************)
EventuallyAcked ==
    \A e \in 1..MaxSeq :
        (e \in Matches /\ e <= lastSeq /\ offset # NoOffset /\ start < e) ~>
            (e \in acked \/ (~batch /\ rejected # {}))

(***************************************************************************)
(* "If we're rejected, we need to redeliver all messages from this offset  *)
(* onwards": an event whose delivery failed is given to the application    *)
(* again.  Batches keep the promise; for single deliveries it is broken    *)
(* (RejectedRedelivered), by an ack that follows the nack within a page.   *)
(***************************************************************************)
BatchRedelivered == \A e \in 1..MaxSeq : (batch /\ e \in toNack) ~> (client[e] > 0)

RejectedRedelivered == \A e \in 1..MaxSeq : (e \in toNack) ~> (client[e] > 0)

(***************************************************************************)
(* A connection that is told to close gives up the leadership, whether the *)
(* deliverer is at work or has returned, unless the poller is stuck on a   *)
(* full channel that the returned deliverer will never empty.  That takes  *)
(* a failed delivery: the nack empties the in-flight map while what was    *)
(* dispatched before it is still in the channel.                           *)
(***************************************************************************)
Jammed ==
    /\ pc = "send" /\ sending # {} /\ Len(delivery) = ReadAhead + 1
    /\ dlvDone /\ rejected # {}

CloseCompletes == \A c \in Conns : (conn[c] = "closing") ~> (conn[c] # "closing" \/ Jammed)
=============================================================================
