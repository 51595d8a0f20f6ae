------------------------------ MODULE WebSocket ------------------------------
(***************************************************************************)
(* A websocket connection that carries deliveries of several dispatchers   *)
(* and takes acknowledgements from the application                         *)
(* (events/websockets/websocket_connection.go).  A delivery is             *)
(* <<event, subscription>>; a batch is a sequence of deliveries.           *)
(***************************************************************************)
EXTENDS Integers, Sequences, FiniteSets

CONSTANTS
    SubT,       \* subscriptions the application starts on the connection
    EventsT,    \* EventsT[s]: the events of subscription s, in order
    BatchedT,   \* subscriptions delivered in batches
    AutoAckT,   \* values of autoack in a start
    AckFormsT   \* how the application acknowledges: "full", "id", "none"

(* A dispatcher has an event in flight once (event_dispatcher.go).        *)
ASSUME SocketAssumption ==
    /\ IsFiniteSet(SubT) /\ AutoAckT \subseteq BOOLEAN /\ AckFormsT \subseteq {"full", "id", "none"}
    /\ \A s \in SubT : /\ EventsT[s] \in Seq({EventsT[s][i] : i \in DOMAIN EventsT[s]})
                        /\ \A i, j \in DOMAIN EventsT[s] : EventsT[s][i] = EventsT[s][j] => i = j

VARIABLES
    startedT, autoT, openT, \* wc.started, wc.autoAck, ~wc.closed
    nextT,      \* nextT[s]: the deliveries handed to the connection so far
    inflightT,  \* wc.inflight
    batchesT,   \* wc.inflightBatches
    sendT,      \* what a dispatcher is about to write: <<s, deliveries>>
    clientT,    \* what the application has received and not acknowledged
    ackedT,     \* deliveries acknowledged to their dispatchers
    meantT,     \* (history) deliveries the application acknowledged
    unnamedT    \* (history) an acknowledgement named no event
varsT == <<startedT, autoT, openT, nextT, inflightT, batchesT, sendT, clientT, ackedT, meantT, unnamedT>>

InitT ==
    /\ startedT = {} /\ autoT = FALSE /\ openT = TRUE /\ nextT = [s \in SubT |-> 0]
    /\ inflightT = <<>> /\ batchesT = {} /\ sendT = {} /\ clientT = <<>>
    /\ ackedT = {} /\ meantT = {} /\ unnamedT = FALSE

(* handleStart: autoack cannot change once a subscription is started.     *)
(* A refused start ends the connection, as any protocol error does.       *)
handleStartT(s, auto) ==
    /\ openT /\ s \notin startedT
    /\ IF startedT # {} /\ auto # autoT THEN openT' = FALSE /\ UNCHANGED <<startedT, autoT>>
       ELSE startedT' = startedT \cup {s} /\ autoT' = auto /\ UNCHANGED openT
    /\ UNCHANGED <<nextT, inflightT, batchesT, sendT, clientT, ackedT, meantT, unnamedT>>

(* dispatch and dispatchBatch: noted as in flight under the lock, then    *)
(* handed to the send loop, which serves the dispatchers in any order.    *)
Deliveries(s) == IF s \in BatchedT THEN [i \in DOMAIN EventsT[s] |-> <<EventsT[s][i], s>>]
                 ELSE <<<<EventsT[s][nextT[s] + 1], s>>>>
dispatch(s) ==
    /\ openT /\ s \in startedT /\ nextT[s] < Len(EventsT[s])
    /\ ~\E d \in sendT : d[1] = s
    /\ nextT' = [nextT EXCEPT ![s] = @ + Len(Deliveries(s))]
    /\ sendT' = sendT \cup {<<s, Deliveries(s)>>}
    /\ inflightT' = IF autoT \/ s \in BatchedT THEN inflightT ELSE inflightT \o Deliveries(s)
    /\ batchesT' = IF autoT \/ s \notin BatchedT THEN batchesT ELSE batchesT \cup {Deliveries(s)}
    /\ UNCHANGED <<startedT, autoT, openT, clientT, ackedT, meantT, unnamedT>>
InSeq(seq) == {seq[i] : i \in DOMAIN seq}
ackBatch(batch) == ackedT \cup InSeq(batch)
sendLoop(d) ==
    /\ openT
    /\ sendT' = sendT \ {d}
    /\ clientT' = IF autoT THEN clientT ELSE Append(clientT, d[2])
    /\ ackedT' = IF autoT THEN ackBatch(d[2]) ELSE ackedT
    /\ meantT' = IF autoT THEN meantT \cup InSeq(d[2]) ELSE meantT
    /\ UNCHANGED <<startedT, autoT, openT, nextT, inflightT, batchesT, unnamedT>>

(* checkAck, the place in flight: with an event ID, what matches it and   *)
(* the subscription if one is given, which only a sole subscription may   *)
(* leave out; without an ID, the first.                                   *)
checkAck(d, form) ==
    {k \in DOMAIN inflightT :
       \/ form = "full" /\ inflightT[k] = d
       \/ form = "id" /\ inflightT[k][1] = d[1] /\ Cardinality(startedT) = 1
       \/ form = "none" /\ k = 1}
Without(seq, k) == SubSeq(seq, 1, k - 1) \o SubSeq(seq, k + 1, Len(seq))
(* handleAck: first as the ID of a batch, then of an event.               *)
handleAck(i, form) ==
    LET batch == clientT[i]
        hits == checkAck(batch[1], form)
    IN /\ openT /\ ~autoT /\ (form = "none" => i = 1)
       /\ clientT' = Without(clientT, i)
       /\ meantT' = meantT \cup InSeq(batch)
       /\ unnamedT' = (unnamedT \/ form = "none")
       /\ IF batch \in batchesT /\ form # "none"
          THEN ackedT' = ackBatch(batch) /\ batchesT' = batchesT \ {batch} /\ UNCHANGED <<inflightT, openT>>
          ELSE IF hits # {}
          THEN /\ \E k \in hits : ackedT' = ackedT \cup {inflightT[k]} /\ inflightT' = Without(inflightT, k)
               /\ UNCHANGED <<batchesT, openT>>
          ELSE openT' = FALSE /\ UNCHANGED <<ackedT, inflightT, batchesT>>
       /\ UNCHANGED <<startedT, autoT, nextT, sendT>>
closeT ==
    /\ openT /\ openT' = FALSE
    /\ UNCHANGED <<startedT, autoT, nextT, inflightT, batchesT, sendT, clientT, ackedT, meantT, unnamedT>>
NextT == \/ \E s \in SubT : dispatch(s) \/ \E auto \in AutoAckT : handleStartT(s, auto)
         \/ \E d \in sendT : sendLoop(d)
         \/ \E i \in DOMAIN clientT, form \in AckFormsT : handleAck(i, form)
         \/ closeT
SpecT == InitT /\ [][NextT]_varsT
-----------------------------------------------------------------------------
(* A dispatcher is told of an acknowledgement only for a delivery that    *)
(* the application acknowledged: also when one event was delivered for    *)
(* two subscriptions.  Except an acknowledgement without an event, on a   *)
(* connection with several subscriptions, which takes the oldest in       *)
(* flight while the send loop may have sent another one first.            *)
AcksMeant == ~(unnamedT /\ Cardinality(startedT) > 1) => ackedT \subseteq meantT

(* No delivery is forgotten: what the connection was given is being sent, *)
(* with the application, or acknowledged, as long as it is open.          *)
NothingDropped ==
    openT /\ ~unnamedT => \A s \in SubT : \A i \in 1..nextT[s] :
        LET d == <<EventsT[s][i], s>>
        IN \/ d \in ackedT
           \/ \E x \in sendT : d \in InSeq(x[2])
           \/ \E j \in DOMAIN clientT : d \in InSeq(clientT[j])
=============================================================================
