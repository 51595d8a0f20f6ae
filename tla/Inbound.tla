------------------------------ MODULE Inbound ------------------------------
(***************************************************************************)
(* What reaches a node from other members: events of the data exchange     *)
(* service over a websocket (dataexchange/ffdx) and batches read from      *)
(* shared storage, down to the database (events/dx_callbacks.go,           *)
(* ss_callbacks.go, persist_batch.go, blob_receiver.go).  The service      *)
(* keeps an event until it is acknowledged and sends it again after a      *)
(* reconnect, so that two handlers of one event may run at a time.         *)
(* A database transaction is one step.                                     *)
(***************************************************************************)
EXTENDS Integers, Sequences, FiniteSets

CONSTANTS
    EventIN,     \* EventIN[e]: [kind, item, fault]; kind pinned, unpinned, shared, blob or status
    SentIN,      \* the sets of events that come together
    MsgsIN,      \* MsgsIN[b]: the messages of batch b, a sequence
    OwnIN,       \* batches this node sent
    Peers,       \* nodes that become known
    WorkerIN,    \* blob receiver workers
    MaxBlobs,    \* blob.receiver.worker.batchMaxInserts
    MaxFaultsIN  \* bound: failed transactions, lost connections, crashes

EvIN == DOMAIN EventIN
Kind(e) == EventIN[e].kind
Fault(e) == EventIN[e].fault
Item(e) == EventIN[e].item
Msgs(b) == {MsgsIN[b][i] : i \in DOMAIN MsgsIN[b]}
AllMsgs == UNION {Msgs(b) : b \in DOMAIN MsgsIN}
NoEvent == 0

(* Batches and blobs have IDs of their own; a fault is one that the kind  *)
(* of event can have: a batch from shared storage has been parsed by the  *)
(* worker that read it.                                                   *)
BatchFaults == {"none", "namespace", "group", "author", "hash", "content", "clash"}
ASSUME InboundAssumption ==
    /\ NoEvent \notin EvIN
    /\ \A e \in EvIN :
          /\ Kind(e) \in {"pinned", "unpinned", "shared", "blob", "status"}
          /\ Kind(e) \in {"pinned", "unpinned", "shared"} =>
                Item(e) \in DOMAIN MsgsIN /\ Fault(e) \in BatchFaults \cup {"parse"}
          /\ Kind(e) = "shared" => Fault(e) # "parse"
          /\ Kind(e) = "blob" => Item(e) \notin DOMAIN MsgsIN

VARIABLES
    wireIN,    \* wireIN[e]: "never", "sent", "out" to a handler of this connection, "acked"
    toldIN,    \* toldIN[e]: "manifest" or "none", what came with the acknowledgement
    loopIN,    \* the blob event on which the event loop waits, or NoEvent
    runIN,     \* <<e, phase, manifest, n>> of each handler of a batch, n tells them apart
    collectIN, \* collectIN[w]: events whose blobs worker w has collected
    savedIN,   \* savedIN[w]: "no", "stored" or "told"
    batchesIN, msgsIN, dataIN, blobsIN, groupsIN, confirmedIN,  \* tables
    rewindsIN, \* rewinds the aggregator was asked for
    nodesIN,   \* FFDX.nodes
    peersIN,   \* peers the service knows
    initIN,    \* FFDX.initialized
    linkIN,    \* the websocket is connected
    needsInitIN, \* initEnabled, a choice of the configuration
    refusedIN, \* history: nodes whose request failed since the service was last given the list
    faultsIN
tablesIN == <<batchesIN, msgsIN, dataIN, blobsIN, groupsIN, confirmedIN>>
dxIN == <<nodesIN, peersIN, initIN, linkIN, needsInitIN, refusedIN>>
workIN == <<loopIN, collectIN, savedIN>>
varsIN == <<wireIN, toldIN, runIN, workIN, tablesIN, rewindsIN, dxIN, faultsIN>>

InitIN ==
    /\ \E sent \in SentIN : wireIN = [e \in EvIN |-> IF e \in sent THEN "sent" ELSE "never"]
    /\ toldIN = [e \in EvIN |-> "none"]
    /\ loopIN = NoEvent /\ runIN = {} /\ collectIN = [w \in WorkerIN |-> {}] /\ savedIN = [w \in WorkerIN |-> "no"]
    /\ batchesIN = OwnIN /\ dataIN = OwnIN /\ blobsIN = {} /\ groupsIN = {}
    /\ msgsIN = [m \in AllMsgs |-> IF \E b \in OwnIN : m \in Msgs(b) THEN "sent" ELSE "none"]
    /\ confirmedIN = [m \in AllMsgs |-> 0]
    /\ rewindsIN = {} /\ nodesIN = {} /\ peersIN = {} /\ initIN = FALSE /\ linkIN = FALSE /\ faultsIN = 0
    /\ needsInitIN \in BOOLEAN /\ refusedIN = {}
Faulty == faultsIN < MaxFaultsIN /\ faultsIN' = faultsIN + 1
-----------------------------------------------------------------------------
(* With initEnabled, beforeConnect gives the service every node known so  *)
(* far, under the lock that AddNode takes, and a request that fails leaves *)
(* the connection down; without it nothing is sent.  The service then     *)
(* sends what is not acknowledged.                                        *)
beforeConnect ==
    /\ ~linkIN
    /\ \/ /\ linkIN' = TRUE /\ initIN' = TRUE /\ UNCHANGED faultsIN
          /\ peersIN' = IF needsInitIN THEN peersIN \cup nodesIN ELSE peersIN
          /\ refusedIN' = IF needsInitIN THEN {} ELSE refusedIN
       \/ needsInitIN /\ Faulty /\ initIN' = FALSE /\ UNCHANGED <<peersIN, linkIN, refusedIN>>
    /\ UNCHANGED <<wireIN, toldIN, runIN, workIN, tablesIN, rewindsIN, nodesIN, needsInitIN>>
(* A node is remembered before the service is told.  When the request     *)
(* fails, the definition that announces the node is handled again.        *)
AddNode(n) ==
    /\ n \notin nodesIN \/ (initIN /\ n \notin peersIN)
    /\ nodesIN' = nodesIN \cup {n}
    /\ \/ /\ peersIN' = (IF initIN THEN peersIN \cup {n} ELSE peersIN)
          /\ UNCHANGED <<faultsIN, refusedIN>>
       \/ initIN /\ Faulty /\ refusedIN' = refusedIN \cup {n} /\ UNCHANGED peersIN
    /\ UNCHANGED <<wireIN, toldIN, runIN, workIN, tablesIN, rewindsIN, initIN, linkIN, needsInitIN>>
(* The service restarts without its peers; initialized stays as it is.    *)
serviceRestarts ==
    /\ linkIN /\ Faulty
    /\ linkIN' = FALSE /\ peersIN' = {}
    /\ wireIN' = [e \in EvIN |-> IF wireIN[e] = "out" THEN "sent" ELSE wireIN[e]]
    /\ UNCHANGED <<toldIN, runIN, workIN, tablesIN, rewindsIN, nodesIN, initIN, needsInitIN, refusedIN>>
crashIN ==
    /\ Faulty
    /\ wireIN' = [e \in EvIN |-> IF wireIN[e] = "out" THEN "sent" ELSE wireIN[e]]
    /\ loopIN' = NoEvent /\ runIN' = {} /\ rewindsIN' = {}
    /\ collectIN' = [w \in WorkerIN |-> {}] /\ savedIN' = [w \in WorkerIN |-> "no"]
    /\ nodesIN' = {} /\ initIN' = FALSE /\ linkIN' = FALSE /\ refusedIN' = {}
    /\ UNCHANGED <<toldIN, tablesIN, peersIN, needsInitIN>>
-----------------------------------------------------------------------------
Handler(e, phase, manifest) == <<e, phase, manifest, faultsIN>>
Becomes(h, phase, manifest) == runIN' = (runIN \ {h}) \cup {<<h[1], phase, manifest, h[4]>>}
(* dispatchEvent: what does not parse is acknowledged and dropped; an     *)
(* update of an operation is acknowledged by the operation updater.  A    *)
(* batch gets a goroutine of its own; a blob holds the event loop.        *)
Dropped(e) == Fault(e) = "parse" \/ Kind(e) = "status" \/ (Kind(e) = "blob" /\ Fault(e) = "peer")
dispatchEvent(e) ==
    /\ linkIN /\ loopIN = NoEvent /\ wireIN[e] = "sent" /\ Kind(e) # "shared"
    /\ wireIN' = [wireIN EXCEPT ![e] = "out"]
    /\ runIN' = runIN \cup (CASE Dropped(e) -> {Handler(e, "ack", "none")}
                              [] ~Dropped(e) /\ Kind(e) # "blob" -> {Handler(e, "persist", "none")}
                              [] OTHER -> {})
    /\ loopIN' = IF Kind(e) = "blob" /\ Fault(e) = "none" THEN e ELSE NoEvent
    /\ UNCHANGED <<toldIN, collectIN, savedIN, tablesIN, rewindsIN, dxIN, faultsIN>>
(* A download worker brings a batch from shared storage.                  *)
SharedStorageBatchDownloaded(e) ==
    /\ Kind(e) = "shared" /\ wireIN[e] = "sent"
    /\ wireIN' = [wireIN EXCEPT ![e] = "out"]
    /\ runIN' = runIN \cup {Handler(e, "persist", "none")}
    /\ UNCHANGED <<toldIN, workIN, tablesIN, rewindsIN, dxIN, faultsIN>>

(* How far a batch gets: the wrapper's group, checkReceivedOffchainIdentity, *)
(* the checks of persistBatch before the insert of the batch, and the     *)
(* validation of data and messages after it.                              *)
GroupOK(e) == Kind(e) = "unpinned" /\ Fault(e) \notin {"namespace", "group"}
RowOK(e) == Fault(e) \notin {"namespace", "group", "author", "hash"}
ContentOK(e) == RowOK(e) /\ Fault(e) # "content"

(* persistBatchContent: nothing for a batch of our own that is stored;    *)
(* else the data, then the messages, each written over the row that may   *)
(* exist, up to the first whose stored hash differs.                      *)
AlreadyStored(e) == Item(e) \in OwnIN /\ \A m \in Msgs(Item(e)) : msgsIN[m] # "none"
StoredNow(e) ==
    IF ~ContentOK(e) \/ AlreadyStored(e) THEN {}
    ELSE IF Fault(e) = "clash" THEN Msgs(Item(e)) \ {MsgsIN[Item(e)][Len(MsgsIN[Item(e)])]}
    ELSE Msgs(Item(e))
Valid(e) == ContentOK(e) /\ Fault(e) # "clash"
(* markUnpinnedMessagesConfirmed, in the same transaction.                *)
Confirms(e) == Kind(e) = "unpinned" /\ Valid(e)
persistBatch(e) ==
    /\ batchesIN' = IF RowOK(e) THEN batchesIN \cup {Item(e)} ELSE batchesIN
    /\ dataIN' = IF ContentOK(e) /\ ~AlreadyStored(e) THEN dataIN \cup {Item(e)} ELSE dataIN
    /\ msgsIN' = [m \in AllMsgs |-> IF m \in StoredNow(e)
                    THEN (IF Confirms(e) THEN "confirmed" ELSE "pending") ELSE msgsIN[m]]
    /\ confirmedIN' = [m \in AllMsgs |-> IF Confirms(e) /\ m \in Msgs(Item(e))
                         THEN confirmedIN[m] + 1 ELSE confirmedIN[m]]
    /\ groupsIN' = IF GroupOK(e) THEN groupsIN \cup {Item(e)} ELSE groupsIN
    /\ UNCHANGED blobsIN

(* privateBatchReceived: retried for ever until the transaction commits;  *)
(* then the aggregator is told, and only then the service.                *)
Manifest(e) == IF Valid(e) THEN "manifest" ELSE "none"
privateBatchReceived(h) ==
    LET e == h[1] IN
    /\ h[2] = "persist" /\ persistBatch(e)
    /\ Becomes(h, "rewind", Manifest(e))
    /\ UNCHANGED <<wireIN, toldIN, workIN, rewindsIN, dxIN, faultsIN>>
persistSkipped(h) ==
    /\ h[2] = "persist" /\ Faulty
    /\ Becomes(h, "ack", Manifest(h[1]))
    /\ UNCHANGED <<wireIN, toldIN, workIN, tablesIN, rewindsIN, dxIN>>
persistFails(h) ==
    /\ h[2] = "persist" /\ Faulty
    /\ UNCHANGED <<wireIN, toldIN, runIN, workIN, tablesIN, rewindsIN, dxIN>>
queueBatchRewind(h) ==
    /\ h[2] = "rewind"
    /\ Becomes(h, "ack", h[3])
    /\ rewindsIN' = IF Kind(h[1]) \in {"pinned", "shared"} /\ Fault(h[1]) # "namespace"
                    THEN rewindsIN \cup {Item(h[1])} ELSE rewindsIN
    /\ UNCHANGED <<wireIN, toldIN, workIN, tablesIN, dxIN, faultsIN>>
(* AckWithManifest through ackLoop: lost without a connection.            *)
Told(e, manifest) ==
    IF linkIN \/ Kind(e) = "shared"
    THEN wireIN' = [wireIN EXCEPT ![e] = "acked"] /\ toldIN' = [toldIN EXCEPT ![e] = manifest]
    ELSE UNCHANGED <<wireIN, toldIN>>
AckWithManifest(h) ==
    /\ h[2] = "ack" /\ Told(h[1], h[3])
    /\ runIN' = runIN \ {h}
    /\ UNCHANGED <<workIN, tablesIN, rewindsIN, dxIN, faultsIN>>
-----------------------------------------------------------------------------
(* blobReceiverLoop collects; insertNewBlobs skips rows that exist and    *)
(* doubles; the events are acknowledged before the aggregator is told.    *)
blobReceived(w) ==
    /\ loopIN # NoEvent /\ savedIN[w] = "no" /\ Cardinality(collectIN[w]) < MaxBlobs
    /\ collectIN' = [collectIN EXCEPT ![w] = @ \cup {loopIN}] /\ loopIN' = NoEvent
    /\ UNCHANGED <<wireIN, toldIN, runIN, savedIN, tablesIN, rewindsIN, dxIN, faultsIN>>
insertNewBlobs(w) ==
    /\ savedIN[w] = "no" /\ collectIN[w] # {}
    /\ \/ /\ blobsIN' = blobsIN \cup {Item(e) : e \in collectIN[w]}
          /\ savedIN' = [savedIN EXCEPT ![w] = "stored"] /\ UNCHANGED faultsIN
       \/ Faulty /\ UNCHANGED <<blobsIN, savedIN>>
    /\ UNCHANGED <<wireIN, toldIN, runIN, loopIN, collectIN, batchesIN, msgsIN, dataIN,
                   groupsIN, confirmedIN, rewindsIN, dxIN>>
onComplete(w) ==
    /\ savedIN[w] = "stored"
    /\ wireIN' = [e \in EvIN |-> IF e \in collectIN[w] /\ linkIN THEN "acked" ELSE wireIN[e]]
    /\ savedIN' = [savedIN EXCEPT ![w] = "told"]
    /\ UNCHANGED <<toldIN, runIN, loopIN, collectIN, tablesIN, rewindsIN, dxIN, faultsIN>>
queueBlobRewind(w) ==
    /\ savedIN[w] = "told"
    /\ rewindsIN' = rewindsIN \cup {Item(e) : e \in collectIN[w]}
    /\ collectIN' = [collectIN EXCEPT ![w] = {}] /\ savedIN' = [savedIN EXCEPT ![w] = "no"]
    /\ UNCHANGED <<wireIN, toldIN, runIN, loopIN, tablesIN, dxIN, faultsIN>>

(* The aggregator confirms the messages of a pinned batch it was told of. *)
aggregate(b) ==
    /\ b \in rewindsIN /\ b \in batchesIN /\ \A m \in Msgs(b) : msgsIN[m] \in {"pending", "sent"}
    /\ msgsIN' = [m \in AllMsgs |-> IF m \in Msgs(b) THEN "confirmed" ELSE msgsIN[m]]
    /\ confirmedIN' = [m \in AllMsgs |-> IF m \in Msgs(b) THEN confirmedIN[m] + 1 ELSE confirmedIN[m]]
    /\ rewindsIN' = rewindsIN \ {b}
    /\ UNCHANGED <<wireIN, toldIN, runIN, workIN, batchesIN, dataIN, blobsIN, groupsIN, dxIN, faultsIN>>

NextIN == \/ beforeConnect \/ serviceRestarts \/ crashIN
          \/ \E n \in Peers : AddNode(n)
          \/ \E e \in EvIN : dispatchEvent(e) \/ SharedStorageBatchDownloaded(e)
          \/ \E h \in runIN : \/ privateBatchReceived(h) \/ persistFails(h)
                              \/ queueBatchRewind(h) \/ AckWithManifest(h)
          \/ \E w \in WorkerIN : \/ blobReceived(w) \/ insertNewBlobs(w)
                                 \/ onComplete(w) \/ queueBlobRewind(w)
          \/ \E b \in DOMAIN MsgsIN : aggregate(b)
SpecIN == InitIN /\ [][NextIN]_varsIN
-----------------------------------------------------------------------------
(* A batch acknowledged with its manifest, by which the sender takes the  *)
(* transfer as done, is stored with every message, the unpinned ones      *)
(* confirmed; without a manifest the batch was refused.  A blob that is   *)
(* acknowledged is stored.                                                *)
AckedIsStored ==
    \A e \in EvIN : wireIN[e] = "acked" =>
        IF Kind(e) = "blob" THEN Fault(e) = "none" => Item(e) \in blobsIN
        ELSE IF Kind(e) = "status" THEN TRUE
        ELSE /\ toldIN[e] = "manifest" <=> Fault(e) = "none"
             /\ toldIN[e] = "manifest" => /\ Item(e) \in batchesIN
                                          /\ \A m \in Msgs(Item(e)) : msgsIN[m] # "none"
                                          /\ Kind(e) = "unpinned" => \A m \in Msgs(Item(e)) : confirmedIN[m] > 0

(* With initEnabled, a connected service knows every node that was added, *)
(* through its restarts, those of this process and init requests that     *)
(* fail, but for a node whose own request failed since the connection.    *)
PeersKnown == needsInitIN /\ linkIN => nodesIN \ refusedIN \subseteq peersIN

(* A stored blob or batch is on its way to the aggregator until it gets   *)
(* there, or the process ends.                                            *)
RewindFollows ==
    /\ \A h \in runIN : h[2] = "ack" /\ h[3] = "manifest" /\ Kind(h[1]) = "pinned" =>
           Item(h[1]) \in rewindsIN \/ \A m \in Msgs(Item(h[1])) : confirmedIN[m] > 0
    /\ \A e \in EvIN : Kind(e) = "blob" /\ Item(e) \in blobsIN /\ faultsIN = 0 =>
           Item(e) \in rewindsIN \/ \E w \in WorkerIN : \E f \in collectIN[w] : Item(f) = Item(e)

(* Fairness: the connection comes back, the event loop and the blob       *)
(* workers keep going, and a handler that was started ends.               *)
FairIN ==
    /\ WF_varsIN(beforeConnect)
    /\ WF_varsIN(\E e \in EvIN : dispatchEvent(e))
    /\ WF_varsIN(\E e \in EvIN : SharedStorageBatchDownloaded(e))
    /\ WF_varsIN(\E h \in runIN : privateBatchReceived(h) \/ queueBatchRewind(h) \/ AckWithManifest(h))
    /\ \A w \in WorkerIN : WF_varsIN(\/ blobReceived(w) \/ insertNewBlobs(w)
                                     \/ onComplete(w) \/ queueBlobRewind(w))

(* Every event is acknowledged in the end, whatever is wrong with it: the *)
(* service would send it again for ever.  Except a blob whose path holds  *)
(* no data ID.                                                            *)
EventsAcked == []<>(\A e \in EvIN : Fault(e) # "dataid" => wireIN[e] \in {"never", "acked"})
=============================================================================
