---------------------------- MODULE BatchDispatch ----------------------------
(***************************************************************************)
(* The dispatch of a sealed batch (privatemessaging.go, broadcast          *)
(* manager.go and operations.go, multiparty manager.go): the payload goes  *)
(* to the nodes of the group over data exchange, or to shared storage, and *)
(* then the batch is pinned to the blockchain.  Every request has an       *)
(* operation.  When a step fails, the batch processor starts the dispatch  *)
(* again, in the same retry context: the map that AddOrReuseOperation      *)
(* looks into.  Requests whose answer is lost have been accepted.          *)
(***************************************************************************)
EXTENDS Integers, Sequences, FiniteSets, SequencesExt

CONSTANTS
    BatchBD,      \* batches
    KindBD,       \* KindBD[b]: "private", "unpinned", "invoke" or "broadcast"
    NodesBD,      \* NodesBD[b]: the nodes of the group, in order
    LocalNode,
    BlobsBD,      \* BlobsBD[b]: the attachments of the batch
    MaxFailsBD    \* bound: steps that fail

ASSUME DispatchAssumption ==
    \A b \in BatchBD : /\ KindBD[b] \in {"private", "unpinned", "invoke", "broadcast"}
                        /\ NodesBD[b] \in Seq(Range(NodesBD[b]))
                        /\ IsFiniteSet(BlobsBD[b])

VARIABLES
    atBD,      \* atBD[b]: the stage the dispatch is at; 0 before it starts
    ctxBD,     \* operations in the retry contexts
    rowsBD,    \* rowsBD[o]: how often operation o was inserted
    undoneBD,  \* (history) operations in a context whose insert was rolled back
    gotBD,     \* requests the other side has accepted (external)
    publicBD,  \* attachments whose public reference is set on the data in memory
    failsBD
varsBD == <<atBD, ctxBD, rowsBD, undoneBD, gotBD, publicBD, failsBD>>

None == "-"
Op(b, type, node, blob) == <<b, type, node, blob>>
AllOps == UNION {{Op(b, t, n, d) : t \in {"blob", "send", "upload", "uploadBatch", "pin", "invoke"},
                    n \in Range(NodesBD[b]) \cup {None}, d \in BlobsBD[b] \cup {None}} : b \in BatchBD}

(* sendData: one node after the other; the local one is passed over.      *)
SendStages(b) == [i \in 1..3 * Len(NodesBD[b]) |->
    LET n == NodesBD[b][(i - 1) \div 3 + 1]
        k == (i - 1) % 3
    IN <<IF n = LocalNode THEN "skip" ELSE <<"prepare", "blobs", "send">>[k + 1], n>>]
(* dispatchBatch: the attachments, then the batch.                        *)
UploadStages(b) == [i \in 1..Cardinality(BlobsBD[b]) |-> <<"upload", SetToSeq(BlobsBD[b])[i]>>]
                   \o <<<<"uploadBatch", None>>>>
PinnedLast(b) == <<<<"pin", None>>>>
Stages(b) == CASE KindBD[b] = "broadcast" -> UploadStages(b) \o PinnedLast(b)
               [] KindBD[b] \in {"private", "invoke"} -> SendStages(b) \o PinnedLast(b)
               [] KindBD[b] = "unpinned" -> SendStages(b)

(* The operations of a stage.  A batch of an invocation pins with the     *)
(* operation the invocation was stored with.                              *)
SubmitBatchPin(b) == IF KindBD[b] = "invoke" THEN {Op(b, "invoke", None, None)} ELSE {Op(b, "pin", None, None)}
StageOps(b, s) == CASE s[1] = "prepare" -> {Op(b, "blob", s[2], d) : d \in BlobsBD[b]} \cup {Op(b, "send", s[2], None)}
                    [] s[1] = "blobs" -> {Op(b, "blob", s[2], d) : d \in BlobsBD[b]}
                    [] s[1] = "send" -> {Op(b, "send", s[2], None)}
                    [] s[1] = "upload" -> {Op(b, "upload", None, s[2])}
                    [] s[1] = "uploadBatch" -> {Op(b, "uploadBatch", None, None)}
                    [] s[1] = "pin" -> SubmitBatchPin(b)
AddsFirst(s) == s[1] \in {"prepare", "upload", "uploadBatch", "pin"}

InitBD ==
    /\ atBD = [b \in BatchBD |-> 0]
    /\ ctxBD = {Op(b, "invoke", None, None) : b \in {x \in BatchBD : KindBD[x] = "invoke"}}
    /\ rowsBD = [o \in AllOps |-> IF o \in ctxBD THEN 1 ELSE 0]
    /\ undoneBD = {} /\ gotBD = {} /\ publicBD = {} /\ failsBD = 0

startDispatch(b) ==
    /\ atBD[b] = 0
    /\ atBD' = [atBD EXCEPT ![b] = 1]
    /\ UNCHANGED <<ctxBD, rowsBD, undoneBD, gotBD, publicBD, failsBD>>

AddOperation(ops) ==
    /\ ctxBD' = ctxBD \cup ops
    /\ rowsBD' = [o \in AllOps |-> IF o \in ops THEN rowsBD[o] + 1 ELSE rowsBD[o]]
AddOrReuseOperation(ops) ==
    /\ ctxBD' = ctxBD \cup ops
    /\ rowsBD' = [o \in AllOps |-> IF o \in ops \ ctxBD THEN rowsBD[o] + 1 ELSE rowsBD[o]]

(* A stage in full.  The local node, and an attachment that has a public  *)
(* reference, are passed over; an upload of one sets the reference.       *)
Passed(s) == s[1] = "skip" \/ (s[1] = "upload" /\ s[2] \in publicBD)
stageSucceeds(b) ==
    LET s == Stages(b)[atBD[b]] IN
    /\ atBD[b] \in 1..Len(Stages(b))
    /\ atBD' = [atBD EXCEPT ![b] = @ + 1]
    /\ IF Passed(s) \/ ~AddsFirst(s) THEN UNCHANGED <<ctxBD, rowsBD>> ELSE AddOrReuseOperation(StageOps(b, s))
    /\ gotBD' = IF Passed(s) \/ s[1] = "prepare" THEN gotBD ELSE gotBD \cup StageOps(b, s)
    /\ publicBD' = IF s[1] = "upload" THEN publicBD \cup {s[2]} ELSE publicBD
    /\ UNCHANGED <<undoneBD, failsBD>>

(* The error ends the dispatch, which starts again.                       *)
Restarted(b) == /\ failsBD < MaxFailsBD /\ failsBD' = failsBD + 1
                /\ atBD' = [atBD EXCEPT ![b] = 1]

(* prepareBlobTransfers: the database transaction of a node rolls back,   *)
(* after operations have been put into the retry context.                 *)
prepareFails(b) ==
    LET s == Stages(b)[atBD[b]] IN
    /\ atBD[b] \in 1..Len(Stages(b)) /\ s[1] = "prepare"
    /\ Restarted(b)
    /\ \E added \in SUBSET (StageOps(b, s) \ ctxBD) :
          ctxBD' = ctxBD \cup added /\ undoneBD' = undoneBD \cup added
    /\ UNCHANGED <<rowsBD, gotBD, publicBD>>

(* submitBlobTransfersToDX runs the transfers side by side and returns    *)
(* the first error; of a single request the answer may be lost; after an  *)
(* upload the update of the data may fail.                                *)
requestFails(b) ==
    LET s == Stages(b)[atBD[b]] IN
    /\ atBD[b] \in 1..Len(Stages(b)) /\ s[1] # "prepare" /\ ~Passed(s)
    /\ s[1] = "blobs" => BlobsBD[b] # {}
    /\ Restarted(b)
    /\ IF AddsFirst(s) THEN AddOrReuseOperation(StageOps(b, s)) ELSE UNCHANGED <<ctxBD, rowsBD>>
    /\ \E accepted \in SUBSET StageOps(b, s) :
          /\ gotBD' = gotBD \cup accepted
          /\ publicBD' \in {publicBD} \cup
                {publicBD \cup {d \in BlobsBD[b] : Op(b, "upload", None, d) \in accepted}}
    /\ UNCHANGED undoneBD

(* The insert of a single operation fails: nothing was done.              *)
insertFails(b) ==
    LET s == Stages(b)[atBD[b]] IN
    /\ atBD[b] \in 1..Len(Stages(b)) /\ s[1] # "prepare" /\ AddsFirst(s) /\ ~Passed(s)
    /\ StageOps(b, s) \cap ctxBD = {}
    /\ Restarted(b)
    /\ UNCHANGED <<ctxBD, rowsBD, undoneBD, gotBD, publicBD>>

NextBD == \E b \in BatchBD : \/ startDispatch(b) \/ stageSucceeds(b) \/ prepareFails(b)
                             \/ requestFails(b) \/ insertFails(b)
SpecBD == InitBD /\ [][NextBD]_varsBD
-----------------------------------------------------------------------------
(* A batch is pinned only when everybody can get its payload: each other  *)
(* node of the group has accepted the attachments and the batch, or they  *)
(* are all in shared storage, whichever stages failed and were repeated.  *)
PinAfterPayload ==
    \A b \in BatchBD : gotBD \cap SubmitBatchPin(b) # {} =>
        IF KindBD[b] = "broadcast"
        THEN Op(b, "uploadBatch", None, None) \in gotBD /\ BlobsBD[b] \subseteq publicBD
        ELSE \A i \in DOMAIN NodesBD[b] : NodesBD[b][i] # LocalNode =>
                /\ Op(b, "send", NodesBD[b][i], None) \in gotBD
                /\ \A d \in BlobsBD[b] : Op(b, "blob", NodesBD[b][i], d) \in gotBD

(* A request that was made has one row in the operations table, however   *)
(* often the dispatch was repeated, unless its insert was rolled back     *)
(* while its operation stayed in the retry context.                       *)
OneOperationEach ==
    \A o \in AllOps : /\ rowsBD[o] <= 1
                      /\ o \in gotBD /\ o \notin undoneBD => rowsBD[o] = 1
=============================================================================
