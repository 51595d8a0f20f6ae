----------------------------- MODULE Operations -----------------------------
(***************************************************************************)
(* Transactions and operations (internal/txwriter, txcommon, operations,   *)
(* and the managers that submit and run operations).  An API call writes a *)
(* transaction and one operation, then runs the operation against a        *)
(* connector.  Contract calls go through a writer that groups them into    *)
(* database transactions; a token pool is one database transaction of its  *)
(* own; every other call inserts its transaction first and its operation   *)
(* in a later database transaction.  Status updates, from the call and     *)
(* from the connector's events, go through the queue of the worker that    *)
(* the operation's identifier hashes to.  A call that finds its            *)
(* idempotency key used resubmits what is still Initialized, or starts     *)
(* again where the earlier call wrote no operation.                        *)
(*                                                                         *)
(* The transaction and the operation that a call creates carry its name.   *)
(***************************************************************************)
EXTENDS Integers, Sequences, FiniteSets

CONSTANTS
    Call,            \* API calls
    TogetherO,       \* the sets of calls that are made together
    KeyOf,           \* KeyOf[c]: the idempotency key, or NoKey
    NoKey,
    KindOf,          \* KindOf[c]: the manager that handles the call
    Writer,          \* workers of the transaction writer
    BatchMax,        \* calls in one batch of a writer
    MaxRollbacks,    \* bound: database transactions that fail
    MaxRestarts      \* bound: restarts of the node

(* Transfers and approvals of tokens, data that is published, and what    *)
(* batches and network actions submit, which has no key.                  *)
Separate == {"assets", "broadcast", "private", "multiparty"}
ASSUME OperationsAssumption == \A c \in Call :
    /\ KindOf[c] \in Separate \cup {"contracts", "pools"}
    /\ KindOf[c] \in {"private", "multiparty"} => KeyOf[c] = NoKey

VARIABLES
    stepO,       \* stepO[c]: where call c is
    ownerO,      \* ownerO[c]: the call whose transaction c works under
    todoO,       \* todoO[c]: operations that c has found to resubmit
    reportO,     \* reportO[c]: operations c has submitted, with the status to report
    batchO,      \* batchO[w]: calls in the batch of writer w
    openO,       \* openO[w]: of these, what an open database transaction inserted
    txO,         \* calls whose transaction is in the database
    dbO,         \* dbO[c]: status of the operation in the database, or "absent"
    cacheO,      \* cacheO[c]: status in the operation cache, or "absent"
    queueO,      \* queueO[c]: status updates for the operation, in order
    acceptedO,   \* operations the connector has accepted (external)
    finalO,      \* finalO[c]: outcomes the connector has reported
    lostO,       \* (history) calls that were told of a transaction that rolled back
    raceO,       \* (history) calls that started again beside one without an operation yet
    erredO,      \* (history) operations whose submission returned an error but a conflict
    rollbacksO, restartsO
callsO == <<stepO, ownerO, todoO, reportO>>
writerO == <<batchO, openO>>
runO == <<queueO, acceptedO, finalO, erredO>>
boundsO == <<lostO, raceO, rollbacksO, restartsO>>
varsO == <<callsO, writerO, txO, dbO, cacheO, runO, boundsO>>

InitO ==
    /\ \E made \in TogetherO : stepO = [c \in Call |-> IF c \in made THEN "new" ELSE "done"]
    /\ ownerO = [c \in Call |-> c]
    /\ todoO = [c \in Call |-> {}] /\ reportO = [c \in Call |-> {}]
    /\ batchO = [w \in Writer |-> {}] /\ openO = [w \in Writer |-> {}]
    /\ txO = {} /\ dbO = [c \in Call |-> "absent"] /\ cacheO = [c \in Call |-> "absent"]
    /\ queueO = [c \in Call |-> <<>>] /\ acceptedO = {} /\ finalO = [c \in Call |-> {}]
    /\ lostO = {} /\ raceO = {} /\ erredO = {} /\ rollbacksO = 0 /\ restartsO = 0

Set1(f, c, v) == [f EXCEPT ![c] = v]
SetAll(f, S, v) == [c \in DOMAIN f |-> IF c \in S THEN v ELSE f[c]]
SameKey(c, d) == KeyOf[c] # NoKey /\ KeyOf[c] = KeyOf[d]
FailsO == rollbacksO < MaxRollbacks /\ rollbacksO' = rollbacksO + 1
-----------------------------------------------------------------------------
(* WriteTransactionAndOps: the call waits in the batch of a writer.       *)
WriteTransactionAndOps(c, w) ==
    /\ KindOf[c] = "contracts" /\ stepO[c] = "new" /\ openO[w] = {}
    /\ Cardinality(batchO[w]) < BatchMax
    /\ stepO' = Set1(stepO, c, "queued")
    /\ batchO' = [batchO EXCEPT ![w] = @ \cup {c}]
    /\ UNCHANGED <<ownerO, todoO, reportO, openO, txO, dbO, cacheO, runO, boundsO>>

(* SubmitNewTransactionBatch: of the calls of one batch with one key, one *)
(* is inserted, unless the key is in the database already.  The unique    *)
(* index makes an insert wait for another open transaction with the key.  *)
WholeBatch(batch) == {batch}
FirstOfKey(batch) == {F \in SUBSET batch :
    /\ \A c \in batch : KeyOf[c] = NoKey => c \in F
    /\ \A c \in F : ~\E d \in txO : SameKey(c, d)
    /\ \A c, d \in F : SameKey(c, d) => c = d
    /\ \A c \in batch \ F : \E d \in F \cup txO : SameKey(c, d)}
NoOpenRival(w, batch) == \A v \in Writer \ {w} : \A c \in openO[v], d \in batch : ~SameKey(c, d)
OwnerOfKey(c, F) == IF c \in F THEN c ELSE CHOOSE d \in F \cup txO : SameKey(c, d)

(* processBatch, on a timeout or a full batch: the results go to the      *)
(* callers, and the operations to the cache, before the commit.           *)
insertBatch(w) ==
    /\ openO[w] = {} /\ NoOpenRival(w, batchO[w])
    /\ \E F \in FirstOfKey(batchO[w]) :
          /\ openO' = [openO EXCEPT ![w] = F]
          /\ cacheO' = SetAll(cacheO, F, "Initialized")
          /\ stepO' = [c \in Call |-> IF c \in F THEN "written"
                                      ELSE IF c \in batchO[w] THEN "duplicate" ELSE stepO[c]]
          /\ ownerO' = [c \in Call |-> IF c \in batchO[w] THEN OwnerOfKey(c, F) ELSE ownerO[c]]
          /\ batchO' = IF F = {} THEN [batchO EXCEPT ![w] = {}] ELSE batchO
    /\ UNCHANGED <<todoO, reportO, txO, dbO, runO, boundsO>>
processFullBatch(w) == Cardinality(batchO[w]) = BatchMax /\ insertBatch(w)
processBatch(w) == batchO[w] # {} /\ insertBatch(w)

(* executeBatch: RunAsGroup commits, or rolls back and sends an error that *)
(* nobody is waiting for any more.                                        *)
commitBatch(w) ==
    /\ openO[w] # {}
    /\ txO' = txO \cup openO[w] /\ dbO' = SetAll(dbO, openO[w], "Initialized")
    /\ openO' = [openO EXCEPT ![w] = {}] /\ batchO' = [batchO EXCEPT ![w] = {}]
    /\ UNCHANGED <<callsO, cacheO, runO, boundsO>>
rollbackBatch(w) ==
    /\ openO[w] # {} /\ FailsO
    /\ lostO' = lostO \cup openO[w]
    /\ openO' = [openO EXCEPT ![w] = {}] /\ batchO' = [batchO EXCEPT ![w] = {}]
    /\ UNCHANGED <<callsO, txO, dbO, cacheO, runO, raceO, restartsO>>
-----------------------------------------------------------------------------
(* A call of the other kinds inserts its own transaction, unless the key  *)
(* is taken: a token pool with its operation, the others alone, and with  *)
(* an event that may fail behind it.                                      *)
NoRivalOf(c) == \A v \in Writer : \A d \in openO[v] : ~SameKey(d, c)
KeyTakenO(c) == \E d \in txO : SameKey(c, d)
keyTaken(c) ==
    /\ stepO[c] = "new" /\ KindOf[c] # "contracts" /\ NoRivalOf(c) /\ KeyTakenO(c)
    /\ stepO' = Set1(stepO, c, "duplicate") /\ ownerO' = Set1(ownerO, c, OwnerOfKey(c, {}))
    /\ UNCHANGED <<todoO, reportO, writerO, txO, dbO, cacheO, runO, boundsO>>
SubmitNewTransaction(c) ==
    /\ stepO[c] = "new" /\ KindOf[c] \in Separate /\ NoRivalOf(c) /\ ~KeyTakenO(c)
    /\ \/ txO' = txO \cup {c} /\ stepO' = Set1(stepO, c, "started") /\ UNCHANGED rollbacksO
       \/ FailsO /\ txO' \in {txO, txO \cup {c}} /\ stepO' = Set1(stepO, c, "done")
    /\ UNCHANGED <<ownerO, todoO, reportO, writerO, dbO, cacheO, runO, lostO, raceO, restartsO>>
createTokenPool(c) ==
    /\ stepO[c] = "new" /\ KindOf[c] = "pools" /\ NoRivalOf(c) /\ ~KeyTakenO(c)
    /\ \/ /\ txO' = txO \cup {c} /\ dbO' = Set1(dbO, c, "Initialized")
          /\ cacheO' = Set1(cacheO, c, "Initialized")
          /\ stepO' = Set1(stepO, c, "written") /\ UNCHANGED rollbacksO
       \/ FailsO /\ stepO' = Set1(stepO, c, "done") /\ UNCHANGED <<txO, dbO, cacheO>>
    /\ UNCHANGED <<ownerO, todoO, reportO, writerO, runO, lostO, raceO, restartsO>>

(* AddOrReuseOperation, in a database transaction of its own: the call    *)
(* goes on to run the operation, or returns an error, before the insert   *)
(* or after it (a transfer whose message is not sent).                    *)
insertOperation(c) ==
    /\ stepO[c] = "started"
    /\ \/ stepO' = Set1(stepO, c, "written") /\ UNCHANGED rollbacksO
       \/ stepO' = Set1(stepO, c, "done") /\ FailsO
    /\ dbO' = Set1(dbO, c, "Initialized") /\ cacheO' = Set1(cacheO, c, "Initialized")
    /\ UNCHANGED <<ownerO, todoO, reportO, writerO, txO, runO, lostO, raceO, restartsO>>
insertFailsO(c) ==
    /\ stepO[c] = "started" /\ FailsO
    /\ stepO' = Set1(stepO, c, "done")
    /\ UNCHANGED <<ownerO, todoO, reportO, writerO, txO, dbO, cacheO, runO, lostO, raceO, restartsO>>
-----------------------------------------------------------------------------
(* What the handlers' RunOperation may end in: whether the other side has *)
(* the request, the phase, and whether an error is returned.  An error of *)
(* the phase "init" may also be a lost answer.                            *)
Out(got, phase, err) == [got |-> got, phase |-> phase, err |-> err]
uploadOutcomes == {Out(TRUE, "complete", FALSE), Out(FALSE, "init", TRUE), Out(TRUE, "init", TRUE)}
sendOutcomes == {Out(TRUE, "init", FALSE), Out(FALSE, "init", TRUE), Out(TRUE, "init", TRUE)}
submissionOutcomes == {Out(TRUE, "pending", FALSE), Out(FALSE, "complete", TRUE),
                       Out(FALSE, "init", TRUE), Out(TRUE, "init", TRUE)}
tokenOutcomes == {Out(TRUE, "pending", FALSE), Out(TRUE, "complete", FALSE),
                  Out(FALSE, "init", TRUE), Out(TRUE, "init", TRUE)}
pinOutcomes == {Out(TRUE, "pending", FALSE), Out(FALSE, "init", TRUE), Out(TRUE, "init", TRUE)}
OutcomesOf(kind) == CASE kind = "broadcast" -> uploadOutcomes
                      [] kind = "private" -> sendOutcomes
                      [] kind = "contracts" -> submissionOutcomes
                      [] kind \in {"assets", "pools"} -> tokenOutcomes
                      [] kind = "multiparty" -> pinOutcomes

(* The status that RunOperation reports.                                  *)
StatusAfter(out, conflict, idempotent) ==
    CASE out.err /\ conflict -> "Pending"
      [] out.err /\ ~conflict /\ out.phase = "init" /\ idempotent -> "Initialized"
      [] out.err /\ ~conflict /\ out.phase = "pending" -> "Pending"
      [] ~out.err /\ out.phase = "complete" -> "Succeeded"
      [] ~out.err /\ out.phase # "complete" -> "Pending"
      [] OTHER -> "Failed"

(* SubmitOperationUpdate puts a failure into the cache at once.           *)
Submitted(o, status) ==
    /\ queueO' = [queueO EXCEPT ![o] = Append(@, status)]
    /\ cacheO' = IF status = "Failed" /\ cacheO[o] # "absent"
                 THEN Set1(cacheO, o, "Failed") ELSE cacheO

(* RunOperation of the handler on operation o, with the status that call  *)
(* c will report: an event of the connector may come before the report.   *)
(* A connector that has the request already answers with a conflict; what *)
(* completes at once needs no event; an error ends a resubmission.        *)
RunOperation(c, o, rest) ==
    \/ /\ o \in acceptedO
       /\ reportO' = Set1(reportO, c, {<<o, StatusAfter(Out(TRUE, "init", TRUE), TRUE, KeyOf[o] # NoKey)>>})
       /\ todoO' = Set1(todoO, c, {})
       /\ UNCHANGED <<acceptedO, finalO, erredO>>
    \/ /\ o \notin acceptedO
       /\ \E out \in OutcomesOf(KindOf[o]) :
             /\ reportO' = Set1(reportO, c, {<<o, StatusAfter(out, FALSE, KeyOf[o] # NoKey)>>})
             /\ todoO' = Set1(todoO, c, IF out.err THEN {} ELSE rest)
             /\ acceptedO' = IF out.got THEN acceptedO \cup {o} ELSE acceptedO
             /\ finalO' = IF out.phase = "complete" /\ ~out.err
                          THEN Set1(finalO, o, {"Succeeded"}) ELSE finalO
             /\ erredO' = IF out.err THEN erredO \cup {o} ELSE erredO

runOwn(c) ==
    /\ stepO[c] = "written" /\ RunOperation(c, c, {})
    /\ stepO' = Set1(stepO, c, "report")
    /\ UNCHANGED <<ownerO, writerO, txO, dbO, cacheO, queueO, boundsO>>
report(c) ==
    /\ stepO[c] = "report"
    /\ \E r \in reportO[c] : Submitted(r[1], r[2])
    /\ reportO' = Set1(reportO, c, {})
    /\ stepO' = Set1(stepO, c, IF todoO[c] = {} THEN "done" ELSE "resubmit")
    /\ UNCHANGED <<ownerO, todoO, writerO, txO, dbO, acceptedO, finalO, erredO, boundsO>>

(* ResubmitOperations reads the operations of the transaction.  Without   *)
(* any, all but a contract call start again under that transaction: two   *)
(* calls may do so, or one beside the first, which has yet to insert its  *)
(* operation.  With some, it runs those that are Initialized in the       *)
(* database and in the cache, where an update still queued may show.      *)
OpsOf(t) == {o \in Call : dbO[o] # "absent" /\ ownerO[o] = t}
Beside(c) == \E d \in Call \ {c} : stepO[d] = "started" /\ ownerO[d] = ownerO[c]
startAgain(c) ==
    /\ stepO[c] = "duplicate" /\ KindOf[c] # "contracts" /\ OpsOf(ownerO[c]) = {}
    /\ stepO' = Set1(stepO, c, "started")
    /\ raceO' = IF Beside(c) THEN raceO \cup {c} ELSE raceO
    /\ UNCHANGED <<ownerO, todoO, reportO, writerO, txO, dbO, cacheO, runO, lostO, rollbacksO, restartsO>>
readForResubmit(c) ==
    /\ stepO[c] = "duplicate" /\ (KindOf[c] = "contracts" \/ OpsOf(ownerO[c]) # {})
    /\ LET initialized == {o \in OpsOf(ownerO[c]) : dbO[o] = "Initialized"} IN
       /\ todoO' = Set1(todoO, c, initialized)
       /\ stepO' = Set1(stepO, c, IF initialized = {} THEN "done" ELSE "resubmit")
    /\ UNCHANGED <<ownerO, reportO, writerO, txO, dbO, cacheO, runO, boundsO>>
ResubmitOperations(c) ==
    /\ stepO[c] = "resubmit"
    /\ \E o \in todoO[c] :
          \/ /\ cacheO[o] \notin {"Initialized", "absent"}
             /\ todoO' = Set1(todoO, c, todoO[c] \ {o})
             /\ stepO' = Set1(stepO, c, IF todoO[c] = {o} THEN "done" ELSE "resubmit")
             /\ UNCHANGED <<reportO, acceptedO, finalO, erredO>>
          \/ /\ cacheO[o] \in {"Initialized", "absent"}
             /\ RunOperation(c, o, todoO[c] \ {o})
             /\ stepO' = Set1(stepO, c, "report")
    /\ UNCHANGED <<ownerO, writerO, txO, dbO, cacheO, queueO, boundsO>>

(* An event of the connector about an accepted operation (external).      *)
connectorEvent(o, status) ==
    /\ o \in acceptedO /\ finalO[o] = {}
    /\ finalO' = [finalO EXCEPT ![o] = @ \cup {status}]
    /\ Submitted(o, status)
    /\ UNCHANGED <<callsO, writerO, txO, dbO, acceptedO, erredO, boundsO>>

(* resolveOperation: only an update to Pending looks at the status it     *)
(* replaces.  The cache follows an update that changed a row.             *)
Resolves(old, new) == old # "absent" /\ (new = "Pending" => old \notin {"Succeeded", "Failed"})
updaterLoop(o) ==
    /\ queueO[o] # <<>>
    /\ queueO' = [queueO EXCEPT ![o] = Tail(@)]
    /\ LET new == Head(queueO[o]) IN
       /\ dbO' = IF Resolves(dbO[o], new) THEN Set1(dbO, o, new) ELSE dbO
       /\ cacheO' = IF Resolves(dbO[o], new) THEN Set1(cacheO, o, new)
                    ELSE IF dbO[o] # "absent" /\ cacheO[o] = "absent" THEN Set1(cacheO, o, dbO[o])
                    ELSE cacheO
    /\ UNCHANGED <<callsO, writerO, txO, acceptedO, finalO, erredO, boundsO>>

(* A restart loses calls, batches, queues and the cache; events of the    *)
(* connector that were not applied are delivered again.                   *)
restart ==
    /\ restartsO < MaxRestarts
    /\ restartsO' = restartsO + 1
    /\ stepO' = [c \in Call |-> IF stepO[c] = "new" THEN "new" ELSE "done"]
    /\ todoO' = [c \in Call |-> {}] /\ reportO' = [c \in Call |-> {}]
    /\ batchO' = [w \in Writer |-> {}] /\ openO' = [w \in Writer |-> {}]
    /\ lostO' = lostO \cup UNION {openO[w] : w \in Writer}
    /\ queueO' = [c \in Call |-> <<>>] /\ cacheO' = [c \in Call |-> "absent"]
    /\ finalO' = [c \in Call |-> IF dbO[c] \in finalO[c] THEN finalO[c] ELSE {}]
    /\ UNCHANGED <<ownerO, txO, dbO, acceptedO, erredO, raceO, rollbacksO>>

NextO == \/ \E w \in Writer : \/ processBatch(w) \/ commitBatch(w) \/ rollbackBatch(w)
                              \/ \E c \in Call : WriteTransactionAndOps(c, w)
         \/ \E c \in Call : \/ keyTaken(c) \/ SubmitNewTransaction(c) \/ createTokenPool(c)
                            \/ insertOperation(c) \/ insertFailsO(c) \/ runOwn(c) \/ report(c)
                            \/ startAgain(c) \/ readForResubmit(c) \/ ResubmitOperations(c)
                            \/ updaterLoop(c)
                            \/ \E s \in {"Succeeded", "Failed"} : connectorEvent(c, s)
         \/ restart

SpecO == InitO /\ [][NextO]_varsO

(* Fairness: the writers and the updater keep going, and so does every    *)
(* call.                                                                  *)
FairO ==
    /\ \A w \in Writer : WF_varsO(processBatch(w)) /\ WF_varsO(commitBatch(w))
    /\ \A c \in Call : /\ WF_varsO(insertOperation(c)) /\ WF_varsO(runOwn(c)) /\ WF_varsO(report(c))
                       /\ WF_varsO(startAgain(c)) /\ WF_varsO(readForResubmit(c))
                       /\ WF_varsO(ResubmitOperations(c)) /\ WF_varsO(updaterLoop(c))
-----------------------------------------------------------------------------
(* One idempotency key has one operation at the connector, whatever calls *)
(* with the key share a batch, race in two writers, resubmit each other's *)
(* operation, start again after a failed insert, or come after a restart. *)
(* The exceptions are calls that were told of a transaction that rolled   *)
(* back, and those that started again while another call with the key was *)
(* between the two database transactions of its transaction and operation. *)
SubmittedOncePerKey ==
    \A c, d \in acceptedO : SameKey(c, d) /\ {c, d} \cap (lostO \cup raceO) = {} => c = d

(* An operation that has ended is not put back to Pending by an update    *)
(* that was queued behind the end.                                        *)
NeverBackToPending ==
    [][\A c \in Call : dbO[c] \in {"Succeeded", "Failed"} => dbO'[c] # "Pending"]_varsO

(* The end of an operation is kept, whatever reports of its submissions   *)
(* and events are queued in whatever order, unless a submission returned  *)
(* an error that was no conflict: its report overwrites any status.       *)
FinalKept ==
    [][\A c \in Call : dbO[c] \in {"Succeeded", "Failed"} /\ dbO'[c] # dbO[c] => c \in erredO]_varsO

(* Every call that was taken returns: a batch that is not full is written *)
(* on its timeout, and a key held by another writer is released.          *)
CallsReturn == []<>(\A c \in Call : stepO[c] \in {"new", "done"})
=============================================================================
