------------------------------ MODULE Downloads ------------------------------
(***************************************************************************)
(* Downloads from shared storage (internal/shareddownload): operations in  *)
(* the database, a bounded channel of work, a pool of workers, one short   *)
(* goroutine per retry, and a goroutine that recovers unfinished downloads *)
(* at the start of the node.  A worker that has downloaded a batch stores  *)
(* it, and the hooks that run when that commits dispatch the downloads of  *)
(* the batch's blobs to the same channel.  Operations are numbered in the  *)
(* order of their creation time.                                           *)
(***************************************************************************)
EXTENDS Integers, Sequences, FiniteSets, FiniteSetsExt

CONSTANTS
    Batches,       \* operations that download a batch
    BlobsOf,       \* BlobsOf[b]: the operations for the blobs of batch b
    Worker,
    QueueLength,   \* capacity of the work channel
    MaxAttempts,   \* retryMaxAttempts
    RecoveryPage,  \* pageSize of recoverDownloads
    MaxStops       \* bound: restarts

Download == Batches \cup UNION {BlobsOf[b] : b \in Batches}

(* Operations are finitely many, and a page is not empty.                 *)
ASSUME DownloadAssumption ==
    /\ IsFiniteSet(Download) /\ Download \subseteq Nat
    /\ RecoveryPage \in Nat \ {0}

VARIABLES
    statusDL,    \* statusDL[o]: in the database; "none" before it is created
    updatesDL,   \* status updates on their way to the database: <<op, status>>
    workDL,      \* the work channel: <<op, attempts>>
    atDL,        \* atDL[w]: the work of worker w, <<op, attempts>> or <<>>
    hooksDL,     \* hooksDL[w]: dispatches left in the post-commit hooks of w
    pinHookDL,   \* the same in the handler of batch pins
    retryDL,     \* goroutines that wait to dispatch a retry: <<op, attempts>>
    recoverDL,   \* the recovery: [on, page, todo]
    oldDL,       \* operations created before the node was started
    stopsDL
varsDL == <<statusDL, updatesDL, workDL, atDL, hooksDL, pinHookDL, retryDL, recoverDL, oldDL, stopsDL>>

Recovery == [on |-> TRUE, page |-> 0, todo |-> {}]
InitDL == /\ statusDL = [o \in Download |-> "none"] /\ updatesDL = {}
          /\ workDL = <<>> /\ atDL = [w \in Worker |-> <<>>]
          /\ hooksDL = [w \in Worker |-> {}] /\ pinHookDL = {}
          /\ retryDL = {} /\ recoverDL = Recovery /\ oldDL = {} /\ stopsDL = 0

Unfinished(o) == statusDL[o] \in {"Initialized", "Pending"}
HasRoom == Len(workDL) < QueueLength

(* A batch pin with a payload reference creates the operation, and its    *)
(* hook dispatches it: the handler waits while the channel is full.       *)
InitiateDownloadBatch(b) ==
    /\ statusDL[b] = "none" /\ pinHookDL = {}
    /\ statusDL' = [statusDL EXCEPT ![b] = "Initialized"]
    /\ pinHookDL' = {b}
    /\ UNCHANGED <<updatesDL, workDL, atDL, hooksDL, retryDL, recoverDL, oldDL, stopsDL>>
pinHook ==
    /\ HasRoom
    /\ \E b \in pinHookDL : workDL' = Append(workDL, <<b, 0>>) /\ pinHookDL' = pinHookDL \ {b}
    /\ UNCHANGED <<statusDL, updatesDL, atDL, hooksDL, retryDL, recoverDL, oldDL, stopsDL>>

downloadWorkerLoop(w) ==
    /\ atDL[w] = <<>> /\ workDL # <<>>
    /\ atDL' = [atDL EXCEPT ![w] = Head(workDL)] /\ workDL' = Tail(workDL)
    /\ UNCHANGED <<statusDL, updatesDL, hooksDL, pinHookDL, retryDL, recoverDL, oldDL, stopsDL>>

(* A batch that is stored creates the operations of the blobs that are    *)
(* not there yet, and leaves one hook for each.                           *)
NewBlobs(o) == IF o \in Batches THEN {x \in BlobsOf[o] : statusDL[x] = "none"} ELSE {}
downloadBatch(w) ==
    LET o == atDL[w][1] IN
    /\ atDL[w] # <<>> /\ o \in Batches /\ hooksDL[w] = {} /\ <<o, "stored">> \notin updatesDL
    /\ statusDL' = [x \in Download |-> IF x \in NewBlobs(o) THEN "Initialized" ELSE statusDL[x]]
    /\ hooksDL' = [hooksDL EXCEPT ![w] = NewBlobs(o)]
    /\ updatesDL' = updatesDL \cup {<<o, "stored">>}
    /\ UNCHANGED <<workDL, atDL, pinHookDL, retryDL, recoverDL, oldDL, stopsDL>>
workerHook(w) ==
    /\ hooksDL[w] # {} /\ HasRoom
    /\ workDL' = Append(workDL, <<Min(hooksDL[w]), 0>>)
    /\ hooksDL' = [hooksDL EXCEPT ![w] = @ \ {Min(@)}]
    /\ UNCHANGED <<statusDL, updatesDL, atDL, pinHookDL, retryDL, recoverDL, oldDL, stopsDL>>

(* The attempt is over: the worker reports the end and takes other work.  *)
downloadDone(w) ==
    LET o == atDL[w][1] IN
    /\ atDL[w] # <<>> /\ hooksDL[w] = {}
    /\ o \in Batches => <<o, "stored">> \in updatesDL
    /\ updatesDL' = (updatesDL \ {<<o, "stored">>}) \cup {<<o, "Succeeded">>}
    /\ atDL' = [atDL EXCEPT ![w] = <<>>]
    /\ UNCHANGED <<statusDL, workDL, hooksDL, pinHookDL, retryDL, recoverDL, oldDL, stopsDL>>

(* attemptWork fails: a goroutine for the next attempt, or the end.       *)
attemptOnce(w) ==
    /\ atDL[w] # <<>> /\ <<atDL[w][1], "stored">> \notin updatesDL
    /\ updatesDL' = updatesDL \cup {<<atDL[w][1], "Pending">>}
    /\ atDL' = [atDL EXCEPT ![w] = <<>>]
    /\ UNCHANGED <<statusDL, workDL, hooksDL, pinHookDL, retryDL, recoverDL, oldDL, stopsDL>>
attemptWork(w) ==
    LET o == atDL[w][1]
        n == atDL[w][2] + 1
    IN /\ atDL[w] # <<>> /\ <<o, "stored">> \notin updatesDL
       /\ IF n >= MaxAttempts
          THEN updatesDL' = updatesDL \cup {<<o, "Failed">>} /\ UNCHANGED retryDL
          ELSE updatesDL' = updatesDL \cup {<<o, "Pending">>} /\ retryDL' = retryDL \cup {<<o, n>>}
       /\ atDL' = [atDL EXCEPT ![w] = <<>>]
       /\ UNCHANGED <<statusDL, workDL, hooksDL, pinHookDL, recoverDL, oldDL, stopsDL>>

waitAndRetryDownload(r) ==
    /\ r \in retryDL /\ HasRoom
    /\ retryDL' = retryDL \ {r} /\ workDL' = Append(workDL, r)
    /\ UNCHANGED <<statusDL, updatesDL, atDL, hooksDL, pinHookDL, recoverDL, oldDL, stopsDL>>

(* The operation updater writes a status; Pending does not replace an end. *)
writeStatus(u) ==
    /\ u \in updatesDL /\ u[2] # "stored"
    /\ updatesDL' = updatesDL \ {u}
    /\ statusDL' = IF u[2] = "Pending" /\ ~Unfinished(u[1]) THEN statusDL
                   ELSE [statusDL EXCEPT ![u[1]] = u[2]]
    /\ UNCHANGED <<workDL, atDL, hooksDL, pinHookDL, retryDL, recoverDL, oldDL, stopsDL>>

(* recoverDownloads: the page at an offset into the unfinished operations *)
(* created before the start, then one dispatch after the other.           *)
ToRecover == {o \in oldDL : Unfinished(o)}
Rank(o) == Cardinality({q \in ToRecover : q < o})
PageDL == {o \in ToRecover : /\ Rank(o) >= recoverDL.page * RecoveryPage
                             /\ Rank(o) < (recoverDL.page + 1) * RecoveryPage}
recoverPage ==
    /\ recoverDL.on /\ recoverDL.todo = {}
    /\ recoverDL' = [on |-> PageDL # {}, page |-> recoverDL.page + 1, todo |-> PageDL]
    /\ UNCHANGED <<statusDL, updatesDL, workDL, atDL, hooksDL, pinHookDL, retryDL, oldDL, stopsDL>>
recoverDispatch ==
    /\ recoverDL.todo # {} /\ HasRoom
    /\ workDL' = Append(workDL, <<Min(recoverDL.todo), 0>>)
    /\ recoverDL' = [recoverDL EXCEPT !.todo = @ \ {Min(@)}]
    /\ UNCHANGED <<statusDL, updatesDL, atDL, hooksDL, pinHookDL, retryDL, oldDL, stopsDL>>

(* The node stops and starts again: the database is what is left.         *)
stopAndStart ==
    /\ stopsDL < MaxStops
    /\ stopsDL' = stopsDL + 1
    /\ updatesDL' = {} /\ workDL' = <<>> /\ atDL' = [w \in Worker |-> <<>>]
    /\ hooksDL' = [w \in Worker |-> {}] /\ pinHookDL' = {} /\ retryDL' = {}
    /\ oldDL' = {o \in Download : statusDL[o] # "none"}
    /\ recoverDL' = Recovery
    /\ UNCHANGED statusDL

NextDL == \/ \E b \in Batches : InitiateDownloadBatch(b)
          \/ pinHook \/ recoverPage \/ recoverDispatch \/ stopAndStart
          \/ \E w \in Worker : \/ downloadWorkerLoop(w) \/ downloadBatch(w)
                               \/ workerHook(w) \/ downloadDone(w) \/ attemptWork(w)
          \/ \E r \in retryDL : waitAndRetryDownload(r)
          \/ \E u \in updatesDL : writeStatus(u)

SpecDL == InitDL /\ [][NextDL]_varsDL

(* Fairness: workers, hooks, the recovery and the updater keep going, and *)
(* a retry timer ends.                                                    *)
FairDL ==
    /\ WF_varsDL(pinHook) /\ WF_varsDL(recoverPage) /\ WF_varsDL(recoverDispatch)
    /\ WF_varsDL(\E u \in updatesDL : writeStatus(u))
    /\ WF_varsDL(\E r \in retryDL : waitAndRetryDownload(r))
    /\ \A w \in Worker : WF_varsDL(\/ downloadWorkerLoop(w) \/ downloadBatch(w)
                                   \/ workerHook(w) \/ downloadDone(w))
-----------------------------------------------------------------------------
Items(o) ==
    Cardinality({i \in DOMAIN workDL : workDL[i][1] = o})
    + Cardinality({w \in Worker : atDL[w] # <<>> /\ atDL[w][1] = o})
    + Cardinality({w \in Worker : o \in hooksDL[w]})
    + (IF o \in pinHookDL THEN 1 ELSE 0)
    + Cardinality({r \in retryDL : r[1] = o})
    + (IF o \in recoverDL.todo THEN 1 ELSE 0)

(* A download is worked on in one place at a time: a retry, a dispatch by *)
(* a hook and the recovery after a restart never both hold it.            *)
OneWorkItem == \A o \in Download : Items(o) <= 1

(* When the recovery has read its last page, every operation from before  *)
(* the restart has ended or is being worked on, provided that one page    *)
(* held them all: later pages skip over a set that shrinks.               *)
Ended(o) == ~Unfinished(o) \/ <<o, "Succeeded">> \in updatesDL \/ <<o, "Failed">> \in updatesDL
RecoveredAll ==
    ~recoverDL.on /\ Cardinality(oldDL) <= RecoveryPage =>
        \A o \in oldDL : Ended(o) \/ Items(o) = 1

(* Every download that was created ends, in success or failure, when the  *)
(* channel has room for all of them.                                      *)
DownloadsEnd == []<>(\A o \in Download : ~Unfinished(o))
=============================================================================
