------------------------------- MODULE Tokens -------------------------------
(***************************************************************************)
(* Token pools and what happens in them: the asset manager of each         *)
(* namespace (internal/assets), the plugin that talks to the token         *)
(* connector (internal/tokens/fftokens), and the event manager's           *)
(* callbacks (internal/events/token*.go).  One pool is created by one      *)
(* namespace, which keeps it to itself or publishes it to all; each of     *)
(* them stores it inactive, asks the connector to activate it, and makes   *)
(* it active when the connector tells of it.                               *)
(*                                                                         *)
(* The connector delivers its events in order, over one connection for     *)
(* all namespaces, and again whatever it has no acknowledgement for.       *)
(* Subscriptions of older connectors carry no pool data: their events go   *)
(* to the handler of every namespace, with one and the same object.        *)
(* A database transaction is one step; it may fail and is then retried.    *)
(***************************************************************************)
EXTENDS Integers, Sequences, FiniteSets, SequencesExt, Sums

CONSTANTS
    NsTK,           \* namespaces, numbers from 1
    Creator,        \* the one that creates the pool
    TransfersTK,    \* transfers: a function to [from, to, n, by, msg], by = 0 for others
    ApprovalsTK,    \* approvals: a function to [subject, by]
    MaxFailsTK      \* bound: failures, restarts and expiries of caches
Nobody == "nobody"  \* a mint comes from nobody, a burn goes to nobody
ASSUME CreatorAssumption == Creator \in NsTK
ASSUME EventsAssumption ==
    /\ IsFiniteSet(NsTK) /\ IsFiniteSet(DOMAIN TransfersTK)
    /\ DOMAIN TransfersTK \cap DOMAIN ApprovalsTK = {}
    /\ \A i \in DOMAIN TransfersTK : TransfersTK[i].n \in Nat

VARIABLES
    olderTK,        \* events carry no pool data
    publishedTK,    \* the pool is created as a published one
    createTK,       \* the create operation: "none", "asked", "pending", "complete", "failed"
    poolTK,         \* each namespace's row: "none", "inactive", "active", "deleted"
    actTK,          \* its activation: "none", "todo", "asked", "failed"
    defTK,          \* the broadcast definition: "none", "sent", "waiting", "confirmed"
    rewindsTK,      \* namespaces whose aggregator was told to look again
    listenTK,       \* namespaces the connector has activated the pool for
    queueTK,        \* events of the connector without an acknowledgement
    loopTK,         \* event loop: namespaces done with the first event, the pool its
                    \* object names (of which namespace, or 0), an activation it waits for
    locatorTK,      \* cached pool by locator, of each namespace
    nameTK,         \* cached pool by name, of the creator
    sentTK,         \* each transfer and approval: see below
    msgTK,          \* the message sent along with a transfer
    minedTK,        \* transfers and approvals on the chain, in order
    storedTK, balanceTK, activeTK,   \* rows of each namespace
    failsTK
poolVarsTK == <<createTK, poolTK, actTK, defTK, rewindsTK, listenTK, locatorTK>>
rowVarsTK == <<storedTK, balanceTK, activeTK>>
varsTK == <<olderTK, publishedTK, poolVarsTK, queueTK, loopTK, nameTK, sentTK, msgTK, minedTK, rowVarsTK, failsTK>>

IdsTK == DOMAIN TransfersTK \cup DOMAIN ApprovalsTK
KeysTK == UNION {{TransfersTK[i].from, TransfersTK[i].to} : i \in DOMAIN TransfersTK} \ {Nobody}
SentBy(i) == IF i \in DOMAIN TransfersTK THEN TransfersTK[i].by ELSE ApprovalsTK[i].by
Resting == [done |-> {}, pool |-> 0, waits |-> 0]

InitTK ==
    /\ olderTK \in BOOLEAN /\ publishedTK \in BOOLEAN
    /\ createTK = "none" /\ poolTK = [s \in NsTK |-> "none"] /\ actTK = [s \in NsTK |-> "none"]
    /\ defTK = [s \in NsTK |-> "none"] /\ rewindsTK = {} /\ listenTK = {} /\ queueTK = <<>>
    /\ loopTK = Resting /\ locatorTK = [s \in NsTK |-> "none"] /\ nameTK = "none"
    /\ sentTK = [i \in IdsTK |-> IF SentBy(i) = 0 THEN "submitted" ELSE "new"]
    /\ msgTK = [i \in DOMAIN TransfersTK |-> "none"] /\ minedTK = <<>>
    /\ storedTK = [s \in NsTK |-> {}] /\ balanceTK = [s \in NsTK |-> [k \in KeysTK |-> 0]]
    /\ activeTK = [s \in NsTK |-> {}] /\ failsTK = 0
-----------------------------------------------------------------------------
(* The connector's events, and who is called for one.                     *)
PoolEvent(s, tx) == [kind |-> "pool", id |-> 0, ns |-> s, tx |-> tx]
Mined(i, s) == [kind |-> IF i \in DOMAIN TransfersTK THEN "transfer" ELSE "approval", id |-> i, ns |-> s, tx |-> FALSE]
PoolData(s) == IF olderTK THEN 0 ELSE s
CalledFor(e) == IF e.ns = 0 THEN NsTK ELSE {e.ns}

(* getPoolByIDOrLocator: the row itself by ID, a cached row by locator.   *)
Present(s) == IF poolTK[s] = "deleted" THEN "none" ELSE poolTK[s]
getPoolByIDOrLocator(s, byID) == IF ~byID /\ locatorTK[s] # "none" THEN locatorTK[s] ELSE Present(s)
CachedAs(s, byID, state) == IF byID THEN locatorTK ELSE [locatorTK EXCEPT ![s] = state]

(* handleTokenPoolDefinition stores the pool, to be activated next.       *)
handleTokenPoolDefinition(s) ==
    /\ poolTK' = [poolTK EXCEPT ![s] = "inactive"]
    /\ actTK' = [actTK EXCEPT ![s] = "todo"]

(* DefineTokenPool: a published pool is broadcast and comes back to all   *)
(* (a second broadcast of it is rejected there); else it is stored.       *)
DefineTokenPool(s) ==
    IF publishedTK
    THEN /\ defTK' = [n \in NsTK |-> IF defTK[n] = "none" THEN "sent" ELSE defTK[n]]
         /\ UNCHANGED <<poolTK, actTK>>
    ELSE handleTokenPoolDefinition(s) /\ UNCHANGED defTK

(* TokenPoolCreated, in the handler of one namespace: confirm the pool it *)
(* has, or define the one it asked the connector to create.               *)
TokenPoolCreated(s, byID, tx) ==
    LET existing == getPoolByIDOrLocator(s, byID)
        Staged == tx /\ s = Creator /\ createTK # "none"
    IN \/ /\ existing = "active" \/ (existing = "none" /\ ~Staged)
          /\ locatorTK' = CachedAs(s, byID, existing)
          /\ UNCHANGED <<poolTK, actTK, defTK, rewindsTK>>
       \/ /\ existing = "inactive"
          /\ poolTK' = [poolTK EXCEPT ![s] = "active"]
          /\ rewindsTK' = IF defTK[s] = "none" THEN rewindsTK ELSE rewindsTK \cup {s}
          /\ locatorTK' = CachedAs(s, byID, "active")
          /\ UNCHANGED <<actTK, defTK>>
       \/ existing = "none" /\ Staged /\ DefineTokenPool(s) /\ UNCHANGED <<rewindsTK, locatorTK>>
-----------------------------------------------------------------------------
(* CreateTokenPool: the operation is run and the connector refuses it,    *)
(* answers with the pool at once (200), or sends an event later (202).    *)
CreateTokenPool ==
    /\ createTK = "none" /\ createTK' = "asked"
    /\ UNCHANGED <<olderTK, publishedTK, poolTK, actTK, defTK, rewindsTK, listenTK, locatorTK, queueTK, loopTK, nameTK, sentTK, msgTK, minedTK, rowVarsTK, failsTK>>
createAnswered ==
    /\ createTK = "asked"
    /\ \/ /\ createTK' = "failed" /\ failsTK < MaxFailsTK /\ failsTK' = failsTK + 1
          /\ UNCHANGED <<poolTK, actTK, defTK, rewindsTK, locatorTK, queueTK>>
       \/ /\ createTK' = "complete" /\ TokenPoolCreated(Creator, TRUE, TRUE)
          /\ UNCHANGED <<queueTK, failsTK>>
       \/ /\ createTK' = "pending" /\ queueTK' = Append(queueTK, PoolEvent(0, TRUE))
          /\ UNCHANGED <<poolTK, actTK, defTK, rewindsTK, locatorTK, failsTK>>
    /\ UNCHANGED <<olderTK, publishedTK, listenTK, loopTK, nameTK, sentTK, msgTK, minedTK, rowVarsTK>>

(* The aggregator hands the broadcast definition to the handler; once the *)
(* pool is active, a rewind confirms the message.                         *)
handleTokenPoolBroadcast(s) ==
    /\ defTK[s] = "sent" /\ poolTK[s] = "none"
    /\ defTK' = [defTK EXCEPT ![s] = "waiting"] /\ handleTokenPoolDefinition(s)
    /\ UNCHANGED <<olderTK, publishedTK, createTK, rewindsTK, listenTK, locatorTK, queueTK, loopTK, nameTK, sentTK, msgTK, minedTK, rowVarsTK, failsTK>>
reconcilePublishedPool(s) ==
    /\ s \in rewindsTK /\ rewindsTK' = rewindsTK \ {s}
    /\ defTK' = IF defTK[s] = "waiting" /\ poolTK[s] = "active" THEN [defTK EXCEPT ![s] = "confirmed"] ELSE defTK
    /\ UNCHANGED <<olderTK, publishedTK, createTK, poolTK, actTK, listenTK, locatorTK, queueTK, loopTK, nameTK, sentTK, msgTK, minedTK, rowVarsTK, failsTK>>

(* ActivateTokenPool.  The connector answers at once (200), by an event   *)
(* (202), or that it has it already (204); or the request fails, before   *)
(* or after it took effect.  A second try is an operation retried by hand: *)
(* the aggregator's own finds the operation and does nothing.             *)
Activations(s) ==
    \/ /\ s \notin listenTK /\ listenTK' = listenTK \cup {s}
       /\ actTK' = [actTK EXCEPT ![s] = "asked"]
       /\ \/ /\ LET existing == Present(s) IN
                IF existing = "inactive"
                THEN /\ poolTK' = [poolTK EXCEPT ![s] = "active"]
                     /\ rewindsTK' = IF defTK[s] = "none" THEN rewindsTK ELSE rewindsTK \cup {s}
                ELSE UNCHANGED <<poolTK, rewindsTK>>
             /\ UNCHANGED queueTK
          \/ queueTK' = Append(queueTK, PoolEvent(PoolData(s), FALSE)) /\ UNCHANGED <<poolTK, rewindsTK>>
       /\ UNCHANGED failsTK
    \/ /\ s \in listenTK /\ actTK' = [actTK EXCEPT ![s] = "asked"]
       /\ UNCHANGED <<listenTK, poolTK, rewindsTK, queueTK, failsTK>>
    \/ /\ failsTK < MaxFailsTK /\ failsTK' = failsTK + 1
       /\ actTK' = [actTK EXCEPT ![s] = "failed"]
       /\ \/ UNCHANGED <<listenTK, queueTK>>
          \/ s \notin listenTK /\ listenTK' = listenTK \cup {s} /\ queueTK' = Append(queueTK, PoolEvent(PoolData(s), FALSE))
       /\ UNCHANGED <<poolTK, rewindsTK>>
ActivateTokenPool(s) ==
    /\ actTK[s] = "todo" /\ Activations(s)
    /\ UNCHANGED <<olderTK, publishedTK, createTK, defTK, locatorTK, loopTK, nameTK, sentTK, msgTK, minedTK, rowVarsTK>>
retryActivation(s) ==
    /\ actTK[s] = "failed" /\ Activations(s)
    /\ UNCHANGED <<olderTK, publishedTK, createTK, defTK, locatorTK, loopTK, nameTK, sentTK, msgTK, minedTK, rowVarsTK>>

(* DeleteTokenPool: rows and caches go, and the connector's listener.     *)
DeleteTokenPool(s) ==
    /\ poolTK[s] \in {"inactive", "active"} /\ ~publishedTK
    /\ poolTK' = [poolTK EXCEPT ![s] = "deleted"] /\ listenTK' = listenTK \ {s}
    /\ locatorTK' = [locatorTK EXCEPT ![s] = "none"] /\ nameTK' = IF s = Creator THEN "none" ELSE nameTK
    /\ storedTK' = [storedTK EXCEPT ![s] = {}] /\ activeTK' = [activeTK EXCEPT ![s] = {}]
    /\ balanceTK' = [balanceTK EXCEPT ![s] = [k \in KeysTK |-> 0]]
    /\ UNCHANGED <<olderTK, publishedTK, createTK, actTK, defTK, rewindsTK, queueTK, loopTK, sentTK, msgTK, minedTK, failsTK>>
-----------------------------------------------------------------------------
(* Mint, burn, transfer and approve: the creator's pool is looked up by   *)
(* name and must be active; the message is stored staged, then the        *)
(* operation is run.                                                      *)
validateTransfer == (IF nameTK = "none" THEN Present(Creator) ELSE nameTK) = "active"
HasMessage(i) == i \in DOMAIN TransfersTK /\ TransfersTK[i].msg
sendInternal(i) ==
    /\ sentTK[i] = "new" /\ Present(Creator) # "none"
    /\ nameTK' = IF nameTK = "none" THEN Present(Creator) ELSE nameTK
    /\ sentTK' = [sentTK EXCEPT ![i] = IF validateTransfer THEN "staged" ELSE "refused"]
    /\ msgTK' = IF validateTransfer /\ HasMessage(i) THEN [msgTK EXCEPT ![i] = "staged"] ELSE msgTK
    /\ UNCHANGED <<olderTK, publishedTK, poolVarsTK, queueTK, loopTK, minedTK, rowVarsTK, failsTK>>
RunTokenOperation(i) ==
    /\ sentTK[i] = "staged"
    /\ \/ sentTK' = [sentTK EXCEPT ![i] = "submitted"] /\ UNCHANGED failsTK
       \/ failsTK < MaxFailsTK /\ sentTK' = [sentTK EXCEPT ![i] = "failed"] /\ failsTK' = failsTK + 1
    /\ UNCHANGED <<olderTK, publishedTK, poolVarsTK, queueTK, loopTK, nameTK, msgTK, minedTK, rowVarsTK>>

(* On the chain: the connector tells every namespace it listens for.      *)
mine(i) ==
    /\ sentTK[i] = "submitted" /\ listenTK # {}
    /\ sentTK' = [sentTK EXCEPT ![i] = "mined"] /\ minedTK' = Append(minedTK, i)
    /\ \E listening \in SetToSeqs(listenTK) :
          queueTK' = queueTK \o (IF olderTK THEN <<Mined(i, 0)>> ELSE [k \in DOMAIN listening |-> Mined(i, listening[k])])
    /\ UNCHANGED <<olderTK, publishedTK, poolVarsTK, loopTK, nameTK, msgTK, rowVarsTK, failsTK>>
-----------------------------------------------------------------------------
(* handleMessage: the handlers of the first event, one after another.     *)
Next1(s) == queueTK # <<>> /\ loopTK.waits = 0 /\ s \in CalledFor(queueTK[1]) \ loopTK.done
handleTokenPoolCreate(s) ==
    /\ Next1(s) /\ queueTK[1].kind = "pool"
    /\ TokenPoolCreated(s, queueTK[1].ns # 0, queueTK[1].tx)
    /\ loopTK' = [loopTK EXCEPT !.done = @ \cup {s}, !.waits = IF actTK' # actTK THEN s ELSE 0]
    /\ UNCHANGED <<olderTK, publishedTK, createTK, listenTK, queueTK, nameTK, sentTK, msgTK, minedTK, rowVarsTK, failsTK>>

(* The confirmation fails and is rolled back; a pool found by its locator *)
(* is the cached object, and stays changed.                               *)
confirmPoolFails(s) ==
    /\ Next1(s) /\ queueTK[1].kind = "pool"
    /\ getPoolByIDOrLocator(s, queueTK[1].ns # 0) = "inactive"
    /\ locatorTK' = CachedAs(s, queueTK[1].ns # 0, "active")
    /\ failsTK < MaxFailsTK /\ failsTK' = failsTK + 1
    /\ UNCHANGED <<olderTK, publishedTK, createTK, poolTK, actTK, defTK, rewindsTK, listenTK, queueTK, loopTK, nameTK, sentTK, msgTK, minedTK, rowVarsTK>>

(* The pool of a transfer: by the ID its object names, which the handler  *)
(* of another namespace may have filled in, else by locator.              *)
PoolOfEvent(s, e) ==
    IF e.ns # 0 THEN Present(s)
    ELSE IF loopTK.pool = 0 THEN getPoolByIDOrLocator(s, FALSE)
    ELSE IF loopTK.pool = s THEN Present(s) ELSE "none"
Filled1(s, e) ==
    /\ loopTK' = [loopTK EXCEPT !.done = @ \cup {s},
                                !.pool = IF e.ns = 0 /\ PoolOfEvent(s, e) # "none" THEN s ELSE @]
    /\ locatorTK' = IF e.ns = 0 /\ loopTK.pool = 0 THEN CachedAs(s, FALSE, PoolOfEvent(s, e)) ELSE locatorTK

Moved(b, t) == [k \in KeysTK |-> b[k] - (IF k = t.from THEN t.n ELSE 0) + (IF k = t.to THEN t.n ELSE 0)]
persistAgain(s, i) ==
    /\ storedTK' = [storedTK EXCEPT ![s] = @ \cup {i}]
    /\ balanceTK' = [balanceTK EXCEPT ![s] = Moved(@, TransfersTK[i])]
persistTokenTransfer(s, i) ==
    /\ i \notin storedTK[s]
    /\ storedTK' = [storedTK EXCEPT ![s] = @ \cup {i}]
    /\ balanceTK' = [balanceTK EXCEPT ![s] = Moved(@, TransfersTK[i])]
releaseMessage(s, i) ==
    IF HasMessage(i)
    THEN IF s = Creator /\ msgTK[i] = "staged" THEN msgTK' = [msgTK EXCEPT ![i] = "ready"] /\ UNCHANGED rewindsTK
         ELSE rewindsTK' = rewindsTK \cup {s} /\ UNCHANGED msgTK
    ELSE UNCHANGED <<msgTK, rewindsTK>>
TokensTransferred(s) ==
    /\ Next1(s) /\ queueTK[1].kind = "transfer"
    /\ LET e == queueTK[1] IN
       /\ \/ /\ PoolOfEvent(s, e) # "none"
             /\ persistTokenTransfer(s, e.id) /\ releaseMessage(s, e.id)
          \/ /\ PoolOfEvent(s, e) = "none" \/ e.id \in storedTK[s]
             /\ UNCHANGED <<storedTK, balanceTK, msgTK, rewindsTK>>
       /\ Filled1(s, e)
    /\ UNCHANGED <<olderTK, publishedTK, createTK, poolTK, actTK, defTK, listenTK, queueTK, nameTK, sentTK, minedTK, activeTK, failsTK>>

persistTokenApproval(s, i) ==
    activeTK' = IF i \in storedTK[s] THEN activeTK
                ELSE [activeTK EXCEPT ![s] = {j \in @ : ApprovalsTK[j].subject # ApprovalsTK[i].subject} \cup {i}]
TokensApproved(s) ==
    /\ Next1(s) /\ queueTK[1].kind = "approval"
    /\ LET e == queueTK[1] IN
       /\ IF PoolOfEvent(s, e) # "none"
          THEN persistTokenApproval(s, e.id) /\ storedTK' = [storedTK EXCEPT ![s] = @ \cup {e.id}]
          ELSE UNCHANGED <<activeTK, storedTK>>
       /\ Filled1(s, e)
    /\ UNCHANGED <<olderTK, publishedTK, createTK, poolTK, actTK, defTK, rewindsTK, listenTK, queueTK, nameTK, sentTK, msgTK, minedTK, balanceTK, failsTK>>

(* The loop goes on when the activation it waits for has an answer; an    *)
(* error makes it handle the whole event again.                           *)
activationAnswered ==
    /\ loopTK.waits # 0 /\ actTK[loopTK.waits] # "todo"
    /\ loopTK' = IF actTK[loopTK.waits] = "failed" THEN Resting ELSE [loopTK EXCEPT !.waits = 0]
    /\ UNCHANGED <<olderTK, publishedTK, poolVarsTK, queueTK, nameTK, sentTK, msgTK, minedTK, rowVarsTK, failsTK>>
ackTK ==
    /\ queueTK # <<>> /\ loopTK.waits = 0 /\ loopTK.done = CalledFor(queueTK[1])
    /\ queueTK' = Tail(queueTK) /\ loopTK' = Resting
    /\ UNCHANGED <<olderTK, publishedTK, poolVarsTK, nameTK, sentTK, msgTK, minedTK, rowVarsTK, failsTK>>

(* A restart: the caches are empty, what is not acknowledged comes again, *)
(* and an activation that was not sent is left behind.                    *)
restartTK ==
    /\ failsTK < MaxFailsTK /\ failsTK' = failsTK + 1
    /\ loopTK' = Resting /\ locatorTK' = [s \in NsTK |-> "none"] /\ nameTK' = "none" /\ rewindsTK' = {}
    /\ actTK' = [s \in NsTK |-> IF actTK[s] = "todo" THEN "failed" ELSE actTK[s]]
    /\ UNCHANGED <<olderTK, publishedTK, createTK, poolTK, defTK, listenTK, queueTK, sentTK, msgTK, minedTK, rowVarsTK>>
cacheExpiresTK ==
    /\ nameTK # "none" \/ \E s \in NsTK : locatorTK[s] # "none"
    /\ failsTK < MaxFailsTK /\ failsTK' = failsTK + 1
    /\ nameTK' = "none" /\ locatorTK' = [s \in NsTK |-> "none"]
    /\ UNCHANGED <<olderTK, publishedTK, createTK, poolTK, actTK, defTK, rewindsTK, listenTK, queueTK, loopTK, sentTK, msgTK, minedTK, rowVarsTK>>

NextTK ==
    \/ CreateTokenPool \/ createAnswered \/ activationAnswered \/ ackTK \/ restartTK \/ cacheExpiresTK
    \/ \E s \in NsTK : \/ handleTokenPoolBroadcast(s) \/ reconcilePublishedPool(s) \/ ActivateTokenPool(s)
                       \/ retryActivation(s) \/ DeleteTokenPool(s) \/ handleTokenPoolCreate(s) \/ confirmPoolFails(s)
                       \/ TokensTransferred(s) \/ TokensApproved(s)
    \/ \E i \in IdsTK : sendInternal(i) \/ RunTokenOperation(i) \/ mine(i)
SpecTK == InitTK /\ [][NextTK]_varsTK
-----------------------------------------------------------------------------
(* A balance is the sum of the transfers stored, each counted once: what  *)
(* is delivered again, retried or handled after a restart changes nothing. *)
BalancesAddUp ==
    \A s \in NsTK, k \in KeysTK :
       balanceTK[s][k] = SumOver([i \in DOMAIN TransfersTK |-> Moved([j \in KeysTK |-> 0], TransfersTK[i])[k]],
                                 storedTK[s] \cap DOMAIN TransfersTK)

(* Of the approvals of one subject that a namespace has stored, the one   *)
(* that came last on the chain is active, and no other.                   *)
PositionTK(i) == CHOOSE p \in DOMAIN minedTK : minedTK[p] = i
LastApprovalActive ==
    \A s \in NsTK : activeTK[s] =
       {i \in storedTK[s] \cap DOMAIN ApprovalsTK :
          \A j \in storedTK[s] \cap DOMAIN ApprovalsTK :
             ApprovalsTK[i].subject = ApprovalsTK[j].subject => PositionTK(j) <= PositionTK(i)}

(* A message that waits for its transfer is let go with it: the creator   *)
(* never stores the one and keeps back the other.                         *)
MessageReleased ==
    \A i \in DOMAIN TransfersTK : i \in storedTK[Creator] => msgTK[i] # "staged"
=============================================================================
