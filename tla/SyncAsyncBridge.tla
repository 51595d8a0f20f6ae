-------------------------- MODULE SyncAsyncBridge --------------------------
(***************************************************************************)
(* The bridge of internal/syncasync: an API call that waits registers a    *)
(* request in the in-flight table, sends, and waits for the answer or for  *)
(* its context to end.  A listener for system events finds the requests an *)
(* event is about and starts one goroutine for each answer, which blocks   *)
(* on the request's unbuffered channel until the request takes it, for     *)
(* ever if the request is gone.                                            *)
(***************************************************************************)
EXTENDS Integers, Sequences, FiniteSets

CONSTANTS
    Req,         \* requests, by the identifier they wait for
    ReqTypes,    \* the WaitFor functions that are called
    MaxEvents    \* bound: events that the node emits

(* A request has an identifier of its own, which no message, operation or *)
(* reply that others create has, and no request has an empty one.         *)
WaitTypes == {"messageConfirm", "messageReply", "identityConfirm", "tokenPoolConfirm",
              "tokenTransferConfirm", "tokenApproveConfirm",
              "invokeOperationConfirm", "deployOperationConfirm"}
ASSUME BridgeAssumption == /\ ReqTypes \subseteq WaitTypes
                           /\ Req \cap {"-", "reply", "op", "msg"} = {}

VARIABLES
    typeSA,      \* typeSA[r]: which WaitFor function was called for r
    stepSA,      \* stepSA[r]: where the goroutine of the API call is
    inflightSA,  \* the in-flight table: the registered requests
    listenSA,    \* the subscription for system events: "off", "starting", "on"
    queueSA,     \* system events to be delivered, in order
    emittedSA,   \* (history) events emitted
    heardSA,     \* (history) events emitted when the subscription was on
    callbackSA,  \* the event of the eventCallback that holds inflightMux, or <<>>
    answersSA,   \* resolver goroutines: records [req, event, ok]
    resultSA     \* resultSA[r]: what the API call returned
varsSA == <<typeSA, stepSA, inflightSA, listenSA, queueSA, emittedSA, heardSA,
            callbackSA, answersSA, resultSA>>

(* The WaitFor functions differ in the type of request they register.     *)
WaitFor == typeSA \in [Req -> ReqTypes]

InitSA == /\ WaitFor
          /\ stepSA = [r \in Req |-> "new"] /\ inflightSA = {} /\ listenSA = "off"
          /\ queueSA = <<>> /\ emittedSA = {} /\ heardSA = {} /\ callbackSA = <<>>
          /\ answersSA = {} /\ resultSA = [r \in Req |-> "none"]

MutexFree == callbackSA = <<>>

(* addInFlight comes before the send.  The first one adds the listener    *)
(* for system events, and fails when it cannot be added.                  *)
addInFlight(r) ==
    /\ stepSA[r] = "new" /\ MutexFree
    /\ \/ /\ stepSA' = [stepSA EXCEPT ![r] = "registered"]
          /\ inflightSA' = inflightSA \cup {r}
          /\ listenSA' = IF listenSA = "off" THEN "starting" ELSE listenSA
          /\ UNCHANGED resultSA
       \/ /\ listenSA = "off"
          /\ stepSA' = [stepSA EXCEPT ![r] = "returned"]
          /\ resultSA' = [resultSA EXCEPT ![r] = "error"]
          /\ UNCHANGED <<inflightSA, listenSA>>
    /\ UNCHANGED <<typeSA, queueSA, emittedSA, heardSA, callbackSA, answersSA>>

(* AddListener asks for a subscription from the newest event on.  Its     *)
(* dispatcher reads which event that is in a goroutine of its own.        *)
listenerStarts ==
    /\ listenSA = "starting"
    /\ listenSA' = "on"
    /\ UNCHANGED <<typeSA, stepSA, inflightSA, queueSA, emittedSA, heardSA, callbackSA, answersSA, resultSA>>

(* send: the request is on its way before send returns, so that events    *)
(* about it may come first; send may also fail, before or after that.     *)
sendStarts(r) ==
    /\ stepSA[r] = "registered"
    /\ stepSA' = [stepSA EXCEPT ![r] = "sending"]
    /\ UNCHANGED <<typeSA, inflightSA, listenSA, queueSA, emittedSA, heardSA, callbackSA, answersSA, resultSA>>
sendReturns(r) ==
    /\ stepSA[r] = "sending"
    /\ \/ stepSA' = [stepSA EXCEPT ![r] = "waiting"] /\ UNCHANGED resultSA
       \/ /\ stepSA' = [stepSA EXCEPT ![r] = "leaving"]
          /\ resultSA' = [resultSA EXCEPT ![r] = "error"]
    /\ UNCHANGED <<typeSA, inflightSA, listenSA, queueSA, emittedSA, heardSA, callbackSA, answersSA>>

(* What the node emits about a request (external): the events that end    *)
(* the wait for it.                                                       *)
Ev(type, ref, corr) == [type |-> type, ref |-> ref, corr |-> corr]
EventsOf(r) ==
    CASE typeSA[r] = "messageConfirm" -> {Ev("MessageConfirmed", r, "-"), Ev("MessageRejected", r, "-")}
      [] typeSA[r] = "messageReply" -> {Ev("MessageConfirmed", "reply", r)}
      [] typeSA[r] = "identityConfirm" -> {Ev("IdentityConfirmed", r, "-")}
      [] typeSA[r] = "tokenPoolConfirm" -> {Ev("PoolConfirmed", r, "-"), Ev("PoolOpFailed", "op", r),
                                            Ev("MessageRejected", "msg", r)}
      [] typeSA[r] = "tokenTransferConfirm" -> {Ev("TransferConfirmed", r, "-"), Ev("TransferOpFailed", "op", r)}
      [] typeSA[r] = "tokenApproveConfirm" -> {Ev("ApprovalConfirmed", r, "-"), Ev("ApprovalOpFailed", "op", r)}
      [] typeSA[r] = "invokeOperationConfirm" -> {Ev("InvokeOpSucceeded", r, "-"), Ev("InvokeOpFailed", r, "-")}
      [] typeSA[r] = "deployOperationConfirm" -> {Ev("DeployOpSucceeded", r, "-"), Ev("DeployOpFailed", r, "-")}
OwnConfirmation(r) == {Ev("MessageConfirmed", r, "-")}
emit(r, e) ==
    /\ stepSA[r] \notin {"new", "registered"}
    /\ e \notin emittedSA /\ Cardinality(emittedSA) < MaxEvents       \* bound
    /\ emittedSA' = emittedSA \cup {e}
    /\ IF listenSA = "on" THEN queueSA' = Append(queueSA, e) /\ heardSA' = heardSA \cup {e}
                           ELSE UNCHANGED <<queueSA, heardSA>>
    /\ UNCHANGED <<typeSA, stepSA, inflightSA, listenSA, callbackSA, answersSA, resultSA>>

(* The handlers: for each type of event, which requests it answers, looked *)
(* up by the event's reference or by its correlator, and how.             *)
MessageHandlers(e) ==
    CASE e.type = "MessageConfirmed" -> {<<"messageReply", e.corr, TRUE>>, <<"messageConfirm", e.ref, TRUE>>}
      [] e.type = "MessageRejected" -> {<<"messageConfirm", e.ref, FALSE>>, <<"tokenPoolConfirm", e.corr, FALSE>>}
      [] OTHER -> {}
PoolAndIdentityHandlers(e) ==
    CASE e.type = "IdentityConfirmed" -> {<<"identityConfirm", e.ref, TRUE>>}
      [] e.type = "PoolConfirmed" -> {<<"tokenPoolConfirm", e.ref, TRUE>>}
      [] e.type = "PoolOpFailed" -> {<<"tokenPoolConfirm", e.corr, FALSE>>}
      [] OTHER -> {}
TokenHandlers(e) ==
    CASE e.type = "TransferConfirmed" -> {<<"tokenTransferConfirm", e.ref, TRUE>>}
      [] e.type = "TransferOpFailed" -> {<<"tokenTransferConfirm", e.corr, FALSE>>}
      [] e.type = "ApprovalConfirmed" -> {<<"tokenApproveConfirm", e.ref, TRUE>>}
      [] e.type = "ApprovalOpFailed" -> {<<"tokenApproveConfirm", e.corr, FALSE>>}
      [] OTHER -> {}
OperationHandlers(e) ==
    CASE e.type = "InvokeOpSucceeded" -> {<<"invokeOperationConfirm", e.ref, TRUE>>}
      [] e.type = "InvokeOpFailed" -> {<<"invokeOperationConfirm", e.ref, FALSE>>}
      [] e.type = "DeployOpSucceeded" -> {<<"deployOperationConfirm", e.ref, TRUE>>}
      [] e.type = "DeployOpFailed" -> {<<"deployOperationConfirm", e.ref, FALSE>>}
      [] OTHER -> {}
Handled(e) == MessageHandlers(e) \cup PoolAndIdentityHandlers(e)
              \cup TokenHandlers(e) \cup OperationHandlers(e)

getInFlight(type, id) == {r \in inflightSA : r = id /\ typeSA[r] = type}

(* eventCallback takes the lock, and holds it while it reads the object   *)
(* the event is about.                                                    *)
eventCallback ==
    /\ MutexFree /\ queueSA # <<>>
    /\ callbackSA' = <<Head(queueSA)>>
    /\ UNCHANGED <<typeSA, stepSA, inflightSA, listenSA, queueSA, emittedSA, heardSA, answersSA, resultSA>>

Answers(e) == UNION {{[req |-> r, event |-> e, ok |-> h[3]] : r \in getInFlight(h[1], h[2])}
                       : h \in Handled(e)}

(* One goroutine per request found (go sa.resolve...); the answer to a    *)
(* reply is given up when its data cannot be read.                        *)
resolve ==
    /\ callbackSA # <<>>
    /\ \/ answersSA' = answersSA \cup Answers(callbackSA[1])
       \/ answersSA' = answersSA \cup
             {a \in Answers(callbackSA[1]) : typeSA[a.req] # "messageReply"}
    /\ callbackSA' = <<>> /\ queueSA' = Tail(queueSA)
    /\ UNCHANGED <<typeSA, stepSA, inflightSA, listenSA, emittedSA, heardSA, resultSA>>

(* The read of the object fails: the event is delivered again.            *)
callbackFails ==
    /\ callbackSA # <<>> /\ Answers(callbackSA[1]) # {}
    /\ callbackSA' = <<>>
    /\ UNCHANGED <<typeSA, stepSA, inflightSA, listenSA, queueSA, emittedSA, heardSA, answersSA, resultSA>>

(* The select of sendAndWait: an answer, or the end of the context.       *)
receive(r) ==
    /\ stepSA[r] = "waiting"
    /\ \E a \in answersSA :
          /\ a.req = r
          /\ answersSA' = answersSA \ {a}
          /\ resultSA' = [resultSA EXCEPT ![r] = IF a.ok THEN "ok" ELSE "rejected"]
    /\ stepSA' = [stepSA EXCEPT ![r] = "leaving"]
    /\ UNCHANGED <<typeSA, inflightSA, listenSA, queueSA, emittedSA, heardSA, callbackSA>>
timeout(r) ==
    /\ stepSA[r] = "waiting"
    /\ stepSA' = [stepSA EXCEPT ![r] = "leaving"]
    /\ resultSA' = [resultSA EXCEPT ![r] = "timeout"]
    /\ UNCHANGED <<typeSA, inflightSA, listenSA, queueSA, emittedSA, heardSA, callbackSA, answersSA>>

(* removeInFlight, deferred: every way out of sendAndWait takes the lock. *)
removeInFlight(r) ==
    /\ stepSA[r] = "leaving" /\ MutexFree
    /\ inflightSA' = inflightSA \ {r}
    /\ stepSA' = [stepSA EXCEPT ![r] = "returned"]
    /\ UNCHANGED <<typeSA, listenSA, queueSA, emittedSA, heardSA, callbackSA, answersSA, resultSA>>

NextSA == \/ listenerStarts \/ eventCallback \/ resolve \/ callbackFails
          \/ \E r \in Req : \/ addInFlight(r) \/ sendStarts(r) \/ sendReturns(r)
                            \/ receive(r) \/ timeout(r) \/ removeInFlight(r)
                            \/ \E e \in EventsOf(r) : emit(r, e)
                            \/ \E e \in OwnConfirmation(r) : typeSA[r] = "messageReply" /\ emit(r, e)

SpecSA == InitSA /\ [][NextSA]_varsSA

(* Fairness: the deliverer of system events, and the database it reads    *)
(* from, keep going, and a call takes an answer that is offered. Nothing  *)
(* forces a timeout or an event.                                          *)
FairSA ==
    /\ WF_varsSA(eventCallback) /\ SF_varsSA(resolve)
    /\ \A r \in Req : WF_varsSA(receive(r))
-----------------------------------------------------------------------------
(* An answer offered to a call comes from an event that its WaitFor       *)
(* function waits for, although the table is looked up by identifiers     *)
(* that other kinds of object use too, and only after its send began.     *)
AnswersAreOwn ==
    \A a \in answersSA : /\ a.event \in EventsOf(a.req)
                         /\ stepSA[a.req] \notin {"new", "registered"}

(* The table forgets every request that has returned: nothing but calls   *)
(* in progress keeps later events looking for requests.                   *)
NothingLeftInFlight == \A r \in inflightSA : stepSA[r] # "returned"

(* The lock is never held for ever: every event that was heard is handled,*)
(* also when its request times out while the callback looks it up.        *)
EventsHandled == []<>(queueSA = <<>>)

(* A call that waits when an event that answers it was heard returns. A   *)
(* reply whose data cannot be read is the exception.                      *)
AnsweredInTime ==
    []<>(~\E r \in Req : /\ stepSA[r] = "waiting" /\ typeSA[r] # "messageReply"
                          /\ EventsOf(r) \cap heardSA # {})
=============================================================================
