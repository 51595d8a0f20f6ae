------------------------- MODULE NodeOutboundProofs -------------------------
(***************************************************************************)
(* Proofs about the components of a node through which calls go out, for   *)
(* any requests, calls, keys, batches, workers and bounds: the bridge that *)
(* waits for answers, the writer of transactions and operations, the       *)
(* writer of messages, and the dispatch of a batch.                        *)
(***************************************************************************)
EXTENDS MCNode, FiniteSetTheorems, TLAPS

---------------------------------------------------------------------------
(* The node's specification is that of each of its parts *)

(* Each component of the node starts in its initial state.                 *)
LEMMA NodeInits == ASSUME Init PROVE InitSA /\ InitO /\ InitMW /\ InitBD
  BY DEF Init

(* A step of the node is for each component a step of it or none.          *)
LEMMA NodeSteps ==
  ASSUME [Next]_varsNode
  PROVE  [NextSA]_varsSA /\ [NextO]_varsO /\ [NextMW]_varsMW /\ [NextBD]_varsBD
<1>1. CASE UNCHANGED varsNode
  BY <1>1 DEF varsNode
<1>2. CASE Next
  BY <1>2 DEF Next
<1> QED BY <1>1, <1>2

---------------------------------------------------------------------------
(* The sync-async bridge *)

(* The table has the calls that have registered and not returned; every    *)
(* event on its way is about a call whose send has begun.                  *)
Sending(r) == stepSA[r] \notin {"new", "registered"}
About(r, e) == e \in EventsOf(r) \/ (typeSA[r] = "messageReply" /\ e \in OwnConfirmation(r))
InTable == \A r \in inflightSA : stepSA[r] \notin {"new", "returned"}
EmittedAbout == \A e \in emittedSA : \E r \in Req : Sending(r) /\ About(r, e)
HeldEmitted == callbackSA # <<>> => callbackSA[1] \in emittedSA /\ queueSA # <<>>
TypeSA ==
    /\ typeSA \in [Req -> WaitTypes]
    /\ DOMAIN stepSA = Req
    /\ inflightSA \subseteq Req
    /\ queueSA \in Seq(emittedSA)
    /\ \A a \in answersSA : a.req \in Req
BridgeInv == TypeSA /\ InTable /\ EmittedAbout /\ HeldEmitted /\ AnswersAreOwn

(* No caller waits at first.                                               *)
LEMMA BridgeInit == ASSUME InitSA PROVE BridgeInv
<1>1. typeSA \in [Req -> WaitTypes]
  BY BridgeAssumption DEF InitSA, WaitFor
<1> QED BY <1>1 DEF InitSA, BridgeInv, TypeSA, InTable, EmittedAbout, HeldEmitted, AnswersAreOwn

(* A handler looks the table up by the reference of the event or by its    *)
(* correlator; the one by correlator for a message confirmed is for replies. *)
LEMMA LooksUp ==
  ASSUME NEW e, NEW h \in Handled(e)
  PROVE  /\ h[2] = e.ref \/ h[2] = e.corr
         /\ e.type = "MessageConfirmed" =>
               \/ h[1] = "messageReply" /\ h[2] = e.corr
               \/ h[1] = "messageConfirm" /\ h[2] = e.ref
<1> DEFINE Found == /\ h[2] = e.ref \/ h[2] = e.corr
                    /\ e.type = "MessageConfirmed" =>
                          \/ h[1] = "messageReply" /\ h[2] = e.corr
                          \/ h[1] = "messageConfirm" /\ h[2] = e.ref
<1>1. ASSUME h \in MessageHandlers(e) PROVE Found
  <2>1. CASE e.type = "MessageConfirmed"
    <3>1. MessageHandlers(e) = {<<"messageReply", e.corr, TRUE>>, <<"messageConfirm", e.ref, TRUE>>}
      BY <2>1 DEF MessageHandlers
    <3>2. CASE h = <<"messageReply", e.corr, TRUE>>
      BY <3>2
    <3>3. CASE h = <<"messageConfirm", e.ref, TRUE>>
      BY <3>3
    <3> QED BY <3>1, <3>2, <3>3, <1>1
  <2>2. CASE e.type = "MessageRejected"
    <3>1. MessageHandlers(e) = {<<"messageConfirm", e.ref, FALSE>>, <<"tokenPoolConfirm", e.corr, FALSE>>}
      BY <2>2 DEF MessageHandlers
    <3>2. CASE h = <<"messageConfirm", e.ref, FALSE>>
      BY <3>2, <2>2
    <3>3. CASE h = <<"tokenPoolConfirm", e.corr, FALSE>>
      BY <3>3, <2>2
    <3> QED BY <3>1, <3>2, <3>3, <1>1
  <2> QED BY <2>1, <2>2, <1>1 DEF MessageHandlers
<1>2. ASSUME h \in PoolAndIdentityHandlers(e) PROVE Found
  <2>1. CASE e.type = "IdentityConfirmed"
    BY <2>1, <1>2 DEF PoolAndIdentityHandlers
  <2>2. CASE e.type = "PoolConfirmed"
    BY <2>2, <1>2 DEF PoolAndIdentityHandlers
  <2>3. CASE e.type = "PoolOpFailed"
    BY <2>3, <1>2 DEF PoolAndIdentityHandlers
  <2> QED BY <2>1, <2>2, <2>3, <1>2 DEF PoolAndIdentityHandlers
<1>3. ASSUME h \in TokenHandlers(e) PROVE Found
  <2>1. CASE e.type = "TransferConfirmed"
    BY <2>1, <1>3 DEF TokenHandlers
  <2>2. CASE e.type = "TransferOpFailed"
    BY <2>2, <1>3 DEF TokenHandlers
  <2>3. CASE e.type = "ApprovalConfirmed"
    BY <2>3, <1>3 DEF TokenHandlers
  <2>4. CASE e.type = "ApprovalOpFailed"
    BY <2>4, <1>3 DEF TokenHandlers
  <2> QED BY <2>1, <2>2, <2>3, <2>4, <1>3 DEF TokenHandlers
<1>4. ASSUME h \in OperationHandlers(e) PROVE Found
  <2>1. CASE e.type = "InvokeOpSucceeded"
    BY <2>1, <1>4 DEF OperationHandlers
  <2>2. CASE e.type = "InvokeOpFailed"
    BY <2>2, <1>4 DEF OperationHandlers
  <2>3. CASE e.type = "DeployOpSucceeded"
    BY <2>3, <1>4 DEF OperationHandlers
  <2>4. CASE e.type = "DeployOpFailed"
    BY <2>4, <1>4 DEF OperationHandlers
  <2> QED BY <2>1, <2>2, <2>3, <2>4, <1>4 DEF OperationHandlers
<1> QED BY <1>1, <1>2, <1>3, <1>4 DEF Handled

(* An answer goes to a call that waits for its event: the identifiers by   *)
(* which a handler looks up the table belong to one call, and the types by *)
(* which it does, to the functions that wait for such an event.            *)
LEMMA AnswersMeet ==
  ASSUME BridgeInv, NEW e \in emittedSA, NEW a \in Answers(e)
  PROVE  a.req \in Req /\ a.event = e /\ e \in EventsOf(a.req) /\ Sending(a.req)
<1>0. PICK h \in Handled(e) : \E r \in getInFlight(h[1], h[2]) : a = [req |-> r, event |-> e, ok |-> h[3]]
  BY DEF Answers
<1>1. PICK r \in getInFlight(h[1], h[2]) : a = [req |-> r, event |-> e, ok |-> h[3]]
  BY <1>0
<1>2. a.req = r /\ a.event = e /\ r = h[2] /\ typeSA[r] = h[1] /\ r \in Req
  BY <1>1 DEF getInFlight, BridgeInv, TypeSA
<1>3. PICK c \in Req : Sending(c) /\ About(c, e)
  BY DEF BridgeInv, EmittedAbout
<1>4. typeSA[c] \in WaitTypes /\ ~(r \in {"-", "reply", "op", "msg"})
  BY <1>2, BridgeAssumption DEF BridgeInv, TypeSA
<1>5. /\ e = [type |-> e.type, ref |-> e.ref, corr |-> e.corr]
      /\ e.ref = c \/ e.corr = c
      /\ e.ref \in {c, "-", "reply", "op", "msg"} /\ e.corr \in {c, "-", "reply", "op", "msg"}
  BY <1>3, <1>4 DEF About, EventsOf, OwnConfirmation, Ev, WaitTypes
<1>6. h[2] = e.ref \/ h[2] = e.corr
  BY <1>0, LooksUp
<1>7. r = c
  BY <1>2, <1>4, <1>5, <1>6
<1>8. e \in EventsOf(c)
  <2>1. CASE e \in EventsOf(c) BY <2>1
  <2>2. CASE typeSA[c] = "messageReply" /\ e \in OwnConfirmation(c)
    <3>1. e.type = "MessageConfirmed" /\ e.ref = c /\ e.corr = "-"
      BY <2>2 DEF OwnConfirmation, Ev
    <3>2. h[1] = "messageReply" /\ h[2] = "-"
      BY <1>0, <1>2, <1>7, <2>2, <3>1, LooksUp
    <3> QED BY <3>2, <1>2, <1>4
  <2> QED BY <1>3, <2>1, <2>2 DEF About
<1> QED BY <1>2, <1>3, <1>7, <1>8

(* A call that has begun to send has begun for good.                       *)
LEMMA SendingStays ==
  ASSUME BridgeInv, [NextSA]_varsSA, NEW r \in Req
  PROVE  /\ typeSA' = typeSA /\ DOMAIN stepSA' = Req
         /\ Sending(r) => Sending(r)'
         /\ \A e : About(r, e) => About(r, e)'
<1>0. DOMAIN stepSA = Req BY DEF BridgeInv, TypeSA
<1>1. typeSA' = typeSA /\ DOMAIN stepSA' = Req /\ (Sending(r) => Sending(r)')
  <2>1. CASE UNCHANGED stepSA /\ UNCHANGED typeSA
    BY <2>1, <1>0 DEF Sending
  <2>2. ASSUME NEW c \in Req, NEW to, stepSA' = [stepSA EXCEPT ![c] = to], UNCHANGED typeSA,
               to \in {"sending", "waiting", "leaving", "returned"} \/ stepSA[c] = "new"
        PROVE  typeSA' = typeSA /\ DOMAIN stepSA' = Req /\ (Sending(r) => Sending(r)')
    BY <2>2, <1>0 DEF Sending
  <2>3. CASE UNCHANGED varsSA BY <2>3, <2>1 DEF varsSA
  <2>4. CASE listenerStarts \/ eventCallback \/ resolve \/ callbackFails
    BY <2>4, <2>1 DEF listenerStarts, eventCallback, resolve, callbackFails
  <2>5. ASSUME NEW c \in Req, addInFlight(c) PROVE typeSA' = typeSA /\ DOMAIN stepSA' = Req /\ (Sending(r) => Sending(r)')
    BY <2>5, <2>2 DEF addInFlight
  <2>6. ASSUME NEW c \in Req, sendStarts(c) \/ sendReturns(c) \/ receive(c) \/ timeout(c) \/ removeInFlight(c)
        PROVE typeSA' = typeSA /\ DOMAIN stepSA' = Req /\ (Sending(r) => Sending(r)')
    BY <2>6, <2>2 DEF sendStarts, sendReturns, receive, timeout, removeInFlight
  <2>7. ASSUME NEW c \in Req, NEW e, emit(c, e) PROVE typeSA' = typeSA /\ DOMAIN stepSA' = Req /\ (Sending(r) => Sending(r)')
    BY <2>7, <2>1 DEF emit
  <2> QED BY <2>3, <2>4, <2>5, <2>6, <2>7 DEF NextSA
<1> QED BY <1>1 DEF About, EventsOf, OwnConfirmation

(* Every step leaves the bridge well typed, and in its table only what     *)
(* waits.                                                                  *)
LEMMA BridgeTypes == ASSUME BridgeInv, [NextSA]_varsSA PROVE TypeSA' /\ InTable'
<1>0. TypeSA /\ InTable BY DEF BridgeInv
<1>1. CASE UNCHANGED varsSA BY <1>0, <1>1 DEF varsSA, TypeSA, InTable
<1>2. CASE listenerStarts \/ eventCallback \/ callbackFails
  BY <1>0, <1>2 DEF listenerStarts, eventCallback, callbackFails, TypeSA, InTable
<1>3. CASE resolve
  <2>1. callbackSA # <<>> /\ HeldEmitted BY <1>3 DEF resolve, BridgeInv
  <2>2. \A a \in Answers(callbackSA[1]) : a.req \in Req
    BY <2>1, AnswersMeet DEF HeldEmitted
  <2>3. queueSA # <<>> BY <2>1 DEF HeldEmitted
  <2> QED BY <1>0, <1>3, <2>2, <2>3 DEF resolve, TypeSA, InTable
<1>4. ASSUME NEW r \in Req, addInFlight(r) PROVE TypeSA' /\ InTable'
  BY <1>0, <1>4 DEF addInFlight, TypeSA, InTable
<1>5. ASSUME NEW r \in Req, sendStarts(r) \/ sendReturns(r) \/ receive(r) \/ timeout(r) \/ removeInFlight(r)
      PROVE  TypeSA' /\ InTable'
  <2>1. /\ typeSA' = typeSA /\ DOMAIN stepSA' = Req /\ inflightSA' \subseteq inflightSA
        /\ queueSA' = queueSA /\ emittedSA' = emittedSA /\ answersSA' \subseteq answersSA
    BY <1>0, <1>5 DEF sendStarts, sendReturns, receive, timeout, removeInFlight, TypeSA
  <2>2. TypeSA' BY <1>0, <2>1 DEF TypeSA
  <2>3. InTable' BY <1>0, <1>5 DEF sendStarts, sendReturns, receive, timeout, removeInFlight, TypeSA, InTable
  <2> QED BY <2>2, <2>3
<1>6. ASSUME NEW r \in Req, NEW e, emit(r, e) PROVE TypeSA' /\ InTable'
  <2>1. /\ UNCHANGED <<typeSA, stepSA, inflightSA, answersSA>>
        /\ emittedSA' = emittedSA \cup {e} /\ (queueSA' = queueSA \/ queueSA' = Append(queueSA, e))
    BY <1>6 DEF emit
  <2>2. queueSA' \in Seq(emittedSA') BY <1>0, <2>1 DEF TypeSA
  <2>3. TypeSA' BY <1>0, <2>1, <2>2 DEF TypeSA
  <2> QED BY <1>0, <2>1, <2>3 DEF InTable
<1> QED BY <1>1, <1>2, <1>3, <1>4, <1>5, <1>6 DEF NextSA

(* Every step of the bridge keeps its invariant.                           *)
LEMMA BridgeStep == ASSUME BridgeInv, [NextSA]_varsSA PROVE BridgeInv'
<1>1. TypeSA' /\ InTable' BY BridgeTypes
<1>2. \A r \in Req : /\ typeSA' = typeSA /\ (Sending(r) => Sending(r)')
                     /\ \A e : About(r, e) => About(r, e)'
  BY SendingStays
<1>3. \A r \in Req : EventsOf(r)' = EventsOf(r)
  BY <1>2 DEF EventsOf
<1>4. EmittedAbout'
  <2>1. CASE emittedSA' = emittedSA BY <2>1, <1>2 DEF EmittedAbout, BridgeInv
  <2>2. ASSUME NEW c \in Req, NEW e, emit(c, e), About(c, e) PROVE EmittedAbout'
    <3>1. emittedSA' = emittedSA \cup {e} /\ Sending(c) BY <2>2 DEF emit, Sending
    <3> QED BY <3>1, <2>2, <1>2 DEF EmittedAbout, BridgeInv
  <2>3. CASE UNCHANGED varsSA BY <2>3, <2>1 DEF varsSA
  <2>4. CASE listenerStarts \/ eventCallback \/ resolve \/ callbackFails
    BY <2>4, <2>1 DEF listenerStarts, eventCallback, resolve, callbackFails
  <2>5. ASSUME NEW c \in Req, addInFlight(c) \/ sendStarts(c) \/ sendReturns(c) \/ receive(c) \/ timeout(c) \/ removeInFlight(c)
        PROVE  EmittedAbout'
    BY <2>5, <2>1 DEF addInFlight, sendStarts, sendReturns, receive, timeout, removeInFlight
  <2> QED BY <2>2, <2>3, <2>4, <2>5 DEF NextSA, About
<1>5. HeldEmitted'
  <2>0. HeldEmitted /\ queueSA \in Seq(emittedSA) BY DEF BridgeInv, TypeSA
  <2>1. CASE /\ callbackSA' = <<>> \/ (callbackSA' = callbackSA /\ (queueSA # <<>> => queueSA' # <<>>))
             /\ emittedSA \subseteq emittedSA'
    BY <2>0, <2>1 DEF HeldEmitted
  <2>2. CASE eventCallback
    <3>1. queueSA # <<>> /\ callbackSA' = <<Head(queueSA)>> /\ UNCHANGED <<emittedSA, queueSA>>
      BY <2>2 DEF eventCallback
    <3>2. Head(queueSA) \in emittedSA BY <2>0, <3>1
    <3> QED BY <3>1, <3>2 DEF HeldEmitted
  <2>3. CASE UNCHANGED varsSA BY <2>3, <2>1 DEF varsSA
  <2>4. CASE listenerStarts \/ resolve \/ callbackFails
    BY <2>4, <2>1 DEF listenerStarts, resolve, callbackFails
  <2>5. ASSUME NEW c \in Req, addInFlight(c) \/ sendStarts(c) \/ sendReturns(c) \/ receive(c) \/ timeout(c) \/ removeInFlight(c)
        PROVE  HeldEmitted'
    BY <2>5, <2>1 DEF addInFlight, sendStarts, sendReturns, receive, timeout, removeInFlight
  <2>6. ASSUME NEW c \in Req, NEW e, emit(c, e) PROVE HeldEmitted'
    BY <2>6, <2>1 DEF emit
  <2> QED BY <2>2, <2>3, <2>4, <2>5, <2>6 DEF NextSA
<1>6. AnswersAreOwn'
  <2>0. AnswersAreOwn /\ TypeSA BY DEF BridgeInv
  <2>1. ASSUME answersSA' \subseteq answersSA PROVE AnswersAreOwn'
    BY <2>0, <2>1, <1>2, <1>3 DEF AnswersAreOwn, TypeSA, Sending
  <2>2. CASE resolve
    <3>1. callbackSA[1] \in emittedSA BY <2>2 DEF resolve, BridgeInv, HeldEmitted
    <3>2. answersSA' \subseteq answersSA \cup Answers(callbackSA[1]) BY <2>2 DEF resolve
    <3>3. \A a \in answersSA : a.req \in Req /\ a.event \in EventsOf(a.req) /\ Sending(a.req)
      BY <2>0 DEF AnswersAreOwn, TypeSA, Sending
    <3>4. \A a \in Answers(callbackSA[1]) : a.req \in Req /\ a.event \in EventsOf(a.req) /\ Sending(a.req)
      BY <3>1, AnswersMeet
    <3>5. \A a \in answersSA' : a.event \in EventsOf(a.req)' /\ Sending(a.req)'
      BY <3>2, <3>3, <3>4, <1>2, <1>3
    <3> QED BY <3>5 DEF AnswersAreOwn, Sending
  <2>3. CASE UNCHANGED varsSA BY <2>3, <2>1 DEF varsSA
  <2>4. CASE listenerStarts \/ eventCallback \/ callbackFails
    BY <2>4, <2>1 DEF listenerStarts, eventCallback, callbackFails
  <2>5. ASSUME NEW c \in Req, addInFlight(c) \/ sendStarts(c) \/ sendReturns(c) \/ receive(c) \/ timeout(c) \/ removeInFlight(c)
        PROVE  AnswersAreOwn'
    BY <2>5, <2>1 DEF addInFlight, sendStarts, sendReturns, receive, timeout, removeInFlight
  <2>6. ASSUME NEW c \in Req, NEW e, emit(c, e) PROVE AnswersAreOwn'
    BY <2>6, <2>1 DEF emit
  <2> QED BY <2>2, <2>3, <2>4, <2>5, <2>6 DEF NextSA
<1> QED BY <1>1, <1>4, <1>5, <1>6 DEF BridgeInv

(* For every set of requests and of functions that wait, answers go to the *)
(* calls that wait for their event and the table forgets what returned.    *)
LEMMA BridgeSafe == BridgeInv => AnswersAreOwn /\ NothingLeftInFlight
  BY DEF BridgeInv, InTable, NothingLeftInFlight

---------------------------------------------------------------------------
(* Operations *)

(* A call that runs an operation has started to write it, has it in the    *)
(* database or in an open database transaction, or had it accepted.  It    *)
(* works under a transaction of its key that is stored, or under its own   *)
(* that is open, unless it was told of one that rolled back.  No two       *)
(* transactions have one key, and no two calls run under one transaction,  *)
(* unless the history names one of them.                                   *)
InDb(c) == dbO[c] # "absent"
OpenO(c) == \E w \in Writer : c \in openO[w]
Clean(c) == c \notin lostO \cup raceO
Runs(c) == stepO[c] \in {"started", "written"} \/ InDb(c) \/ OpenO(c) \/ c \in acceptedO
UnderO(c) == \/ OpenO(c) /\ ownerO[c] = c
             \/ ownerO[c] \in txO /\ (ownerO[c] = c \/ SameKey(c, ownerO[c]))
OneOwner ==
    /\ \A c, d \in txO : SameKey(c, d) => c = d
    /\ \A w \in Writer : \A c \in openO[w], d \in txO : ~SameKey(c, d)
    /\ \A v, w \in Writer : \A c \in openO[v], d \in openO[w] : SameKey(c, d) => v = w /\ c = d
RunsUnder == \A c \in Call : Runs(c) => UnderO(c) \/ c \in lostO
RunsStored == \A c \in Call : stepO[c] = "written" \/ c \in acceptedO => InDb(c) \/ OpenO(c) \/ c \in lostO
DupsUnder == \A c \in Call : stepO[c] = "duplicate" /\ KindOf[c] # "contracts" =>
                                ownerO[c] \in txO /\ SameKey(c, ownerO[c])
TodoStored == \A c \in Call : \A o \in todoO[c] : InDb(o)
FreshOwns == \A c \in Call : stepO[c] = "new" => ownerO[c] = c
OneRun == \A c, d \in Call :
    Runs(c) /\ Runs(d) /\ Clean(c) /\ Clean(d) /\ ownerO[c] = ownerO[d] /\ SameKey(c, d) => c = d
StatusO == {"Initialized", "Pending", "Succeeded", "Failed"}
TypeO ==
    /\ DOMAIN stepO = Call /\ DOMAIN dbO = Call
    /\ ownerO \in [Call -> Call]
    /\ todoO \in [Call -> SUBSET Call]
    /\ reportO \in [Call -> SUBSET (Call \X StatusO)]
    /\ openO \in [Writer -> SUBSET Call]
    /\ batchO \in [Writer -> SUBSET {c \in Call : KindOf[c] = "contracts"}]
    /\ queueO \in [Call -> Seq(StatusO)]
    /\ txO \subseteq Call /\ acceptedO \subseteq Call
CallsInv == OneOwner /\ RunsUnder /\ RunsStored /\ DupsUnder /\ TodoStored /\ FreshOwns
OperationsInv == TypeO /\ CallsInv /\ OneRun

(* No call has written anything at first.                                  *)
LEMMA OperationsInit == ASSUME InitO PROVE OperationsInv
<1>1. DOMAIN stepO = Call /\ \A c \in Call : stepO[c] \in {"new", "done"} BY DEF InitO
<1>2. TypeO BY <1>1 DEF InitO, TypeO
<1>3. \A c \in Call : ~Runs(c) BY <1>1 DEF InitO, Runs, InDb, OpenO
<1>4. OneRun BY <1>3 DEF OneRun
<1>5. OneOwner BY DEF InitO, OneOwner
<1>6. RunsUnder /\ RunsStored BY <1>3 DEF RunsUnder, RunsStored, Runs
<1>7. DupsUnder BY <1>1 DEF DupsUnder
<1>8. TodoStored /\ FreshOwns BY DEF InitO, TodoStored, FreshOwns
<1> QED BY <1>2, <1>4, <1>5, <1>6, <1>7, <1>8 DEF OperationsInv, CallsInv

(* Running an operation leaves a status to report and may have it accepted. *)
LEMMA RunOperationTypes ==
  ASSUME TypeO, NEW c \in Call, NEW o \in Call, NEW rest, RunOperation(c, o, rest)
  PROVE  /\ reportO' \in [Call -> SUBSET (Call \X StatusO)] /\ acceptedO' \subseteq acceptedO \cup {o}
         /\ todoO' \in [Call -> SUBSET (Call \cup rest)] /\ \A d \in Call : todoO'[d] \subseteq todoO[d] \cup rest
<1>1. \A out, conflict, idempotent : StatusAfter(out, conflict, idempotent) \in StatusO
  BY DEF StatusAfter, StatusO
<1>2. ASSUME NEW status \in StatusO, reportO' = Set1(reportO, c, {<<o, status>>})
      PROVE reportO' \in [Call -> SUBSET (Call \X StatusO)]
  BY <1>2 DEF Set1, TypeO
<1>3. acceptedO' \subseteq acceptedO \cup {o} BY DEF RunOperation
<1>4. \E status \in StatusO : reportO' = Set1(reportO, c, {<<o, status>>}) BY <1>1 DEF RunOperation
<1>5. todoO' = Set1(todoO, c, {}) \/ todoO' = Set1(todoO, c, rest) BY DEF RunOperation
<1>6. /\ todoO' \in [Call -> SUBSET (Call \cup rest)] /\ \A d \in Call : todoO'[d] \subseteq todoO[d] \cup rest
  <2>1. PICK left \in {{}, rest} : todoO' = [todoO EXCEPT ![c] = left] BY <1>5 DEF Set1
  <2>2. todoO \in [Call -> SUBSET Call] BY DEF TypeO
  <2>3. /\ DOMAIN todoO' = Call /\ todoO' = [d \in Call |-> todoO'[d]]
        /\ \A d \in Call : todoO'[d] = IF d = c THEN left ELSE todoO[d]
    BY <2>1, <2>2
  <2>4. \A d \in Call : todoO'[d] \subseteq todoO[d] \cup rest BY <2>1, <2>3
  <2>5. \A d \in Call : todoO[d] \subseteq Call BY <2>2
  <2>6. \A d \in Call : todoO'[d] \in SUBSET (Call \cup rest) BY <2>4, <2>5
  <2> QED BY <2>3, <2>4, <2>6
<1> QED BY <1>2, <1>3, <1>4, <1>6

(* The steps of a call, by itself, after it was written or returned.       *)
CallStep(c) == \/ keyTaken(c) \/ SubmitNewTransaction(c) \/ createTokenPool(c) \/ insertOperation(c)
               \/ insertFailsO(c) \/ runOwn(c) \/ report(c) \/ startAgain(c) \/ readForResubmit(c)
               \/ ResubmitOperations(c)

(* A call whose key is taken gets the call that has it.                    *)
LEMMA OwnerKnown ==
    ASSUME NEW c, NEW F, c \in F \/ \E d \in F \cup txO : SameKey(c, d)
    PROVE  /\ OwnerOfKey(c, F) \in F \cup txO
           /\ c \in F => OwnerOfKey(c, F) = c
           /\ c \notin F => SameKey(c, OwnerOfKey(c, F))
<1>1. CASE c \in F BY <1>1 DEF OwnerOfKey
<1>2. CASE c \notin F
  <2>1. PICK d \in F \cup txO : SameKey(c, d) BY <1>2
  <2>2. OwnerOfKey(c, F) \in F \cup txO /\ SameKey(c, OwnerOfKey(c, F)) BY <1>2, <2>1 DEF OwnerOfKey
  <2> QED BY <1>2, <2>2
<1> QED BY <1>1, <1>2

(* Every step of a call leaves the operations well typed.                  *)
LEMMA CallTypes == ASSUME TypeO, NEW c \in Call, CallStep(c) PROVE TypeO'
<1>1. CASE keyTaken(c)
  <2>1. c \notin {} /\ \E d \in {} \cup txO : SameKey(c, d) BY <1>1 DEF keyTaken, KeyTakenO
  <2>2. OwnerOfKey(c, {}) \in Call BY <2>1, OwnerKnown DEF TypeO
  <2>3. ownerO' \in [Call -> Call] BY <1>1, <2>2 DEF keyTaken, Set1, TypeO
  <2>4. DOMAIN stepO' = Call BY <1>1 DEF keyTaken, Set1, TypeO
  <2> QED BY <1>1, <2>3, <2>4 DEF keyTaken, TypeO, writerO, runO
<1>2. CASE SubmitNewTransaction(c)
  <2>1. DOMAIN stepO' = Call /\ txO' \subseteq Call BY <1>2 DEF SubmitNewTransaction, Set1, TypeO
  <2> QED BY <1>2, <2>1 DEF SubmitNewTransaction, TypeO, writerO, runO
<1>3. CASE createTokenPool(c)
  <2>1. DOMAIN stepO' = Call /\ DOMAIN dbO' = Call /\ txO' \subseteq Call BY <1>3 DEF createTokenPool, Set1, TypeO
  <2> QED BY <1>3, <2>1 DEF createTokenPool, TypeO, writerO, runO
<1>4. CASE insertOperation(c) \/ insertFailsO(c)
  <2>1. DOMAIN stepO' = Call /\ DOMAIN dbO' = Call BY <1>4 DEF insertOperation, insertFailsO, Set1, TypeO
  <2> QED BY <1>4, <2>1 DEF insertOperation, insertFailsO, TypeO, writerO, runO
<1>5. CASE runOwn(c)
  <2>1. /\ reportO' \in [Call -> SUBSET (Call \X StatusO)] /\ acceptedO' \subseteq acceptedO \cup {c}
        /\ todoO' \in [Call -> SUBSET (Call \cup {})]
    BY <1>5, RunOperationTypes DEF runOwn
  <2>2. DOMAIN stepO' = Call /\ acceptedO' \subseteq Call BY <1>5, <2>1 DEF runOwn, Set1, TypeO
  <2> QED BY <1>5, <2>1, <2>2 DEF runOwn, TypeO, writerO
<1>6. CASE report(c)
  <2>1. PICK r \in reportO[c] : Submitted(r[1], r[2]) BY <1>6 DEF report
  <2>2. r[1] \in Call /\ r[2] \in StatusO BY <2>1 DEF TypeO
  <2>3. queueO' \in [Call -> Seq(StatusO)] BY <2>1, <2>2 DEF Submitted, TypeO
  <2>4. DOMAIN stepO' = Call /\ reportO' \in [Call -> SUBSET (Call \X StatusO)] BY <1>6 DEF report, Set1, TypeO
  <2> QED BY <1>6, <2>3, <2>4 DEF report, TypeO, writerO
<1>7. CASE startAgain(c)
  <2>1. DOMAIN stepO' = Call BY <1>7 DEF startAgain, Set1, TypeO
  <2> QED BY <1>7, <2>1 DEF startAgain, TypeO, writerO, runO
<1>8. CASE readForResubmit(c)
  <2>1. DOMAIN stepO' = Call /\ todoO' \in [Call -> SUBSET Call] BY <1>8 DEF readForResubmit, Set1, TypeO, OpsOf
  <2> QED BY <1>8, <2>1 DEF readForResubmit, TypeO, writerO, runO
<1>9. CASE ResubmitOperations(c)
  <2>1. PICK o \in todoO[c] :
          \/ /\ todoO' = Set1(todoO, c, todoO[c] \ {o})
             /\ stepO' = Set1(stepO, c, IF todoO[c] = {o} THEN "done" ELSE "resubmit")
             /\ UNCHANGED <<reportO, acceptedO, finalO, erredO>>
          \/ RunOperation(c, o, todoO[c] \ {o}) /\ stepO' = Set1(stepO, c, "report")
    BY <1>9 DEF ResubmitOperations
  <2>2. o \in Call /\ todoO[c] \subseteq Call BY <2>1 DEF TypeO
  <2>3. /\ DOMAIN stepO' = Call /\ todoO' \in [Call -> SUBSET Call] /\ acceptedO' \subseteq Call
        /\ reportO' \in [Call -> SUBSET (Call \X StatusO)]
    <3>1. CASE RunOperation(c, o, todoO[c] \ {o}) /\ stepO' = Set1(stepO, c, "report")
      <4>1. /\ reportO' \in [Call -> SUBSET (Call \X StatusO)] /\ acceptedO' \subseteq acceptedO \cup {o}
            /\ todoO' \in [Call -> SUBSET (Call \cup (todoO[c] \ {o}))]
        BY <2>2, <3>1, RunOperationTypes
      <4>2. Call \cup (todoO[c] \ {o}) = Call BY <2>2
      <4> QED BY <2>2, <3>1, <4>1, <4>2 DEF Set1, TypeO
    <3>2. CASE /\ todoO' = Set1(todoO, c, todoO[c] \ {o})
               /\ stepO' = Set1(stepO, c, IF todoO[c] = {o} THEN "done" ELSE "resubmit")
               /\ UNCHANGED <<reportO, acceptedO, finalO, erredO>>
      BY <2>2, <3>2 DEF Set1, TypeO
    <3> QED BY <2>1, <3>1, <3>2
  <2> QED BY <1>9, <2>3 DEF ResubmitOperations, TypeO, writerO
<1> QED BY <1>1, <1>2, <1>3, <1>4, <1>5, <1>6, <1>7, <1>8, <1>9 DEF CallStep

(* So does every other step.                                               *)
LEMMA OperationsTypes == ASSUME TypeO, [NextO]_varsO PROVE TypeO'
<1>1. CASE UNCHANGED varsO BY <1>1 DEF varsO, TypeO, callsO, writerO, runO
<1>2. ASSUME NEW w \in Writer, processBatch(w) PROVE TypeO'
  <2>1. PICK F \in FirstOfKey(batchO[w]) :
            /\ openO' = [openO EXCEPT ![w] = F]
            /\ stepO' = [c \in Call |-> IF c \in F THEN "written"
                                        ELSE IF c \in batchO[w] THEN "duplicate" ELSE stepO[c]]
            /\ ownerO' = [c \in Call |-> IF c \in batchO[w] THEN OwnerOfKey(c, F) ELSE ownerO[c]]
            /\ batchO' = IF F = {} THEN [batchO EXCEPT ![w] = {}] ELSE batchO
    BY <1>2 DEF processBatch, insertBatch
  <2>2. F \subseteq Call BY <2>1 DEF FirstOfKey, TypeO
  <2>3. \A c \in batchO[w] : OwnerOfKey(c, F) \in Call
    <3>1. \A c \in batchO[w] : c \in F \/ \E d \in F \cup txO : SameKey(c, d) BY <2>1 DEF FirstOfKey
    <3> QED BY <2>2, <3>1, OwnerKnown DEF TypeO
  <2>4. ownerO' \in [Call -> Call] BY <2>1, <2>3 DEF TypeO
  <2>5. openO' \in [Writer -> SUBSET Call] /\ DOMAIN stepO' = Call BY <2>1, <2>2 DEF TypeO
  <2>6. batchO' \in [Writer -> SUBSET {c \in Call : KindOf[c] = "contracts"}] BY <2>1 DEF TypeO
  <2> QED BY <1>2, <2>4, <2>5, <2>6 DEF processBatch, insertBatch, TypeO, runO
<1>3. ASSUME NEW w \in Writer, commitBatch(w) \/ rollbackBatch(w) PROVE TypeO'
  <2>1. /\ openO' = [openO EXCEPT ![w] = {}] /\ batchO' = [batchO EXCEPT ![w] = {}]
        /\ txO' \subseteq txO \cup openO[w] /\ DOMAIN dbO' = DOMAIN dbO /\ UNCHANGED callsO /\ UNCHANGED runO
    BY <1>3 DEF commitBatch, rollbackBatch, SetAll
  <2> QED BY <2>1 DEF TypeO, callsO, runO
<1>4. ASSUME NEW w \in Writer, NEW c \in Call, WriteTransactionAndOps(c, w) PROVE TypeO'
  BY <1>4 DEF WriteTransactionAndOps, TypeO, runO, Set1
<1>5. ASSUME NEW c \in Call, CallStep(c) PROVE TypeO' BY <1>5, CallTypes
<1>6. ASSUME NEW c \in Call, updaterLoop(c) PROVE TypeO'
  <2>1. queueO[c] \in Seq(StatusO) /\ queueO[c] # <<>> BY <1>6 DEF updaterLoop, TypeO
  <2>2. Tail(queueO[c]) \in Seq(StatusO) BY <2>1
  <2>3. queueO' \in [Call -> Seq(StatusO)] BY <1>6, <2>2 DEF updaterLoop, TypeO
  <2>4. DOMAIN dbO' = Call BY <1>6 DEF updaterLoop, TypeO, Set1
  <2> QED BY <1>6, <2>3, <2>4 DEF updaterLoop, TypeO, callsO, writerO
<1>7. ASSUME NEW c \in Call, NEW s \in {"Succeeded", "Failed"}, connectorEvent(c, s) PROVE TypeO'
  <2>1. queueO' \in [Call -> Seq(StatusO)] BY <1>7 DEF connectorEvent, Submitted, TypeO, StatusO
  <2> QED BY <1>7, <2>1 DEF connectorEvent, TypeO, callsO, writerO
<1>8. CASE restart BY <1>8 DEF restart, TypeO
<1> QED BY <1>1, <1>2, <1>3, <1>4, <1>5, <1>6, <1>7, <1>8 DEF NextO, CallStep

(* OneRun is kept when whoever newly runs, and is clean, is alone under    *)
(* its transaction.                                                        *)
LEMMA OneRunKept ==
  ASSUME OneRun, NEW N,
         \A c \in Call : Clean(c)' => Clean(c),
         \A c \in Call : Runs(c)' /\ Clean(c)' => c \in N \/ (Runs(c) /\ ownerO'[c] = ownerO[c]),
         \A c \in N, d \in Call :
            Runs(d)' /\ Clean(c)' /\ Clean(d)' /\ ownerO'[c] = ownerO'[d] /\ SameKey(c, d) => c = d
  PROVE  OneRun'
<1> SUFFICES ASSUME NEW c \in Call, NEW d \in Call, Runs(c)', Runs(d)', Clean(c)', Clean(d)',
                    ownerO'[c] = ownerO'[d], SameKey(c, d)
             PROVE  c = d
  BY DEF OneRun, SameKey
<1>1. CASE c \in N BY <1>1
<1>2. CASE d \in N
  <2>1. SameKey(d, c) BY DEF SameKey
  <2> QED BY <1>2, <2>1
<1>3. CASE c \notin N /\ d \notin N BY <1>3 DEF OneRun
<1> QED BY <1>1, <1>2, <1>3

(* It is kept when nobody newly runs.                                      *)
LEMMA OneRunSame ==
  ASSUME OneRun,
         \A c \in Call : Clean(c)' => Clean(c),
         \A c \in Call : Runs(c)' /\ Clean(c)' => Runs(c) /\ ownerO'[c] = ownerO[c]
  PROVE  OneRun'
<1> SUFFICES ASSUME NEW c \in Call, NEW d \in Call, Runs(c)', Runs(d)', Clean(c)', Clean(d)',
                    ownerO'[c] = ownerO'[d], SameKey(c, d)
             PROVE  c = d
  BY DEF OneRun, SameKey
<1> QED BY DEF OneRun

(* Steps that write no transaction or operation.                           *)
LEMMA QuietKeeps ==
  ASSUME OperationsInv, UNCHANGED <<ownerO, txO, openO, lostO, raceO>>,
         \A c \in Call : InDb(c)' <=> InDb(c),
         \A c \in Call : stepO'[c] \in {"new", "duplicate", "started", "written"} => stepO'[c] = stepO[c],
         \A c \in acceptedO' : c \in acceptedO \/ stepO[c] = "written" \/ InDb(c),
         \A c \in Call : \A o \in todoO'[c] : InDb(o),
         acceptedO' \subseteq Call, todoO' \in [Call -> SUBSET Call]
  PROVE  CallsInv' /\ OneRun'
<1>1. \A c \in Call : (OpenO(c)' <=> OpenO(c)) /\ (UnderO(c)' <=> UnderO(c)) /\ (Clean(c)' <=> Clean(c))
  BY DEF OpenO, UnderO, Clean, SameKey
<1>2. \A c \in Call : Runs(c)' => Runs(c) BY <1>1 DEF Runs
<1>3. OneRun'
  <2>1. \A c \in Call : Runs(c)' /\ Clean(c)' => Runs(c) /\ ownerO'[c] = ownerO[c] BY <1>2
  <2> QED BY <1>1, <2>1, OneRunSame DEF OperationsInv
<1>4. OneOwner' BY DEF OperationsInv, CallsInv, OneOwner, SameKey
<1>5. RunsUnder' BY <1>1, <1>2 DEF OperationsInv, CallsInv, RunsUnder
<1>6. RunsStored' BY <1>1 DEF OperationsInv, CallsInv, RunsStored
<1>7. DupsUnder' BY DEF OperationsInv, CallsInv, DupsUnder, SameKey
<1>8. TodoStored'
  <2>1. \A c \in Call : todoO'[c] \subseteq Call OBVIOUS
  <2> QED BY <2>1 DEF TodoStored
<1>9. FreshOwns' BY DEF OperationsInv, CallsInv, FreshOwns
<1> QED BY <1>3, <1>4, <1>5, <1>6, <1>7, <1>8, <1>9 DEF CallsInv

(* A call that runs, is not open and has a key works under the only stored *)
(* transaction with the key.                                               *)
LEMMA OwnerIsTheOne ==
  ASSUME OperationsInv, NEW c \in Call, Runs(c), c \notin lostO, ~OpenO(c), NEW x \in txO, SameKey(c, x)
  PROVE  ownerO[c] = x
<1>1. ownerO[c] \in txO /\ SameKey(c, ownerO[c])
  BY DEF OperationsInv, CallsInv, RunsUnder, UnderO, SameKey
<1>2. SameKey(ownerO[c], x) BY <1>1 DEF SameKey
<1> QED BY <1>1, <1>2 DEF OperationsInv, CallsInv, OneOwner

(* A writer inserts the first calls of their keys, and the others become   *)
(* duplicates of them or of stored ones.                                   *)
LEMMA ProcessKeeps == ASSUME OperationsInv, NEW w \in Writer, processBatch(w) PROVE CallsInv' /\ OneRun'
<1>0. TypeO /\ CallsInv /\ OneRun BY DEF OperationsInv
<1>1. PICK F \in FirstOfKey(batchO[w]) :
          /\ openO' = [openO EXCEPT ![w] = F]
          /\ stepO' = [c \in Call |-> IF c \in F THEN "written"
                                      ELSE IF c \in batchO[w] THEN "duplicate" ELSE stepO[c]]
          /\ ownerO' = [c \in Call |-> IF c \in batchO[w] THEN OwnerOfKey(c, F) ELSE ownerO[c]]
  BY DEF processBatch, insertBatch
<1>2. openO[w] = {} /\ NoOpenRival(w, batchO[w]) /\ UNCHANGED <<txO, dbO, acceptedO, todoO, lostO, raceO>>
  BY DEF processBatch, insertBatch, runO, boundsO
<1>3. /\ F \subseteq batchO[w] /\ F \subseteq Call /\ batchO[w] \subseteq Call
      /\ \A c \in F, d \in txO : ~SameKey(c, d)
      /\ \A c, d \in F : SameKey(c, d) => c = d
      /\ \A c \in batchO[w] : c \in F \/ \E d \in F \cup txO : SameKey(c, d)
  BY <1>0, <1>1 DEF FirstOfKey, TypeO
<1>4. /\ \A v \in Writer : openO'[v] = IF v = w THEN F ELSE openO[v]
      /\ \A c \in Call : OpenO(c)' <=> OpenO(c) \/ c \in F
  BY <1>0, <1>1, <1>2 DEF OpenO, TypeO
<1>5. \A v \in Writer : \A c \in openO[v], d \in batchO[w] : ~SameKey(c, d)
  BY <1>2 DEF NoOpenRival
<1>6. \A c \in F : ownerO'[c] = c BY <1>1, <1>3, OwnerKnown
<1>7. ASSUME NEW c \in Call, Runs(c), c \notin F, c \notin lostO PROVE ownerO'[c] = ownerO[c]
  <2>1. CASE c \in batchO[w]
    <3>1. PICK x : x = OwnerOfKey(c, F) OBVIOUS
    <3>2. x \in F \cup txO /\ SameKey(c, x) BY <1>3, <1>7, <2>1, <3>1, OwnerKnown
    <3>3. ~OpenO(c) BY <1>5, <2>1, <3>2 DEF OpenO, SameKey
    <3>4. x \in txO
      <4>1. ownerO[c] \in txO /\ SameKey(c, ownerO[c])
        BY <1>0, <1>7, <3>2, <3>3 DEF CallsInv, RunsUnder, UnderO, SameKey
      <4>2. SameKey(x, ownerO[c]) BY <3>2, <4>1 DEF SameKey
      <4> QED BY <1>3, <3>2, <4>1, <4>2
    <3>5. ownerO[c] = x BY <1>7, <3>2, <3>3, <3>4, OwnerIsTheOne
    <3> QED BY <1>1, <2>1, <3>1, <3>5
  <2>2. CASE c \notin batchO[w] BY <1>1, <2>2
  <2> QED BY <2>1, <2>2
<1>8. \A c \in Call : Runs(c)' => c \in F \/ Runs(c)
  BY <1>1, <1>2, <1>4 DEF Runs, InDb
<1>9. OneRun'
  <2>1. \A c \in Call : Clean(c)' => Clean(c) /\ c \notin lostO BY <1>2 DEF Clean
  <2>2. \A c \in Call : Runs(c)' /\ Clean(c)' => c \in F \/ (Runs(c) /\ ownerO'[c] = ownerO[c])
    BY <1>7, <1>8, <2>1
  <2>3. ASSUME NEW c \in F, NEW d \in Call, Runs(d)', Clean(d)', ownerO'[c] = ownerO'[d], SameKey(c, d)
        PROVE c = d
    <3>1. CASE d \in F BY <1>3, <2>3, <3>1
    <3>2. CASE d \notin F
      <4>1. Runs(d) /\ d \notin lostO /\ ownerO[d] = c BY <1>6, <1>7, <1>8, <2>1, <2>3, <3>2
      <4>2. UnderO(d) BY <1>0, <4>1 DEF CallsInv, RunsUnder
      <4>3. SameKey(c, c) BY <2>3 DEF SameKey
      <4>4. c \notin txO BY <1>3, <4>3
      <4> QED BY <4>1, <4>2, <4>4 DEF UnderO
    <3> QED BY <3>1, <3>2
  <2> QED BY <1>0, <2>1, <2>2, <2>3, OneRunKept
<1>10. OneOwner'
  <2>1. \A c, d \in txO' : SameKey(c, d) => c = d BY <1>0, <1>2 DEF CallsInv, OneOwner
  <2>2. \A v \in Writer : \A c \in openO'[v], d \in txO' : ~SameKey(c, d)
    BY <1>0, <1>2, <1>3, <1>4 DEF CallsInv, OneOwner
  <2>3. ASSUME NEW v \in Writer, NEW u \in Writer, NEW c \in openO'[v], NEW d \in openO'[u], SameKey(c, d)
        PROVE v = u /\ c = d
    <3>1. SameKey(d, c) BY <2>3 DEF SameKey
    <3>2. CASE v = w /\ u = w BY <1>3, <1>4, <2>3, <3>2
    <3>3. CASE v # w /\ u # w BY <1>0, <1>4, <2>3, <3>3 DEF CallsInv, OneOwner
    <3>4. CASE v = w /\ u # w BY <1>3, <1>4, <1>5, <3>1, <3>4
    <3>5. CASE v # w /\ u = w BY <1>3, <1>4, <1>5, <2>3, <3>5
    <3> QED BY <3>2, <3>3, <3>4, <3>5
  <2> QED BY <2>1, <2>2, <2>3 DEF OneOwner, SameKey
<1>11. RunsUnder'
  <2> SUFFICES ASSUME NEW c \in Call, Runs(c)', c \notin lostO' PROVE UnderO(c)' BY DEF RunsUnder
  <2>1. CASE c \in F BY <1>4, <1>6, <2>1 DEF UnderO
  <2>2. CASE c \notin F
    <3>1. Runs(c) /\ UnderO(c) /\ ownerO'[c] = ownerO[c] BY <1>0, <1>2, <1>7, <1>8, <2>2 DEF CallsInv, RunsUnder
    <3> QED BY <1>2, <1>4, <3>1 DEF UnderO, SameKey
  <2> QED BY <2>1, <2>2
<1>12. RunsStored'
  <2>1. \A c \in Call : stepO'[c] = "written" => c \in F \/ stepO[c] = "written" BY <1>1
  <2> QED BY <1>0, <1>2, <1>4, <2>1 DEF CallsInv, RunsStored, InDb
<1>13. DupsUnder'
  <2>1. \A c \in Call : stepO'[c] = "duplicate" /\ KindOf[c] # "contracts" =>
            stepO[c] = "duplicate" /\ ownerO'[c] = ownerO[c]
    BY <1>0, <1>1 DEF TypeO
  <2> QED BY <1>0, <1>2, <2>1 DEF CallsInv, DupsUnder, SameKey
<1>14. TodoStored' BY <1>0, <1>2 DEF CallsInv, TodoStored, InDb
<1>15. FreshOwns'
  <2>1. \A c \in Call : stepO'[c] = "new" => stepO[c] = "new" /\ ownerO'[c] = ownerO[c] BY <1>1, <1>3
  <2> QED BY <1>0, <2>1 DEF CallsInv, FreshOwns
<1> QED BY <1>9, <1>10, <1>11, <1>12, <1>13, <1>14, <1>15 DEF CallsInv

(* A commit stores what was open.                                          *)
LEMMA CommitKeeps == ASSUME OperationsInv, NEW w \in Writer, commitBatch(w) PROVE CallsInv' /\ OneRun'
<1>0. TypeO /\ CallsInv /\ OneRun BY DEF OperationsInv
<1>1. /\ txO' = txO \cup openO[w] /\ dbO' = SetAll(dbO, openO[w], "Initialized")
      /\ openO' = [openO EXCEPT ![w] = {}]
      /\ UNCHANGED <<stepO, ownerO, todoO, acceptedO, lostO, raceO>>
  BY DEF commitBatch, callsO, runO, boundsO
<1>2. \A c \in Call : InDb(c)' <=> InDb(c) \/ c \in openO[w] BY <1>0, <1>1 DEF SetAll, TypeO, InDb
<1>3. /\ \A v \in Writer : openO'[v] = IF v = w THEN {} ELSE openO[v]
      /\ \A c \in Call : OpenO(c)' => OpenO(c)
      /\ \A c \in Call : OpenO(c) => OpenO(c)' \/ c \in openO[w]
  BY <1>0, <1>1 DEF TypeO, OpenO
<1>4. \A c \in Call : Runs(c)' => Runs(c) BY <1>1, <1>2, <1>3 DEF Runs, OpenO
<1>5. OneRun'
  <2>1. \A c \in Call : Clean(c)' <=> Clean(c) BY <1>1 DEF Clean
  <2>2. \A c \in Call : Runs(c)' /\ Clean(c)' => Runs(c) /\ ownerO'[c] = ownerO[c] BY <1>1, <1>4
  <2> QED BY <1>0, <2>1, <2>2, OneRunSame
<1>6. OneOwner'
  <2>1. \A c, d \in txO' : SameKey(c, d) => c = d
    <3> SUFFICES ASSUME NEW c \in txO \cup openO[w], NEW d \in txO \cup openO[w], SameKey(c, d) PROVE c = d BY <1>1
    <3>1. SameKey(d, c) BY DEF SameKey
    <3> QED BY <1>0, <3>1 DEF CallsInv, OneOwner
  <2>2. \A v \in Writer : \A c \in openO'[v], d \in txO' : ~SameKey(c, d)
    BY <1>0, <1>1, <1>3 DEF CallsInv, OneOwner
  <2>3. \A v, u \in Writer : \A c \in openO'[v], d \in openO'[u] : SameKey(c, d) => v = u /\ c = d
    BY <1>0, <1>3 DEF CallsInv, OneOwner
  <2> QED BY <2>1, <2>2, <2>3 DEF OneOwner, SameKey
<1>7. RunsUnder'
  <2> SUFFICES ASSUME NEW c \in Call, Runs(c)', c \notin lostO' PROVE UnderO(c)' BY DEF RunsUnder
  <2>1. UnderO(c) BY <1>0, <1>1, <1>4 DEF CallsInv, RunsUnder
  <2>2. CASE ownerO[c] \in txO BY <1>1, <2>1, <2>2 DEF UnderO, SameKey
  <2>3. CASE OpenO(c) /\ ownerO[c] = c BY <1>1, <1>3, <2>3 DEF UnderO
  <2> QED BY <2>1, <2>2, <2>3 DEF UnderO
<1>8. RunsStored' BY <1>0, <1>1, <1>2, <1>3 DEF CallsInv, RunsStored
<1>9. DupsUnder' BY <1>0, <1>1 DEF CallsInv, DupsUnder, SameKey
<1>10. TodoStored'
  <2>1. \A c \in Call : todoO[c] \subseteq Call BY <1>0 DEF TypeO
  <2> QED BY <1>0, <1>1, <1>2, <2>1 DEF CallsInv, TodoStored
<1>11. FreshOwns' BY <1>0, <1>1 DEF CallsInv, FreshOwns
<1> QED BY <1>5, <1>6, <1>7, <1>8, <1>9, <1>10, <1>11 DEF CallsInv

(* What was open is lost in a rollback or a restart.                       *)
LEMMA LossKeeps ==
  ASSUME OperationsInv,
         \A v \in Writer : openO'[v] = openO[v] \/ (openO'[v] = {} /\ openO[v] \subseteq lostO'),
         UNCHANGED <<ownerO, txO, dbO, acceptedO, raceO>>, lostO \subseteq lostO',
         \A c \in Call : stepO'[c] = stepO[c] \/ stepO'[c] = "done",
         \A c \in Call : todoO'[c] \subseteq todoO[c]
  PROVE  CallsInv' /\ OneRun'
<1>0. TypeO /\ CallsInv /\ OneRun BY DEF OperationsInv
<1>1. /\ \A c \in Call : OpenO(c)' => OpenO(c)
      /\ \A c \in Call : OpenO(c) => OpenO(c)' \/ c \in lostO'
  BY DEF OpenO
<1>2. \A c \in Call : Runs(c)' => Runs(c) BY <1>1 DEF Runs, InDb
<1>3. OneRun'
  <2>1. \A c \in Call : Clean(c)' => Clean(c) BY DEF Clean
  <2>2. \A c \in Call : Runs(c)' /\ Clean(c)' => Runs(c) /\ ownerO'[c] = ownerO[c] BY <1>2
  <2> QED BY <1>0, <2>1, <2>2, OneRunSame
<1>4. OneOwner'
  <2>1. \A v \in Writer : openO'[v] \subseteq openO[v] OBVIOUS
  <2>2. \A v \in Writer : \A c \in openO'[v], d \in txO' : ~SameKey(c, d) BY <1>0, <2>1 DEF CallsInv, OneOwner
  <2>3. \A v, u \in Writer : \A c \in openO'[v], d \in openO'[u] : SameKey(c, d) => v = u /\ c = d
    BY <1>0, <2>1 DEF CallsInv, OneOwner
  <2>4. \A c, d \in txO' : SameKey(c, d) => c = d BY <1>0 DEF CallsInv, OneOwner
  <2> QED BY <2>2, <2>3, <2>4 DEF OneOwner, SameKey
<1>5. RunsUnder' BY <1>0, <1>1, <1>2 DEF CallsInv, RunsUnder, UnderO, SameKey
<1>6. RunsStored' BY <1>0, <1>1 DEF CallsInv, RunsStored, InDb
<1>7. DupsUnder' BY <1>0 DEF CallsInv, DupsUnder, SameKey
<1>8. TodoStored' BY <1>0 DEF CallsInv, TodoStored, InDb
<1>9. FreshOwns' BY <1>0 DEF CallsInv, FreshOwns
<1> QED BY <1>3, <1>4, <1>5, <1>6, <1>7, <1>8, <1>9 DEF CallsInv

(* A call that finds its key taken works under the transaction with it.    *)
LEMMA TakenKeeps == ASSUME OperationsInv, NEW c \in Call, keyTaken(c) PROVE CallsInv' /\ OneRun'
<1>0. TypeO /\ CallsInv /\ OneRun BY DEF OperationsInv
<1>1. PICK x : x = OwnerOfKey(c, {}) OBVIOUS
<1>2. /\ stepO' = Set1(stepO, c, "duplicate") /\ ownerO' = Set1(ownerO, c, x)
      /\ UNCHANGED <<todoO, openO, txO, dbO, acceptedO, lostO, raceO>>
  BY <1>1 DEF keyTaken, writerO, runO, boundsO
<1>3. x \in txO /\ SameKey(c, x)
  <2>1. \E d \in {} \cup txO : SameKey(c, d) BY DEF keyTaken, KeyTakenO
  <2> QED BY <1>1, <2>1, OwnerKnown
<1>4. ~OpenO(c) BY <1>3 DEF keyTaken, NoRivalOf, OpenO, SameKey
<1>5. /\ \A d \in Call : stepO'[d] = IF d = c THEN "duplicate" ELSE stepO[d]
      /\ \A d \in Call : ownerO'[d] = IF d = c THEN x ELSE ownerO[d]
  BY <1>0, <1>2 DEF Set1, TypeO
<1>6. \A d \in Call : (OpenO(d)' <=> OpenO(d)) /\ (InDb(d)' <=> InDb(d)) /\ (Clean(d)' <=> Clean(d))
  BY <1>2 DEF OpenO, InDb, Clean
<1>7. \A d \in Call : Runs(d)' => Runs(d) BY <1>2, <1>5, <1>6 DEF Runs
<1>8. \A d \in Call : Runs(d)' /\ d \notin lostO => ownerO'[d] = ownerO[d]
  BY <1>3, <1>4, <1>5, <1>7, OwnerIsTheOne
<1>9. OneRun'
  <2>1. \A d \in Call : Runs(d)' /\ Clean(d)' => Runs(d) /\ ownerO'[d] = ownerO[d]
    BY <1>6, <1>7, <1>8 DEF Clean
  <2> QED BY <1>0, <1>6, <2>1, OneRunSame
<1>10. OneOwner' BY <1>0, <1>2 DEF CallsInv, OneOwner, SameKey
<1>11. RunsUnder'
  <2> SUFFICES ASSUME NEW d \in Call, Runs(d)', d \notin lostO' PROVE UnderO(d)' BY DEF RunsUnder
  <2>1. UnderO(d) /\ ownerO'[d] = ownerO[d] BY <1>0, <1>2, <1>7, <1>8 DEF CallsInv, RunsUnder
  <2> QED BY <1>2, <1>6, <2>1 DEF UnderO, SameKey
<1>12. RunsStored' BY <1>0, <1>2, <1>5, <1>6 DEF CallsInv, RunsStored
<1>13. DupsUnder' BY <1>0, <1>2, <1>3, <1>5 DEF CallsInv, DupsUnder, SameKey
<1>14. TodoStored' BY <1>0, <1>2 DEF CallsInv, TodoStored, InDb
<1>15. FreshOwns' BY <1>0, <1>5 DEF CallsInv, FreshOwns
<1> QED BY <1>9, <1>10, <1>11, <1>12, <1>13, <1>14, <1>15 DEF CallsInv

(* A transaction of its own, alone or with its operation.                  *)
LEMMA SubmitKeeps ==
  ASSUME OperationsInv, NEW c \in Call, SubmitNewTransaction(c) \/ createTokenPool(c)
  PROVE  CallsInv' /\ OneRun'
<1>0. TypeO /\ CallsInv /\ OneRun BY DEF OperationsInv
<1>1. /\ txO' = txO \/ txO' = txO \cup {c}
      /\ \/ stepO' = Set1(stepO, c, "done") /\ dbO' = dbO
         \/ stepO' = Set1(stepO, c, "started") /\ dbO' = dbO /\ c \in txO'
         \/ stepO' = Set1(stepO, c, "written") /\ dbO' = Set1(dbO, c, "Initialized") /\ c \in txO'
      /\ UNCHANGED <<ownerO, todoO, openO, acceptedO, lostO, raceO>>
  BY DEF SubmitNewTransaction, createTokenPool, writerO, runO
<1>2. ownerO[c] = c /\ NoRivalOf(c) /\ ~KeyTakenO(c)
  BY <1>0 DEF SubmitNewTransaction, createTokenPool, CallsInv, FreshOwns
<1>3. /\ \A d \in Call : d # c => stepO'[d] = stepO[d] /\ (InDb(d)' <=> InDb(d))
      /\ stepO'[c] \in {"done", "started", "written"}
      /\ stepO'[c] \in {"started", "written"} => c \in txO'
      /\ stepO'[c] = "written" => InDb(c)'
      /\ InDb(c)' => InDb(c) \/ c \in txO'
      /\ \A d \in Call : InDb(d) => InDb(d)'
  BY <1>0, <1>1 DEF Set1, TypeO, InDb
<1>4. \A d \in Call : (OpenO(d)' <=> OpenO(d)) /\ (Clean(d)' <=> Clean(d)) BY <1>1 DEF OpenO, Clean
<1>5. \A d \in Call : Runs(d)' => d = c \/ Runs(d) BY <1>1, <1>3, <1>4 DEF Runs
<1>6. OneRun'
  <2>1. \A d \in Call : Runs(d)' /\ Clean(d)' => d \in {c} \/ (Runs(d) /\ ownerO'[d] = ownerO[d]) BY <1>1, <1>5
  <2>2. ASSUME NEW d \in Call, Runs(d)', Clean(d)', ownerO'[c] = ownerO'[d], SameKey(c, d) PROVE c = d
    <3> SUFFICES ASSUME d # c PROVE FALSE OBVIOUS
    <3>1. Runs(d) /\ d \notin lostO /\ ownerO[d] = c BY <1>1, <1>2, <1>4, <1>5, <2>2 DEF Clean
    <3>2. c \in txO BY <1>0, <3>1 DEF CallsInv, RunsUnder, UnderO
    <3> QED BY <1>2, <2>2, <3>2 DEF KeyTakenO, SameKey
  <2>3. PICK N : N = {c} OBVIOUS
  <2>4. \A x \in N, d \in Call :
           Runs(d)' /\ Clean(x)' /\ Clean(d)' /\ ownerO'[x] = ownerO'[d] /\ SameKey(x, d) => x = d
    BY <2>2, <2>3
  <2>5. \A d \in Call : Runs(d)' /\ Clean(d)' => d \in N \/ (Runs(d) /\ ownerO'[d] = ownerO[d]) BY <2>1, <2>3
  <2>6. \A d \in Call : Clean(d)' => Clean(d) BY <1>4
  <2> QED BY <1>0, <2>4, <2>5, <2>6, OneRunKept
<1>7. OneOwner'
  <2>1. \A d \in txO : ~SameKey(c, d) /\ ~SameKey(d, c) BY <1>2 DEF KeyTakenO, SameKey
  <2>2. \A v \in Writer : \A d \in openO[v] : ~SameKey(d, c) BY <1>2 DEF NoRivalOf
  <2> QED BY <1>0, <1>1, <2>1, <2>2 DEF CallsInv, OneOwner, SameKey
<1>8. RunsUnder'
  <2> SUFFICES ASSUME NEW d \in Call, Runs(d)', d \notin lostO' PROVE UnderO(d)' BY DEF RunsUnder
  <2>1. CASE Runs(d)
    <3>1. UnderO(d) BY <1>0, <1>1, <2>1 DEF CallsInv, RunsUnder
    <3> QED BY <1>1, <1>4, <3>1 DEF UnderO, SameKey
  <2>2. CASE ~Runs(d)
    <3>1. d = c /\ c \in txO' BY <1>1, <1>3, <1>4, <1>5, <2>2 DEF Runs
    <3> QED BY <1>1, <1>2, <3>1 DEF UnderO
  <2> QED BY <2>1, <2>2
<1>9. RunsStored' BY <1>0, <1>1, <1>3, <1>4 DEF CallsInv, RunsStored
<1>10. DupsUnder' BY <1>0, <1>1, <1>3 DEF CallsInv, DupsUnder, SameKey
<1>11. TodoStored'
  <2>1. \A d \in Call : todoO[d] \subseteq Call BY <1>0 DEF TypeO
  <2> QED BY <1>0, <1>1, <1>3, <2>1 DEF CallsInv, TodoStored
<1>12. FreshOwns' BY <1>0, <1>1, <1>3 DEF CallsInv, FreshOwns
<1> QED BY <1>6, <1>7, <1>8, <1>9, <1>10, <1>11, <1>12 DEF CallsInv

(* The operation that follows in a database transaction of its own.        *)
LEMMA OwnOpKeeps == ASSUME OperationsInv, NEW c \in Call, insertOperation(c) PROVE CallsInv' /\ OneRun'
<1>0. TypeO /\ CallsInv /\ OneRun BY DEF OperationsInv
<1>1. /\ stepO[c] = "started" /\ (stepO' = Set1(stepO, c, "written") \/ stepO' = Set1(stepO, c, "done"))
      /\ dbO' = Set1(dbO, c, "Initialized")
      /\ UNCHANGED <<ownerO, todoO, openO, txO, acceptedO, lostO, raceO>>
  BY DEF insertOperation, writerO, runO
<1>2. /\ \A d \in Call : d # c => stepO'[d] = stepO[d] /\ (InDb(d)' <=> InDb(d))
      /\ stepO'[c] \in {"done", "written"} /\ InDb(c)' /\ \A d \in Call : InDb(d) => InDb(d)'
  BY <1>0, <1>1 DEF Set1, TypeO, InDb
<1>3. \A d \in Call : (OpenO(d)' <=> OpenO(d)) /\ (Clean(d)' <=> Clean(d)) /\ (UnderO(d)' <=> UnderO(d))
  BY <1>1 DEF OpenO, Clean, UnderO, SameKey
<1>4. \A d \in Call : Runs(d)' => Runs(d) BY <1>1, <1>2, <1>3 DEF Runs
<1>5. OneRun'
  <2>1. \A d \in Call : Runs(d)' /\ Clean(d)' => Runs(d) /\ ownerO'[d] = ownerO[d] BY <1>1, <1>4
  <2> QED BY <1>0, <1>3, <2>1, OneRunSame
<1>6. OneOwner' BY <1>0, <1>1 DEF CallsInv, OneOwner, SameKey
<1>7. RunsUnder' BY <1>0, <1>1, <1>3, <1>4 DEF CallsInv, RunsUnder
<1>8. RunsStored' BY <1>0, <1>1, <1>2, <1>3 DEF CallsInv, RunsStored
<1>9. DupsUnder' BY <1>0, <1>1, <1>2 DEF CallsInv, DupsUnder, SameKey
<1>10. TodoStored'
  <2>1. \A d \in Call : todoO[d] \subseteq Call BY <1>0 DEF TypeO
  <2> QED BY <1>0, <1>1, <1>2, <2>1 DEF CallsInv, TodoStored
<1>11. FreshOwns' BY <1>0, <1>1, <1>2 DEF CallsInv, FreshOwns
<1> QED BY <1>5, <1>6, <1>7, <1>8, <1>9, <1>10, <1>11 DEF CallsInv

(* A call that starts again finds no operation under the transaction, and  *)
(* is not clean when another is about to insert one.                       *)
LEMMA StartKeeps == ASSUME OperationsInv, NEW c \in Call, startAgain(c) PROVE CallsInv' /\ OneRun'
<1>0. TypeO /\ CallsInv /\ OneRun BY DEF OperationsInv
<1>1. /\ stepO[c] = "duplicate" /\ KindOf[c] # "contracts" /\ OpsOf(ownerO[c]) = {}
      /\ stepO' = Set1(stepO, c, "started") /\ raceO' = IF Beside(c) THEN raceO \cup {c} ELSE raceO
      /\ UNCHANGED <<ownerO, todoO, openO, txO, dbO, acceptedO, lostO>>
  BY DEF startAgain, writerO, runO
<1>2. ownerO[c] \in txO /\ SameKey(c, ownerO[c]) BY <1>0, <1>1 DEF CallsInv, DupsUnder
<1>3. \A d \in Call : stepO'[d] = IF d = c THEN "started" ELSE stepO[d] BY <1>0, <1>1 DEF Set1, TypeO
<1>4. /\ \A d \in Call : (OpenO(d)' <=> OpenO(d)) /\ (InDb(d)' <=> InDb(d)) /\ (UnderO(d)' <=> UnderO(d))
      /\ \A d \in Call : Clean(d)' => Clean(d)
      /\ Clean(c)' => ~Beside(c)
  BY <1>1 DEF OpenO, InDb, UnderO, Clean, SameKey
<1>5. \A d \in Call : Runs(d)' => d = c \/ Runs(d) BY <1>1, <1>3, <1>4 DEF Runs
<1>6. OneRun'
  <2>1. \A d \in Call : Runs(d)' /\ Clean(d)' => d \in {c} \/ (Runs(d) /\ ownerO'[d] = ownerO[d]) BY <1>1, <1>5
  <2>2. ASSUME NEW d \in Call, Runs(d)', Clean(c)', Clean(d)', ownerO'[c] = ownerO'[d], SameKey(c, d) PROVE c = d
    <3> SUFFICES ASSUME d # c PROVE FALSE OBVIOUS
    <3>1. Runs(d) /\ d \notin lostO /\ ownerO[d] = ownerO[c] BY <1>1, <1>4, <1>5, <2>2 DEF Clean
    <3>2. ~InDb(d) BY <1>1, <3>1 DEF OpsOf, InDb
    <3>3. stepO[d] # "started" BY <1>4, <2>2, <3>1 DEF Beside
    <3>4. ~OpenO(d)
      <4>1. SameKey(d, ownerO[c]) BY <1>2, <2>2 DEF SameKey
      <4> QED BY <1>0, <1>2, <4>1 DEF CallsInv, OneOwner, OpenO
    <3> QED BY <1>0, <3>1, <3>2, <3>3, <3>4 DEF CallsInv, RunsStored, Runs
  <2>3. PICK N : N = {c} OBVIOUS
  <2>4. \A x \in N, d \in Call :
           Runs(d)' /\ Clean(x)' /\ Clean(d)' /\ ownerO'[x] = ownerO'[d] /\ SameKey(x, d) => x = d
    BY <2>2, <2>3
  <2>5. \A d \in Call : Runs(d)' /\ Clean(d)' => d \in N \/ (Runs(d) /\ ownerO'[d] = ownerO[d]) BY <2>1, <2>3
  <2>6. \A d \in Call : Clean(d)' => Clean(d) BY <1>4
  <2> QED BY <1>0, <2>4, <2>5, <2>6, OneRunKept
<1>7. OneOwner' BY <1>0, <1>1 DEF CallsInv, OneOwner, SameKey
<1>8. RunsUnder'
  <2>1. UnderO(c)' BY <1>2, <1>4 DEF UnderO
  <2> QED BY <1>0, <1>1, <1>4, <1>5, <2>1 DEF CallsInv, RunsUnder
<1>9. RunsStored' BY <1>0, <1>1, <1>3, <1>4 DEF CallsInv, RunsStored
<1>10. DupsUnder' BY <1>0, <1>1, <1>3 DEF CallsInv, DupsUnder, SameKey
<1>11. TodoStored' BY <1>0, <1>1 DEF CallsInv, TodoStored, InDb
<1>12. FreshOwns' BY <1>0, <1>1, <1>3 DEF CallsInv, FreshOwns
<1> QED BY <1>6, <1>7, <1>8, <1>9, <1>10, <1>11, <1>12 DEF CallsInv

(* The other steps write no transaction and no operation.                  *)
LEMMA RunsKeep ==
  ASSUME OperationsInv, NEW c \in Call,
         insertFailsO(c) \/ runOwn(c) \/ report(c) \/ readForResubmit(c) \/ ResubmitOperations(c)
  PROVE  CallsInv' /\ OneRun'
<1>0. TypeO /\ CallsInv /\ TypeO' BY CallTypes DEF OperationsInv, CallStep
<1>1. UNCHANGED <<ownerO, txO, openO, lostO, raceO, dbO>>
  BY DEF insertFailsO, runOwn, report, readForResubmit, ResubmitOperations, writerO, boundsO
<1>2. \A d \in Call : InDb(d)' <=> InDb(d) BY <1>1 DEF InDb
<1>3. acceptedO' \subseteq Call /\ todoO' \in [Call -> SUBSET Call] BY <1>0 DEF TypeO
<1>4. \E v \in {"done", "report", "resubmit"} : stepO' = Set1(stepO, c, v)
  <2>1. CASE ResubmitOperations(c)
    <3>1. PICK o \in todoO[c] : \/ stepO' = Set1(stepO, c, IF todoO[c] = {o} THEN "done" ELSE "resubmit")
                                \/ stepO' = Set1(stepO, c, "report")
      BY <2>1 DEF ResubmitOperations
    <3> QED BY <3>1
  <2>2. CASE readForResubmit(c) BY <2>2 DEF readForResubmit
  <2>3. CASE report(c) BY <2>3 DEF report
  <2>4. CASE insertFailsO(c) \/ runOwn(c) BY <2>4 DEF insertFailsO, runOwn
  <2> QED BY <2>1, <2>2, <2>3, <2>4
<1>5. \A d \in Call : stepO'[d] \in {"new", "duplicate", "started", "written"} => stepO'[d] = stepO[d]
  BY <1>0, <1>4 DEF Set1, TypeO
<1>6. /\ \A d \in acceptedO' : d \in acceptedO \/ stepO[d] = "written" \/ InDb(d)
      /\ \A d \in Call : \A o \in todoO'[d] : InDb(o)
  <2>1. CASE insertFailsO(c) \/ report(c)
    <3>1. UNCHANGED <<acceptedO, todoO>> BY <2>1 DEF insertFailsO, report, runO
    <3> QED BY <1>0, <3>1 DEF CallsInv, TodoStored
  <2>2. CASE runOwn(c)
    <3>1. /\ stepO[c] = "written" /\ acceptedO' \subseteq acceptedO \cup {c}
          /\ \A d \in Call : todoO'[d] \subseteq todoO[d] \cup {}
      BY <1>0, <2>2, RunOperationTypes DEF runOwn
    <3> QED BY <1>0, <3>1 DEF CallsInv, TodoStored
  <2>3. CASE readForResubmit(c)
    <3>1. acceptedO' = acceptedO /\ todoO' = Set1(todoO, c, {o \in OpsOf(ownerO[c]) : dbO[o] = "Initialized"})
      BY <2>3 DEF readForResubmit, runO
    <3>2. \A d \in Call : \A o \in todoO'[d] : o \in todoO[d] \/ InDb(o) BY <1>0, <3>1 DEF Set1, TypeO, OpsOf, InDb
    <3> QED BY <1>0, <3>1, <3>2 DEF CallsInv, TodoStored
  <2>4. CASE ResubmitOperations(c)
    <3>1. PICK o \in todoO[c] :
            \/ /\ todoO' = Set1(todoO, c, todoO[c] \ {o}) /\ UNCHANGED acceptedO
            \/ RunOperation(c, o, todoO[c] \ {o})
      BY <2>4 DEF ResubmitOperations
    <3>2. o \in Call /\ InDb(o) /\ \A x \in todoO[c] : InDb(x) BY <1>0, <3>1 DEF TypeO, CallsInv, TodoStored
    <3>3. CASE RunOperation(c, o, todoO[c] \ {o})
      <4>1. /\ acceptedO' \subseteq acceptedO \cup {o}
            /\ \A d \in Call : todoO'[d] \subseteq todoO[d] \cup (todoO[c] \ {o})
        BY <1>0, <3>2, <3>3, RunOperationTypes
      <4>2. \A d \in Call : \A x \in todoO[d] : InDb(x) BY <1>0 DEF CallsInv, TodoStored
      <4> QED BY <3>2, <4>1, <4>2
    <3>4. CASE todoO' = Set1(todoO, c, todoO[c] \ {o}) /\ UNCHANGED acceptedO
      <4>1. \A d \in Call : todoO'[d] \subseteq todoO[d] BY <1>0, <3>4 DEF Set1, TypeO
      <4> QED BY <1>0, <3>4, <4>1 DEF CallsInv, TodoStored
    <3> QED BY <3>1, <3>3, <3>4
  <2> QED BY <2>1, <2>2, <2>3, <2>4
<1> QED BY <1>1, <1>2, <1>3, <1>5, <1>6, QuietKeeps

(* Every step of the operations keeps their invariant.                     *)
LEMMA OperationsStep == ASSUME OperationsInv, [NextO]_varsO PROVE OperationsInv'
<1>0. TypeO /\ TypeO' /\ CallsInv BY OperationsTypes DEF OperationsInv
<1>1. \A c \in Call : \A o \in todoO[c] : InDb(o) BY <1>0 DEF CallsInv, TodoStored
<1>2. ASSUME UNCHANGED <<stepO, ownerO, todoO, txO, openO, lostO, raceO, acceptedO>>,
             \A c \in Call : InDb(c)' <=> InDb(c)
      PROVE  CallsInv' /\ OneRun'
  BY <1>0, <1>1, <1>2, QuietKeeps DEF TypeO
<1>3. CASE UNCHANGED varsO
  <2>1. UNCHANGED <<stepO, ownerO, todoO, txO, openO, lostO, raceO, acceptedO, dbO>>
    BY <1>3 DEF varsO, callsO, writerO, runO, boundsO
  <2> QED BY <1>0, <1>2, <2>1 DEF InDb, OperationsInv
<1>4. ASSUME NEW w \in Writer, NEW c \in Call, WriteTransactionAndOps(c, w) PROVE CallsInv' /\ OneRun'
  <2>1. /\ UNCHANGED <<ownerO, todoO, txO, openO, lostO, raceO, acceptedO, dbO>>
        /\ stepO' = Set1(stepO, c, "queued")
    BY <1>4 DEF WriteTransactionAndOps, runO, boundsO
  <2>2. \A d \in Call : stepO'[d] \in {"new", "duplicate", "started", "written"} => stepO'[d] = stepO[d]
    BY <1>0, <2>1 DEF Set1, TypeO
  <2>3. \A d \in Call : InDb(d)' <=> InDb(d) BY <2>1 DEF InDb
  <2> QED BY <1>0, <1>1, <2>1, <2>2, <2>3, QuietKeeps DEF TypeO
<1>5. ASSUME NEW w \in Writer, rollbackBatch(w) PROVE CallsInv' /\ OneRun'
  <2>1. /\ openO' = [openO EXCEPT ![w] = {}] /\ lostO' = lostO \cup openO[w]
        /\ UNCHANGED <<ownerO, txO, dbO, acceptedO, raceO, stepO, todoO>>
    BY <1>5 DEF rollbackBatch, callsO, runO
  <2>2. \A v \in Writer : openO'[v] = openO[v] \/ (openO'[v] = {} /\ openO[v] \subseteq lostO')
    BY <1>0, <2>1 DEF TypeO
  <2> QED BY <2>1, <2>2, LossKeeps
<1>6. ASSUME restart PROVE CallsInv' /\ OneRun'
  <2>1. /\ openO' = [w \in Writer |-> {}] /\ lostO' = lostO \cup UNION {openO[w] : w \in Writer}
        /\ UNCHANGED <<ownerO, txO, dbO, acceptedO, raceO>>
        /\ stepO' = [c \in Call |-> IF stepO[c] = "new" THEN "new" ELSE "done"]
        /\ todoO' = [c \in Call |-> {}]
    BY <1>6 DEF restart
  <2>2. \A v \in Writer : openO'[v] = {} /\ openO[v] \subseteq lostO' BY <2>1
  <2>3. \A c \in Call : stepO'[c] = stepO[c] \/ stepO'[c] = "done" BY <2>1
  <2>4. \A c \in Call : todoO'[c] \subseteq todoO[c] BY <2>1
  <2>5. lostO \subseteq lostO' BY <2>1
  <2>6. \A v \in Writer : openO'[v] = openO[v] \/ (openO'[v] = {} /\ openO[v] \subseteq lostO') BY <2>2
  <2>7. UNCHANGED <<ownerO, txO, dbO, acceptedO, raceO>> BY <2>1
  <2> QED BY <2>3, <2>4, <2>5, <2>6, <2>7, LossKeeps
<1>7. ASSUME NEW c \in Call, NEW s \in {"Succeeded", "Failed"}, connectorEvent(c, s) PROVE CallsInv' /\ OneRun'
  <2>1. UNCHANGED <<stepO, ownerO, todoO, txO, openO, lostO, raceO, acceptedO, dbO>>
    BY <1>7 DEF connectorEvent, callsO, writerO, boundsO
  <2> QED BY <1>2, <2>1 DEF InDb
<1>8. ASSUME NEW c \in Call, updaterLoop(c) PROVE CallsInv' /\ OneRun'
  <2>1. UNCHANGED <<stepO, ownerO, todoO, txO, openO, lostO, raceO, acceptedO>>
    BY <1>8 DEF updaterLoop, callsO, writerO, boundsO
  <2>2. queueO[c] \in Seq(StatusO) /\ queueO[c] # <<>> BY <1>0, <1>8 DEF updaterLoop, TypeO
  <2>3. PICK new : new = Head(queueO[c]) OBVIOUS
  <2>4. new # "absent" BY <2>2, <2>3 DEF StatusO
  <2>5. dbO' = IF Resolves(dbO[c], new) THEN Set1(dbO, c, new) ELSE dbO BY <1>8, <2>3 DEF updaterLoop
  <2>6. \A d \in Call : InDb(d)' <=> InDb(d) BY <1>0, <2>4, <2>5 DEF Resolves, Set1, TypeO, InDb
  <2> QED BY <1>2, <2>1, <2>6
<1>9. ASSUME NEW c \in Call, CallStep(c) PROVE CallsInv' /\ OneRun'
  BY <1>9, TakenKeeps, SubmitKeeps, OwnOpKeeps, StartKeeps, RunsKeep DEF CallStep
<1>10. CallsInv' /\ OneRun'
  <2>1. CASE UNCHANGED varsO BY <1>3, <2>1 DEF OperationsInv
  <2>2. CASE NextO
    <3>1. ASSUME NEW w \in Writer, processBatch(w) \/ commitBatch(w) PROVE CallsInv' /\ OneRun'
      BY <3>1, ProcessKeeps, CommitKeeps
    <3>2. \/ \E w \in Writer : \/ processBatch(w) \/ commitBatch(w)
                              \/ rollbackBatch(w) \/ \E c \in Call : WriteTransactionAndOps(c, w)
          \/ \E c \in Call : CallStep(c) \/ updaterLoop(c)
                             \/ \E s \in {"Succeeded", "Failed"} : connectorEvent(c, s)
          \/ restart
      BY <2>2 DEF NextO, CallStep
    <3> QED BY <1>4, <1>5, <1>6, <1>7, <1>8, <1>9, <3>1, <3>2
  <2> QED BY <2>1, <2>2
<1> QED BY <1>0, <1>10 DEF OperationsInv

(* The invariant holds what was to be shown.                               *)
LEMMA OperationsSafe == ASSUME OperationsInv PROVE SubmittedOncePerKey
<1>0. TypeO /\ CallsInv /\ OneRun BY DEF OperationsInv
<1> SUFFICES ASSUME NEW c \in acceptedO, NEW d \in acceptedO, SameKey(c, d), {c, d} \cap (lostO \cup raceO) = {}
             PROVE  c = d
  BY DEF SubmittedOncePerKey
<1>1. c \in Call /\ d \in Call /\ Runs(c) /\ Runs(d) /\ Clean(c) /\ Clean(d) /\ SameKey(d, c)
  BY <1>0 DEF TypeO, Runs, Clean, SameKey
<1>2. UnderO(c) /\ UnderO(d) BY <1>0, <1>1 DEF CallsInv, RunsUnder, Clean
<1>3. CASE OpenO(c) /\ OpenO(d) BY <1>0, <1>3 DEF CallsInv, OneOwner, OpenO
<1>4. CASE ~OpenO(c) /\ ~OpenO(d)
  <2>1. ownerO[d] \in txO /\ SameKey(c, ownerO[d]) BY <1>1, <1>2, <1>4 DEF UnderO, SameKey
  <2>2. ownerO[c] = ownerO[d] BY <1>1, <1>4, <2>1, OwnerIsTheOne DEF Clean
  <2> QED BY <1>0, <1>1, <2>2 DEF OneRun
<1>5. ASSUME NEW x \in {c, d}, NEW y \in {c, d}, OpenO(x), ~OpenO(y) PROVE FALSE
  <2>1. ownerO[y] \in txO /\ SameKey(x, ownerO[y]) BY <1>1, <1>2, <1>5 DEF UnderO, SameKey
  <2> QED BY <1>0, <1>5, <2>1 DEF CallsInv, OneOwner, OpenO
<1> QED BY <1>3, <1>4, <1>5

(* What a call has not written is absent: before its step that writes it,  *)
(* and while a database transaction with it is open.  A batch waits with   *)
(* calls that are queued, and no call is in two.                           *)
Unwritten(c) == stepO[c] \in {"new", "queued", "duplicate", "started"}
NotWritten ==
    /\ \A c \in Call : Unwritten(c) => ~InDb(c) /\ ~OpenO(c)
    /\ \A c \in Call : OpenO(c) => ~InDb(c)
    /\ \A w \in Writer : openO[w] \subseteq batchO[w]
    /\ \A w \in Writer : openO[w] = {} => \A c \in batchO[w] : stepO[c] = "queued"
    /\ \A w \in Writer : \A c \in batchO[w] : stepO[c] # "new"
    /\ \A v, w \in Writer : \A c \in Call : c \in batchO[v] /\ c \in batchO[w] => v = w

(* Unless a submission of it failed, an operation has at most one end, and *)
(* its row, what is queued for it and what a call has to report of it do   *)
(* not know another.                                                       *)
EndO == {"Succeeded", "Failed"}
EndsOf(o) == {"Pending"} \cup finalO[o]
EndsKnown ==
    \A o \in Call \ erredO :
        /\ dbO[o] \in EndO => dbO[o] \in finalO[o]
        /\ \A i \in DOMAIN queueO[o] : queueO[o][i] \in EndsOf(o)
        /\ \A c \in Call : \A r \in reportO[c] : r[1] = o => r[2] \in EndsOf(o)
        /\ \A s, t \in finalO[o] : s = t
        /\ finalO[o] # {} => o \in acceptedO
EndsInv == TypeO /\ DOMAIN finalO = Call /\ NotWritten /\ EndsKnown

LEMMA EndsInit == ASSUME InitO PROVE EndsInv
<1>1. TypeO BY OperationsInit DEF OperationsInv
<1>2. DOMAIN finalO = Call BY DEF InitO
<1>3. NotWritten BY DEF InitO, NotWritten, OpenO, InDb
<1>4. EndsKnown BY DEF InitO, EndsKnown, EndO
<1> QED BY <1>1, <1>2, <1>3, <1>4 DEF EndsInv

(* The row of an operation is written once, and only an update changes it. *)
RowStep(c) == \/ dbO'[c] = dbO[c]
              \/ ~InDb(c) /\ dbO'[c] = "Initialized"
              \/ updaterLoop(c) /\ dbO'[c] = Head(queueO[c]) /\ Resolves(dbO[c], Head(queueO[c]))
LEMMA RowSteps == ASSUME EndsInv, [NextO]_varsO, NEW c \in Call PROVE RowStep(c)
<1>0. TypeO /\ NotWritten /\ c \in DOMAIN dbO BY DEF EndsInv, TypeO
<1>1. CASE dbO' = dbO BY <1>1 DEF RowStep
<1>2. ASSUME NEW w \in Writer, commitBatch(w) PROVE RowStep(c)
  <2>1. dbO' = SetAll(dbO, openO[w], "Initialized") BY <1>2 DEF commitBatch
  <2>2. c \in openO[w] => ~InDb(c) BY <1>0 DEF NotWritten, OpenO
  <2> QED BY <1>0, <2>1, <2>2 DEF SetAll, RowStep
<1>3. ASSUME NEW d \in Call, createTokenPool(d) \/ insertOperation(d) PROVE RowStep(c)
  <2>1. ~InDb(d) BY <1>0, <1>3 DEF NotWritten, Unwritten, createTokenPool, insertOperation
  <2>2. dbO' = dbO \/ dbO' = Set1(dbO, d, "Initialized") BY <1>3 DEF createTokenPool, insertOperation
  <2> QED BY <1>0, <2>1, <2>2 DEF Set1, RowStep
<1>4. ASSUME NEW d \in Call, updaterLoop(d) PROVE RowStep(c)
  <2>1. PICK new : new = Head(queueO[d]) OBVIOUS
  <2>2. dbO' = IF Resolves(dbO[d], new) THEN Set1(dbO, d, new) ELSE dbO BY <1>4, <2>1 DEF updaterLoop
  <2>3. CASE d = c /\ Resolves(dbO[d], new)
    <3>1. dbO'[c] = new BY <1>0, <2>2, <2>3 DEF Set1
    <3> QED BY <1>4, <2>1, <2>3, <3>1 DEF RowStep
  <2>4. CASE d # c \/ ~Resolves(dbO[d], new) BY <1>0, <2>2, <2>4 DEF Set1, RowStep
  <2> QED BY <2>3, <2>4
<1>5. \/ dbO' = dbO \/ \E w \in Writer : commitBatch(w)
      \/ \E d \in Call : createTokenPool(d) \/ insertOperation(d) \/ updaterLoop(d)
  <2>1. CASE UNCHANGED varsO BY <2>1 DEF varsO
  <2>2. CASE NextO
    BY <2>2 DEF NextO, processBatch, insertBatch, rollbackBatch, WriteTransactionAndOps, keyTaken, SubmitNewTransaction,
         insertFailsO, runOwn, report, startAgain, readForResubmit, ResubmitOperations, connectorEvent, restart, runO
  <2> QED BY <2>1, <2>2
<1> QED BY <1>1, <1>2, <1>3, <1>4, <1>5

(* What a step may do to the status of an operation.                       *)
PendingStep == \A c \in Call : dbO[c] \in {"Succeeded", "Failed"} => dbO'[c] # "Pending"
FinalStep == \A c \in Call : dbO[c] \in {"Succeeded", "Failed"} /\ dbO'[c] # dbO[c] => c \in erredO
LEMMA StatusSteps == ASSUME EndsInv, [NextO]_varsO PROVE PendingStep /\ FinalStep
<1> SUFFICES ASSUME NEW c \in Call, dbO[c] \in EndO, dbO'[c] # dbO[c]
             PROVE  dbO'[c] # "Pending" /\ c \in erredO
  BY DEF PendingStep, FinalStep, EndO
<1>1. PICK new : new = Head(queueO[c]) OBVIOUS
<1>2. updaterLoop(c) /\ dbO'[c] = new /\ Resolves(dbO[c], new) BY <1>1, RowSteps DEF RowStep, InDb, EndO
<1>3. new # "Pending" BY <1>2 DEF Resolves, EndO
<1>4. ASSUME c \notin erredO PROVE FALSE
  <2>1. queueO[c] \in Seq(StatusO) /\ queueO[c] # <<>> BY <1>2 DEF updaterLoop, EndsInv, TypeO
  <2>2. 1 \in DOMAIN queueO[c] /\ new = queueO[c][1] BY <1>1, <2>1
  <2>3. new \in finalO[c] /\ dbO[c] \in finalO[c] BY <1>3, <1>4, <2>2 DEF EndsInv, EndsKnown, EndsOf
  <2> QED BY <1>2, <1>4, <2>3 DEF EndsInv, EndsKnown
<1> QED BY <1>2, <1>3, <1>4

(* Writers and calls keep to the order of a write.                         *)
LEMMA NotWrittenKept == ASSUME EndsInv, [NextO]_varsO PROVE NotWritten'
<1>0. TypeO /\ NotWritten BY DEF EndsInv
<1>1. \A d \in Call : updaterLoop(d) => \A c \in Call : ~InDb(c) => ~InDb(c)'
  <2> SUFFICES ASSUME NEW d \in Call, updaterLoop(d), NEW c \in Call, ~InDb(c) PROVE ~InDb(c)' OBVIOUS
  <2>1. PICK new : dbO' = IF Resolves(dbO[d], new) THEN Set1(dbO, d, new) ELSE dbO BY DEF updaterLoop
  <2> QED BY <1>0, <2>1 DEF Resolves, Set1, InDb, TypeO
<1>2. ASSUME UNCHANGED <<stepO, openO, batchO>>, \A c \in Call : ~InDb(c) => ~InDb(c)' PROVE NotWritten'
  BY <1>0, <1>2 DEF NotWritten, Unwritten, OpenO
<1>3. CASE UNCHANGED varsO
  <2>1. UNCHANGED <<stepO, openO, batchO, dbO>> BY <1>3 DEF varsO, callsO, writerO
  <2> QED BY <1>2, <2>1 DEF InDb
<1>4. ASSUME NEW w \in Writer, NEW c \in Call, WriteTransactionAndOps(c, w) PROVE NotWritten'
  <2>1. /\ stepO[c] = "new" /\ openO[w] = {} /\ UNCHANGED <<openO, dbO>>
        /\ \A d \in Call : stepO'[d] = IF d = c THEN "queued" ELSE stepO[d]
        /\ \A v \in Writer : batchO'[v] = IF v = w THEN batchO[w] \cup {c} ELSE batchO[v]
    BY <1>0, <1>4 DEF WriteTransactionAndOps, Set1, TypeO
  <2>2. \A d \in Call : (OpenO(d)' <=> OpenO(d)) /\ (InDb(d)' <=> InDb(d)) BY <2>1 DEF OpenO, InDb
  <2>3. \A d \in Call : Unwritten(d)' => ~InDb(d)' /\ ~OpenO(d)'
    BY <1>0, <2>1, <2>2 DEF NotWritten, Unwritten
  <2>4. \A d \in Call : OpenO(d)' => ~InDb(d)' BY <1>0, <2>2 DEF NotWritten
  <2>5. \A v \in Writer : openO'[v] \subseteq batchO'[v] BY <1>0, <2>1 DEF NotWritten
  <2>6. \A v \in Writer : \A d \in batchO'[v] : d \in Call /\ (d = c \/ d \in batchO[v]) BY <1>0, <2>1 DEF TypeO
  <2>7. \A v \in Writer : openO'[v] = {} => \A d \in batchO'[v] : stepO'[d] = "queued"
    BY <1>0, <2>1, <2>6 DEF NotWritten
  <2>8. \A v \in Writer : \A d \in batchO'[v] : stepO'[d] # "new" BY <1>0, <2>1, <2>6 DEF NotWritten
  <2>9. \A v \in Writer : c \notin batchO[v] BY <1>0, <2>1 DEF NotWritten
  <2>10. \A v, u \in Writer : \A d \in Call : d \in batchO'[v] /\ d \in batchO'[u] => v = u
    <3> SUFFICES ASSUME NEW v \in Writer, NEW u \in Writer, NEW d \in Call, d \in batchO'[v], d \in batchO'[u] PROVE v = u
      OBVIOUS
    <3>1. CASE d = c BY <2>1, <2>9, <3>1
    <3>2. CASE d # c BY <1>0, <2>1, <3>2 DEF NotWritten
    <3> QED BY <3>1, <3>2
  <2> QED BY <2>3, <2>4, <2>5, <2>7, <2>8, <2>10 DEF NotWritten
<1>5. ASSUME NEW w \in Writer, processBatch(w) PROVE NotWritten'
  <2>1. PICK F \in SUBSET batchO[w] :
          /\ openO' = [openO EXCEPT ![w] = F]
          /\ stepO' = [c \in Call |-> IF c \in F THEN "written"
                                      ELSE IF c \in batchO[w] THEN "duplicate" ELSE stepO[c]]
          /\ batchO' = IF F = {} THEN [batchO EXCEPT ![w] = {}] ELSE batchO
    BY <1>5 DEF processBatch, insertBatch, FirstOfKey
  <2>2. openO[w] = {} /\ UNCHANGED dbO BY <1>5 DEF processBatch, insertBatch
  <2>3. /\ \A v \in Writer : openO'[v] = IF v = w THEN F ELSE openO[v]
        /\ \A v \in Writer : batchO'[v] = IF v = w /\ F = {} THEN {} ELSE batchO[v]
    BY <1>0, <2>1 DEF TypeO
  <2>4. \A c \in batchO[w] : c \in Call /\ stepO[c] = "queued" /\ ~InDb(c) /\ ~OpenO(c)
    BY <1>0, <2>2 DEF NotWritten, Unwritten, TypeO
  <2>5. \A c \in Call : OpenO(c)' <=> OpenO(c) \/ c \in F BY <2>2, <2>3 DEF OpenO
  <2>6. \A c \in Call : Unwritten(c)' => ~InDb(c)' /\ ~OpenO(c)'
    BY <1>0, <2>1, <2>2, <2>4, <2>5 DEF NotWritten, Unwritten, InDb
  <2>7. \A c \in Call : OpenO(c)' => ~InDb(c)' BY <1>0, <2>2, <2>4, <2>5 DEF NotWritten, InDb
  <2>8. \A v \in Writer : openO'[v] \subseteq batchO'[v] BY <1>0, <2>3 DEF NotWritten
  <2>9. \A v \in Writer : openO'[v] = {} => \A c \in batchO'[v] : stepO'[c] = "queued"
    <3> SUFFICES ASSUME NEW v \in Writer, openO'[v] = {}, NEW c \in batchO'[v] PROVE stepO'[c] = "queued" OBVIOUS
    <3>1. v # w /\ openO[v] = {} /\ c \in batchO[v] BY <2>3
    <3>2. c \in Call /\ c \notin batchO[w] BY <1>0, <3>1 DEF NotWritten, TypeO
    <3> QED BY <1>0, <2>1, <3>1, <3>2 DEF NotWritten
  <2>10. \A v \in Writer : \A c \in batchO'[v] : stepO'[c] # "new"
    <3> SUFFICES ASSUME NEW v \in Writer, NEW c \in batchO'[v] PROVE stepO'[c] # "new" OBVIOUS
    <3>1. c \in batchO[v] /\ c \in Call BY <1>0, <2>3 DEF TypeO
    <3> QED BY <1>0, <2>1, <3>1 DEF NotWritten
  <2>11. \A v, u \in Writer : \A c \in Call : c \in batchO'[v] /\ c \in batchO'[u] => v = u
    BY <1>0, <2>3 DEF NotWritten
  <2> QED BY <2>6, <2>7, <2>8, <2>9, <2>10, <2>11 DEF NotWritten
<1>6. ASSUME NEW w \in Writer, commitBatch(w) \/ rollbackBatch(w) PROVE NotWritten'
  <2>1. /\ openO' = [openO EXCEPT ![w] = {}] /\ batchO' = [batchO EXCEPT ![w] = {}] /\ UNCHANGED stepO
        /\ dbO' = dbO \/ dbO' = SetAll(dbO, openO[w], "Initialized")
    BY <1>6 DEF commitBatch, rollbackBatch, callsO
  <2>2. /\ \A v \in Writer : openO'[v] = IF v = w THEN {} ELSE openO[v]
        /\ \A v \in Writer : batchO'[v] = IF v = w THEN {} ELSE batchO[v]
        /\ \A c \in Call : InDb(c)' => InDb(c) \/ c \in openO[w]
    BY <1>0, <2>1 DEF TypeO, InDb, SetAll
  <2>3. \A c \in Call : OpenO(c)' => OpenO(c) /\ c \notin openO[w]
    <3> SUFFICES ASSUME NEW c \in Call, NEW v \in Writer, c \in openO'[v] PROVE OpenO(c) /\ c \notin openO[w] BY DEF OpenO
    <3> QED BY <1>0, <2>2 DEF OpenO, NotWritten
  <2>4. \A c \in Call : Unwritten(c)' => ~InDb(c)' /\ ~OpenO(c)'
    BY <1>0, <2>1, <2>2, <2>3 DEF NotWritten, Unwritten, OpenO
  <2>5. \A c \in Call : OpenO(c)' => ~InDb(c)' BY <1>0, <2>2, <2>3 DEF NotWritten
  <2> QED BY <1>0, <2>1, <2>2, <2>4, <2>5 DEF NotWritten
<1>7. ASSUME NEW c \in Call, CallStep(c) PROVE NotWritten'
  <2>1. /\ stepO[c] # "queued" /\ UNCHANGED <<openO, batchO>>
        /\ \A d \in Call : d # c => stepO'[d] = stepO[d]
        /\ stepO'[c] \notin {"new", "queued"}
        /\ stepO'[c] \in {"started", "duplicate"} => Unwritten(c)
    BY <1>0, <1>7 DEF CallStep, keyTaken, SubmitNewTransaction, createTokenPool, insertOperation, insertFailsO, runOwn, report,
         startAgain, readForResubmit, ResubmitOperations, writerO, Set1, TypeO, Unwritten
  <2>2. /\ \A d \in Call : d # c /\ ~InDb(d) => ~InDb(d)'
        /\ InDb(c)' => InDb(c) \/ (stepO'[c] \in {"written", "done"} /\ Unwritten(c))
    <3>1. CASE createTokenPool(c) \/ insertOperation(c)
      BY <1>0, <3>1 DEF createTokenPool, insertOperation, Set1, InDb, TypeO, Unwritten
    <3>2. CASE ~(createTokenPool(c) \/ insertOperation(c))
      <4>1. dbO' = dbO
        BY <1>7, <3>2 DEF CallStep, keyTaken, SubmitNewTransaction, insertFailsO, runOwn, report,
             startAgain, readForResubmit, ResubmitOperations
      <4> QED BY <4>1 DEF InDb
    <3> QED BY <3>1, <3>2
  <2>3. \A d \in Call : OpenO(d)' <=> OpenO(d) BY <2>1 DEF OpenO
  <2>4. \A d \in Call : Unwritten(d)' => ~InDb(d)' /\ ~OpenO(d)'
    BY <1>0, <2>1, <2>2, <2>3 DEF NotWritten, Unwritten
  <2>5. \A d \in Call : OpenO(d)' => ~InDb(d)' BY <1>0, <2>2, <2>3 DEF NotWritten
  <2>6. \A w \in Writer : \A d \in batchO[w] : d \in Call BY <1>0 DEF TypeO
  <2>7. \A w \in Writer : openO'[w] = {} => \A d \in batchO'[w] : stepO'[d] = "queued"
    BY <1>0, <2>1, <2>6 DEF NotWritten
  <2>8. \A w \in Writer : \A d \in batchO'[w] : stepO'[d] # "new" BY <1>0, <2>1, <2>6 DEF NotWritten
  <2> QED BY <1>0, <2>1, <2>4, <2>5, <2>7, <2>8 DEF NotWritten
<1>8. ASSUME NEW o \in Call, NEW s \in {"Succeeded", "Failed"}, connectorEvent(o, s) PROVE NotWritten'
  <2>1. UNCHANGED <<stepO, openO, batchO, dbO>> BY <1>8 DEF connectorEvent, callsO, writerO
  <2> QED BY <1>2, <2>1 DEF InDb
<1>9. ASSUME NEW o \in Call, updaterLoop(o) PROVE NotWritten'
  <2>1. UNCHANGED <<stepO, openO, batchO>> BY <1>9 DEF updaterLoop, callsO, writerO
  <2> QED BY <1>1, <1>2, <1>9, <2>1
<1>10. ASSUME restart PROVE NotWritten'
  <2>1. /\ \A w \in Writer : openO'[w] = {} /\ batchO'[w] = {}
        /\ \A c \in Call : stepO'[c] = IF stepO[c] = "new" THEN "new" ELSE "done"
        /\ UNCHANGED dbO
    BY <1>10 DEF restart
  <2>2. \A c \in Call : ~OpenO(c)' BY <2>1 DEF OpenO
  <2>3. \A c \in Call : Unwritten(c)' => ~InDb(c)' BY <1>0, <2>1 DEF NotWritten, Unwritten, InDb
  <2> QED BY <2>1, <2>2, <2>3 DEF NotWritten
<1>11. CASE NextO
  BY <1>4, <1>5, <1>6, <1>7, <1>8, <1>9, <1>10, <1>11 DEF NextO, CallStep
<1> QED BY <1>3, <1>11

(* Running an operation is reported as Pending or as the end it came to,   *)
(* unless it fails.                                                        *)
LEMMA RunEnds ==
  ASSUME EndsInv, NEW c \in Call, NEW o \in Call, NEW rest, RunOperation(c, o, rest)
  PROVE  /\ DOMAIN finalO' = Call /\ erredO \subseteq erredO' /\ acceptedO \subseteq acceptedO'
         /\ \A d \in Call : d # o => finalO'[d] = finalO[d]
         /\ \A d \in Call : d # c => reportO'[d] = reportO[d]
         /\ \A r \in reportO'[c] : r[1] = o /\ (o \in erredO' \/ r[2] \in EndsOf(o)')
         /\ finalO'[o] = finalO[o] \/ (finalO[o] = {} /\ \E s : finalO'[o] = {s}) \/ o \in erredO'
         /\ finalO'[o] # finalO[o] /\ o \notin erredO' => o \in acceptedO'
<1>0. c \in DOMAIN reportO /\ DOMAIN finalO = Call BY DEF EndsInv, TypeO
<1>1. CASE o \in acceptedO /\ UNCHANGED <<acceptedO, finalO, erredO>>
  <2>1. reportO' = Set1(reportO, c, {<<o, StatusAfter(Out(TRUE, "init", TRUE), TRUE, KeyOf[o] # NoKey)>>})
    BY <1>1 DEF RunOperation
  <2>2. PICK status : status = StatusAfter(Out(TRUE, "init", TRUE), TRUE, KeyOf[o] # NoKey) OBVIOUS
  <2>3. reportO'[c] = {<<o, status>>} /\ \A d \in Call : d # c => reportO'[d] = reportO[d]
    BY <1>0, <2>1, <2>2 DEF Set1
  <2>4. status = "Pending" BY <2>2 DEF StatusAfter, Out
  <2>5. \A r \in reportO'[c] : r[1] = o /\ r[2] \in EndsOf(o)' BY <2>3, <2>4 DEF EndsOf
  <2> QED BY <1>0, <1>1, <2>3, <2>5
<1>2. CASE o \notin acceptedO
  <2>1. PICK out \in OutcomesOf(KindOf[o]) :
            /\ reportO' = Set1(reportO, c, {<<o, StatusAfter(out, FALSE, KeyOf[o] # NoKey)>>})
            /\ acceptedO' = IF out.got THEN acceptedO \cup {o} ELSE acceptedO
            /\ finalO' = IF out.phase = "complete" /\ ~out.err THEN Set1(finalO, o, {"Succeeded"}) ELSE finalO
            /\ erredO' = IF out.err THEN erredO \cup {o} ELSE erredO
    BY <1>2 DEF RunOperation
  <2>2. out.phase = "complete" /\ ~out.err => out.got
    <3>1. PICK kind : kind = KindOf[o] OBVIOUS
    <3>2. kind \in Separate \cup {"contracts", "pools"} BY OperationsAssumption, <3>1
    <3>3. out \in uploadOutcomes \cup sendOutcomes \cup submissionOutcomes \cup tokenOutcomes \cup pinOutcomes
      BY <2>1, <3>1, <3>2 DEF OutcomesOf, Separate
    <3> QED BY <3>3 DEF uploadOutcomes, sendOutcomes, submissionOutcomes, tokenOutcomes, pinOutcomes, Out
  <2>3. PICK status : status = StatusAfter(out, FALSE, KeyOf[o] # NoKey) OBVIOUS
  <2>4. ~out.err => status = IF out.phase = "complete" THEN "Succeeded" ELSE "Pending" BY <2>3 DEF StatusAfter
  <2>5. reportO'[c] = {<<o, status>>} /\ \A d \in Call : d # c => reportO'[d] = reportO[d]
    BY <1>0, <2>1, <2>3 DEF Set1
  <2>6. /\ DOMAIN finalO' = Call /\ \A d \in Call : d # o => finalO'[d] = finalO[d]
        /\ finalO'[o] = IF out.phase = "complete" /\ ~out.err THEN {"Succeeded"} ELSE finalO[o]
    BY <1>0, <2>1 DEF Set1
  <2>7. \A r \in reportO'[c] : r[1] = o /\ (o \in erredO' \/ r[2] \in EndsOf(o)')
    <3>1. o \in erredO' \/ status \in EndsOf(o)' BY <2>1, <2>4, <2>6 DEF EndsOf
    <3> QED BY <2>5, <3>1
  <2>8. finalO[o] = {} \/ o \in erredO BY <1>2 DEF EndsInv, EndsKnown
  <2>9. erredO \subseteq erredO' /\ acceptedO \subseteq acceptedO' BY <2>1
  <2>10. finalO'[o] # finalO[o] /\ o \notin erredO' => o \in acceptedO' BY <2>1, <2>2, <2>6
  <2>11. finalO'[o] = finalO[o] \/ (finalO[o] = {} /\ \E s : finalO'[o] = {s}) \/ o \in erredO' BY <2>6, <2>8, <2>9
  <2> QED BY <2>5, <2>6, <2>7, <2>9, <2>10, <2>11
<1> QED BY <1>1, <1>2 DEF RunOperation

(* The steps that leave the ends alone: what is queued or to be reported   *)
(* was so before, and no row gets an end.                                  *)
LEMMA EndsQuiet ==
  ASSUME EndsInv, UNCHANGED <<finalO, erredO, queueO>>, acceptedO \subseteq acceptedO',
         \A c \in Call : reportO'[c] \subseteq reportO[c],
         \A c \in Call : dbO'[c] \in EndO => dbO'[c] = dbO[c]
  PROVE  EndsKnown' /\ DOMAIN finalO' = Call
<1>1. DOMAIN finalO' = Call BY DEF EndsInv
<1> SUFFICES ASSUME NEW o \in Call \ erredO
             PROVE  /\ dbO'[o] \in EndO => dbO'[o] \in finalO[o]
                    /\ \A i \in DOMAIN queueO[o] : queueO[o][i] \in EndsOf(o)
                    /\ \A c \in Call : \A r \in reportO'[c] : r[1] = o => r[2] \in EndsOf(o)
                    /\ \A s, t \in finalO[o] : s = t
                    /\ finalO[o] # {} => o \in acceptedO'
  BY <1>1 DEF EndsKnown, EndsOf
<1> QED BY DEF EndsInv, EndsKnown

(* So does a call that runs an operation, but for that operation.          *)
LEMMA EndsRun ==
  ASSUME EndsInv, NEW c \in Call, NEW o \in Call, NEW rest, RunOperation(c, o, rest), UNCHANGED <<queueO, dbO>>
  PROVE  EndsKnown' /\ DOMAIN finalO' = Call
<1>1. /\ DOMAIN finalO' = Call /\ erredO \subseteq erredO' /\ acceptedO \subseteq acceptedO'
      /\ \A d \in Call : d # o => finalO'[d] = finalO[d]
      /\ \A d \in Call : d # c => reportO'[d] = reportO[d]
      /\ \A r \in reportO'[c] : r[1] = o /\ (o \in erredO' \/ r[2] \in EndsOf(o)')
      /\ finalO'[o] = finalO[o] \/ (finalO[o] = {} /\ \E s : finalO'[o] = {s}) \/ o \in erredO'
      /\ finalO'[o] # finalO[o] /\ o \notin erredO' => o \in acceptedO'
  BY RunEnds
<1> SUFFICES ASSUME NEW d \in Call \ erredO'
             PROVE  /\ dbO[d] \in EndO => dbO[d] \in finalO'[d]
                    /\ \A i \in DOMAIN queueO[d] : queueO[d][i] \in EndsOf(d)'
                    /\ \A e \in Call : \A r \in reportO'[e] : r[1] = d => r[2] \in EndsOf(d)'
                    /\ \A s, t \in finalO'[d] : s = t
                    /\ finalO'[d] # {} => d \in acceptedO'
  BY <1>1 DEF EndsKnown, EndsOf
<1>2. d \in Call \ erredO BY <1>1
<1>3. finalO[d] \subseteq finalO'[d] BY <1>1
<1>4. EndsOf(d) \subseteq EndsOf(d)' BY <1>3 DEF EndsOf
<1>5. /\ dbO[d] \in EndO => dbO[d] \in finalO'[d]
      /\ \A i \in DOMAIN queueO[d] : queueO[d][i] \in EndsOf(d)'
  BY <1>2, <1>3, <1>4 DEF EndsInv, EndsKnown
<1>6. \A e \in Call : \A r \in reportO'[e] : r[1] = d => r[2] \in EndsOf(d)'
  <2> SUFFICES ASSUME NEW e \in Call, NEW r \in reportO'[e], r[1] = d PROVE r[2] \in EndsOf(d)' OBVIOUS
  <2>1. CASE e = c BY <1>1, <2>1
  <2>2. CASE e # c BY <1>1, <1>2, <1>4, <2>2 DEF EndsInv, EndsKnown
  <2> QED BY <2>1, <2>2
<1>7. /\ \A s, t \in finalO'[d] : s = t
      /\ finalO'[d] # {} => d \in acceptedO'
  BY <1>1, <1>2 DEF EndsInv, EndsKnown
<1> QED BY <1>5, <1>6, <1>7

(* So does a status that is queued, when the operation has it.             *)
LEMMA EndsSubmitted ==
  ASSUME EndsInv, NEW o \in Call, NEW status, Submitted(o, status), status \in StatusO,
         UNCHANGED <<dbO, erredO, acceptedO>>, DOMAIN finalO' = Call,
         \A c \in Call : reportO'[c] \subseteq reportO[c],
         \A c \in Call \ erredO : finalO[c] \subseteq finalO'[c] /\ \A s, t \in finalO'[c] : s = t,
         \A c \in Call \ erredO : finalO'[c] # {} => c \in acceptedO,
         o \in erredO \/ status \in EndsOf(o)'
  PROVE  EndsKnown'
<1> SUFFICES ASSUME NEW d \in Call \ erredO
             PROVE  /\ dbO[d] \in EndO => dbO[d] \in finalO'[d]
                    /\ \A i \in DOMAIN queueO'[d] : queueO'[d][i] \in EndsOf(d)'
                    /\ \A e \in Call : \A r \in reportO'[e] : r[1] = d => r[2] \in EndsOf(d)'
  BY DEF EndsKnown, EndsOf
<1>1. EndsOf(d) \subseteq EndsOf(d)' BY DEF EndsOf
<1>2. dbO[d] \in EndO => dbO[d] \in finalO'[d] BY DEF EndsInv, EndsKnown
<1>3. \A e \in Call : \A r \in reportO'[e] : r[1] = d => r[2] \in EndsOf(d)' BY <1>1 DEF EndsInv, EndsKnown
<1>4. \A i \in DOMAIN queueO'[d] : queueO'[d][i] \in EndsOf(d)'
  <2>1. queueO \in [Call -> Seq(StatusO)] BY DEF EndsInv, TypeO
  <2>2. queueO[d] \in Seq(StatusO) /\ queueO'[d] = IF d = o THEN Append(queueO[o], status) ELSE queueO[d]
    BY <2>1 DEF Submitted
  <2>3. \A i \in DOMAIN queueO[d] : queueO[d][i] \in EndsOf(d)' BY <1>1 DEF EndsInv, EndsKnown
  <2>4. CASE d # o BY <2>2, <2>3, <2>4
  <2>5. CASE d = o
    <3>1. queueO'[d] = Append(queueO[d], status) /\ status \in EndsOf(d)' BY <2>2, <2>5
    <3> QED BY <2>2, <2>3, <3>1
  <2> QED BY <2>4, <2>5
<1> QED BY <1>2, <1>3, <1>4

(* Every step keeps what is known of the ends.                             *)
LEMMA EndsStep == ASSUME EndsInv, [NextO]_varsO PROVE EndsInv'
<1>0. TypeO /\ TypeO' /\ EndsKnown /\ NotWritten' BY OperationsTypes, NotWrittenKept DEF EndsInv
<1>1. ASSUME UNCHANGED <<finalO, erredO, queueO>>, acceptedO \subseteq acceptedO',
             \A c \in Call : reportO'[c] \subseteq reportO[c], ~\E c \in Call : updaterLoop(c)
      PROVE  EndsKnown' /\ DOMAIN finalO' = Call
  <2>1. \A c \in Call : dbO'[c] \in EndO => dbO'[c] = dbO[c] BY <1>1, RowSteps DEF RowStep, EndO
  <2> QED BY <1>1, <2>1, EndsQuiet
<1>2. ASSUME NEW c \in Call, updaterLoop(c) PROVE EndsKnown' /\ DOMAIN finalO' = Call
  <2>1. UNCHANGED <<finalO, erredO, acceptedO, reportO>> /\ queueO' = [queueO EXCEPT ![c] = Tail(@)] /\ queueO[c] # <<>>
    BY <1>2 DEF updaterLoop, callsO
  <2>2. PICK new : new = Head(queueO[c]) OBVIOUS
  <2>3. dbO' = dbO \/ dbO' = Set1(dbO, c, new) BY <1>2, <2>2 DEF updaterLoop
  <2>4. \A d \in Call : dbO'[d] = dbO[d] \/ (d = c /\ dbO'[d] = new) BY <1>0, <2>3 DEF Set1, TypeO
  <2>5. queueO \in [Call -> Seq(StatusO)] /\ queueO[c] \in Seq(StatusO) BY <1>0 DEF TypeO
  <2>6. 1 \in DOMAIN queueO[c] /\ new = queueO[c][1] BY <2>1, <2>2, <2>5
  <2>7. \A d \in Call : \A i \in DOMAIN queueO'[d] : \E j \in DOMAIN queueO[d] : queueO'[d][i] = queueO[d][j]
    <3> SUFFICES ASSUME NEW d \in Call, NEW i \in DOMAIN queueO'[d] PROVE \E j \in DOMAIN queueO[d] : queueO'[d][i] = queueO[d][j]
      OBVIOUS
    <3>1. CASE d # c BY <2>1, <2>5, <3>1
    <3>2. CASE d = c
      <4>1. queueO'[c] = Tail(queueO[c]) BY <2>1, <2>5
      <4>2. i + 1 \in DOMAIN queueO[c] /\ queueO'[c][i] = queueO[c][i + 1] BY <2>1, <2>5, <3>2, <4>1
      <4> QED BY <3>2, <4>2
    <3> QED BY <3>1, <3>2
  <2> SUFFICES ASSUME NEW o \in Call \ erredO
               PROVE  /\ dbO'[o] \in EndO => dbO'[o] \in finalO[o]
                      /\ \A i \in DOMAIN queueO'[o] : queueO'[o][i] \in EndsOf(o)
    BY <1>0, <2>1 DEF EndsKnown, EndsOf, EndsInv
  <2>8. dbO[o] \in EndO => dbO[o] \in finalO[o] BY <1>0 DEF EndsKnown
  <2>9. \A i \in DOMAIN queueO[o] : queueO[o][i] \in EndsOf(o) BY <1>0 DEF EndsKnown
  <2>10. new \in EndO /\ o = c => new \in finalO[o] BY <2>6, <2>9 DEF EndsOf, EndO
  <2> QED BY <2>4, <2>7, <2>8, <2>9, <2>10
<1>3. ASSUME NEW c \in Call, runOwn(c) PROVE EndsKnown' /\ DOMAIN finalO' = Call
  BY <1>3, EndsRun DEF runOwn
<1>4. ASSUME NEW c \in Call, ResubmitOperations(c) PROVE EndsKnown' /\ DOMAIN finalO' = Call
  <2>1. PICK o \in todoO[c] : \/ UNCHANGED <<reportO, acceptedO, finalO, erredO>>
                              \/ RunOperation(c, o, todoO[c] \ {o})
    BY <1>4 DEF ResubmitOperations
  <2>2. o \in Call BY <1>0, <2>1 DEF TypeO
  <2>3. UNCHANGED <<queueO, dbO>> BY <1>4 DEF ResubmitOperations
  <2>4. CASE UNCHANGED <<reportO, acceptedO, finalO, erredO>>
    <3>1. \A d \in Call : dbO'[d] \in EndO => dbO'[d] = dbO[d] BY <2>3
    <3>2. \A d \in Call : reportO'[d] \subseteq reportO[d] BY <2>4
    <3> QED BY <2>3, <2>4, <3>1, <3>2, EndsQuiet
  <2>5. CASE RunOperation(c, o, todoO[c] \ {o}) BY <2>2, <2>3, <2>5, EndsRun
  <2> QED BY <2>1, <2>4, <2>5
<1>5. ASSUME NEW c \in Call, report(c) PROVE EndsKnown' /\ DOMAIN finalO' = Call
  <2>1. PICK r \in reportO[c] : Submitted(r[1], r[2]) BY <1>5 DEF report
  <2>2. r[1] \in Call /\ r[2] \in StatusO BY <1>0, <2>1 DEF TypeO
  <2>3. UNCHANGED <<dbO, erredO, acceptedO, finalO>> /\ \A d \in Call : reportO'[d] \subseteq reportO[d]
    BY <1>0, <1>5 DEF report, Set1, TypeO
  <2>4. r[1] \in erredO \/ r[2] \in EndsOf(r[1])' BY <1>0, <2>1, <2>2, <2>3 DEF EndsKnown, EndsOf
  <2>5. PICK o, status : o = r[1] /\ status = r[2] OBVIOUS
  <2>6. /\ \A d \in Call \ erredO : finalO[d] \subseteq finalO'[d] /\ \A s, t \in finalO'[d] : s = t
        /\ \A d \in Call \ erredO : finalO'[d] # {} => d \in acceptedO
        /\ DOMAIN finalO' = Call
    BY <1>0, <2>3 DEF EndsKnown, EndsInv
  <2>7. o \in Call /\ status \in StatusO /\ Submitted(o, status) /\ (o \in erredO \/ status \in EndsOf(o)')
    BY <2>1, <2>2, <2>4, <2>5
  <2> QED BY <2>3, <2>6, <2>7, EndsSubmitted
<1>6. ASSUME NEW o \in Call, NEW status \in {"Succeeded", "Failed"}, connectorEvent(o, status)
      PROVE  EndsKnown' /\ DOMAIN finalO' = Call
  <2>1. /\ o \in acceptedO /\ finalO[o] = {} /\ finalO' = [finalO EXCEPT ![o] = @ \cup {status}]
        /\ Submitted(o, status) /\ UNCHANGED <<dbO, erredO, acceptedO, reportO>>
    BY <1>6 DEF connectorEvent, callsO
  <2>2. DOMAIN finalO = Call BY DEF EndsInv
  <2>3. DOMAIN finalO' = Call /\ \A d \in Call : finalO'[d] = IF d = o THEN {status} ELSE finalO[d] BY <2>1, <2>2
  <2>4. /\ \A d \in Call \ erredO : finalO[d] \subseteq finalO'[d] /\ \A s, t \in finalO'[d] : s = t
        /\ \A d \in Call \ erredO : finalO'[d] # {} => d \in acceptedO
    BY <1>0, <2>1, <2>3 DEF EndsKnown
  <2>5. status \in EndsOf(o)' /\ status \in StatusO BY <2>3 DEF EndsOf, StatusO
  <2>6. \A d \in Call : reportO'[d] \subseteq reportO[d] BY <2>1
  <2> QED BY <2>1, <2>3, <2>4, <2>5, <2>6, EndsSubmitted
<1>7. ASSUME restart PROVE EndsKnown' /\ DOMAIN finalO' = Call
  <2>1. /\ finalO' = [c \in Call |-> IF dbO[c] \in finalO[c] THEN finalO[c] ELSE {}]
        /\ \A c \in Call : queueO'[c] = <<>> /\ reportO'[c] = {}
        /\ UNCHANGED <<dbO, erredO, acceptedO>>
    BY <1>7 DEF restart
  <2> QED BY <1>0, <2>1 DEF EndsKnown, EndsOf
<1>8. \/ UNCHANGED <<finalO, erredO, queueO, acceptedO, reportO>> /\ ~\E c \in Call : updaterLoop(c)
      \/ \E c \in Call : updaterLoop(c) \/ runOwn(c) \/ report(c) \/ ResubmitOperations(c)
      \/ \E o \in Call : \E status \in {"Succeeded", "Failed"} : connectorEvent(o, status)
      \/ restart
  <2>1. CASE UNCHANGED varsO BY <2>1 DEF varsO, callsO, runO
  <2>2. CASE NextO
    BY <2>2 DEF NextO, processBatch, insertBatch, commitBatch, rollbackBatch, WriteTransactionAndOps, keyTaken,
         SubmitNewTransaction, createTokenPool, insertOperation, insertFailsO, startAgain, readForResubmit, runO, callsO
  <2> QED BY <2>1, <2>2
<1>9. CASE UNCHANGED <<finalO, erredO, queueO, acceptedO, reportO>> /\ ~\E c \in Call : updaterLoop(c)
  <2>1. \A c \in Call : reportO'[c] \subseteq reportO[c] BY <1>9
  <2>2. EndsKnown' /\ DOMAIN finalO' = Call BY <1>1, <1>9, <2>1
  <2> QED BY <1>0, <2>2 DEF EndsInv
<1>10. EndsKnown' /\ DOMAIN finalO' = Call => EndsInv' BY <1>0 DEF EndsInv
<1> QED BY <1>2, <1>3, <1>4, <1>5, <1>6, <1>7, <1>8, <1>9, <1>10

(* No step of the node takes an operation that has ended back to Pending,  *)
(* or changes its end unless a submission of it returned an error, in      *)
(* whatever order reports and events come.                                 *)
LEMMA EndKept == Spec => NeverBackToPending /\ FinalKept
<1>1. Init => EndsInv BY NodeInits, EndsInit
<1>2. EndsInv /\ [Next]_varsNode => EndsInv' BY NodeSteps, EndsStep
<1>3. EndsInv /\ [Next]_varsNode => PendingStep /\ FinalStep BY NodeSteps, StatusSteps
<1>4. NeverBackToPending <=> [][PendingStep]_varsO BY DEF NeverBackToPending, PendingStep
<1>5. FinalKept <=> [][FinalStep]_varsO BY DEF FinalKept, FinalStep
<1> QED BY <1>1, <1>2, <1>3, <1>4, <1>5, PTL DEF Spec

(* The requests of a node are answered with what they asked and leave      *)
(* nothing behind, whatever events come before, during or after a timeout. *)
(* Calls that share an idempotency key submit one operation to the         *)
(* connector, whoever writes, resubmits, starts again or restarts, but for *)
(* calls that were told of a transaction that rolled back, and calls that  *)
(* started again while another had yet to insert its operation.            *)
THEOREM Requests == Spec => []RequestsOnce
<1>1. Init => BridgeInv /\ OperationsInv
  BY NodeInits, BridgeInit, OperationsInit
<1>2. BridgeInv /\ OperationsInv /\ [Next]_varsNode => (BridgeInv /\ OperationsInv)'
  BY NodeSteps, BridgeStep, OperationsStep
<1>3. BridgeInv /\ OperationsInv => RequestsOnce
  BY BridgeSafe, OperationsSafe DEF RequestsOnce
<1> QED BY <1>1, <1>2, <1>3, PTL DEF Spec

---------------------------------------------------------------------------
(* The message writer *)

(* A call in a batch waits for its worker and is in no other batch; what   *)
(* it is told agrees with the table.  A batch that failed has a duplicate  *)
(* in the table, or is in the history of clashes; one that is tried again  *)
(* has no duplicate, or was overtaken.                                     *)
EntriesMW == ({"msg"} \X CallMW) \cup ({"init"} \X {GroupMW[c] : c \in CallMW})
Quiet == SameName /\ failsMW = 0 /\ ~closedMW
BatchesWait ==
    /\ \A w \in WorkerMW : \A c \in batchMW[w] : c \in CallMW /\ callMW[c] = "waiting"
    /\ \A v, w \in WorkerMW : v # w => batchMW[v] \cap batchMW[w] = {}
    /\ ~concurrentMW => \A w \in WorkerMW : batchMW[w] = {}
ClashesNoted ==
    /\ \A w \in WorkerMW : Clashes(batchMW[w]) => batchMW[w] \subseteq clashMW
    /\ ~closedMW => \A w \in WorkerMW :
          /\ Quiet /\ workMW[w] = "check" =>
                batchMW[w] \subseteq clashMW \/ \E c \in batchMW[w] : KeyTaken(c)
          /\ workMW[w] = "again" =>
                batchMW[w] \subseteq clashMW \/ \A c \in batchMW[w] : ~KeyTaken(c)
GroupsStored ==
    /\ \A c \in CallMW : GroupMW[c] # NoGroup /\ callMW[c] \notin {"new", "define"} => GroupMW[c] \in groupsMW
    /\ \A g \in groupsMW : <<"init", g>> \in StoredMW
TypeMW ==
    /\ DOMAIN callMW = CallMW /\ DOMAIN workMW = WorkerMW /\ DOMAIN batchMW = WorkerMW
    /\ \A w \in WorkerMW : IsFiniteSet(batchMW[w])
    /\ \A w \in WorkerMW : workMW[w] \in {"collect", "check", "again"}
    /\ tableMW \in Seq(EntriesMW)
    /\ failsMW \in Nat
WriterInv == TypeMW /\ BatchesWait /\ AnswersTrue /\ ClashesNoted /\ OthersStored /\ GroupsStored /\ GroupDefinedFirst

(* No call has been made at first.                                         *)
LEMMA WriterInit == ASSUME InitMW PROVE WriterInv
<1>1. TypeMW BY FS_EmptySet DEF InitMW, TypeMW
<1>2. StoredMW = {} /\ StoredCalls = {} BY DEF InitMW, StoredMW, StoredCalls
<1>3. BatchesWait /\ AnswersTrue /\ OthersStored /\ GroupsStored
  BY <1>2 DEF InitMW, BatchesWait, AnswersTrue, OthersStored, GroupsStored
<1>4. ClashesNoted BY <1>2 DEF InitMW, ClashesNoted, Clashes, KeyTaken
<1>5. GroupDefinedFirst BY DEF InitMW, GroupDefinedFirst
<1> QED BY <1>1, <1>3, <1>4, <1>5 DEF WriterInv

(* An insert puts every message of its batch behind what the table holds.  *)
LEMMA InsertAppends ==
  ASSUME TypeMW, NEW batch, batch \subseteq CallMW, IsFiniteSet(batch), InsertedMW(batch)
  PROVE  /\ tableMW' \in Seq(EntriesMW)
         /\ Len(tableMW) <= Len(tableMW')
         /\ \A i \in 1..Len(tableMW) : tableMW'[i] = tableMW[i]
         /\ \A i \in DOMAIN tableMW' : i > Len(tableMW) => \E c \in batch : tableMW'[i] = <<"msg", c>>
         /\ StoredMW' = StoredMW \cup {<<"msg", c>> : c \in batch}
         /\ StoredCalls' = StoredCalls \cup batch
<1> DEFINE n == Cardinality(batch)
<1>0. n \in Nat BY FS_CardinalityType
<1>1. PICK order \in [1..n -> batch] :
          /\ \A i, j \in DOMAIN order : order[i] = order[j] => i = j
          /\ tableMW' = tableMW \o [i \in DOMAIN order |-> <<"msg", order[i]>>]
  BY DEF InsertedMW
<1> DEFINE more == [i \in 1..n |-> <<"msg", order[i]>>]
<1>2. more \in Seq(EntriesMW) /\ Len(more) = n /\ \A i \in 1..n : more[i] = <<"msg", order[i]>> /\ order[i] \in batch
  <2>1. \A i \in 1..n : more[i] \in EntriesMW BY <1>1 DEF EntriesMW
  <2> QED BY <2>1, <1>0
<1>3. tableMW' = tableMW \o more /\ tableMW \in Seq(EntriesMW) BY <1>1 DEF TypeMW
<1>4. order \in Injection(1..n, batch) BY <1>1 DEF Injection, IsInjective
<1>5. Cardinality(1..n) = n BY <1>0, FS_Interval
<1>6. order \in Surjection(1..n, batch) BY <1>4, <1>5, FS_Injection
<1>7. \A c \in batch : \E i \in 1..n : order[i] = c BY <1>6 DEF Surjection
<1> HIDE DEF n, more
<1>8. /\ tableMW' \in Seq(EntriesMW) /\ Len(tableMW') = Len(tableMW) + n
      /\ \A i \in 1..Len(tableMW) : tableMW'[i] = tableMW[i]
      /\ \A i \in 1..n : tableMW'[Len(tableMW) + i] = <<"msg", order[i]>>
  BY <1>0, <1>2, <1>3
<1>9. Len(tableMW) \in Nat /\ DOMAIN tableMW = 1..Len(tableMW) /\ DOMAIN tableMW' = 1..(Len(tableMW) + n)
  BY <1>3, <1>8
<1>10. \A i \in DOMAIN tableMW' : i > Len(tableMW) =>
          i - Len(tableMW) \in 1..n /\ tableMW'[i] = <<"msg", order[i - Len(tableMW)]>>
  <2> TAKE i \in DOMAIN tableMW'
  <2> HAVE i > Len(tableMW)
  <2>1. i - Len(tableMW) \in 1..n /\ i = Len(tableMW) + (i - Len(tableMW)) BY <1>9, <1>0
  <2> QED BY <2>1, <1>8
<1>11. \A i \in DOMAIN tableMW' : i > Len(tableMW) => \E c \in batch : tableMW'[i] = <<"msg", c>>
  <2> TAKE i \in DOMAIN tableMW'
  <2> HAVE i > Len(tableMW)
  <2>1. i - Len(tableMW) \in 1..n /\ tableMW'[i] = <<"msg", order[i - Len(tableMW)]>> BY <1>10
  <2>2. order[i - Len(tableMW)] \in batch BY <2>1, <1>2
  <2> QED BY <2>1, <2>2
<1>12. StoredMW' \subseteq StoredMW \cup {<<"msg", c>> : c \in batch}
  <2> SUFFICES ASSUME NEW i \in DOMAIN tableMW'
               PROVE  tableMW'[i] \in StoredMW \cup {<<"msg", c>> : c \in batch}
    BY DEF StoredMW
  <2>1. CASE i > Len(tableMW) BY <2>1, <1>11
  <2>2. CASE ~(i > Len(tableMW))
    <3>1. i \in 1..Len(tableMW) BY <2>2, <1>9, <1>0
    <3> QED BY <3>1, <1>8, <1>9 DEF StoredMW
  <2> QED BY <2>1, <2>2
<1>13. StoredMW \subseteq StoredMW' BY <1>8, <1>9, <1>0 DEF StoredMW
<1>14. \A c \in batch : <<"msg", c>> \in StoredMW'
  <2> TAKE c \in batch
  <2>1. PICK i \in 1..n : order[i] = c BY <1>7
  <2>2. Len(tableMW) + i \in DOMAIN tableMW' BY <1>9, <1>0
  <2> QED BY <2>1, <2>2, <1>8 DEF StoredMW
<1>15. StoredMW' = StoredMW \cup {<<"msg", c>> : c \in batch} BY <1>12, <1>13, <1>14
<1>16. \A c \in CallMW : <<"msg", c>> \in StoredMW' <=> <<"msg", c>> \in StoredMW \/ c \in batch
  BY <1>15
<1>17. StoredCalls' = StoredCalls \cup batch BY <1>16 DEF StoredCalls
<1> QED BY <1>0, <1>8, <1>9, <1>11, <1>15, <1>17

(* The calls that insert have their group defined.                         *)
LEMMA InsertKeepsGroups ==
  ASSUME WriterInv, NEW batch, batch \subseteq CallMW, IsFiniteSet(batch), InsertedMW(batch),
         \A c \in batch : callMW[c] \notin {"new", "define"}
  PROVE  GroupDefinedFirst'
<1>1. SUFFICES ASSUME NEW i \in DOMAIN tableMW', tableMW'[i][1] = "msg", GroupMW[tableMW'[i][2]] # NoGroup
               PROVE  \E j \in DOMAIN tableMW' : j < i /\ tableMW'[j] = <<"init", GroupMW[tableMW'[i][2]]>>
  BY DEF GroupDefinedFirst
<1>2. /\ tableMW' \in Seq(EntriesMW) /\ tableMW \in Seq(EntriesMW)
      /\ Len(tableMW) <= Len(tableMW')
      /\ \A k \in 1..Len(tableMW) : tableMW'[k] = tableMW[k]
      /\ (i > Len(tableMW) => \E c \in batch : tableMW'[i] = <<"msg", c>>)
  BY <1>1, InsertAppends DEF WriterInv, TypeMW
<1>3. /\ DOMAIN tableMW = 1..Len(tableMW) /\ DOMAIN tableMW' = 1..Len(tableMW')
      /\ Len(tableMW) \in Nat /\ Len(tableMW') \in Nat
  BY <1>2
<1>4. CASE i > Len(tableMW)
  <2>1. PICK c \in batch : tableMW'[i] = <<"msg", c>> BY <1>2, <1>4
  <2>2. GroupMW[c] \in groupsMW BY <1>1, <2>1 DEF WriterInv, GroupsStored
  <2>3. PICK j \in DOMAIN tableMW : tableMW[j] = <<"init", GroupMW[c]>>
    BY <2>2 DEF WriterInv, GroupsStored, StoredMW
  <2>4. j \in DOMAIN tableMW' /\ j < i /\ tableMW'[j] = tableMW[j] BY <1>2, <1>3, <1>4
  <2> QED BY <2>1, <2>3, <2>4
<1>5. CASE ~(i > Len(tableMW))
  <2>1. i \in DOMAIN tableMW /\ tableMW'[i] = tableMW[i] BY <1>2, <1>3, <1>5
  <2>2. PICK j \in DOMAIN tableMW : j < i /\ tableMW[j] = <<"init", GroupMW[tableMW[i][2]]>>
    BY <1>1, <2>1 DEF WriterInv, GroupDefinedFirst
  <2>3. j \in DOMAIN tableMW' /\ tableMW'[j] = tableMW[j] BY <1>2, <1>3
  <2> QED BY <2>1, <2>2, <2>3
<1> QED BY <1>4, <1>5

(* What stands when the table does not change.                             *)
LEMMA TableSame ==
  ASSUME tableMW' = tableMW
  PROVE  /\ StoredMW' = StoredMW /\ StoredCalls' = StoredCalls
         /\ \A c : KeyTaken(c)' <=> KeyTaken(c)
         /\ GroupDefinedFirst => GroupDefinedFirst'
<1>1. StoredMW' = StoredMW BY DEF StoredMW
<1>2. StoredCalls' = StoredCalls BY <1>1 DEF StoredCalls
<1>3. \A c : KeyTaken(c)' <=> KeyTaken(c) BY <1>2 DEF KeyTaken
<1> QED BY <1>1, <1>2, <1>3 DEF GroupDefinedFirst

(* Resolving the recipients stores nothing.                                *)
LEMMA ResolveStep == ASSUME WriterInv, NEW c \in CallMW, resolveRecipients(c) PROVE WriterInv'
<1>0. TypeMW /\ BatchesWait /\ AnswersTrue /\ ClashesNoted /\ OthersStored /\ GroupsStored /\ GroupDefinedFirst
  BY DEF WriterInv
<1>1. /\ callMW[c] = "new" /\ ~closedMW
      /\ callMW' = [callMW EXCEPT ![c] = IF GroupMW[c] # NoGroup /\ GroupMW[c] \notin groupsMW THEN "define" ELSE "resolved"]
      /\ UNCHANGED <<batchMW, workMW, tableMW, dataMW, groupsMW, clashMW, failsMW, closedMW, concurrentMW>>
  BY DEF resolveRecipients
<1>2. /\ StoredMW' = StoredMW /\ StoredCalls' = StoredCalls /\ GroupDefinedFirst'
      /\ \A d : KeyTaken(d)' <=> KeyTaken(d)
  BY <1>0, <1>1, TableSame
<1>3. TypeMW' BY <1>0, <1>1 DEF TypeMW
<1>4. \A d \in CallMW : IF d = c THEN callMW'[d] \in {"define", "resolved"} ELSE callMW'[d] = callMW[d]
  BY <1>0, <1>1 DEF TypeMW
<1>5. BatchesWait' BY <1>0, <1>1, <1>4 DEF BatchesWait
<1>6. AnswersTrue' BY <1>0, <1>1, <1>2, <1>4 DEF AnswersTrue
<1>7. ClashesNoted' BY <1>0, <1>1, <1>2 DEF ClashesNoted, Quiet, Clashes
<1>8. OthersStored' BY <1>0, <1>1, <1>4 DEF OthersStored
<1>9. GroupsStored' BY <1>0, <1>1, <1>2, <1>4 DEF GroupsStored, TypeMW
<1> QED BY <1>2, <1>3, <1>5, <1>6, <1>7, <1>8, <1>9 DEF WriterInv

(* A group is defined before its first message goes to a worker.           *)
LEMMA GroupInitStep == ASSUME WriterInv, NEW c \in CallMW, groupInit(c) PROVE WriterInv'
<1>0. TypeMW /\ BatchesWait /\ AnswersTrue /\ ClashesNoted /\ OthersStored /\ GroupsStored /\ GroupDefinedFirst
  BY DEF WriterInv
<1> DEFINE entry == <<"init", GroupMW[c]>>
<1>1. /\ callMW[c] = "define" /\ callMW' = [callMW EXCEPT ![c] = "resolved"]
      /\ tableMW' = Append(tableMW, entry) /\ groupsMW' = groupsMW \cup {GroupMW[c]}
      /\ UNCHANGED <<batchMW, workMW, dataMW, clashMW, failsMW, closedMW, concurrentMW>>
  BY DEF groupInit
<1>2. entry \in EntriesMW /\ tableMW \in Seq(EntriesMW) BY <1>0 DEF EntriesMW, TypeMW
<1>3. entry[1] = "init" /\ \A d : entry # <<"msg", d>> OBVIOUS
<1> HIDE DEF entry
<1>4. /\ tableMW' \in Seq(EntriesMW) /\ Len(tableMW') = Len(tableMW) + 1 /\ Len(tableMW) \in Nat
      /\ \A i \in 1..Len(tableMW) : tableMW'[i] = tableMW[i]
      /\ tableMW'[Len(tableMW) + 1] = entry
      /\ DOMAIN tableMW = 1..Len(tableMW) /\ DOMAIN tableMW' = 1..(Len(tableMW) + 1)
  BY <1>1, <1>2
<1>5. StoredMW' = StoredMW \cup {entry}
  <2>1. \A i \in DOMAIN tableMW' : i \in DOMAIN tableMW \/ i = Len(tableMW) + 1 BY <1>4
  <2>2. \A i \in DOMAIN tableMW : i \in DOMAIN tableMW' BY <1>4
  <2>3. Len(tableMW) + 1 \in DOMAIN tableMW' BY <1>4
  <2> QED BY <1>4, <2>1, <2>2, <2>3 DEF StoredMW
<1>6. StoredCalls' = StoredCalls BY <1>3, <1>5 DEF StoredCalls
<1>7. \A d : KeyTaken(d)' <=> KeyTaken(d) BY <1>6 DEF KeyTaken
<1>8. \A d \in CallMW : IF d = c THEN callMW'[d] = "resolved" ELSE callMW'[d] = callMW[d]
  BY <1>0, <1>1 DEF TypeMW
<1>9. TypeMW' BY <1>0, <1>1, <1>4 DEF TypeMW
<1>10. BatchesWait' BY <1>0, <1>1, <1>8 DEF BatchesWait
<1>11. AnswersTrue' BY <1>0, <1>1, <1>6, <1>8 DEF AnswersTrue
<1>12. ClashesNoted' BY <1>0, <1>1, <1>7 DEF ClashesNoted, Quiet, Clashes
<1>13. OthersStored' BY <1>0, <1>1, <1>8 DEF OthersStored
<1>14. GroupsStored' BY <1>0, <1>1, <1>5, <1>8 DEF GroupsStored, entry
<1>15. GroupDefinedFirst'
  <2> SUFFICES ASSUME NEW i \in DOMAIN tableMW', tableMW'[i][1] = "msg", GroupMW[tableMW'[i][2]] # NoGroup
               PROVE  \E j \in DOMAIN tableMW' : j < i /\ tableMW'[j] = <<"init", GroupMW[tableMW'[i][2]]>>
    BY DEF GroupDefinedFirst
  <2>1. i # Len(tableMW) + 1 BY <1>3, <1>4
  <2>2. i \in DOMAIN tableMW /\ tableMW'[i] = tableMW[i] BY <1>4, <2>1
  <2>3. PICK j \in DOMAIN tableMW : j < i /\ tableMW[j] = <<"init", GroupMW[tableMW[i][2]]>>
    BY <1>0, <2>2 DEF GroupDefinedFirst
  <2>4. j \in DOMAIN tableMW' /\ tableMW'[j] = tableMW[j] BY <1>4
  <2> QED BY <2>2, <2>3, <2>4
<1> QED BY <1>9, <1>10, <1>11, <1>12, <1>13, <1>14, <1>15 DEF WriterInv

(* A message joins the batch of a worker.                                  *)
LEMMA WriteNewStep ==
  ASSUME WriterInv, NEW c \in CallMW, NEW w \in WorkerMW, WriteNewMessage(c, w) PROVE WriterInv'
<1>0. TypeMW /\ BatchesWait /\ AnswersTrue /\ ClashesNoted /\ OthersStored /\ GroupsStored /\ GroupDefinedFirst
  BY DEF WriterInv
<1>1. /\ concurrentMW /\ callMW[c] = "resolved" /\ workMW[w] = "collect" /\ ~closedMW
      /\ callMW' = [callMW EXCEPT ![c] = "waiting"]
      /\ batchMW' = [batchMW EXCEPT ![w] = @ \cup {c}]
      /\ clashMW' = IF Clashes(batchMW'[w]) THEN clashMW \cup batchMW'[w] ELSE clashMW
      /\ UNCHANGED <<workMW, tableMW, dataMW, groupsMW, failsMW, closedMW, concurrentMW>>
  BY DEF WriteNewMessage
<1>2. /\ StoredMW' = StoredMW /\ StoredCalls' = StoredCalls /\ GroupDefinedFirst'
      /\ \A d : KeyTaken(d)' <=> KeyTaken(d)
  BY <1>0, <1>1, TableSame
<1>3. \A d \in CallMW : IF d = c THEN callMW'[d] = "waiting" ELSE callMW'[d] = callMW[d]
  BY <1>0, <1>1 DEF TypeMW
<1>4. \A v \in WorkerMW : IF v = w THEN batchMW'[v] = batchMW[v] \cup {c} ELSE batchMW'[v] = batchMW[v]
  BY <1>0, <1>1 DEF TypeMW
<1>5. IsFiniteSet(batchMW[w] \cup {c}) BY <1>0, FS_AddElement DEF TypeMW
<1>6. TypeMW' BY <1>0, <1>1, <1>4, <1>5 DEF TypeMW
<1>7. \A v \in WorkerMW : c \notin batchMW[v] BY <1>0, <1>1 DEF BatchesWait
<1>8. BatchesWait' BY <1>0, <1>1, <1>3, <1>4, <1>7 DEF BatchesWait
<1>9. AnswersTrue' BY <1>0, <1>1, <1>2, <1>3 DEF AnswersTrue
<1>10. clashMW \subseteq clashMW' BY <1>1
<1>11. ClashesNoted'
  <2>1. ASSUME NEW v \in WorkerMW, Clashes(batchMW'[v]) PROVE batchMW'[v] \subseteq clashMW'
    BY <2>1, <1>0, <1>1, <1>4, <1>10 DEF ClashesNoted
  <2>2. ASSUME NEW v \in WorkerMW, v # w PROVE batchMW'[v] = batchMW[v] /\ workMW'[v] = workMW[v]
    BY <2>2, <1>1, <1>4
  <2>3. workMW'[w] = "collect" BY <1>1
  <2> QED BY <2>1, <2>2, <2>3, <1>0, <1>1, <1>2, <1>10 DEF ClashesNoted, Quiet, Clashes
<1>12. OthersStored' BY <1>0, <1>1, <1>3, <1>10 DEF OthersStored
<1>13. GroupsStored' BY <1>0, <1>1, <1>2, <1>3 DEF GroupsStored
<1> QED BY <1>2, <1>6, <1>8, <1>9, <1>11, <1>12, <1>13 DEF WriterInv

(* Without workers the caller stores its message itself.                   *)
LEMMA WriteDirectStep == ASSUME WriterInv, NEW c \in CallMW, writeDirect(c) PROVE WriterInv'
<1>0. TypeMW /\ BatchesWait /\ AnswersTrue /\ ClashesNoted /\ OthersStored /\ GroupsStored /\ GroupDefinedFirst
  BY DEF WriterInv
<1>1. /\ ~concurrentMW /\ ~closedMW /\ callMW[c] = "resolved"
      /\ UNCHANGED <<batchMW, workMW, groupsMW, clashMW, failsMW, closedMW, concurrentMW>>
  BY DEF writeDirect
<1>2. \A w \in WorkerMW : batchMW[w] = {} BY <1>0, <1>1 DEF BatchesWait
<1>3. c \notin StoredCalls BY <1>0, <1>1 DEF AnswersTrue
<1>4. ClashesNoted' BY <1>1, <1>2 DEF ClashesNoted, Clashes
<1>5. BatchesWait' BY <1>1, <1>2 DEF BatchesWait
<1>6. CASE InsertOK({c})
  <2>1. InsertedMW({c}) /\ callMW' = [callMW EXCEPT ![c] = "ok"] BY <1>6 DEF writeDirect
  <2>2. IsFiniteSet({c}) /\ {c} \subseteq CallMW BY FS_Singleton
  <2>3. /\ tableMW' \in Seq(EntriesMW) /\ StoredCalls' = StoredCalls \cup {c}
        /\ StoredMW \subseteq StoredMW'
    BY <1>0, <2>1, <2>2, InsertAppends
  <2>4. GroupDefinedFirst' BY <1>1, <2>1, <2>2, InsertKeepsGroups
  <2>5. \A d \in CallMW : IF d = c THEN callMW'[d] = "ok" ELSE callMW'[d] = callMW[d]
    BY <1>0, <2>1 DEF TypeMW
  <2>6. TypeMW' BY <1>0, <1>1, <2>1, <2>3 DEF TypeMW
  <2>7. AnswersTrue' BY <1>0, <1>1, <2>3, <2>5 DEF AnswersTrue
  <2>8. OthersStored' BY <1>0, <1>1, <2>5 DEF OthersStored
  <2>9. GroupsStored' BY <1>0, <1>1, <2>3, <2>5 DEF GroupsStored
  <2> QED BY <1>4, <1>5, <2>4, <2>6, <2>7, <2>8, <2>9 DEF WriterInv
<1>7. CASE ~InsertOK({c})
  <2>1. /\ callMW' = [callMW EXCEPT ![c] = IF SameName THEN "duplicate" ELSE "error"]
        /\ UNCHANGED <<tableMW, dataMW>>
    BY <1>7 DEF writeDirect
  <2>2. /\ StoredMW' = StoredMW /\ StoredCalls' = StoredCalls /\ GroupDefinedFirst'
    BY <1>0, <2>1, TableSame
  <2>3. \A d \in CallMW : IF d = c THEN callMW'[d] = (IF SameName THEN "duplicate" ELSE "error") ELSE callMW'[d] = callMW[d]
    BY <1>0, <2>1 DEF TypeMW
  <2>4. KeyTaken(c) BY <1>1, <1>7 DEF InsertOK, Clashes
  <2>5. \E d \in StoredCalls \ {c} : SameKeyMW(c, d) BY <1>3, <2>4 DEF KeyTaken
  <2>6. TypeMW' BY <1>0, <1>1, <2>1 DEF TypeMW
  <2>7. AnswersTrue' BY <1>0, <1>1, <1>3, <2>2, <2>3, <2>5 DEF AnswersTrue
  <2>8. OthersStored' BY <1>0, <1>1, <2>3 DEF OthersStored
  <2>9. GroupsStored' BY <1>0, <1>1, <2>2, <2>3 DEF GroupsStored
  <2> QED BY <1>4, <1>5, <2>2, <2>6, <2>7, <2>8, <2>9 DEF WriterInv
<1> QED BY <1>6, <1>7

(* A worker stores its batch and answers its callers.                      *)
LEMMA PersistStep == ASSUME WriterInv, NEW w \in WorkerMW, persistMWBatch(w) PROVE WriterInv'
<1>0. TypeMW /\ BatchesWait /\ AnswersTrue /\ ClashesNoted /\ OthersStored /\ GroupsStored /\ GroupDefinedFirst
  BY DEF WriterInv
<1> DEFINE batch == batchMW[w]
<1>1. /\ InsertOK(batch) /\ InsertedMW(batch)
      /\ callMW' = Answered(callMW, batch, "ok")
      /\ batchMW' = [batchMW EXCEPT ![w] = {}] /\ workMW' = [workMW EXCEPT ![w] = "collect"]
      /\ clashMW' = clashMW \cup UNION {batchMW[v] : v \in Overtaken(w)}
      /\ UNCHANGED <<groupsMW, failsMW, closedMW, concurrentMW>>
  BY DEF persistMWBatch
<1>2. /\ IsFiniteSet(batch) /\ batch \subseteq CallMW /\ \A c \in batch : callMW[c] = "waiting"
  BY <1>0 DEF TypeMW, BatchesWait
<1>3. /\ tableMW' \in Seq(EntriesMW) /\ StoredCalls' = StoredCalls \cup batch
      /\ StoredMW \subseteq StoredMW'
  <2> HIDE DEF batch
  <2> QED BY <1>0, <1>1, <1>2, InsertAppends
<1>4. GroupDefinedFirst'
  <2>1. \A c \in batch : callMW[c] \notin {"new", "define"} BY <1>2
  <2> HIDE DEF batch
  <2> QED BY <1>1, <1>2, <2>1, InsertKeepsGroups
<1>5. \A d \in CallMW : IF d \in batch THEN callMW'[d] = "ok" ELSE callMW'[d] = callMW[d]
  BY <1>1 DEF Answered
<1>6. \A v \in WorkerMW : IF v = w THEN batchMW'[v] = {} /\ workMW'[v] = "collect"
                          ELSE batchMW'[v] = batchMW[v] /\ workMW'[v] = workMW[v]
  BY <1>0, <1>1 DEF TypeMW
<1>7. TypeMW'
  <2>1. DOMAIN callMW' = CallMW BY <1>1 DEF Answered
  <2>2. \A v \in WorkerMW : IsFiniteSet(batchMW'[v]) BY <1>0, <1>6, FS_EmptySet DEF TypeMW
  <2> QED BY <2>1, <2>2, <1>0, <1>1, <1>3 DEF TypeMW
<1>8. BatchesWait' BY <1>0, <1>1, <1>5, <1>6 DEF BatchesWait
<1>9. AnswersTrue' BY <1>0, <1>2, <1>3, <1>5 DEF AnswersTrue
<1>10. OthersStored' BY <1>0, <1>1, <1>5 DEF OthersStored
<1>11. GroupsStored' BY <1>0, <1>1, <1>2, <1>3, <1>5 DEF GroupsStored
<1>12. ClashesNoted'
  <2>1. clashMW \subseteq clashMW' BY <1>1
  <2>2. \A c : KeyTaken(c) => KeyTaken(c)' BY <1>3 DEF KeyTaken
  <2>3. \A c : KeyTaken(c)' => KeyTaken(c) \/ \E d \in batch : SameKeyMW(c, d)
    BY <1>3 DEF KeyTaken
  <2>4. ASSUME NEW v \in WorkerMW, Clashes(batchMW'[v]) PROVE batchMW'[v] \subseteq clashMW'
    BY <2>4, <2>1, <1>0, <1>6 DEF ClashesNoted, Clashes
  <2>5. ASSUME ~closedMW, NEW v \in WorkerMW, Quiet, workMW'[v] = "check"
        PROVE  batchMW'[v] \subseteq clashMW' \/ \E c \in batchMW'[v] : KeyTaken(c)'
    <3>1. v # w /\ batchMW'[v] = batchMW[v] /\ workMW[v] = "check" BY <2>5, <1>6
    <3> QED BY <3>1, <2>1, <2>2, <2>5, <1>0 DEF ClashesNoted
  <2>6. ASSUME ~closedMW, NEW v \in WorkerMW, workMW'[v] = "again"
        PROVE  batchMW'[v] \subseteq clashMW' \/ \A c \in batchMW'[v] : ~KeyTaken(c)'
    <3>1. v # w /\ batchMW'[v] = batchMW[v] /\ workMW[v] = "again" BY <2>6, <1>6
    <3>2. CASE v \in Overtaken(w) BY <3>1, <3>2, <1>1
    <3>3. CASE v \notin Overtaken(w)
      <4>1. \A c \in batchMW[v], d \in batch : ~SameKeyMW(c, d) BY <3>1, <3>3 DEF Overtaken
      <4> QED BY <4>1, <3>1, <2>1, <2>3, <2>6, <1>0 DEF ClashesNoted
    <3> QED BY <3>2, <3>3
  <2> QED BY <2>4, <2>5, <2>6, <1>1 DEF ClashesNoted, Quiet, Clashes
<1> QED BY <1>4, <1>7, <1>8, <1>9, <1>10, <1>11, <1>12 DEF WriterInv

(* A batch that cannot be inserted is checked, and then answered.          *)
LEMMA InsertFailsStep == ASSUME WriterInv, NEW w \in WorkerMW, insertFailsMW(w) PROVE WriterInv'
<1>0. TypeMW /\ BatchesWait /\ AnswersTrue /\ ClashesNoted /\ OthersStored /\ GroupsStored /\ GroupDefinedFirst
  BY DEF WriterInv
<1> DEFINE batch == batchMW[w]
<1>1. /\ workMW[w] # "check"
      /\ IF InsertOK(batch) THEN failsMW' = failsMW + 1 ELSE failsMW' = failsMW
      /\ IF workMW[w] = "collect"
         THEN workMW' = [workMW EXCEPT ![w] = "check"] /\ UNCHANGED <<callMW, batchMW>>
         ELSE /\ callMW' = Answered(callMW, batch, "error")
              /\ batchMW' = [batchMW EXCEPT ![w] = {}] /\ workMW' = [workMW EXCEPT ![w] = "collect"]
      /\ UNCHANGED <<tableMW, dataMW, groupsMW, clashMW, closedMW, concurrentMW>>
  BY DEF insertFailsMW
<1>2. /\ StoredMW' = StoredMW /\ StoredCalls' = StoredCalls /\ GroupDefinedFirst'
      /\ \A d : KeyTaken(d)' <=> KeyTaken(d)
  BY <1>0, <1>1, TableSame
<1>3. failsMW \in Nat /\ failsMW' \in Nat /\ (failsMW' = 0 => ~InsertOK(batch) /\ failsMW = 0)
  BY <1>0, <1>1 DEF TypeMW
<1>4. Quiet' => Quiet /\ (batch \subseteq clashMW \/ \E c \in batch : KeyTaken(c))
  BY <1>0, <1>1, <1>3 DEF Quiet, InsertOK, ClashesNoted
<1>5. \A c \in batch : c \in CallMW /\ callMW[c] = "waiting" BY <1>0 DEF BatchesWait
<1>6. CASE workMW[w] = "collect"
  <2>1. workMW' = [workMW EXCEPT ![w] = "check"] /\ UNCHANGED <<callMW, batchMW>> BY <1>1, <1>6
  <2>2. \A v \in WorkerMW : IF v = w THEN workMW'[v] = "check" ELSE workMW'[v] = workMW[v]
    BY <1>0, <2>1 DEF TypeMW
  <2>3. TypeMW' BY <1>0, <1>1, <1>3, <2>1 DEF TypeMW
  <2>4. BatchesWait' BY <1>0, <1>1, <2>1 DEF BatchesWait
  <2>5. AnswersTrue' BY <1>0, <1>2, <2>1 DEF AnswersTrue
  <2>6. OthersStored' BY <1>0, <1>1, <1>3, <2>1 DEF OthersStored
  <2>7. GroupsStored' BY <1>0, <1>1, <1>2, <2>1 DEF GroupsStored
  <2>8. ClashesNoted'
    <3>1. ASSUME NEW v \in WorkerMW, v # w, ~closedMW, Quiet', workMW'[v] = "check"
          PROVE  batchMW'[v] \subseteq clashMW' \/ \E c \in batchMW'[v] : KeyTaken(c)'
      BY <3>1, <1>0, <1>1, <1>2, <1>4, <2>1, <2>2 DEF ClashesNoted
    <3>2. ASSUME Quiet' PROVE batchMW'[w] \subseteq clashMW' \/ \E c \in batchMW'[w] : KeyTaken(c)'
      BY <3>2, <1>1, <1>2, <1>4, <2>1
    <3>3. ASSUME NEW v \in WorkerMW, ~closedMW, workMW'[v] = "again"
          PROVE  batchMW'[v] \subseteq clashMW' \/ \A c \in batchMW'[v] : ~KeyTaken(c)'
      BY <3>3, <1>0, <1>1, <1>2, <2>1, <2>2 DEF ClashesNoted
    <3>4. \A v \in WorkerMW : Clashes(batchMW'[v]) => batchMW'[v] \subseteq clashMW'
      BY <1>0, <1>1, <2>1 DEF ClashesNoted
    <3> QED BY <3>1, <3>2, <3>3, <3>4, <1>1 DEF ClashesNoted, Clashes
  <2> QED BY <1>2, <2>3, <2>4, <2>5, <2>6, <2>7, <2>8 DEF WriterInv
<1>7. CASE workMW[w] # "collect"
  <2>1. /\ callMW' = Answered(callMW, batch, "error")
        /\ batchMW' = [batchMW EXCEPT ![w] = {}] /\ workMW' = [workMW EXCEPT ![w] = "collect"]
    BY <1>1, <1>7
  <2>2. \A v \in WorkerMW : IF v = w THEN batchMW'[v] = {} /\ workMW'[v] = "collect"
                            ELSE batchMW'[v] = batchMW[v] /\ workMW'[v] = workMW[v]
    BY <1>0, <2>1 DEF TypeMW
  <2>3. \A d \in CallMW : IF d \in batch THEN callMW'[d] = "error" ELSE callMW'[d] = callMW[d]
    BY <2>1 DEF Answered
  <2>4. DOMAIN callMW' = CallMW BY <2>1 DEF Answered
  <2>5. TypeMW' BY <1>0, <1>1, <1>3, <2>1, <2>2, <2>4, FS_EmptySet DEF TypeMW
  <2>6. BatchesWait' BY <1>0, <1>1, <2>2, <2>3 DEF BatchesWait
  <2>7. AnswersTrue' BY <1>0, <1>2, <1>5, <2>3 DEF AnswersTrue
  <2>8. Quiet' => batch \subseteq clashMW
    <3> SUFFICES ASSUME Quiet' PROVE batch \subseteq clashMW OBVIOUS
    <3>1. CASE workMW[w] = "again" BY <3>1, <1>0, <1>4 DEF ClashesNoted, Quiet
    <3>2. CASE workMW[w] # "again" BY <3>2, <1>0, <1>1, <1>7 DEF TypeMW
    <3> QED BY <3>1, <3>2
  <2>9. OthersStored' BY <1>0, <1>1, <1>3, <2>3, <2>8 DEF OthersStored, Quiet
  <2>10. GroupsStored' BY <1>0, <1>1, <1>2, <1>5, <2>3 DEF GroupsStored
  <2>11. ClashesNoted'
    <3>1. \A v \in WorkerMW : Clashes(batchMW'[v]) => batchMW'[v] \subseteq clashMW'
      BY <1>0, <1>1, <2>2 DEF ClashesNoted, Clashes
    <3>2. ASSUME NEW v \in WorkerMW, ~closedMW, Quiet', workMW'[v] = "check"
          PROVE  batchMW'[v] \subseteq clashMW' \/ \E c \in batchMW'[v] : KeyTaken(c)'
      BY <3>2, <1>0, <1>1, <1>2, <1>4, <2>2 DEF ClashesNoted
    <3>3. ASSUME NEW v \in WorkerMW, ~closedMW, workMW'[v] = "again"
          PROVE  batchMW'[v] \subseteq clashMW' \/ \A c \in batchMW'[v] : ~KeyTaken(c)'
      BY <3>3, <1>0, <1>1, <1>2, <2>2 DEF ClashesNoted
    <3> QED BY <3>1, <3>2, <3>3, <1>1 DEF ClashesNoted, Clashes
  <2> QED BY <1>2, <2>5, <2>6, <2>7, <2>9, <2>10, <2>11 DEF WriterInv
<1> QED BY <1>6, <1>7

(* Messages whose keys are taken get their answer, the others a retry.     *)
LEMMA RemoveStep == ASSUME WriterInv, NEW w \in WorkerMW, removeIdempotencyDuplicates(w) PROVE WriterInv'
<1>0. TypeMW /\ BatchesWait /\ AnswersTrue /\ ClashesNoted /\ OthersStored /\ GroupsStored /\ GroupDefinedFirst
  BY DEF WriterInv
<1> DEFINE batch == batchMW[w]
           dup == Duplicates(batch)
           rest == batch \ dup
           again == dup # {} /\ rest # {}
<1>1. /\ workMW[w] = "check"
      /\ IF again
         THEN /\ callMW' = Answered(callMW, dup, "duplicate")
              /\ batchMW' = [batchMW EXCEPT ![w] = rest] /\ workMW' = [workMW EXCEPT ![w] = "again"]
         ELSE /\ callMW' = Answered(Answered(callMW, rest, "error"), dup, "duplicate")
              /\ batchMW' = [batchMW EXCEPT ![w] = {}] /\ workMW' = [workMW EXCEPT ![w] = "collect"]
      /\ UNCHANGED <<tableMW, dataMW, groupsMW, clashMW, failsMW, closedMW, concurrentMW>>
  BY DEF removeIdempotencyDuplicates
<1>2. /\ StoredMW' = StoredMW /\ StoredCalls' = StoredCalls /\ GroupDefinedFirst'
      /\ \A d : KeyTaken(d)' <=> KeyTaken(d)
  BY <1>0, <1>1, TableSame
<1>3. /\ dup \subseteq batch /\ \A c \in dup : KeyTaken(c)
      /\ dup # {} => ~closedMW /\ SameName
      /\ SameName /\ ~closedMW => \A c \in rest : ~KeyTaken(c)
  BY DEF Duplicates
<1>4. \A c \in batch : c \in CallMW /\ callMW[c] = "waiting" BY <1>0 DEF BatchesWait
<1>5. \A c \in batch : c \notin StoredCalls BY <1>0, <1>4 DEF AnswersTrue
<1>6. \A c \in dup : \E d \in StoredCalls \ {c} : SameKeyMW(c, d) BY <1>3, <1>5 DEF KeyTaken
<1>7. IsFiniteSet(rest) /\ IsFiniteSet({})
  <2> HIDE DEF dup
  <2> QED BY <1>0, FS_Difference, FS_EmptySet DEF TypeMW
<1> HIDE DEF dup
<1>8. \A d \in CallMW : IF d \in dup THEN callMW'[d] = "duplicate"
                        ELSE IF d \in rest /\ ~again THEN callMW'[d] = "error"
                        ELSE callMW'[d] = callMW[d]
  BY <1>1 DEF Answered
<1>9. \A v \in WorkerMW : IF v = w THEN /\ batchMW'[v] = (IF again THEN rest ELSE {})
                                         /\ workMW'[v] = (IF again THEN "again" ELSE "collect")
                          ELSE batchMW'[v] = batchMW[v] /\ workMW'[v] = workMW[v]
  BY <1>0, <1>1 DEF TypeMW
<1>10. TypeMW'
  <2>1. DOMAIN callMW' = CallMW BY <1>1 DEF Answered
  <2>2. DOMAIN batchMW' = WorkerMW /\ DOMAIN workMW' = WorkerMW BY <1>0, <1>1 DEF TypeMW
  <2>3. \A v \in WorkerMW : IsFiniteSet(batchMW'[v]) BY <1>0, <1>7, <1>9 DEF TypeMW
  <2> QED BY <2>1, <2>2, <2>3, <1>0, <1>1 DEF TypeMW
<1>11. BatchesWait'
  <2>1. \A v \in WorkerMW : batchMW'[v] \subseteq batchMW[v] BY <1>9
  <2>2. \A v \in WorkerMW : \A c \in batchMW'[v] : c \in CallMW /\ callMW'[c] = "waiting"
    <3> TAKE v \in WorkerMW
    <3> TAKE c \in batchMW'[v]
    <3>1. c \in CallMW /\ callMW[c] = "waiting" BY <1>0, <2>1 DEF BatchesWait
    <3>2. CASE v = w BY <3>1, <3>2, <1>8, <1>9
    <3>3. CASE v # w
      <4>1. c \notin batch BY <3>3, <2>1, <1>0 DEF BatchesWait
      <4> QED BY <3>1, <4>1, <1>3, <1>8
    <3> QED BY <3>2, <3>3
  <2> QED BY <2>1, <2>2, <1>0, <1>1 DEF BatchesWait
<1>12. AnswersTrue' BY <1>0, <1>2, <1>3, <1>5, <1>6, <1>8 DEF AnswersTrue
<1>13. ASSUME Quiet, ~again PROVE rest \subseteq clashMW
  <2>1. batch \subseteq clashMW \/ \E c \in batch : KeyTaken(c) BY <1>0, <1>1, <1>13 DEF ClashesNoted, Quiet
  <2>2. CASE \E c \in batch : KeyTaken(c) BY <2>2, <1>3, <1>13 DEF Quiet
  <2> QED BY <2>1, <2>2
<1>14. OthersStored' BY <1>0, <1>1, <1>8, <1>13 DEF OthersStored, Quiet
<1>15. GroupsStored' BY <1>0, <1>1, <1>2, <1>3, <1>4, <1>8 DEF GroupsStored
<1>16. ClashesNoted'
  <2>1. ASSUME NEW v \in WorkerMW, Clashes(batchMW'[v]) PROVE batchMW'[v] \subseteq clashMW'
    <3>1. batchMW'[v] \subseteq batchMW[v] BY <1>9
    <3>2. Clashes(batchMW[v]) BY <3>1, <2>1 DEF Clashes
    <3> QED BY <3>1, <3>2, <1>0, <1>1 DEF ClashesNoted
  <2>2. ASSUME NEW v \in WorkerMW, ~closedMW, Quiet, workMW'[v] = "check"
        PROVE  batchMW'[v] \subseteq clashMW' \/ \E c \in batchMW'[v] : KeyTaken(c)'
    <3>1. v # w BY <2>2, <1>9
    <3> QED BY <3>1, <2>2, <1>0, <1>1, <1>2, <1>9 DEF ClashesNoted
  <2>3. ASSUME NEW v \in WorkerMW, ~closedMW, workMW'[v] = "again"
        PROVE  batchMW'[v] \subseteq clashMW' \/ \A c \in batchMW'[v] : ~KeyTaken(c)'
    <3>1. CASE v = w BY <3>1, <2>3, <1>2, <1>3, <1>9
    <3>2. CASE v # w BY <3>2, <2>3, <1>0, <1>1, <1>2, <1>9 DEF ClashesNoted
    <3> QED BY <3>1, <3>2
  <2> QED BY <2>1, <2>2, <2>3, <1>1 DEF ClashesNoted, Quiet, Clashes
<1> QED BY <1>2, <1>10, <1>11, <1>12, <1>14, <1>15, <1>16 DEF WriterInv

(* At the end of the writer a batch is dropped or answered with an error.  *)
LEMMA CloseStep == ASSUME WriterInv, close PROVE WriterInv'
<1>0. TypeMW /\ BatchesWait /\ AnswersTrue /\ ClashesNoted /\ GroupsStored /\ GroupDefinedFirst
  BY DEF WriterInv
<1>1. PICK leaving \in SUBSET {w \in WorkerMW : workMW[w] = "collect"} :
          /\ batchMW' = [w \in WorkerMW |-> IF workMW[w] = "collect" THEN {} ELSE batchMW[w]]
          /\ callMW' = Answered(callMW, UNION {batchMW[w] : w \in
                          {v \in WorkerMW \ leaving : workMW[v] = "collect"}}, "error")
  BY DEF close
<1>2. closedMW' /\ UNCHANGED <<workMW, tableMW, dataMW, groupsMW, clashMW, failsMW, concurrentMW>>
  BY DEF close
<1>3. /\ StoredMW' = StoredMW /\ StoredCalls' = StoredCalls /\ GroupDefinedFirst'
  BY <1>0, <1>2, TableSame
<1> DEFINE told == UNION {batchMW[w] : w \in {v \in WorkerMW \ leaving : workMW[v] = "collect"}}
<1>4. \A c \in told : /\ c \in CallMW /\ callMW[c] = "waiting"
                      /\ \E v \in WorkerMW : workMW[v] = "collect" /\ c \in batchMW[v]
  BY <1>0 DEF BatchesWait
<1>5. callMW' = Answered(callMW, told, "error") BY <1>1
<1> HIDE DEF told
<1>6. DOMAIN callMW' = CallMW /\ \A c \in CallMW : IF c \in told THEN callMW'[c] = "error" ELSE callMW'[c] = callMW[c]
  BY <1>5 DEF Answered
<1>7. TypeMW' BY <1>0, <1>1, <1>2, <1>6, FS_EmptySet DEF TypeMW
<1>8. BatchesWait'
  <2>1. \A v \in WorkerMW : \A c \in batchMW'[v] : c \in batchMW[v] /\ c \notin told
    BY <1>0, <1>1, <1>4 DEF BatchesWait
  <2> QED BY <2>1, <1>0, <1>2, <1>6 DEF BatchesWait
<1>9. AnswersTrue' BY <1>0, <1>3, <1>4, <1>6 DEF AnswersTrue
<1>10. OthersStored' BY <1>2 DEF OthersStored
<1>11. GroupsStored' BY <1>0, <1>2, <1>3, <1>4, <1>6 DEF GroupsStored
<1>12. ClashesNoted'
  <2>1. \A v \in WorkerMW : batchMW'[v] \subseteq batchMW[v] BY <1>1
  <2>2. \A v \in WorkerMW : Clashes(batchMW'[v]) => Clashes(batchMW[v]) BY <2>1 DEF Clashes
  <2> QED BY <2>1, <2>2, <1>0, <1>2 DEF ClashesNoted, Clashes
<1> QED BY <1>3, <1>7, <1>8, <1>9, <1>10, <1>11, <1>12 DEF WriterInv

(* Every step of the message writer keeps its invariant.                   *)
LEMMA WriterStep == ASSUME WriterInv, [NextMW]_varsMW PROVE WriterInv'
<1>1. CASE UNCHANGED varsMW
  <2>1. tableMW' = tableMW BY <1>1 DEF varsMW
  <2>2. /\ StoredMW' = StoredMW /\ StoredCalls' = StoredCalls
        /\ (GroupDefinedFirst => GroupDefinedFirst')
        /\ \A d : KeyTaken(d)' <=> KeyTaken(d)
    BY <2>1, TableSame
  <2> QED BY <1>1, <2>2 DEF WriterInv, varsMW, TypeMW, BatchesWait, AnswersTrue, ClashesNoted, Clashes,
             OthersStored, GroupsStored, Quiet
<1> QED BY <1>1, ResolveStep, GroupInitStep, WriteNewStep, WriteDirectStep, PersistStep, InsertFailsStep,
           RemoveStep, CloseStep DEF NextMW

---------------------------------------------------------------------------
(* The dispatch of a batch.  Its stages form a sequence, and everything a *)
(* stage stands for stays done: so what is before the current stage is    *)
(* done, and the pin is the last stage.                                   *)
LEMMA NodesTyped == ASSUME NEW b \in BatchBD
                    PROVE  /\ Len(NodesBD[b]) \in Nat /\ DOMAIN NodesBD[b] = 1..Len(NodesBD[b])
                           /\ IsFiniteSet(BlobsBD[b])
                           /\ KindBD[b] \in {"private", "unpinned", "invoke", "broadcast"}
BY DispatchAssumption

(* The sequence of a finite set holds every element of it.                 *)
LEMMA Enumerates == ASSUME NEW S, IsFiniteSet(S)
                    PROVE  /\ Cardinality(S) \in Nat
                           /\ DOMAIN SetToSeq(S) = 1..Cardinality(S)
                           /\ \A d \in S : \E i \in 1..Cardinality(S) : SetToSeq(S)[i] = d
<1> DEFINE n == Cardinality(S)
<1>1. n \in Nat /\ ExistsBijection(1..n, S) BY FS_CardinalityType
<1>2. PICK f \in [1..n -> S] : IsInjective(f) BY <1>1 DEF ExistsBijection, Bijection, Injection
<1>3. SetToSeq(S) \in [1..n -> S] /\ IsInjective(SetToSeq(S)) BY <1>2 DEF SetToSeq
<1>4. SetToSeq(S) \in Injection(1..n, S) BY <1>3 DEF Injection
<1>5. Cardinality(1..n) = n BY <1>1, FS_Interval
<1>6. SetToSeq(S) \in Surjection(1..n, S) BY <1>4, <1>5, FS_Injection
<1> QED BY <1>1, <1>3, <1>6 DEF Surjection

(* A private batch passes three stages for each node, and skips them for   *)
(* its own.                                                                *)
LEMMA SendShape ==
    ASSUME NEW b \in BatchBD
    PROVE  /\ Len(SendStages(b)) = 3 * Len(NodesBD[b]) /\ DOMAIN SendStages(b) = 1..Len(SendStages(b))
           /\ \A i \in 1..Len(NodesBD[b]) : LET n == NodesBD[b][i]  j == 3 * i IN
                 IF n = LocalNode
                 THEN \A k \in {j - 2, j - 1, j} : SendStages(b)[k] = <<"skip", n>>
                 ELSE /\ SendStages(b)[j - 2] = <<"prepare", n>>
                      /\ SendStages(b)[j - 1] = <<"blobs", n>>
                      /\ SendStages(b)[j] = <<"send", n>>
           /\ \A k \in 1..Len(SendStages(b)) : \E i \in 1..Len(NodesBD[b]) : k \in {3 * i - 2, 3 * i - 1, 3 * i}
<1> DEFINE L == Len(NodesBD[b])
<1>1. L \in Nat /\ DOMAIN NodesBD[b] = 1..L BY NodesTyped
<1>2. SendStages(b) = [k \in 1..3 * L |->
         <<IF NodesBD[b][(k - 1) \div 3 + 1] = LocalNode THEN "skip" ELSE <<"prepare", "blobs", "send">>[((k - 1) % 3) + 1],
           NodesBD[b][(k - 1) \div 3 + 1]>>]
  BY DEF SendStages
<1> HIDE DEF L
<1>3. 3 * L \in Nat BY <1>1
<1>4. Len(SendStages(b)) = 3 * L /\ DOMAIN SendStages(b) = 1..3 * L BY <1>2, <1>3
<1>5. ASSUME NEW i \in 1..L
      PROVE  /\ 3 * i - 2 \in 1..3 * L /\ 3 * i - 1 \in 1..3 * L /\ 3 * i \in 1..3 * L
             /\ (3 * i - 2 - 1) \div 3 + 1 = i /\ (3 * i - 2 - 1) % 3 = 0
             /\ (3 * i - 1 - 1) \div 3 + 1 = i /\ (3 * i - 1 - 1) % 3 = 1
             /\ (3 * i - 1) \div 3 + 1 = i /\ (3 * i - 1) % 3 = 2
  BY <1>1
<1>6. ASSUME NEW i \in 1..L
      PROVE  LET n == NodesBD[b][i] IN
             /\ SendStages(b)[3 * i - 2] = <<IF n = LocalNode THEN "skip" ELSE "prepare", n>>
             /\ SendStages(b)[3 * i - 1] = <<IF n = LocalNode THEN "skip" ELSE "blobs", n>>
             /\ SendStages(b)[3 * i] = <<IF n = LocalNode THEN "skip" ELSE "send", n>>
  <2> DEFINE t == <<"prepare", "blobs", "send">>
  <2>1. t[0 + 1] = "prepare" /\ t[1 + 1] = "blobs" /\ t[2 + 1] = "send" OBVIOUS
  <2> DEFINE node(k) == (k - 1) \div 3 + 1
             stage(k) == (k - 1) % 3
  <2>2. ASSUME NEW k \in 1..3 * L
        PROVE  SendStages(b)[k] = <<IF NodesBD[b][node(k)] = LocalNode THEN "skip" ELSE t[stage(k) + 1], NodesBD[b][node(k)]>>
    BY <1>2
  <2>3. /\ node(3 * i - 2) = i /\ stage(3 * i - 2) = 0
        /\ node(3 * i - 1) = i /\ stage(3 * i - 1) = 1
        /\ node(3 * i) = i /\ stage(3 * i) = 2
    BY <1>5
  <2>4. 3 * i - 2 \in 1..3 * L /\ 3 * i - 1 \in 1..3 * L /\ 3 * i \in 1..3 * L BY <1>5
  <2> HIDE DEF node, stage, t
  <2>5. SendStages(b)[3 * i - 2] = <<IF NodesBD[b][i] = LocalNode THEN "skip" ELSE t[0 + 1], NodesBD[b][i]>>
    BY <2>2, <2>3, <2>4
  <2>6. SendStages(b)[3 * i - 1] = <<IF NodesBD[b][i] = LocalNode THEN "skip" ELSE t[1 + 1], NodesBD[b][i]>>
    BY <2>2, <2>3, <2>4
  <2>7. SendStages(b)[3 * i] = <<IF NodesBD[b][i] = LocalNode THEN "skip" ELSE t[2 + 1], NodesBD[b][i]>>
    BY <2>2, <2>3, <2>4
  <2> QED BY <2>1, <2>5, <2>6, <2>7
<1>7. ASSUME NEW k \in 1..3 * L PROVE \E i \in 1..L : k \in {3 * i - 2, 3 * i - 1, 3 * i}
  <2>1. (k - 1) \div 3 + 1 \in 1..L /\ k \in {3 * ((k - 1) \div 3 + 1) - 2, 3 * ((k - 1) \div 3 + 1) - 1, 3 * ((k - 1) \div 3 + 1)}
    BY <1>1
  <2> QED BY <2>1
<1> QED BY <1>4, <1>6, <1>7 DEF L

(* A sequence with one more element.                                      *)
LEMMA OneMore == ASSUME NEW S, NEW s \in Seq(S), NEW e \in S
                 PROVE  /\ s \o <<e>> \in Seq(S) /\ Len(s \o <<e>>) = Len(s) + 1
                        /\ \A k \in 1..Len(s) : (s \o <<e>>)[k] = s[k]
                        /\ (s \o <<e>>)[Len(s) + 1] = e
<1>1. <<e>> \in Seq(S) /\ Len(<<e>>) = 1 /\ <<e>>[1] = e OBVIOUS
<1>2. Len(s) \in Nat /\ Len(s) + 1 > Len(s) /\ Len(s) + 1 - Len(s) = 1 OBVIOUS
<1> QED BY <1>1, <1>2

(* A broadcast batch uploads its attachments before itself.                *)
LEMMA UploadShape ==
    ASSUME NEW b \in BatchBD
    PROVE  /\ Len(UploadStages(b)) \in Nat /\ Len(UploadStages(b)) > 0
           /\ UploadStages(b)[Len(UploadStages(b))] = <<"uploadBatch", None>>
           /\ \A k \in 1..Len(UploadStages(b)) - 1 : UploadStages(b)[k] = <<"upload", SetToSeq(BlobsBD[b])[k]>>
           /\ \A d \in BlobsBD[b] : \E k \in 1..Len(UploadStages(b)) - 1 : UploadStages(b)[k] = <<"upload", d>>
           /\ \E S : UploadStages(b) \in Seq(S)
<1> DEFINE C == Cardinality(BlobsBD[b])
           up == [i \in 1..C |-> <<"upload", SetToSeq(BlobsBD[b])[i]>>]
           e == <<"uploadBatch", None>>
           Tags == {e} \cup {<<"upload", SetToSeq(BlobsBD[b])[i]>> : i \in 1..C}
<1>1. /\ C \in Nat
      /\ \A d \in BlobsBD[b] : \E i \in 1..C : SetToSeq(BlobsBD[b])[i] = d
  BY NodesTyped, Enumerates
<1>2. UploadStages(b) = up \o <<e>> BY DEF UploadStages
<1>3. up \in Seq(Tags) /\ Len(up) = C /\ \A i \in 1..C : up[i] = <<"upload", SetToSeq(BlobsBD[b])[i]>> BY <1>1
<1>4. e \in Tags /\ e = <<"uploadBatch", None>> OBVIOUS
<1> HIDE DEF C, up, e, Tags
<1>5. /\ up \o <<e>> \in Seq(Tags) /\ Len(up \o <<e>>) = C + 1
      /\ \A k \in 1..C : (up \o <<e>>)[k] = up[k]
      /\ (up \o <<e>>)[C + 1] = e
  BY <1>3, <1>4, OneMore
<1>6. C + 1 - 1 = C /\ C + 1 \in Nat BY <1>1
<1>7. \A k \in 1..C : UploadStages(b)[k] = <<"upload", SetToSeq(BlobsBD[b])[k]>> BY <1>2, <1>3, <1>5
<1>8. \A d \in BlobsBD[b] : \E k \in 1..C : UploadStages(b)[k] = <<"upload", d>> BY <1>1, <1>7
<1>9. Len(UploadStages(b)) = C + 1 /\ UploadStages(b) \in Seq(Tags) /\ UploadStages(b)[C + 1] = <<"uploadBatch", None>>
  BY <1>2, <1>4, <1>5
<1>10. Len(UploadStages(b)) \in Nat /\ Len(UploadStages(b)) > 0 /\ Len(UploadStages(b)) - 1 = C
  <2>1. Len(UploadStages(b)) = C + 1 BY <1>9
  <2>2. C \in Nat BY <1>1
  <2> QED BY <2>1, <2>2
<1>11. UploadStages(b)[Len(UploadStages(b))] = <<"uploadBatch", None>> BY <1>9
<1>12. \E S : UploadStages(b) \in Seq(S) BY <1>9
<1> QED BY <1>7, <1>8, <1>10, <1>11, <1>12

(* The stages of a batch that is pinned end with the pin, and no other    *)
(* stage is one; the transfers of a node follow their preparation.        *)
Body(b) == IF KindBD[b] = "broadcast" THEN UploadStages(b) ELSE SendStages(b)

(* What the payload of a batch consists of, before its pin.                *)
LEMMA BodyShape ==
    ASSUME NEW b \in BatchBD
    PROVE  /\ Len(Body(b)) \in Nat /\ \E S : Body(b) \in Seq(S)
           /\ \A k \in 1..Len(Body(b)) :
                /\ Body(b)[k][1] \in {"skip", "prepare", "blobs", "send", "upload", "uploadBatch"}
                /\ Body(b)[k][1] = "blobs" => k > 1 /\ Body(b)[k - 1] = <<"prepare", Body(b)[k][2]>>
                /\ Body(b)[k][1] = "send" => k > 2 /\ Body(b)[k - 2] = <<"prepare", Body(b)[k][2]>>
                /\ Body(b)[k][1] = "uploadBatch" => Body(b)[k][2] = None
<1>1. CASE KindBD[b] = "broadcast"
  <2> DEFINE U == UploadStages(b)
  <2>1. Body(b) = U BY <1>1 DEF Body
  <2>2. /\ Len(U) \in Nat /\ U[Len(U)] = <<"uploadBatch", None>>
        /\ \A k \in 1..Len(U) - 1 : U[k] = <<"upload", SetToSeq(BlobsBD[b])[k]>>
    BY UploadShape
  <2>5. \E S : U \in Seq(S) BY UploadShape
  <2> HIDE DEF U
  <2>3. \A k \in 1..Len(U) : k = Len(U) \/ k \in 1..Len(U) - 1 BY <2>2
  <2>4. \A k \in 1..Len(U) : U[k] = <<"uploadBatch", None>> \/ U[k] = <<"upload", SetToSeq(BlobsBD[b])[k]>> BY <2>2, <2>3
  <2>6. \A k \in 1..Len(U) : U[k][1] \in {"upload", "uploadBatch"} /\ (U[k][1] = "uploadBatch" => U[k][2] = None) BY <2>4
  <2> QED BY <2>1, <2>2, <2>5, <2>6
<1>2. CASE KindBD[b] # "broadcast"
  <2> DEFINE V == SendStages(b)
             n == Len(NodesBD[b])
  <2>1. Body(b) = V BY <1>2 DEF Body
  <2>2. n \in Nat BY NodesTyped
  <2>3. Len(V) = 3 * n /\ DOMAIN V = 1..Len(V) BY SendShape
  <2>4. \E S : V \in Seq(S)
    <3>1. V \in Seq({V[k] : k \in 1..Len(V)})
      <4>1. V = [k \in 1..3 * n |-> V[k]] BY <2>3 DEF SendStages
      <4> HIDE DEF V, n
      <4>2. 3 * n \in Nat BY <2>2
      <4> QED BY <2>3, <4>1, <4>2
    <3> QED BY <3>1
  <2>5. ASSUME NEW k \in 1..Len(V)
        PROVE  /\ V[k][1] \in {"skip", "prepare", "blobs", "send"}
               /\ V[k][1] = "blobs" => k > 1 /\ V[k - 1] = <<"prepare", V[k][2]>>
               /\ V[k][1] = "send" => k > 2 /\ V[k - 2] = <<"prepare", V[k][2]>>
    <3>1. PICK i \in 1..n : k \in {3 * i - 2, 3 * i - 1, 3 * i} BY SendShape
    <3> DEFINE m == NodesBD[b][i]
    <3>2. IF m = LocalNode
          THEN V[3 * i - 2] = <<"skip", m>> /\ V[3 * i - 1] = <<"skip", m>> /\ V[3 * i] = <<"skip", m>>
          ELSE V[3 * i - 2] = <<"prepare", m>> /\ V[3 * i - 1] = <<"blobs", m>> /\ V[3 * i] = <<"send", m>>
      BY SendShape
    <3> HIDE DEF V, m
    <3>3. CASE k = 3 * i - 2 BY <3>2, <3>3
    <3>4. CASE k = 3 * i - 1
      <4>1. k > 1 /\ k - 1 = 3 * i - 2 BY <3>4, <2>2
      <4> QED BY <4>1, <3>2, <3>4
    <3>5. CASE k = 3 * i
      <4>1. k > 2 /\ k - 2 = 3 * i - 2 BY <3>5, <2>2
      <4> QED BY <4>1, <3>2, <3>5
    <3> QED BY <3>1, <3>3, <3>4, <3>5
  <2>6. Len(V) \in Nat BY <2>2, <2>3
  <2> HIDE DEF V
  <2> QED BY <2>1, <2>4, <2>5, <2>6
<1> QED BY <1>1, <1>2

(* The stages of a batch are those of its payload, followed by its pin.    *)
LEMMA StageShape ==
    ASSUME NEW b \in BatchBD
    PROVE  /\ Len(Stages(b)) \in Nat /\ Len(Body(b)) \in Nat
           /\ Len(Stages(b)) = IF KindBD[b] = "unpinned" THEN Len(Body(b)) ELSE Len(Body(b)) + 1
           /\ \A k \in 1..Len(Body(b)) : Stages(b)[k] = Body(b)[k]
           /\ KindBD[b] # "unpinned" => Stages(b)[Len(Body(b)) + 1] = <<"pin", None>>
<1> DEFINE B == Body(b)
           pin == <<"pin", None>>
<1>1. Len(B) \in Nat BY BodyShape
<1>2. Stages(b) = IF KindBD[b] = "unpinned" THEN B ELSE B \o <<pin>>
  <2>1. CASE KindBD[b] = "broadcast" BY <2>1 DEF Body, Stages, PinnedLast
  <2>2. CASE KindBD[b] \in {"private", "invoke"} BY <2>2 DEF Body, Stages, PinnedLast
  <2>3. CASE KindBD[b] = "unpinned" BY <2>3 DEF Body, Stages
  <2> QED BY <2>1, <2>2, <2>3, NodesTyped
<1>3. PICK S : B \in Seq(S) BY BodyShape
<1>4. pin = <<"pin", None>> OBVIOUS
<1> HIDE DEF B, pin
<1>5. B \in Seq(S \cup {pin}) BY <1>3
<1>6. /\ Len(B \o <<pin>>) = Len(B) + 1
      /\ \A k \in 1..Len(B) : (B \o <<pin>>)[k] = B[k]
      /\ (B \o <<pin>>)[Len(B) + 1] = pin
  BY <1>5, OneMore
<1>7. Len(Stages(b)) = IF KindBD[b] = "unpinned" THEN Len(B) ELSE Len(B) + 1 BY <1>2, <1>6
<1>8. Len(B) + 1 \in Nat BY <1>1
<1>9. \A k \in 1..Len(B) : Stages(b)[k] = B[k] BY <1>2, <1>6
<1>10. KindBD[b] # "unpinned" => Stages(b)[Len(B) + 1] = <<"pin", None>> BY <1>2, <1>4, <1>6
<1> QED BY <1>1, <1>7, <1>8, <1>9, <1>10 DEF B

(* What a stage of the dispatch leaves behind.                            *)
Done(b, s) ==
    CASE s[1] = "skip" -> TRUE
      [] s[1] = "prepare" -> StageOps(b, s) \subseteq ctxBD
      [] s[1] = "upload" -> s[2] \in publicBD
      [] OTHER -> StageOps(b, s) \subseteq gotBD

(* Every stage of the body before the current one is done.                *)
DoneBefore ==
    /\ DOMAIN atBD = BatchBD
    /\ \A b \in BatchBD : atBD[b] \in Nat /\ \A k \in 1..Len(Stages(b)) : k < atBD[b] => Done(b, Stages(b)[k])
(* A pin was accepted only for a batch that has one, with the body done.  *)
PinLast ==
    \A b \in BatchBD : gotBD \cap SubmitBatchPin(b) # {} =>
        KindBD[b] # "unpinned" /\ \A k \in 1..Len(Body(b)) : Done(b, Body(b)[k])
(* What was accepted is in the context; what is in the context has one    *)
(* row, unless its insert was rolled back; everything else has none.      *)
RowsOfContext ==
    /\ gotBD \subseteq ctxBD /\ undoneBD \subseteq ctxBD
    /\ DOMAIN rowsBD = AllOps
    /\ \A o \in AllOps : rowsBD[o] = (IF o \in ctxBD \ undoneBD THEN 1 ELSE 0)
    /\ \A b \in BatchBD : KindBD[b] = "invoke" => Op(b, "invoke", None, None) \in ctxBD \ undoneBD
DispatchInv == DoneBefore /\ PinLast /\ RowsOfContext

(* Only the last stage makes a pin, and only of its own batch.            *)
LEMMA PinStage ==
    ASSUME NEW b \in BatchBD, NEW c \in BatchBD, NEW k \in 1..Len(Stages(b)), Stages(b)[k][1] # "skip",
           NEW o \in StageOps(b, Stages(b)[k]), o \in SubmitBatchPin(c)
    PROVE  c = b /\ KindBD[b] # "unpinned" /\ k = Len(Body(b)) + 1
<1> DEFINE s == Stages(b)[k]
<1>1. o[1] = c /\ o[2] \in {"pin", "invoke"} BY DEF SubmitBatchPin, Op
<1>2. /\ Len(Stages(b)) = IF KindBD[b] = "unpinned" THEN Len(Body(b)) ELSE Len(Body(b)) + 1
      /\ \A j \in 1..Len(Body(b)) : Stages(b)[j] = Body(b)[j]
      /\ Len(Body(b)) \in Nat
      /\ KindBD[b] # "unpinned" => Stages(b)[Len(Body(b)) + 1] = <<"pin", None>>
  BY StageShape
<1>3. \A j \in 1..Len(Body(b)) : Body(b)[j][1] \in {"skip", "prepare", "blobs", "send", "upload", "uploadBatch"}
  BY BodyShape
<1>4. ASSUME k \in 1..Len(Body(b)) PROVE FALSE
  <2>1. s[1] \in {"skip", "prepare", "blobs", "send", "upload", "uploadBatch"} /\ o \in StageOps(b, s)
    BY <1>2, <1>3, <1>4
  <2>2. s[1] # "skip" OBVIOUS
  <2> HIDE DEF s
  <2>3. o[2] \in {"blob", "send", "upload", "uploadBatch"} BY <2>1, <2>2 DEF StageOps, Op
  <2> QED BY <1>1, <2>3
<1>5. KindBD[b] # "unpinned" /\ k = Len(Body(b)) + 1
  <2>1. \A n \in Nat : \A j \in 1..n + 1 : j \in 1..n \/ j = n + 1 OBVIOUS
  <2> QED BY <1>2, <1>4, <2>1
<1>6. o \in SubmitBatchPin(b)
  <2>1. s = <<"pin", None>> BY <1>2, <1>5
  <2> QED BY <2>1 DEF StageOps
<1>7. o[1] = b BY <1>6 DEF SubmitBatchPin, Op
<1> QED BY <1>1, <1>5, <1>7

(* What was done stays done.                                               *)
LEMMA StaysDone ==
    ASSUME ctxBD \subseteq ctxBD', gotBD \subseteq gotBD', publicBD \subseteq publicBD', NEW b, NEW s, Done(b, s)
    PROVE  Done(b, s)'
<1>1. StageOps(b, s)' = StageOps(b, s) BY DEF StageOps, SubmitBatchPin
<1> QED BY <1>1 DEF Done

(* A step of the dispatch of b at stage s: it goes back to the first      *)
(* stage, or on once s is done; only operations of s are accepted.        *)
MovesTo(b, j, s, n) ==
    /\ ctxBD \subseteq ctxBD' /\ gotBD \subseteq gotBD' /\ publicBD \subseteq publicBD'
    /\ j = atBD[b] /\ s = Stages(b)[j]
    /\ atBD' = [atBD EXCEPT ![b] = n]
    /\ n = 1 \/ (n = j + 1 /\ Done(b, s)')
    /\ \A o \in gotBD' : o \in gotBD \/ (j \in 1..Len(Stages(b)) /\ s[1] # "skip" /\ o \in StageOps(b, s))

(* A batch that moves on has done the stages before.                       *)
LEMMA DispatchMoves ==
    ASSUME DoneBefore, PinLast, NEW b \in BatchBD, NEW j, NEW s, NEW n \in Nat, MovesTo(b, j, s, n)
    PROVE  DoneBefore' /\ PinLast'
<1>0. /\ ctxBD \subseteq ctxBD' /\ gotBD \subseteq gotBD' /\ publicBD \subseteq publicBD'
      /\ j = atBD[b] /\ s = Stages(b)[j]
      /\ atBD' = [atBD EXCEPT ![b] = n]
      /\ n = 1 \/ (n = j + 1 /\ Done(b, s)')
      /\ \A o \in gotBD' : o \in gotBD \/ (j \in 1..Len(Stages(b)) /\ s[1] # "skip" /\ o \in StageOps(b, s))
  BY DEF MovesTo
<1>1. \A c \in BatchBD : Len(Stages(c)) \in Nat /\ Len(Body(c)) \in Nat /\ atBD[c] \in Nat
  BY StageShape DEF DoneBefore
<1>2. /\ DOMAIN atBD' = BatchBD
      /\ \A c \in BatchBD : IF c = b THEN atBD'[c] = n ELSE atBD'[c] = atBD[c]
  BY <1>0 DEF DoneBefore
<1>3. \A c, q : Done(c, q) => Done(c, q)' BY <1>0, StaysDone
<1>4. ASSUME NEW c \in BatchBD, NEW k \in 1..Len(Stages(c)), k < atBD'[c] PROVE Done(c, Stages(c)[k])'
  <2>1. CASE c # b BY <2>1, <1>2, <1>3, <1>4 DEF DoneBefore
  <2>2. CASE c = b /\ n # 1
    <3>1. n = j + 1 /\ k < n /\ j \in Nat /\ k \in Nat BY <2>2, <1>0, <1>1, <1>2, <1>4
    <3>2. k = j \/ k < j BY <3>1
    <3>3. CASE k = j BY <3>3, <2>2, <1>0
    <3>4. CASE k < j
      <4>1. Done(c, Stages(c)[k]) BY <3>4, <2>2, <1>0, <1>4 DEF DoneBefore
      <4> QED BY <4>1, <1>3
    <3> QED BY <3>2, <3>3, <3>4
  <2>3. CASE c = b /\ n = 1 BY <2>3, <1>1, <1>2, <1>4
  <2> QED BY <2>1, <2>2, <2>3
<1>5. \A c : Stages(c)' = Stages(c) /\ Body(c)' = Body(c) /\ SubmitBatchPin(c)' = SubmitBatchPin(c)
  BY DEF Stages, Body, SendStages, UploadStages, PinnedLast, SubmitBatchPin
<1>6. DoneBefore' BY <1>1, <1>2, <1>4, <1>5 DEF DoneBefore
<1>7. ASSUME NEW c \in BatchBD, NEW o \in gotBD', o \in SubmitBatchPin(c)
      PROVE  KindBD[c] # "unpinned" /\ \A k \in 1..Len(Body(c)) : Done(c, Body(c)[k])'
  <2>1. CASE o \in gotBD
    <3>1. KindBD[c] # "unpinned" /\ \A k \in 1..Len(Body(c)) : Done(c, Body(c)[k]) BY <2>1, <1>7 DEF PinLast
    <3> QED BY <3>1, <1>3
  <2>2. CASE o \notin gotBD
    <3>1. c = b /\ KindBD[b] # "unpinned" /\ atBD[b] = Len(Body(b)) + 1 BY <2>2, <1>0, <1>7, PinStage
    <3>2. \A k \in 1..Len(Body(b)) : k \in 1..Len(Stages(b)) /\ k < atBD[b] /\ Stages(b)[k] = Body(b)[k]
      BY <3>1, <1>1, StageShape
    <3>3. \A k \in 1..Len(Body(b)) : Done(b, Body(b)[k]) BY <3>2 DEF DoneBefore
    <3> QED BY <3>1, <3>3, <1>3
  <2> QED BY <2>1, <2>2
<1>8. PinLast' BY <1>5, <1>7 DEF PinLast
<1> QED BY <1>6, <1>8

(* The table after operations were added, some of them not for the first  *)
(* time, and after others were put into the context only.                 *)
LEMMA RowsAdded ==
    ASSUME RowsOfContext, NEW ops, AddOrReuseOperation(ops), undoneBD' = undoneBD,
           NEW accepted \in SUBSET (ops \cup ctxBD), gotBD' = gotBD \cup accepted
    PROVE  RowsOfContext'
<1>1. ctxBD' = ctxBD \cup ops /\ DOMAIN rowsBD' = AllOps
      /\ \A o \in AllOps : rowsBD'[o] = IF o \in ops \ ctxBD THEN rowsBD[o] + 1 ELSE rowsBD[o]
  BY DEF AddOrReuseOperation
<1>2. \A o \in AllOps : rowsBD'[o] = IF o \in ctxBD' \ undoneBD' THEN 1 ELSE 0 BY <1>1 DEF RowsOfContext
<1> QED BY <1>1, <1>2 DEF RowsOfContext

(* A request adds no row to the operations of its context.                 *)
LEMMA RowsKept ==
    ASSUME RowsOfContext, UNCHANGED <<ctxBD, rowsBD, undoneBD>>,
           NEW accepted \in SUBSET ctxBD, gotBD' = gotBD \cup accepted
    PROVE  RowsOfContext'
BY DEF RowsOfContext

(* The kinds of stages; the transfers of a node are prepared before.      *)
LEMMA StageKinds ==
    ASSUME NEW b \in BatchBD, NEW k \in 1..Len(Stages(b))
    PROVE  Stages(b)[k][1] \in {"skip", "prepare", "blobs", "send", "upload", "uploadBatch", "pin"}
<1>1. k \in 1..Len(Body(b)) \/ (KindBD[b] # "unpinned" /\ k = Len(Body(b)) + 1) BY StageShape
<1> QED BY <1>1, StageShape, BodyShape

(* What is sent was prepared in an earlier stage.                          *)
LEMMA PreparedFirst ==
    ASSUME DoneBefore, NEW b \in BatchBD, NEW k \in 1..Len(Stages(b)), k = atBD[b],
           Stages(b)[k][1] \in {"blobs", "send"}
    PROVE  StageOps(b, Stages(b)[k]) \subseteq ctxBD
<1> DEFINE s == Stages(b)[k]
           n == s[2]
           q == <<"prepare", n>>
<1>1. k \in 1..Len(Body(b)) \/ (KindBD[b] # "unpinned" /\ k = Len(Body(b)) + 1) BY StageShape
<1>2. k \in 1..Len(Body(b)) /\ s = Body(b)[k] BY <1>1, StageShape
<1>3. Len(Body(b)) \in Nat /\ Len(Stages(b)) \in Nat /\ Len(Body(b)) <= Len(Stages(b)) BY StageShape
<1>4. /\ s[1] = "blobs" => k > 1 /\ Body(b)[k - 1] = q
      /\ s[1] = "send" => k > 2 /\ Body(b)[k - 2] = q
  BY <1>2, BodyShape
<1>5. \E i \in 1..Len(Body(b)) : i < k /\ Body(b)[i] = q
  <2>1. CASE s[1] = "blobs"
    <3>1. k - 1 \in 1..Len(Body(b)) /\ k - 1 < k BY <2>1, <1>2, <1>3, <1>4
    <3> QED BY <3>1, <2>1, <1>4
  <2>2. CASE s[1] = "send"
    <3>1. k - 2 \in 1..Len(Body(b)) /\ k - 2 < k BY <2>2, <1>2, <1>3, <1>4
    <3> QED BY <3>1, <2>2, <1>4
  <2> QED BY <2>1, <2>2
<1>6. PICK i \in 1..Len(Body(b)) : i < k /\ Body(b)[i] = q BY <1>5
<1>7. i \in 1..Len(Stages(b)) /\ Stages(b)[i] = q BY <1>3, <1>6, StageShape
<1>8. Done(b, q) BY <1>6, <1>7 DEF DoneBefore
<1>9. StageOps(b, q) = {Op(b, "blob", n, d) : d \in BlobsBD[b]} \cup {Op(b, "send", n, None)} BY DEF StageOps
<1>10. StageOps(b, q) \subseteq ctxBD BY <1>8 DEF Done
<1>11. StageOps(b, s) \subseteq StageOps(b, q)
  <2>1. CASE s[1] = "blobs" BY <2>1, <1>9 DEF StageOps
  <2>2. CASE s[1] = "send" BY <2>2, <1>9 DEF StageOps
  <2> QED BY <2>1, <2>2
<1> QED BY <1>10, <1>11

(* A dispatch begins with the first stage.                                 *)
LEMMA StartDispatch == ASSUME DispatchInv, NEW b \in BatchBD, startDispatch(b) PROVE DispatchInv'
<1>1. RowsOfContext'
  <2>1. UNCHANGED <<ctxBD, rowsBD, undoneBD>> /\ gotBD' = gotBD \cup {} /\ {} \in SUBSET ctxBD BY DEF startDispatch
  <2> QED BY <2>1, RowsKept DEF DispatchInv
<1>2. DoneBefore' /\ PinLast'
  <2>1. PICK j : j = atBD[b] OBVIOUS
  <2>2. PICK s : s = Stages(b)[j] OBVIOUS
  <2>3. MovesTo(b, j, s, 1) BY <2>1, <2>2 DEF startDispatch, MovesTo
  <2> QED BY <2>3, DispatchMoves DEF DispatchInv
<1> QED BY <1>1, <1>2 DEF DispatchInv

(* A stage that succeeds leads to the next one.                            *)
LEMMA StageSucceeds == ASSUME DispatchInv, NEW b \in BatchBD, stageSucceeds(b) PROVE DispatchInv'
<1>1. PICK j : j = atBD[b] OBVIOUS
<1>2. PICK s : s = Stages(b)[j] OBVIOUS
<1>3. /\ j \in 1..Len(Stages(b))
      /\ atBD' = [atBD EXCEPT ![b] = j + 1] /\ undoneBD' = undoneBD
      /\ IF Passed(s) \/ ~AddsFirst(s) THEN UNCHANGED <<ctxBD, rowsBD>> ELSE AddOrReuseOperation(StageOps(b, s))
      /\ gotBD' = IF Passed(s) \/ s[1] = "prepare" THEN gotBD ELSE gotBD \cup StageOps(b, s)
      /\ publicBD' = IF s[1] = "upload" THEN publicBD \cup {s[2]} ELSE publicBD
  <2>1. j = atBD[b] /\ s = Stages(b)[atBD[b]] /\ DOMAIN atBD = BatchBD BY <1>1, <1>2 DEF DispatchInv, DoneBefore
  <2>2. atBD' = [atBD EXCEPT ![b] = j + 1] BY <2>1 DEF stageSucceeds
  <2> QED BY <2>1, <2>2 DEF stageSucceeds
<1>4. j \in Nat /\ j + 1 \in Nat /\ (j + 1 > 1 => j + 1 = j + 1) BY <1>3, StageShape
<1>5. s[1] \in {"skip", "prepare", "blobs", "send", "upload", "uploadBatch", "pin"} BY <1>2, <1>3, StageKinds
<1>6. s[1] \in {"blobs", "send"} => StageOps(b, s) \subseteq ctxBD
  BY <1>1, <1>2, <1>3, PreparedFirst DEF DispatchInv
<1>7. ctxBD \subseteq ctxBD' /\ gotBD \subseteq gotBD' /\ publicBD \subseteq publicBD'
  BY <1>3 DEF AddOrReuseOperation
<1>8. StageOps(b, s)' = StageOps(b, s) BY DEF StageOps, SubmitBatchPin
<1>9. Done(b, s)'
  <2>1. CASE s[1] = "skip" BY <2>1 DEF Done
  <2>2. CASE s[1] = "prepare" BY <2>2, <1>3, <1>8 DEF Done, Passed, AddsFirst, AddOrReuseOperation
  <2>3. CASE s[1] = "upload" BY <2>3, <1>3 DEF Done
  <2>4. CASE s[1] \in {"blobs", "send", "uploadBatch", "pin"} BY <2>4, <1>3, <1>8 DEF Done, Passed
  <2> QED BY <2>1, <2>2, <2>3, <2>4, <1>5
<1>10. RowsOfContext'
  <2>0. RowsOfContext BY DEF DispatchInv
  <2>1. CASE Passed(s)
    <3>1. UNCHANGED <<ctxBD, rowsBD, undoneBD>> /\ gotBD' = gotBD \cup {} /\ {} \in SUBSET ctxBD BY <2>1, <1>3
    <3> QED BY <3>1, <2>0, RowsKept
  <2>2. CASE ~Passed(s) /\ s[1] \in {"blobs", "send"}
    <3>1. UNCHANGED <<ctxBD, rowsBD, undoneBD>> /\ gotBD' = gotBD \cup StageOps(b, s)
      BY <2>2, <1>3 DEF AddsFirst
    <3> QED BY <3>1, <2>0, <2>2, <1>6, RowsKept
  <2>3. CASE ~Passed(s) /\ s[1] = "prepare"
    <3>1. AddOrReuseOperation(StageOps(b, s)) /\ undoneBD' = undoneBD /\ gotBD' = gotBD \cup {}
      BY <2>3, <1>3 DEF AddsFirst
    <3> QED BY <3>1, <2>0, RowsAdded
  <2>4. CASE ~Passed(s) /\ s[1] \in {"upload", "uploadBatch", "pin"}
    <3>1. AddOrReuseOperation(StageOps(b, s)) /\ undoneBD' = undoneBD /\ gotBD' = gotBD \cup StageOps(b, s)
      BY <2>4, <1>3 DEF AddsFirst
    <3> QED BY <3>1, <2>0, RowsAdded
  <2> QED BY <2>1, <2>2, <2>3, <2>4, <1>5 DEF Passed
<1>11. \A o \in gotBD' : o \in gotBD \/ (s[1] # "skip" /\ o \in StageOps(b, s)) BY <1>3 DEF Passed
<1>12. DoneBefore' /\ PinLast'
  <2>1. MovesTo(b, j, s, j + 1) BY <1>1, <1>2, <1>3, <1>7, <1>9, <1>11 DEF MovesTo
  <2> QED BY <1>4, <2>1, DispatchMoves DEF DispatchInv
<1> QED BY <1>10, <1>12 DEF DispatchInv

(* A failure before the operations are stored leaves nothing behind.       *)
LEMMA PrepareFails == ASSUME DispatchInv, NEW b \in BatchBD, prepareFails(b) PROVE DispatchInv'
<1>1. PICK j : j = atBD[b] OBVIOUS
<1>2. PICK s : s = Stages(b)[j] OBVIOUS
<1>3. PICK added \in SUBSET (StageOps(b, s) \ ctxBD) : ctxBD' = ctxBD \cup added /\ undoneBD' = undoneBD \cup added
  BY <1>1, <1>2 DEF prepareFails
<1>4. UNCHANGED <<rowsBD, gotBD, publicBD>> /\ atBD' = [atBD EXCEPT ![b] = 1] BY DEF prepareFails, Restarted
<1>5. RowsOfContext' BY <1>3, <1>4 DEF DispatchInv, RowsOfContext
<1>6. MovesTo(b, j, s, 1) BY <1>1, <1>2, <1>3, <1>4 DEF MovesTo
<1>7. DoneBefore' /\ PinLast' BY <1>6, DispatchMoves DEF DispatchInv
<1> QED BY <1>5, <1>7 DEF DispatchInv

(* A request that fails ends the attempt, its operations stay.             *)
LEMMA RequestFails == ASSUME DispatchInv, NEW b \in BatchBD, requestFails(b) PROVE DispatchInv'
<1>1. PICK j : j = atBD[b] OBVIOUS
<1>2. PICK s : s = Stages(b)[j] OBVIOUS
<1>3. /\ j \in 1..Len(Stages(b)) /\ s[1] # "prepare" /\ ~Passed(s)
      /\ IF AddsFirst(s) THEN AddOrReuseOperation(StageOps(b, s)) ELSE UNCHANGED <<ctxBD, rowsBD>>
      /\ atBD' = [atBD EXCEPT ![b] = 1] /\ undoneBD' = undoneBD
  BY <1>1, <1>2 DEF requestFails, Restarted
<1>4. PICK accepted \in SUBSET StageOps(b, s) : gotBD' = gotBD \cup accepted /\ publicBD \subseteq publicBD'
  BY <1>1, <1>2 DEF requestFails
<1>5. s[1] \in {"blobs", "send", "upload", "uploadBatch", "pin"} BY <1>2, <1>3, StageKinds DEF Passed
<1>6. RowsOfContext'
  <2>0. RowsOfContext BY DEF DispatchInv
  <2>1. CASE s[1] \in {"blobs", "send"}
    <3>1. StageOps(b, s) \subseteq ctxBD BY <2>1, <1>1, <1>2, <1>3, PreparedFirst DEF DispatchInv
    <3>2. UNCHANGED <<ctxBD, rowsBD, undoneBD>> BY <2>1, <1>3 DEF AddsFirst
    <3> QED BY <3>1, <3>2, <2>0, <1>4, RowsKept
  <2>2. CASE s[1] \in {"upload", "uploadBatch", "pin"}
    <3>1. AddOrReuseOperation(StageOps(b, s)) /\ undoneBD' = undoneBD BY <2>2, <1>3 DEF AddsFirst
    <3> QED BY <3>1, <2>0, <1>4, RowsAdded
  <2> QED BY <2>1, <2>2, <1>5
<1>7. ctxBD \subseteq ctxBD' BY <1>3 DEF AddOrReuseOperation
<1>8. MovesTo(b, j, s, 1) BY <1>1, <1>2, <1>3, <1>4, <1>5, <1>7 DEF MovesTo
<1>9. DoneBefore' /\ PinLast' BY <1>8, DispatchMoves DEF DispatchInv
<1> QED BY <1>6, <1>9 DEF DispatchInv

(* A failing insert ends the attempt.                                      *)
LEMMA InsertFailsBD == ASSUME DispatchInv, NEW b \in BatchBD, insertFails(b) PROVE DispatchInv'
<1>1. UNCHANGED <<ctxBD, rowsBD, undoneBD, gotBD, publicBD>> /\ atBD' = [atBD EXCEPT ![b] = 1]
  BY DEF insertFails, Restarted
<1>2. RowsOfContext' BY <1>1 DEF DispatchInv, RowsOfContext
<1>3. PICK j : j = atBD[b] OBVIOUS
<1>4. PICK s : s = Stages(b)[j] OBVIOUS
<1>5. MovesTo(b, j, s, 1) BY <1>1, <1>3, <1>4 DEF MovesTo
<1>6. DoneBefore' /\ PinLast' BY <1>5, DispatchMoves DEF DispatchInv
<1> QED BY <1>2, <1>6 DEF DispatchInv

(* Nothing has been dispatched at first.                                   *)
LEMMA DispatchInit == InitBD => DispatchInv
<1> SUFFICES ASSUME InitBD PROVE DispatchInv OBVIOUS
<1>1. DoneBefore
  <2>1. \A b \in BatchBD : atBD[b] = 0 /\ Len(Stages(b)) \in Nat BY StageShape DEF InitBD
  <2> QED BY <2>1 DEF DoneBefore, InitBD
<1>2. PinLast BY DEF PinLast, InitBD
<1>3. RowsOfContext BY DEF RowsOfContext, InitBD
<1> QED BY <1>1, <1>2, <1>3 DEF DispatchInv

(* Every step of a dispatch keeps its invariant.                           *)
LEMMA DispatchStep == ASSUME DispatchInv, [NextBD]_varsBD PROVE DispatchInv'
<1>1. CASE UNCHANGED varsBD
  <2>1. \A b, s : Done(b, s) => Done(b, s)' BY <1>1, StaysDone DEF varsBD
  <2>2. \A b : Stages(b)' = Stages(b) /\ Body(b)' = Body(b) /\ SubmitBatchPin(b)' = SubmitBatchPin(b)
    BY DEF Stages, Body, SendStages, UploadStages, PinnedLast, SubmitBatchPin
  <2>3. DoneBefore' BY <1>1, <2>1, <2>2 DEF DispatchInv, DoneBefore, varsBD
  <2>4. PinLast' BY <1>1, <2>1, <2>2 DEF DispatchInv, PinLast, varsBD
  <2>5. RowsOfContext' BY <1>1 DEF DispatchInv, RowsOfContext, varsBD
  <2> QED BY <2>3, <2>4, <2>5 DEF DispatchInv
<1>2. CASE NextBD
  BY <1>2, StartDispatch, StageSucceeds, PrepareFails, RequestFails, InsertFailsBD DEF NextBD
<1> QED BY <1>1, <1>2

(* The invariant holds what was to be shown.                               *)
LEMMA DispatchSafe == ASSUME DispatchInv PROVE PinAfterPayload /\ OneOperationEach
<1>1. OneOperationEach BY DEF DispatchInv, RowsOfContext, OneOperationEach
<1>2. ASSUME NEW b \in BatchBD, gotBD \cap SubmitBatchPin(b) # {}, KindBD[b] = "broadcast"
      PROVE  Op(b, "uploadBatch", None, None) \in gotBD /\ BlobsBD[b] \subseteq publicBD
  <2>1. \A k \in 1..Len(Body(b)) : Done(b, Body(b)[k]) BY <1>2 DEF DispatchInv, PinLast
  <2>2. Body(b) = UploadStages(b) BY <1>2 DEF Body
  <2>3. Len(Body(b)) \in Nat BY BodyShape
  <2>4. \A d \in BlobsBD[b] : \E k \in 1..Len(Body(b)) - 1 : Body(b)[k] = <<"upload", d>> BY <2>2, UploadShape
  <2>5. \A d \in BlobsBD[b] : Done(b, <<"upload", d>>)
    <3>1. \A k \in 1..Len(Body(b)) - 1 : k \in 1..Len(Body(b)) BY <2>3
    <3> QED BY <2>1, <2>4, <3>1
  <2>6. BlobsBD[b] \subseteq publicBD BY <2>5 DEF Done
  <2>7. Done(b, <<"uploadBatch", None>>)
    <3>1. Len(Body(b)) \in 1..Len(Body(b)) BY <2>2, UploadShape
    <3> QED BY <2>1, <2>2, <3>1, UploadShape
  <2>8. Op(b, "uploadBatch", None, None) \in gotBD BY <2>7 DEF Done, StageOps
  <2> QED BY <2>6, <2>8
<1>3. ASSUME NEW b \in BatchBD, gotBD \cap SubmitBatchPin(b) # {}, KindBD[b] # "broadcast",
             NEW i \in DOMAIN NodesBD[b], NodesBD[b][i] # LocalNode
      PROVE  /\ Op(b, "send", NodesBD[b][i], None) \in gotBD
             /\ \A d \in BlobsBD[b] : Op(b, "blob", NodesBD[b][i], d) \in gotBD
  <2> DEFINE n == NodesBD[b][i]
  <2>1. \A k \in 1..Len(Body(b)) : Done(b, Body(b)[k]) BY <1>3 DEF DispatchInv, PinLast
  <2>2. Body(b) = SendStages(b) BY <1>3 DEF Body
  <2>3. Len(NodesBD[b]) \in Nat /\ i \in 1..Len(NodesBD[b]) BY NodesTyped
  <2>4. Len(Body(b)) = 3 * Len(NodesBD[b]) BY <2>2, SendShape
  <2>5. 3 * i - 1 \in 1..Len(Body(b)) /\ 3 * i \in 1..Len(Body(b)) BY <2>3, <2>4
  <2>6. Body(b)[3 * i - 1] = <<"blobs", n>> /\ Body(b)[3 * i] = <<"send", n>> BY <2>2, <2>3, <1>3, SendShape
  <2> HIDE DEF n
  <2>7. Done(b, <<"blobs", n>>) /\ Done(b, <<"send", n>>) BY <2>1, <2>5, <2>6
  <2>8. Op(b, "send", n, None) \in gotBD BY <2>7 DEF Done, StageOps
  <2>9. \A d \in BlobsBD[b] : Op(b, "blob", n, d) \in gotBD BY <2>7 DEF Done, StageOps
  <2> QED BY <2>8, <2>9 DEF n
<1> QED BY <1>1, <1>2, <1>3 DEF PinAfterPayload

(* What callers hand over is sent (message_writer.go, privatemessaging.go,*)
(* broadcast manager.go): every caller gets a true answer and its message *)
(* is stored unless a duplicate or overtaken, a group is defined before   *)
(* its messages, the batch is pinned after its payload, and a repeated    *)
(* dispatch adds no operation.                                            *)
THEOREM Sent == Spec => []SentFaithfully
<1>1. Init => WriterInv /\ DispatchInv BY NodeInits, WriterInit, DispatchInit
<1>2. WriterInv /\ DispatchInv /\ [Next]_varsNode => WriterInv' /\ DispatchInv'
  BY NodeSteps, WriterStep, DispatchStep
<1>3. WriterInv /\ DispatchInv => SentFaithfully BY DispatchSafe DEF SentFaithfully, WriterInv
<1> QED BY <1>1, <1>2, <1>3, PTL DEF Spec

===========================================================================
