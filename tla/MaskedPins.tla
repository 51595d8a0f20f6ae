----------------------------- MODULE MaskedPins -----------------------------
(***************************************************************************)
(* Private messages in the aggregator (aggregator_batch_state.go) and the  *)
(* group they belong to (privatemessaging/groupmanager.go).  The pin of a  *)
(* private message hides its topic: it is a hash of topic, group, author   *)
(* and a nonce that the author counts per topic.  A node keeps, for each   *)
(* member of the group, the next hash it expects on each topic.  A batch   *)
(* is one message; a pin is the number of its row in the stream.           *)
(***************************************************************************)
EXTENDS Integers, Sequences, FiniteSets, FiniteSetsExt

CONSTANTS
    Stream,       \* the pins: <<[msg, topic, who, nonce], ...>>, who and nonce in the hash
    AuthorOf,     \* AuthorOf[m]: the author in the header of message m
    DefinesGroup, \* messages that carry the group's definition
    LateBlob,     \* messages whose attachment comes separately
    Forged,       \* messages whose key is not the signer of the pin
    Members,      \* the identity of each member: one entry per node
    GroupIsLocal, \* whether this node created the group
    PageMP,       \* event.aggregator.batchSize
    MaxFailsMP    \* bound: pages whose transaction fails

PinMP == DOMAIN Stream
MsgMP == {Stream[p].msg : p \in PinMP}
TopicMP == {Stream[p].topic : p \in PinMP}
RowsOf(m) == {p \in PinMP : Stream[p].msg = m}
NoContext == <<>>

(* A message has one pin for each of its topics, and Message.VerifyFields *)
(* refuses one that names a topic twice.                                  *)
ASSUME StreamAssumption ==
    /\ Len(Stream) \in Nat /\ DOMAIN Stream = 1..Len(Stream)
    /\ \A p \in PinMP : Stream[p].nonce \in Nat
    /\ \A p, q \in PinMP : Stream[p].msg = Stream[q].msg /\ Stream[p].topic = Stream[q].topic => p = q

VARIABLES
    pinsMP,      \* rows 1..pinsMP are in the pins table
    doneMP,      \* rows marked dispatched
    hereMP,      \* messages stored with their data
    blobMP,      \* messages whose attachment is stored
    groupMP,     \* whether the group is in the groups table
    nextMP,      \* nextMP[t]: the nextpins rows of topic t, a nonce per member
    eventsMP,    \* messages confirmed or rejected, in order
    rewindMP,    \* rows to go back to
    offsetMP,    \* the poller has passed these rows
    pageMP,      \* rows of the page, {} between pages
    leftMP,      \* those not processed yet, the least first
    contextsMP,  \* maskedContexts: as nextMP, NoContext when not loaded
    todoMP,      \* dispatchedMessages
    failsMP
tablesMP == <<pinsMP, doneMP, hereMP, blobMP, groupMP, nextMP, eventsMP>>
stateMP == <<leftMP, contextsMP, todoMP>>
varsMP == <<tablesMP, rewindMP, offsetMP, pageMP, stateMP, failsMP>>

Unread == [t \in TopicMP |-> NoContext]
InitMP ==
    /\ pinsMP = 0 /\ doneMP = {} /\ hereMP = {} /\ blobMP = MsgMP \ LateBlob
    /\ groupMP = GroupIsLocal /\ nextMP = Unread /\ eventsMP = <<>>
    /\ rewindMP = {} /\ offsetMP = 0 /\ pageMP = {} /\ leftMP = {}
    /\ contextsMP = Unread /\ todoMP = <<>> /\ failsMP = 0

(* Arrivals: the pins of a message together; its batch; its attachment.   *)
(* The latter two rewind the poller to the message's pins, once committed. *)
pinsArrive ==
    /\ pinsMP < Len(Stream)
    /\ pinsMP' = Max(RowsOf(Stream[pinsMP + 1].msg))
    /\ UNCHANGED <<doneMP, hereMP, blobMP, groupMP, nextMP, eventsMP, rewindMP, offsetMP,
                   pageMP, stateMP, failsMP>>
RewindsLast(m) ==
    LET rows == {p \in RowsOf(m) : p <= pinsMP /\ p \notin doneMP} IN IF rows = {} THEN {} ELSE {Max(rows)}
RewindsFor(m) == {p \in RowsOf(m) : p <= pinsMP /\ p \notin doneMP}
batchArrives(m) ==
    /\ m \notin hereMP
    /\ hereMP' = hereMP \cup {m}
    /\ rewindMP' = rewindMP \cup RewindsFor(m)
    /\ UNCHANGED <<pinsMP, doneMP, blobMP, groupMP, nextMP, eventsMP, offsetMP, pageMP,
                   stateMP, failsMP>>
blobArrives(m) ==
    /\ m \notin blobMP
    /\ blobMP' = blobMP \cup {m}
    /\ rewindMP' = rewindMP \cup RewindsFor(m)
    /\ UNCHANGED <<pinsMP, doneMP, hereMP, groupMP, nextMP, eventsMP, offsetMP, pageMP,
                   stateMP, failsMP>>

(* The poller goes back for the rewinds and reads undispatched pins.      *)
readPins ==
    LET from == Min({offsetMP} \cup {p - 1 : p \in rewindMP})
        rows == {p \in 1..pinsMP : p > from /\ p \notin doneMP}
    IN /\ pageMP = {}
       /\ rewindMP # {} \/ rows # {}
       /\ rewindMP' = {} /\ offsetMP' = from
       /\ pageMP' = {p \in rows : Cardinality({q \in rows : q < p}) < PageMP} /\ leftMP' = pageMP'
       /\ UNCHANGED <<tablesMP, contextsMP, todoMP, failsMP>>
-----------------------------------------------------------------------------
ZeroNonces == [i \in DOMAIN Members |-> 0]
IsZero(p) == Stream[p].nonce = 0
IsMember(who) == \E i \in DOMAIN Members : Members[i] = who

(* ResolveInitGroup: a definition stores the group, whatever becomes of   *)
(* the message; any other message needs the group and a sender in it.     *)
GroupAfter(m) == groupMP \/ m \in DefinesGroup
ResolveInitGroup(m) == m \in DefinesGroup \/ (groupMP /\ IsMember(AuthorOf[m]))

(* attemptContextInit: the pin is the zero hash of its author, and no     *)
(* zero hash of the topic before the pin at hand is undispatched.         *)
attemptContextInit(m, p) ==
    /\ ResolveInitGroup(m)
    /\ IsMember(Stream[p].who) /\ IsZero(p) /\ Stream[p].who = AuthorOf[m]
    /\ ~\E q \in 1..pinsMP : /\ q < Min(leftMP) /\ q \notin doneMP /\ IsZero(q)
                            /\ Stream[q].topic = Stream[p].topic /\ IsMember(Stream[q].who)

(* checkMaskedContextReady on a context that is loaded: the hash is the   *)
(* next one of some member, and that member is the author.                *)
NextIsAnother(nonces, p) == {i \in DOMAIN Members : Members[i] = Stream[p].who /\ nonces[i] <= Stream[p].nonce}
NextIs(nonces, p) == {i \in DOMAIN Members : Members[i] = Stream[p].who /\ nonces[i] = Stream[p].nonce}
checkMaskedContextReady(m, p, nonces) ==
    NextIs(nonces, p) # {} /\ Stream[p].who = AuthorOf[m]

(* stateForMaskedContext: what this page knows, else the table.           *)
stateForMaskedContext(t) == IF contextsMP[t] # NoContext THEN contextsMP[t] ELSE nextMP[t]
Ready(m, p) ==
    LET nonces == stateForMaskedContext(Stream[p].topic) IN
    IF nonces = NoContext THEN attemptContextInit(m, p) ELSE checkMaskedContextReady(m, p, nonces)

(* The contexts are checked in the order of the topics up to the first    *)
(* that is not ready; those before it stay loaded, or initialized.        *)
ReadyRows(m) == {p \in RowsOf(m) : \A q \in RowsOf(m) : q <= p => Ready(m, q)}
CheckedRows(m) == {p \in RowsOf(m) : \A q \in RowsOf(m) : q < p => q \in ReadyRows(m)}
LoadedMP(m) == [t \in TopicMP |->
    IF \E p \in CheckedRows(m) : Stream[p].topic = t
    THEN IF stateForMaskedContext(t) # NoContext THEN stateForMaskedContext(t)
         ELSE IF \E p \in ReadyRows(m) : Stream[p].topic = t THEN ZeroNonces ELSE NoContext
    ELSE contextsMP[t]]

(* IncrementNextPin: every member with the hash goes to the next nonce.   *)
IncrementNextPin(nonces, p) == [i \in DOMAIN Members |->
    IF i \in NextIs(nonces, p) THEN nonces[i] + 1 ELSE nonces[i]]

(* processMessage, masked: a message that is not here, or not next, or    *)
(* waits for its attachment leaves its context open to the others.        *)
processMasked ==
    LET m == Stream[Min(leftMP)].msg
        rows == RowsOf(m)
        ready == ReadyRows(m) = rows
    IN /\ pageMP # {} /\ leftMP # {}
       /\ leftMP' = leftMP \ rows
       /\ IF m \notin hereMP
          THEN UNCHANGED <<groupMP, contextsMP, todoMP>>
          ELSE /\ groupMP' = IF \E p \in CheckedRows(m) : stateForMaskedContext(Stream[p].topic) = NoContext
                             THEN GroupAfter(m) ELSE groupMP
               /\ IF ready /\ (m \in blobMP \/ m \in Forged)
                  THEN /\ todoMP' = Append(todoMP, m)
                       /\ contextsMP' = [t \in TopicMP |->
                            IF \E p \in rows : Stream[p].topic = t
                            THEN IncrementNextPin(LoadedMP(m)[t], CHOOSE p \in rows : Stream[p].topic = t)
                            ELSE LoadedMP(m)[t]]
                  ELSE todoMP' = todoMP /\ contextsMP' = LoadedMP(m)
       /\ UNCHANGED <<pinsMP, doneMP, hereMP, blobMP, nextMP, eventsMP, rewindMP, offsetMP, pageMP, failsMP>>

(* flushPins, and the poller passes the page.                             *)
flushPins ==
    /\ pageMP # {} /\ leftMP = {}
    /\ nextMP' = [t \in TopicMP |-> IF contextsMP[t] # NoContext THEN contextsMP[t] ELSE nextMP[t]]
    /\ doneMP' = doneMP \cup UNION {RowsOf(todoMP[i]) : i \in DOMAIN todoMP}
    /\ eventsMP' = eventsMP \o todoMP
    /\ offsetMP' = Max(pageMP)
    /\ pageMP' = {} /\ contextsMP' = Unread /\ todoMP' = <<>>
    /\ UNCHANGED <<pinsMP, hereMP, blobMP, groupMP, rewindMP, leftMP, failsMP>>

(* The transaction fails: the page is processed again from the tables.    *)
retryMasked ==
    /\ pageMP # {} /\ failsMP < MaxFailsMP
    /\ failsMP' = failsMP + 1
    /\ leftMP' = pageMP /\ contextsMP' = Unread /\ todoMP' = <<>>
    /\ UNCHANGED <<tablesMP, rewindMP, offsetMP, pageMP>>

NextMP == \/ pinsArrive \/ readPins \/ processMasked \/ flushPins \/ retryMasked
          \/ \E m \in MsgMP : batchArrives(m) \/ blobArrives(m)
SpecMP == InitMP /\ [][NextMP]_varsMP

(* Fairness: the poller keeps polling, and batches and attachments        *)
(* arrive.                                                                *)
FairMP ==
    /\ WF_varsMP(readPins \/ processMasked \/ flushPins)
    /\ \A m \in MsgMP : WF_varsMP(batchArrives(m)) /\ WF_varsMP(blobArrives(m))
-----------------------------------------------------------------------------
(* Private messages of one author on one topic are dispatched in the      *)
(* order of the author's nonces, each once and without a gap, whichever   *)
(* arrive late, share a page or are processed again after a failure.      *)
RowsOfAuthor(t, who) == {p \in PinMP : Stream[p].topic = t /\ Stream[p].who = who}
NoncesSeen(t, who) == [k \in {i \in DOMAIN eventsMP : RowsOf(eventsMP[i]) \cap RowsOfAuthor(t, who) # {}} |->
    LET p == CHOOSE p \in RowsOf(eventsMP[k]) : p \in RowsOfAuthor(t, who) IN Stream[p].nonce]
AuthorOrder ==
    \A t \in TopicMP, i \in DOMAIN Members :
        LET seen == NoncesSeen(t, Members[i]) IN
        \A k \in DOMAIN seen : seen[k] = Cardinality({j \in DOMAIN seen : j < k})

(* The nextpins rows of every member count what the tables say has been   *)
(* dispatched, also for an identity with several nodes in the group.      *)
NextPinsExact ==
    \A t \in TopicMP : nextMP[t] # NoContext =>
        \A i \in DOMAIN Members :
            nextMP[t][i] = Cardinality(doneMP \cap RowsOfAuthor(t, Members[i]))

(* When the stream is well formed, every private message is dispatched in *)
(* the end, although nothing rewinds the poller when a context opens.     *)
PrivateDispatched == []<>(doneMP = 1..pinsMP)
=============================================================================
