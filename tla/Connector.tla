------------------------------ MODULE Connector ------------------------------
(***************************************************************************)
(* From the chain to the database: the event streams of the blockchain     *)
(* connectors (internal/blockchain/ethereum, fabric and common), the event *)
(* manager's handlers of chain events (internal/events), the multiparty    *)
(* manager that moves a namespace from one contract to the next, and the   *)
(* contract manager's listeners.                                           *)
(*                                                                         *)
(* The connector keeps the subscriptions of one node and delivers what     *)
(* they match in batches; a batch without an acknowledgement comes again,  *)
(* perhaps cut differently.  One batch is prepared for all namespaces, and *)
(* then handled by each in a database transaction.                         *)
(***************************************************************************)
EXTENDS Integers, Sequences, FiniteSets, SequencesExt

CONSTANTS
    PluginsC,       \* a subset of {"ethereum", "fabric"}
    NsC,            \* multiparty namespaces of the node
    NetOf,          \* the network name of each
    VersionOf,      \* network version of each configured contract, a sequence
    ChainC,         \* what the chain will bring: a sequence of [contract, kind, net,
                    \* known], kind "pin", "terminate", or "event" of contract 0;
                    \* known: the signer is a root organisation
    ListenC,        \* namespaces that use a contract listener
    BatchC,         \* bound: messages in a batch
    MaxFailsC, MaxRestartsC, MaxListenersC  \* bounds: failures, restarts, listeners made

(* 0 is no namespace: it stands for none in the name of a subscription.    *)
(* There are two versions of the contract's network protocol.              *)
ASSUME ConnectorAssumption == 0 \notin NsC /\ VersionOf \in Seq({1, 2})

VARIABLES
    pluginC,
    linkC,          \* the plugin: "new", "stream" known, "open" or "lost" connection
    startedC,       \* namespaces that have started
    minedC,         \* how much of the chain there is
    atC,            \* the connector's subscriptions: a function to their contracts
    queueC,         \* its messages without an acknowledgement
    sizeC,          \* of these, how many are in the batch being handled
    prepC, todoC,   \* events prepared for each namespace; namespaces still to handle them
    subsC,          \* the plugin's own subscriptions: a function to sets of namespaces
    memC, rowC,     \* the contracts of each namespace, in memory and in the database
    notedC,         \* chain events each namespace has stored and told of
    pinsC,          \* its pins
    listenerC,      \* its listener: 0, or the backend ID in the row
    madeC,          \* backend IDs given out so far
    newC,           \* a listener the connector has and no row names yet
    cachedC,        \* listener subscriptions whose name the plugin has looked up
    failsC, restartsC
connVarsC == <<minedC, atC, queueC>>
rowVarsC == <<rowC, notedC, pinsC>>
listenVarsC == <<listenerC, madeC, newC, cachedC>>
varsC == <<pluginC, linkC, startedC, connVarsC, sizeC, prepC, todoC, subsC, memC, rowVarsC, listenVarsC, failsC, restartsC>>

FirstContract == [ix |-> 1, located |-> FALSE, sub |-> <<>>, final |-> {}]
Busy == sizeC > 0
-----------------------------------------------------------------------------
(* The elements of a sequence that are in a set, in their order.          *)
Only(seq, S) ==
    LET kept[k \in 0..Len(seq)] ==
            IF k = 0 THEN <<>> ELSE IF seq[k] \in S THEN Append(kept[k - 1], seq[k]) ELSE kept[k - 1]
    IN kept[Len(seq)]

(* Subscriptions.  ensureFireFlySubscription finds the one of its name:   *)
(* a namespace's own from version 2 on.  The Ethereum plugin's names tell *)
(* contracts apart, the Fabric plugin's do not.                           *)
SubName(c, ns) == <<"ff", IF pluginC = "fabric" THEN 0 ELSE c, IF VersionOf[c] = 1 THEN 0 ELSE ns>>
With(f, x, y) == [z \in DOMAIN f \cup {x} |-> IF z = x THEN y ELSE f[z]]
Earlier(sub, c) ==
    LET of == Only([p \in 1..minedC |-> p], {p \in 1..minedC : ChainC[p].contract = c})
    IN [i \in DOMAIN of |-> [pos |-> of[i], sub |-> sub]]
createSubscription(s, sub, c) ==
    IF sub \in DOMAIN s.at THEN s ELSE [s EXCEPT !.at = With(@, sub, c), !.queue = @ \o Earlier(sub, c)]
AddSubscription(s, sub, c, ns) ==
    LET others == IF VersionOf[c] = 1 /\ sub \in DOMAIN s.subs THEN s.subs[sub] ELSE {}
    IN [s EXCEPT !.subs = With(@, sub, others \cup {ns})]
RemoveSubscription(s, sub) == [s EXCEPT !.subs = [x \in DOMAIN @ \ {sub} |-> @[x]]]

(* Version 2 refuses to start beside a subscription of version 1.         *)
Refused(s, c) == pluginC = "fabric" /\ VersionOf[c] = 2 /\ <<"ff", 0, 0>> \in DOMAIN s.at

(* configureContractCommon: subscribe to the active contract, and save.   *)
configureContractCommon(s, ns) ==
    LET c == s.mem.ix
        sub == SubName(c, ns)
        Made == AddSubscription(createSubscription(s, sub, c), sub, c, ns)
        Configured == [s.mem EXCEPT !.located = TRUE, !.sub = sub]
    IN IF s.broken \/ c > Len(VersionOf) \/ Refused(s, c) THEN [s EXCEPT !.err = TRUE]
       ELSE [Made EXCEPT !.mem = Configured, !.row = Configured]
TerminateContract(s, ns, pos) ==
    IF ~(s.mem.located /\ s.mem.ix = ChainC[pos].contract) THEN s
    ELSE LET removed == RemoveSubscription(s, s.mem.sub)
         IN configureContractCommon(
               [removed EXCEPT !.mem = [ix |-> @.ix + 1, located |-> FALSE, sub |-> <<>>,
                                        final |-> @.final \cup {<<@.ix, pos>>}]], ns)

(* All that a handler changes, as one record.                             *)
StateOf(ns) == [mem |-> memC[ns], row |-> rowC[ns], subs |-> subsC, at |-> atC, queue |-> queueC,
                ins |-> <<>>, pins |-> <<>>, broken |-> FALSE, err |-> FALSE]

(* Init of a plugin finds or makes its event stream at the connector, or  *)
(* leaves that to a loop in the background.                               *)
InitC ==
    /\ pluginC \in PluginsC /\ linkC \in {"new", "stream"} /\ startedC = {} /\ minedC = 0 /\ atC = <<>> /\ queueC = <<>> /\ sizeC = 0
    /\ prepC = [ns \in NsC |-> <<>>] /\ todoC = {} /\ subsC = <<>>
    /\ memC = [ns \in NsC |-> FirstContract] /\ rowC = memC
    /\ notedC = [ns \in NsC |-> <<>>] /\ pinsC = [ns \in NsC |-> <<>>]
    /\ listenerC = [ns \in NsC |-> 0] /\ madeC = listenerC /\ newC = listenerC /\ cachedC = {} /\ failsC = 0 /\ restartsC = 0

(* The connection: opened by the background loop or by Start; when it is  *)
(* lost and opened again, what has no acknowledgement is delivered again. *)
startBackgroundLoop ==
    /\ linkC = "new" /\ linkC' = "open"
    /\ UNCHANGED <<pluginC, startedC, connVarsC, sizeC, prepC, todoC, subsC, memC, rowVarsC, listenVarsC, failsC, restartsC>>
StartC ==
    /\ linkC = "stream" /\ linkC' = "open"
    /\ UNCHANGED <<pluginC, startedC, connVarsC, sizeC, prepC, todoC, subsC, memC, rowVarsC, listenVarsC, failsC, restartsC>>
loseConnection ==
    /\ linkC = "open" /\ linkC' = "lost" /\ failsC < MaxFailsC /\ failsC' = failsC + 1
    /\ UNCHANGED <<pluginC, startedC, connVarsC, sizeC, prepC, todoC, subsC, memC, rowVarsC, listenVarsC, restartsC>>
afterConnect ==
    /\ linkC = "lost" /\ ~Busy /\ linkC' = "open"
    /\ UNCHANGED <<pluginC, startedC, connVarsC, sizeC, prepC, todoC, subsC, memC, rowVarsC, listenVarsC, failsC, restartsC>>

(* A namespace starts: its contract is configured, its listeners are made *)
(* again if the connector has lost them (which Fabric never says).        *)
Listener(ns, n) == <<"li", ns, n>>
checkContractListenerExists(s, ns) ==
    IF listenerC[ns] = 0 \/ Listener(ns, listenerC[ns]) \in DOMAIN s.at \/ pluginC = "fabric" THEN listenerC[ns]
    ELSE madeC[ns] + 1
startNamespace(ns) ==
    /\ linkC # "new" /\ ns \notin startedC /\ startedC' = startedC \cup {ns}
    /\ LET s == configureContractCommon(StateOf(ns), ns)
           n == checkContractListenerExists(s, ns)
           t == IF n = listenerC[ns] THEN s ELSE createSubscription(s, Listener(ns, n), 0)
       IN /\ ~s.err
          /\ memC' = [memC EXCEPT ![ns] = s.mem] /\ rowC' = [rowC EXCEPT ![ns] = s.row]
          /\ subsC' = s.subs /\ atC' = t.at /\ queueC' = t.queue
          /\ listenerC' = [listenerC EXCEPT ![ns] = n]
          /\ madeC' = IF n = listenerC[ns] THEN madeC ELSE [madeC EXCEPT ![ns] = n]
    /\ UNCHANGED <<pluginC, linkC, minedC, sizeC, prepC, todoC, notedC, pinsC, newC, cachedC, failsC, restartsC>>

(* The next event of the chain goes to every subscription it matches.     *)
MatchingC(p) ==
    LET Subs == {x \in DOMAIN atC : atC[x] = ChainC[p].contract}
    IN {f \in [1..Cardinality(Subs) -> Subs] : \A i, j \in DOMAIN f : f[i] = f[j] => i = j}
emitC ==
    /\ minedC < Len(ChainC) /\ minedC' = minedC + 1
    /\ \E f \in MatchingC(minedC + 1) : queueC' = queueC \o [i \in DOMAIN f |-> [pos |-> minedC + 1, sub |-> f[i]]]
    /\ UNCHANGED <<pluginC, linkC, startedC, atC, sizeC, prepC, todoC, subsC, memC, rowVarsC, listenVarsC, failsC, restartsC>>
-----------------------------------------------------------------------------
(* handleMessageBatch.  Who gets an event: of a subscription the plugin   *)
(* knows, its namespaces; of a listener, the namespace in its name; of    *)
(* anything else, everyone.                                               *)
PrepareBatchPinOrNetworkAction(m) ==
    LET e == ChainC[m.pos]
    IN {ns \in subsC[m.sub] : (e.kind = "pin" /\ VersionOf[e.contract] = 1) => NetOf[ns] = e.net}
PrepareBlockchainEvent(m) == IF m.sub[1] = "li" THEN {m.sub[2]} ELSE NsC
Wanted(m) == IF m.sub \in DOMAIN subsC THEN PrepareBatchPinOrNetworkAction(m) ELSE PrepareBlockchainEvent(m)
getSubscriptionName(m) == m.sub \in DOMAIN subsC \cup DOMAIN atC \cup cachedC
Looked(msgs) == {m.sub : m \in {n \in Range(msgs) : n.sub \notin DOMAIN subsC /\ n.sub[1] = "li"}}
Prepared(msgs) == [i \in DOMAIN msgs |-> [pos |-> msgs[i].pos, sub |-> msgs[i].sub, own |-> msgs[i].sub \in DOMAIN subsC]]
handleMessageBatch ==
    /\ linkC = "open" /\ ~Busy
    /\ \E n \in 1..BatchC :
          LET msgs == SubSeq(queueC, 1, n) IN
          /\ n <= Len(queueC) /\ \A m \in Range(msgs) : getSubscriptionName(m)
          /\ sizeC' = n /\ cachedC' = cachedC \cup Looked(msgs)
          /\ prepC' = [ns \in NsC |-> Prepared(Only(msgs, {m \in Range(msgs) : ns \in Wanted(m)}))]
          /\ todoC' = {ns \in NsC : \E m \in Range(msgs) : ns \in Wanted(m)}
    /\ UNCHANGED <<pluginC, linkC, startedC, connVarsC, subsC, memC, rowVarsC, listenerC, madeC, newC, failsC, restartsC>>

(* The name of a listener that is gone cannot be looked up: an error, and *)
(* the connector, which has dropped its messages, delivers the rest.      *)
nameUnknown ==
    /\ linkC = "open" /\ ~Busy
    /\ \E m \in Range(SubSeq(queueC, 1, IF BatchC < Len(queueC) THEN BatchC ELSE Len(queueC))) : ~getSubscriptionName(m)
    /\ queueC' = Only(queueC, {m \in Range(queueC) : getSubscriptionName(m)})
    /\ UNCHANGED <<pluginC, linkC, startedC, minedC, atC, sizeC, prepC, todoC, subsC, memC, rowVarsC, listenVarsC, failsC, restartsC>>
-----------------------------------------------------------------------------
(* BlockchainEventBatch, in one namespace.                                *)
handleBlockchainBatchPinEvent(s, e) == [s EXCEPT !.ins = Append(@, <<e.pos, 0>>), !.pins = Append(@, e.pos)]
handleBlockchainNetworkAction(s, ns, e) ==
    IF ~ChainC[e.pos].known THEN s
    ELSE [TerminateContract(s, ns, e.pos) EXCEPT !.ins = Append(@, <<e.pos, 0>>)]
handleBlockchainEventForListener(s, ns, e) ==
    IF e.sub = Listener(ns, listenerC[ns]) THEN [s EXCEPT !.ins = Append(@, <<e.pos, 1>>)] ELSE s
handleEvent(s, ns, e) ==
    IF s.err THEN s
    ELSE IF ~e.own THEN handleBlockchainEventForListener(s, ns, e)
    ELSE IF ChainC[e.pos].kind = "pin" THEN handleBlockchainBatchPinEvent(s, e)
    ELSE handleBlockchainNetworkAction(s, ns, e)
attempt(ns, broken) ==
    LET after[k \in 0..Len(prepC[ns])] ==
            IF k = 0 THEN [StateOf(ns) EXCEPT !.broken = broken] ELSE handleEvent(after[k - 1], ns, prepC[ns][k])
    IN after[Len(prepC[ns])]

InsertNewBlockchainEvents(rows, ins) == rows \o Only(ins, Range(ins) \ Range(rows))
persistContexts(rows, pins) == rows \o Only(pins, Range(pins) \ Range(rows))

BlockchainEventBatch(ns) ==
    /\ ns \in todoC \cap startedC /\ todoC' = todoC \ {ns}
    /\ \E s \in {attempt(ns, FALSE)} :
          /\ ~s.err
          /\ memC' = [memC EXCEPT ![ns] = s.mem] /\ rowC' = [rowC EXCEPT ![ns] = s.row]
          /\ subsC' = s.subs /\ atC' = s.at /\ queueC' = s.queue
          /\ notedC' = [notedC EXCEPT ![ns] = InsertNewBlockchainEvents(@, s.ins)]
          /\ pinsC' = [pinsC EXCEPT ![ns] = persistContexts(@, s.pins)]
    /\ UNCHANGED <<pluginC, linkC, startedC, minedC, sizeC, prepC, listenVarsC, failsC, restartsC>>

(* An attempt that fails is made again.  What it changed in memory and at *)
(* the connector stays, a contract that could not be set up included.     *)
failedOnce == failsC < MaxFailsC /\ failsC' = failsC + 1
attemptFails(ns) ==
    /\ ns \in todoC \cap startedC
    /\ \E broken \in BOOLEAN : \E s \in {attempt(ns, broken)} :
          /\ broken => s.err
          /\ IF s.err /\ ~broken THEN UNCHANGED failsC ELSE failedOnce
          /\ memC' = [memC EXCEPT ![ns] = s.mem] /\ subsC' = s.subs /\ atC' = s.at /\ queueC' = s.queue
    /\ UNCHANGED <<pluginC, linkC, startedC, minedC, sizeC, prepC, todoC, rowVarsC, listenVarsC, restartsC>>

(* The answer to a batch: an acknowledgement when all have handled it, an *)
(* error when a namespace that has not started was among them.            *)
ackEarly ==
    /\ Busy /\ queueC' = SubSeq(queueC, sizeC + 1, Len(queueC)) /\ sizeC' = 0 /\ todoC' = {}
    /\ prepC' = [ns \in NsC |-> <<>>]
    /\ UNCHANGED <<pluginC, linkC, startedC, minedC, atC, subsC, memC, rowVarsC, listenVarsC, failsC, restartsC>>
ackC ==
    /\ Busy /\ todoC = {} /\ sizeC' = 0
    /\ queueC' = IF linkC = "open" THEN SubSeq(queueC, sizeC + 1, Len(queueC)) ELSE queueC
    /\ prepC' = [ns \in NsC |-> <<>>]
    /\ UNCHANGED <<pluginC, linkC, startedC, minedC, atC, todoC, subsC, memC, rowVarsC, listenVarsC, failsC, restartsC>>
errorC ==
    /\ todoC \ startedC # {} /\ todoC' = {} /\ sizeC' = 0 /\ prepC' = [ns \in NsC |-> <<>>]
    /\ UNCHANGED <<pluginC, linkC, startedC, connVarsC, subsC, memC, rowVarsC, listenVarsC, failsC, restartsC>>

restartC ==
    /\ restartsC < MaxRestartsC /\ restartsC' = restartsC + 1 /\ linkC' \in {"new", "stream"}
    /\ startedC' = {} /\ sizeC' = 0 /\ todoC' = {} /\ prepC' = [ns \in NsC |-> <<>>]
    /\ subsC' = <<>> /\ memC' = rowC
    /\ cachedC' = {} /\ newC' = [ns \in NsC |-> 0]
    /\ UNCHANGED <<pluginC, connVarsC, rowVarsC, listenerC, madeC, failsC>>
-----------------------------------------------------------------------------
(* A contract listener: first made at the connector, then stored; deleted *)
(* there in the transaction that deletes the row, which may fail.         *)
AddContractListener(ns) ==
    /\ ns \in ListenC \cap startedC /\ listenerC[ns] = 0 /\ newC[ns] = 0
    /\ madeC[ns] < MaxListenersC /\ madeC' = [madeC EXCEPT ![ns] = @ + 1]
    /\ newC' = [newC EXCEPT ![ns] = madeC[ns] + 1]
    /\ LET s == createSubscription(StateOf(ns), Listener(ns, madeC[ns] + 1), 0) IN atC' = s.at /\ queueC' = s.queue
    /\ UNCHANGED <<pluginC, linkC, startedC, minedC, sizeC, prepC, todoC, subsC, memC, rowVarsC, listenerC, cachedC, failsC, restartsC>>
InsertContractListener(ns) ==
    /\ newC[ns] # 0 /\ listenerC' = [listenerC EXCEPT ![ns] = newC[ns]] /\ newC' = [newC EXCEPT ![ns] = 0]
    /\ UNCHANGED <<pluginC, linkC, startedC, connVarsC, sizeC, prepC, todoC, subsC, memC, rowVarsC, madeC, cachedC, failsC, restartsC>>
DeleteContractListenerByNameOrID(ns) ==
    /\ ns \in startedC /\ listenerC[ns] # 0
    /\ atC' = [x \in DOMAIN atC \ {Listener(ns, listenerC[ns])} |-> atC[x]]
    /\ \/ listenerC' = [listenerC EXCEPT ![ns] = 0] /\ UNCHANGED failsC
       \/ failedOnce /\ UNCHANGED listenerC
    /\ UNCHANGED <<pluginC, linkC, startedC, minedC, queueC, sizeC, prepC, todoC, subsC, memC, rowVarsC, madeC, newC, cachedC, restartsC>>

NextC ==
    \/ startBackgroundLoop \/ StartC \/ loseConnection \/ afterConnect
    \/ emitC \/ handleMessageBatch \/ nameUnknown \/ ackC \/ errorC \/ restartC
    \/ \E ns \in NsC : \/ startNamespace(ns) \/ BlockchainEventBatch(ns) \/ attemptFails(ns)
                       \/ AddContractListener(ns) \/ InsertContractListener(ns) \/ DeleteContractListenerByNameOrID(ns)
SpecC == InitC /\ [][NextC]_varsC

(* Fairness: every loop goes on: the start of a namespace and the         *)
(* handling of an event are retried for ever, and the connector delivers  *)
(* what it has.                                                           *)
FairC ==
    /\ WF_varsC(startBackgroundLoop) /\ WF_varsC(StartC) /\ WF_varsC(afterConnect)
    /\ WF_varsC(handleMessageBatch) /\ WF_varsC(nameUnknown)
    /\ WF_varsC(ackC) /\ WF_varsC(errorC)
    /\ \A ns \in NsC : WF_varsC(startNamespace(ns)) /\ WF_varsC(BlockchainEventBatch(ns))
-----------------------------------------------------------------------------
(* The pins a namespace should have, in order: those of a contract that   *)
(* carry its network name (any name from version 2 on), up to the event   *)
(* that terminates it.                                                    *)
EndsC(c) == {p \in DOMAIN ChainC : ChainC[p].contract = c /\ ChainC[p].kind = "terminate" /\ ChainC[p].known}
Due(ns, c) ==
    Only([p \in 1..minedC |-> p],
         {p \in 1..minedC : /\ ChainC[p].contract = c /\ ChainC[p].kind = "pin"
                            /\ VersionOf[c] = 1 => NetOf[ns] = ChainC[p].net
                            /\ \A t \in EndsC(c) : p < t})

(* A namespace stores the pins of a contract in the order of the chain,    *)
(* however batches are cut and repeated, attempts fail and nodes restart.  *)
PinsInOrder ==
    \A ns \in NsC : \A i, j \in DOMAIN pinsC[ns] :
        i < j /\ ChainC[pinsC[ns][i]].contract = ChainC[pinsC[ns][j]].contract => pinsC[ns][i] < pinsC[ns][j]

(* It leaves none out: of its first contract if the node does not restart, *)
(* of a later one if nothing fails while it moves there.                   *)
Stored1(ns, c) == Only(pinsC[ns], Range(Due(ns, c)))
PinsFollowChain ==
    \A ns \in NsC : \A c \in DOMAIN VersionOf :
        restartsC = 0 /\ (c = 1 \/ failsC = 0) => IsPrefix(Stored1(ns, c), Due(ns, c))

(* A chain event is stored and told of once in each namespace, though it  *)
(* be delivered again or come by a second subscription of the listener.   *)
NotedOnce == \A ns \in NsC : \A i, j \in DOMAIN notedC[ns] : notedC[ns][i] = notedC[ns][j] => i = j

(* Between two batches, a namespace that has set up a contract hears the  *)
(* events of that contract: the subscription it uses is on it.            *)
HearsActive ==
    ~Busy => \A ns \in startedC : memC[ns].located =>
               /\ memC[ns].sub \in DOMAIN subsC /\ ns \in subsC[memC[ns].sub]
               /\ memC[ns].sub \in DOMAIN atC /\ atC[memC[ns].sub] = memC[ns].ix

(* The pins on the chain are stored in the end.                           *)
PinsStored == []<>(\A ns \in NsC : Range(Due(ns, 1)) \subseteq Range(pinsC[ns]))
=============================================================================
