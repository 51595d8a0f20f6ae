# TLA+ models of the FireFly node

The repository holds a FireFly node (`src/firefly`, Go) next to Fabric samples
(`src/fabric-samples`).  The node sends messages in batches that are pinned to a
blockchain, joins the pins with payloads that arrive off-chain, and delivers the
resulting events to applications; around this path it keeps operations, tokens,
identities, definitions, subscriptions and namespaces.  The samples bring
chaincodes with rules of their own.  This directory models both.

| File | Contents |
|---|---|
| `BatchManager`, `Aggregator`, `EventDispatcher` | the path of a message: sending, receiving, delivery; each a specification of its own |
| `EventDispatcherProofs`, `AggregatorProofs`, `BatchManagerProofs` | theorems about the three, checked by TLAPS |
| `MessageWriter`, `Operations`, `BatchDispatch` | before and after the batch manager: what callers hand over, and what is submitted |
| `Connector`, `Inbound`, `Downloads`, `MaskedPins` | what reaches a node from the chain, from members and from shared storage, and the release of private messages |
| `Subscriptions`, `WebSocket`, `WebHook`, `SyncAsyncBridge` | to the applications |
| `Identities`, `Definitions`, `Tokens` | what the network agrees on |
| `Store`, `Routes`, `Namespaces` | database, API and life cycle of namespaces |
| `MCNode` | the seventeen components above, side by side |
| `NodeOutboundProofs` | theorems about `SyncAsyncBridge`, `Operations`, `MessageWriter` and `BatchDispatch` |
| `NodeInboundProofs` | theorems about `MaskedPins`, `Inbound`, `Downloads` and `Connector`, and about `Subscriptions`, `WebSocket` and `WebHook` |
| `NodeRecordsProofs` | theorems about `Store` with the status of an operation (from a lemma of `NodeOutboundProofs`), `Tokens`, `Namespaces` and `Definitions` |
| `Fabric` and `FungibleToken`, `MultiToken`, `NonFungibleToken`, `UtxoToken`, `SimpleAuction`, `DutchAuction`, `AssetAgreement`, `PrivateAsset`, `AssetIndex`, `DeltaRows` | ten sample chaincodes and what they share |
| `TokenLedger` | abstract specification of an account-based token |
| `Sums` | the sum of a function over a set, for balances, quantities and deltas |
| `SumTheorems`, `ContractProofs` | lemmas about sums, and theorems about the chaincodes |
| `MCContracts` | the chaincodes, one deployed at a time |
| `MCEventDispatcher`, `MCAggregator`, `MCBatchManager`, `*.cfg` | instances for TLC, one `.cfg` per run of `PROJECT.json` |

Paths below are relative to `src/firefly` unless they start with `fabric-samples`.

## 1. Inventory

### The path of a message

    API -> message writer -> [messages, data]            (database)
            -> batch manager -> batch processor          seal, dispatch, mark
                 -> shared storage / data exchange       payload
                 -> blockchain connector                 pins
    blockchain connector -> batch_pin_complete -> [pins]
    shared storage / data exchange -> persist_batch, blob receiver -> [batches, messages, blobs]
            -> aggregator (event poller + rewinder)      -> [events]
            -> event dispatcher, one per subscription    -> transport -> application

Square brackets are tables.  Goroutines exchange work over Go channels, wake
one another with "taps" on channels of capacity one, and recover after a
restart from offsets and state columns in the database.

### Components

| Component (code) | State | Operations | Hard behaviour | What makes it correct |
|---|---|---|---|---|
| Batch manager, processors (`internal/batch`) | read and rewind offsets, messages in flight and flushed; per processor: channel, assembly queue, batch being flushed; tables messages, nonces, batches | sequencer loop, rewind on notification, assembly with overflow, seal, dispatch, mark, quiesce and reap | commits out of sequence order, rewinds over work in flight, retry of a transaction, restart between seal and mark, two processors on one nonce | no message sent twice by a run, order kept, each message sent with one pin of its own, all sent eventually |
| Aggregator (`internal/events/aggregator*.go`, `event_poller.go`) | tables pins, batches, messages, events, offset; in memory: page, context cache, batch cache, rewind queues | poll a page of pins, process each, PreFinalize and Finalize, publish the offset, rewind | payload before, between or after pins; wakeups across three goroutines; a transaction that fails after the offset moved; restart | a message dispatched once and whole, in ledger order on each topic, none left behind |
| Private pins and groups (`aggregator_batch_state.go`, `internal/privatemessaging`) | groups, nextpins, nonces | group init, check and advance of the next pin | order between authors, late groups and payloads, a page that fails | order of each author on each topic |
| Event dispatcher and poller (`event_dispatcher.go`, `event_poller.go`) | offset row, polling offset, in-flight map, channels | election, page, buffered delivery, ack, nack, background commit, close | acks out of order, a nack in the middle of a page, close or crash between read and write of the offset | no event acknowledged before delivery, bounded read-ahead, progress, close completes |
| Arrivals (`dx_callbacks.go`, `ss_callbacks.go`, `persist_batch.go`, `blob_receiver.go`, `dataexchange/ffdx`) | the tables above, the batch cache, handlers that run, nodes given to the service | event loop, store a batch, collect blobs, queue a rewind, acknowledge | two deliveries of one event at a time, acknowledgement against rewind, restart | what is acknowledged is stored, what arrives is seen by the aggregator |
| Downloads (`internal/shareddownload`) | work channel, operations, retries | initiate, attempt, retry, hook after commit, recover at start | paging over a shrinking set, a full channel | every download is attempted until it succeeds or fails |
| Chain events (`internal/blockchain`, `batch_pin_complete.go`, `internal/multiparty`, listeners of `internal/contracts`) | subscriptions of the connector, active contract, pins, chain events | connect, batch, handle per namespace, ack, terminate a contract, create a listener | redelivery in other batches, namespaces that start later, a termination in a batch | pins in the order of the chain, events noted once |
| Message writer (`internal/data/message_writer.go`) | worker queues, messages, keys, groups | hand over, insert a batch, drop duplicates, insert again | one duplicate in a batch, another worker in between | a true answer for each caller |
| Dispatch (`internal/broadcast`, `privatemessaging.go`, `operations/context.go`) | operations of a retry context, blobs published | upload, transfer, pin, retry | a failure between any two requests | payload before pin, no second operation |
| Operations and transactions (`internal/operations`, `txwriter`, `txcommon`) | transactions, operations, update queues, cache | write a batch, run, update, resubmit | an update before the submission returns, stale reads on resubmit | a final status stays, an action is submitted once per key |
| Sync-async bridge (`internal/syncasync`) | in-flight table under a lock | register, send, wait, resolve | a timeout against a late answer | no lost or stuck request |
| Subscription manager and transports (`subscription_manager.go`, `websockets`, `webhooks`) | subscriptions, connections, dispatchers; deliveries in flight | create, update, delete, start, close; deliver, acknowledge | change while a dispatcher closes; acknowledgements without a name | dispatchers follow subscriptions; an ack means one delivery |
| Identities and definitions (`internal/definitions`, `identity`, `networkmap`) | identities, verifiers, interfaces, APIs, datatypes, cache | claim, verify, update; define, publish | messages of several topics in any order; names taken in between | every member decides alike |
| Tokens (`internal/assets`, `tokens/fftokens`, `events/token*.go`) | pools, balances, approvals, messages of transfers | create, publish, activate, transfer, approve, delete | definition, activation and chain in any order; redelivery | balances count each transfer once |
| Database (`internal/database/sqlcommon`) | rows, unique indexes, locks, events held back | upsert, insert, update, delete, get, commit, rollback | two transactions at read committed | what is announced is stored; events in order |
| Namespaces, orchestrator (`internal/namespace`, `orchestrator`) | plugins, namespaces, handlers | load, start with retry, reload, stop | a reload while namespaces start | what is served is what is configured |
| API (`internal/apiserver`) | table of routes | match, test, call, answer | routes that shadow others, managers that do not exist | each route reached, with a status its document lists |
| Chaincodes (`fabric-samples`) | keys of the ledger and of private collections | the transactions of each chaincode | rows kept by hand, agreements through resales, endorsement on old reads | supply and ownership agree; auctions and agreements are fair |

`PROJECT.json` lists the components again with their status, and the hazards of
the code with the properties that cover them.

## 2. Modules and code

### BatchManager

Messages are their database sequences `1..MaxSeq`; a message appears in
`committed` when its transaction commits, which need not be in sequence order.
The sequencer goroutine is the program counter `pc`: `reapQuiescing`,
`readPage` (with `popRewind`), `filterFlushed`, `dispatchMessage` or
`skipMessage` for each entry, `waitForNewMessages`.  A processor is one
goroutine per dispatcher, author and group with the counter `step`: `addWork`,
`flushQueue`, `startQuiesce`, `processorDone` in the assembly loop, and
`calculateContexts`, `sealBatch` (or `retrySeal`), `dispatchBatch`,
`markPayloadDispatched`, `notifyFlushComplete` in a flush.  `restart` keeps the
tables and the chain only.

Abstractions: the poll timeout may come at any time, so that the taps which only
shorten it are not variables.  The assembly queue is a set, since the code keeps
it ordered by sequence and without duplicates.  A dispatch has its effect once;
its retries reuse the operations of the first attempt.  Drawing nonces and
writing them are two steps, as the code reads `GetNonce` and later updates it
without a lock.

### Aggregator

`Ledger` is the order of the pins on the chain.  Durable state: `inserted`,
`dispatched`, `arrived`, `blobs`, `identities`, `events`, `offset`, and `acked`,
the deliveries the connector will not repeat.  The poller is `phase`: `readPage`,
then for each pin `processPin` (`skipPin` without its batch, `parkMessage` when
it cannot be processed, `blockedMessage`, `waitForBlob`, `dispatchMessage`),
`commitOffset`, `RunPreFinalize`, `RunFinalize`, `finishPage`; `retryPage` rolls
the transaction back.  The rewinder is `rewindReceiveLoop` and, in the second
goroutine, `startRewindTimer`, `takeStagedRewinds`, `storeReadyRewinds`.  The
callbacks are `persistContexts`, `cacheBatch`, `persistBatch`, `insertNewBlobs`
and `queueRewind`.

Abstractions: pins are unmasked; a definition is the outcome of its handler; a
batch that fails validation is one that never arrives; the commit loop reads and
writes in one step (the two-step version is in EventDispatcher); a rewind is
queued and its delivery acknowledged in one step; the limit of a query for the pins
of a rewind (`rewindQueryLimit`) only cuts one rewind into several and is left out.

### EventDispatcher

Events are sequence numbers; `Matches` is the filter of the subscription, and the
variable `batch`, which never changes, says whether it takes events one by one or in
batches: a run has subscriptions of both sorts.
Actions follow the goroutines: poller (`RestoreOffset`, `ReadPage`, `Fill`,
`MarkInflight`, `Push`, `Receive`, `Drained`, `Wake`), deliverer (`TakeNext`,
`Deliver`, `DeliverFail`, `DelivererNack`), offset commit loop (`CommitRead`,
`CommitWrite`), connections (`Connect`, `ElectAndStart`, `Close`, `PollerExit`,
`DelivererExit`), the application (`Ack`, external) and `Crash`.  The write of
an offset that was read before a close may land after a successor started.

### Components of MCNode

Each module has variables, constants, an initial predicate, a next-state relation
and properties of its own, with a suffix that tells them apart (`NextSA`,
`NextO`, ...), and its neighbours as nondeterministic environment.  `MCNode` is their
sum: the variable `part` says which one runs, the others rest in an initial
state.  A property of a component is therefore checked in all behaviours of
that component, and interactions with others appear as what the environment may
do (events in any order, requests that fail, answers that are lost).

- `SyncAsyncBridge`: requests `r` with a type, the table `inflightSA`, the
  callback that holds its lock (`callbackSA`) and one offer per goroutine in
  `answersSA`.  Actions: `addInFlight`, send,
  `eventCallback` (with every handler of events), `resolve`, `receive`, timeouts,
  `removeInFlight`.
- `Operations`: a call makes a transaction and one operation, in the way of its kind.
  Writers group contract calls (`processBatch`, `commitBatch`, `rollbackBatch`); a token
  pool is written with its operation (`createTokenPool`); transfers, approvals and
  published data insert the transaction first (`SubmitNewTransaction`) and the operation
  in a database transaction of its own (`insertOperation`).  A call that finds its key
  used (`keyTaken`) reads the operations of that transaction: with none it starts again
  (`startAgain`), except a contract call, else it resubmits (`readForResubmit`,
  `ResubmitOperations`).  Submission (`runOwn`) and the report of its outcome (`report`)
  are two steps, and the connector may answer before, between or after
  (`connectorEvent`).  The updates of an operation queue up with one worker
  (`updaterLoop`).
- `Downloads`: operations numbered by creation time; workers, retries and hooks
  share one bounded channel; `recoverPage` and `recoverDispatch` run beside them.
- `MaskedPins`: a hash is the tuple it is made of; a batch is one message.
  `readPins`, `processMasked`, `flushPins` are a page; a failure drops the page state.
- `BatchDispatch`: one step per request of a dispatch, in the order of `Stages`: three
  for each node of a private batch (prepare, blobs, send), which the sender skips for
  itself, uploads of a broadcast batch, and the pin; a failure restarts the dispatch in
  the same retry context.
- `MessageWriter`: callers, workers with their batches, the table of keys, and
  `groupInit` before a private message.
- `Inbound`: an event of the data exchange stays on the wire until acknowledged
  and is sent again after a reconnect; `runIN` holds the handlers that run.  A
  fault of a payload is a tag that the validation step looks at.  Whether the nodes are
  given to the service at each connection (`needsInitIN`, the setting `initEnabled`) is
  chosen in the initial state; the request may be refused.
- `Subscriptions`: versions of one durable subscription, jobs (one goroutine per
  change event), connections and their dispatchers; sections under `sm.mux` are
  steps.
- `WebSocket`, `WebHook`: deliveries in flight and the acknowledgements, respectively
  answers, each one gets.
- `Identities`: a ledger of claims, verifications and updates, the database and the
  cache of one member; a page is one transaction and may fail after the cache
  changed.
- `Definitions`: rows of each member for one kind of definition, messages on a
  ledger, handled in order within a topic.
- `Tokens`: one pool, the handlers of each namespace and the connector's
  acknowledged position.
- `Connector`: the chain as a sequence, subscriptions with their checkpoint, the
  batch in progress and, per namespace, the handler's transaction.
- `Store`: rows reduced to the columns keys are made of; a table of collections with
  their unique indexes and WHERE columns; two transactions at read committed.
- `Routes`: the table of routes in the order of registration; the state is the set
  of plugins and the request that is routed.
- `Namespaces`: instances with a generation, plugins, handlers registered, and the
  file that is loaded next.

### Chaincodes

A transaction is one action, since Fabric invalidates transactions whose reads
have changed; in `DeltaRows`, whose point is what endorsers read, the
endorsement is a step of its own, and the auctions keep their endorsement policy.  Integers are bounded by `MaxInt` where the
code tests for overflow.  `MCContracts` deploys one chaincode (`deployed`).
`FungibleToken` and `MultiToken` implement `TokenLedger` (`INSTANCE TokenLedger
WITH`): accounts hold the sum of their rows, and a step issues, retires or moves.

## 3. Runs

Bounds are constants named in the modules (`MaxSeq`, `MaxFails*`, `MaxRestarts*`,
`MaxUpdates`, ...).  Each run is the smallest instance in which its question has
its interesting cases; every property of a passing run is broken by a mutant of
the code in `PROJECT.json`.

| Run | Instance | Shows |
|---|---|---|
| `Dispatcher_safety` | 4 events, read-ahead 1, two transport goroutines, single and batch delivery, one failure, close, crash | no offset passes an unacknowledged event; the read-ahead bound; order of first deliveries across a rejection |
| `Dispatcher_live` | 3 events of which the filter skips one, two connections, single and batch delivery, one failure, one close, `firstEvent: newest` | every event acknowledged, failed batches redelivered, close completes, but for the two stalls of single delivery below |
| `Dispatcher_nack` | 3 events, one connection, one failure | **violated**: `RejectedRedelivered`, the stall after a rejected single delivery |
| `Aggregator_order` | pages of one pin, a message on two topics, late blob, one failure, one crash | ledger order on each topic; a message dispatched once and whole |
| `Aggregator_live` | pages of two pins, late batches and blob, a claim pinned after a message of its author, PreFinalize, one failure | nothing forgotten; overtaking only within a page; progress |
| `Aggregator_gap` | one page of three pins on a topic, the second batch late | **violated**: `TopicOrder` |
| `Batch_safety` | 3 messages in any commit order, pages and batches of two, byte limit, a change of key, one failed seal | sent once, in order, with pins that are unique |
| `Batch_live` | 3 messages, one without data, channel of one, quiesce, one restart | all sent; a pin goes out at most once and in nonce order |
| `Batch_nonce` | two processors of one author and group | **violated**: `PinsUnique`, both draw one nonce |
| `Contracts` | three clients in two or three organizations, amounts up to the width of the integers, two kinds of token, two bids, one resale | the four properties of `MCContracts` |
| `Node_safety` | all components of `MCNode`; two requests, sets of up to three calls with one key (two contract calls with a transfer; a transfer with a publication; a publication or a contract call with a token pool) and one rollback, five private pins of two authors, four batches, thirteen kinds of inbound event with the service given its nodes or not, two versions of a subscription, four identities, three configuration files, two transactions, two contracts, a download with one attachment on a channel of one and two restarts; one event to a batch of the connector, whose batches of two are in `Node_live` | the eleven properties of `MCNode` about safety |
| `Node_live` | the eight components with fairness, with failures, rollbacks and restarts (of `Operations`: a contract call and a transfer with one key, one rollback and one restart) | the three liveness properties of `MCNode` |

`MCNode` and `MCContracts` collect the properties of their components by subject;
every part stands, with its own comment, in the module of its component.

| Property | Parts |
|---|---|
| `RequestsOnce` | `AnswersAreOwn`, `NothingLeftInFlight`, `SubmittedOncePerKey` |
| `SentFaithfully` | `AnswersTrue`, `OthersStored`, `GroupDefinedFirst`, `PinAfterPayload`, `OneOperationEach` |
| `ReceivedFaithfully` | `AckedIsStored`, `RewindFollows`, `PeersKnown`, `OneWorkItem`, `RecoveredAll` |
| `PrivateOrder` | `AuthorOrder`, `NextPinsExact` |
| `DeliveredAsSubscribed` | `NoOrphan`, `ChangesTakeEffect`, `ClosedIsSilent`, `AcksMeant`, `NothingDropped`, `HookAnswersOnce` |
| `NetworkAgrees` | `VerifiedByParent`, `MembersAgree`, `DefinitionsAgreed` (`DefinitionsAgree`, `ConfirmedIsKept`) |
| `ServedAsDocumented` | `EachRouteReached`, `ManagersFound`, `StatusDocumented`, `NamespacesServed` (`ServedAsConfigured`, `CallbacksFollow`, `OneOrchestrator`) |
| `TablesConsistent` | `NotifiedAreStored`, `UpsertStored`, `GetsAreUnique` |
| `TokensAddUp` | `BalancesAddUp`, `LastApprovalActive`, `MessageReleased` |
| `ChainFollowed` | `PinsFollowChain`, `NotedInOrder` (`PinsInOrder`, `NotedOnce`), `HearsActive` |
| `RecordsKept` (action) | `NeverBackToPending`, `FinalKept`, `EventsInOrder`, `HashKept`, `NamespacesApart` |
| `CallersAnswered` (liveness) | `EventsHandled`, `AnsweredInTime`, `CallsReturn`, and always `SubmittedOncePerKey` |
| `AllReceived` (liveness) | `DownloadsEnd`, `EventsAcked`, `PinsStored`, and always `PinsFollowChain`, `NotedInOrder` |
| `WaitersReleased` (liveness) | `PrivateDispatched`, `ClaimsDecided`, `NamespacesStart` |
| `AssetsConserved` | `SupplyIsHeld`, `RowsMatchOwners`, `OutputsAddUp`, `IndexMatchesAssets`, `ValueKept` |
| `AuctionsFair` | `NoHigherBidLeft`, `SellsWhatItCan`, `ClearingPriceFair` |
| `AgreementsKept` | `NoStaleOffer`, `OnePurchasePerBid`, `OwnerHoldsProperties`, `OneTransferPerAgreement` |
| `TokensAreLedgers` (refinement) | `IsLedger20`, `IsLedger1155` |

Why the bounds are enough: three messages or pins make an order that can be
wrong in the middle; a page of two among three makes page boundaries fall inside
a topic, a message or a rewind; channels of length one or two block; one failure
and one crash can fall between any two steps, and a second finds the same state
again because retries and restarts start from scratch.  In the node's components two
callers, workers, members or transactions are a race; a third adds an outcome
only where two collide first (calls with and without a key, inbound events that
come in pairs).  Restarts of `Operations` are in `Node_live`, where two calls keep the
state space small; the sets of calls of `Node_safety` put every pair of kinds that
handle a used key differently on one key.

`CHECK_DEADLOCK FALSE` stands where the system may rest: no more events, pins,
requests or transactions come, or the bounded closes and crashes are used up.
`Batch_safety` and `Batch_live` check deadlock, since a sequencer never stops
polling.

### Disagreements with the repository's text

The three violated runs are findings of `PROJECT.json`, each with the line it
contradicts.  These were seen while modelling and have no run of their own; the
properties above are stated so that they hold beside them.

On the path of a message:

- `internal/events/event_dispatcher.go:291`: an ack that follows a nack of the same
  page is skipped without taking the event out of the in-flight map, and the
  poller waits for an empty map until the connection closes; the comment at line 306
  says "we need to redeliver all messages from this offset onwards".  This is the run
  `Dispatcher_nack`.  `EventuallyAcked` excepts single deliveries after a rejection, and
  `BatchRedelivered` is about batches, whose rest is never dispatched after a nack.
- `aggregator.go:407`: the offset is published before its page commits and saved by
  another goroutine; a crash between the two loses the page, against
  `docs/overview/public_vs_permissioned.md:108`.
- `batch_processor.go:434`: a batch sealed again after a restart omits the pins of
  messages that hold some already, although the comment at line 479 says that such a
  message "has grabbed a slot in our queue".
- `event_dispatcher.go:269` and `:275` send on `eventDelivery` without watching the
  context.  After a nack the in-flight map is empty while the channel still holds what was
  dispatched before, so that the next page can fill the channel; if the connection is
  closed and the deliverer has returned, the poller stays there for ever and keeps the
  leadership, against the comment at line 166: "Unelect ourselves on close, to let
  another dispatcher in".  Without the exception `Jammed`, TLC finds `CloseCompletes`
  violated so in `Dispatcher_live`.
- `event_poller.go:155`: the offset is saved in the background, so that a crash
  may redeliver more than the `readAhead` events that
  `docs/reference/types/subscription.md:106` gives as the maximum.
- `event_dispatcher.go:248`: after a nack the rest of the page is still
  delivered, ahead of the rejected event; `FirstDeliveryInOrder` counts a rejected
  event as offered.
- `aggregator.go:520`: a message on two topics that is blocked on the second
  leaves the first topic marked free for the rest of its page, and a later
  message may pass it there; `docs/tutorials/broadcast_data.md:90` assures
  processing in order on each topic.
- `aggregator_batch_state.go:178`: private messages are ordered per author only; two
  members may release messages of two authors on one topic in different orders,
  against `docs/reference/types/_includes/nextpin_description.md`.
- `aggregator_rewind.go:221`: pending rewinds are kept in memory only, while
  `docs/architecture/plugin_architecture.md:54` asks for no long-lived
  in-memory processing.  A restart loses them.
- `batch_processor.go:162`: the byte count of an assembly leaves out the overflow
  it starts with, so that a batch may exceed its payload limit.
- `batch_manager.go:413`: after a close the sequencer may wait for a processor
  that has returned, and `WaitStop` with it.
- `persist_batch.go:74`: an unpinned batch that is delivered again stores its messages
  again, in the state of the payload.

In the other components:

- `txwriter/txwriter.go:175`: callers are told of the outcome inside a transaction
  that may still roll back; a key may then be submitted twice.
  `SubmittedOncePerKey` excludes rollbacks after the answer.
- `assets/token_transfer.go:205-209` (and likewise approvals and publications): a request
  that finds its key used and no operation yet starts again under the same transaction.
  The first request may be about to insert its operation, or two requests may start again
  at a time, and both submit one; `docs/overview/gateway_features.md:50` promises
  "Idempotent APIs assuring that business transactions are submitted exactly once".
  `SubmittedOncePerKey` excludes the calls that started again beside another.
- `operations/operation_updater.go:351-373`: only an update to Pending looks at the status
  it replaces.  When a submission returns an error though the connector took the request,
  its report of Initialized or Failed replaces a status that an event has made final;
  `FinalKept` excludes operations whose submission returned an error.
- `operations/manager.go:251`: a retry changes the cached operation before its
  transaction commits.  Retries by a user are not modelled.
- `shareddownload/download_manager.go:177`: recovery pages with Skip over a set that
  shrinks, so that beyond one page some downloads wait for the next start; at line
  210 workers whose hooks wait on a full channel wait for each other.
- `dataexchange/ffdx/ffdx.go:276-300`: the nodes that were added before a connection are
  given to the service only with `initEnabled`, which is off by default
  (`docs/reference/config.md:1044`).  `PeersKnown` is about a service that wants them.
- `subscription_manager.go:176`: an update that read its row before a delete installs
  the subscription again.
- `orchestrator.go:306-331`, `namespace/manager.go:869`: after a reload, transports still
  call an orchestrator that stopped; `CallbacksFollow` is about the handlers of
  the other plugins.
- `blockchain/ethereum/ethereum.go:432`: a batch prepared before a namespace registers is
  acknowledged without it, while `namespace/manager.go:399-404` says that the events are
  pushed back.  `multiparty/manager.go:49`: pins of the old contract that follow its
  termination in one batch are still taken.
- `blockchain/fabric/eventstream.go:211`: the name of a Fabric subscription has no
  contract in it, so that after a termination the old one is found again;
  `HearsActive` is checked for Ethereum.  `blockchain/ethereum/eventstream.go:232`: the
  hash of the location in a name is the first bytes of the location itself.
- `events/token_pool_created.go:124-127`: a pool can be confirmed without being
  activated by this node.
- `definitions/handler_contracts.go:93`: when the network name of the author's own row was
  taken meanwhile, the update violates a unique index and is tried for ever.  At line
  165 an update by ID un-publishes an API at one member.  One definition published
  under two names, an API at another location, and claims of one key for two
  names are on several topics, and members may decide differently;
  `DefinitionsAgree` and `MembersAgree` exclude them.
- `apiserver`: `deleteContractAPI`, `deleteContractInterface`, `deleteContractListener` and
  `postPinsRewind` do not test whether they are enabled; `postNewContractInterface`
  answers 202 and lists 200.
- `fabric-samples/token-erc-20/chaincode-go/chaincode/token_contract.go:633` says that a
  transfer of 0 is allowed; the subtraction at line 723 refuses every amount that
  is not positive.  The recipient is any string there, so that a transfer to the name
  `totalSupply` would change the key of the supply; the recipients of the model are
  clients.
- `fabric-samples/token-utxo/chaincode-go/chaincode/token_contract.go:126` and `:141`: the
  error of `add` is overwritten by the next one, so that sums of inputs and outputs that
  overflow may pass for equal and a transfer makes or loses value.  The model counts what
  such transfers lost (`lostU`), and `OutputsAddUp` says that nothing else is.

## 4. Fairness

Weak fairness is given to steps of goroutines that the code runs without
condition: pollers and sequencers, loops of the rewinder and of the offset
commit, deliverers, flushes.  It stands for the scheduler and for timers.
Retries are unlimited in the code, and a bounded number of failures stands for
a dependency that recovers.  In EventDispatcher the application acknowledges
what it is sent and connections are made again.  In Aggregator a batch that was
put in the cache is eventually committed.  There is no fairness on arrivals of
pins, blobs or messages, on failures, on closes and on crashes.

`MCNode!FairSpec` is a disjunction: the component that runs for ever has the fairness
of its own loops (writers, updater and download workers, hooks, event loops,
handlers, starters of namespaces).  The offer of an answer in the bridge is
strongly fair, since it waits for a receiver that may leave and come back.  Arrivals are
fair only where the property is about what has arrived (`MaskedPins`, `Identities`:
members send their payloads).  A namespace manager that has stopped is started
again.  Events of the chain and of members, timeouts, failures, rollbacks and restarts
are not fair.

## 5. Proofs

TLAPS checks these theorems for all values of the constants.  `Spec` is the
specification of the module in the first column, for the three `Node...Proofs` that of
`MCNode`, for `ContractProofs` that of `MCContracts`.

| Theorem | Statement |
|---|---|
| `EventDispatcherProofs!TypeCorrect` | `Spec => []TypeOK` |
| `EventDispatcherProofs!AtLeastOnce` | `Spec => []OffsetCovered` |
| `EventDispatcherProofs!WindowBounded` | `Spec => []ReadAheadRespected` |
| `EventDispatcherProofs!FirstDeliveries` | `Spec => []FirstDeliveryInOrder` |
| `AggregatorProofs!TypeCorrect` | `Spec => []TypeOK` |
| `AggregatorProofs!OncePerMessage` | `Spec => []DispatchedOnce` |
| `AggregatorProofs!PagesInOrder` | `Spec => OvertakesOnlyInPage` |
| `AggregatorProofs!NoLostRewind` | `Spec => []NoPinForgotten` (a property of runs without a restart) |
| `BatchManagerProofs!TypeCorrect` | `Spec => []TypeOK` |
| `BatchManagerProofs!NoDoubleSend` | `Spec => []SentOnce` |
| `BatchManagerProofs!SlotTakenOnce` | `Spec => []PinnedOnce` |
| `BatchManagerProofs!BatchCarriesPins` | `Spec => [](crashes = 0 => PinsSent)` |
| `BatchManagerProofs!OwnPins` | `OneProcPerContext` implies `Spec => []PinsUnique` |
| `BatchManagerProofs!PinsInNonceOrder` | `OneProcPerContext` implies `Spec => []NonceOrder` |
| `BatchManagerProofs!AuthorOrder` | `Spec => []OrderPreserved` |
| `NodeOutboundProofs!Requests` | `Spec => []RequestsOnce` |
| `NodeOutboundProofs!Sent` | `Spec => []SentFaithfully` |
| `NodeInboundProofs!PrivateKept` | `Spec => []PrivateOrder` |
| `NodeInboundProofs!Received` | `Spec => []ReceivedFaithfully` |
| `NodeInboundProofs!Delivered` | `Spec => []DeliveredAsSubscribed` |
| `NodeInboundProofs!ChainNoted` | `Spec => []NotedInOrder` (a conjunct of `ChainFollowed`) |
| `NodeInboundProofs!ChainHeard` | for Ethereum and network version 2, `Spec => []HearsActive` (another) |
| `NodeRecordsProofs!Consistent` | `Spec => []TablesConsistent` |
| `NodeRecordsProofs!Kept` | `Spec => RecordsKept` (an action property) |
| `NodeRecordsProofs!AddUp` | `Spec => []TokensAddUp` |
| `NodeRecordsProofs!Served` | `Spec => []NamespacesServed` (a conjunct of `ServedAsDocumented`) |
| `NodeRecordsProofs!Agreed` | `Spec => []DefinitionsAgreed` (a conjunct of `NetworkAgrees`) |
| `ContractProofs!Agreements` | `Spec => []AgreementsKept` |
| `ContractProofs!Conserved` | `Spec => []AssetsConserved` |
| `ContractProofs!Auctions` | `Spec => []AuctionsFair` |
| `ContractProofs!Ledgers` | `Spec => TokensAreLedgers` (refinement) |

Assumptions.  Each module names what it asks of its constants, and TLC
evaluates it in every run.  They are about types and nonzero sizes, and

- in `Aggregator`, about the ledger: a message is in one batch, and its pins are
  adjacent, as `batch_pin_complete.go` numbers them;
- in `MaskedPins`, that a message has one pin for each of its topics, which
  `Message.VerifyFields` sees to, and that nonces are natural numbers;
- in `SyncAsyncBridge`, that the tags of events are no requests; in `BatchDispatch`,
  that a batch has a kind the code knows and finitely many attachments;
- in `Inbound`, that batches and blobs have IDs of their own, and that an event fails only
  where its kind can: a batch of shared storage was parsed before it gets there; in
  `Downloads`, that operations are finitely many numbers, by creation time;
- in `WebSocket`, that subscriptions are finitely many and list an event once, as the
  offset of a subscription sees to; in `Subscriptions`, that versions are natural numbers;
- in `Connector`, that 0 is no namespace and that contracts are of network version 1 or 2;
- in `Store`, that 0 is no transaction; in `Tokens`, that namespaces and transfers are
  finitely many, amounts are natural numbers, and that no transfer has the ID of an
  approval: the connector gives them different protocol IDs; in `Namespaces`, that
  `ff_system` is in no file, which `loadNamespace` refuses, and that the hash of a namespace
  tells its configurations apart; in `Definitions`, that network names are not empty: the
  senders put the local name in the place of an empty one, and `Datatype.Validate` refuses it;
- in the chaincodes, that clients and token types are finite sets, the special values
  (`Nothing`, `NoneP`, the address 0, the auditor's organization) are none of the
  ordinary ones, amounts have the type their parameter has in Go, a call on the
  multi-token names at least one item, and that quantities in the uniform-price
  auction are natural numbers: the sample takes an `int` and does not refuse a
  negative one, which the model leaves out.

Four theorems have a hypothesis of their own.  It is what the property needs, and
the run that checks the property satisfies it.

- `crashes = 0` in `BatchCarriesPins`: after a restart `ToPin` passes over messages
  that hold pins already, the disagreement noted above for
  `batch_processor.go:434`.
- `OneProcPerContext`: all private messages of a context are assigned to one
  processor.  Two processors of one author and group draw the same nonce, which is
  the finding of the run `Batch_nonce`.
- Ethereum and network version 2 in `ChainHeard`: with version 1 namespaces share a
  subscription, and the first to terminate the contract takes it from the others until they
  handle the same event; a Fabric subscription is found again for the next contract, the
  disagreement noted above for `eventstream.go:211`.

### The path of a message

`AtLeastOnce`.  Offsets are moved by acks, so that `OffsetCovered` alone says
nothing about the events an ack jumps over.  The inductive invariant adds that,
until a nack is seen, every matching event above the polling offset and in the
page is queued, in flight or acknowledged (`PageAccounted`), that queue and
flight are ordered (`QueueOrdered`), what each stage of the loop leaves empty
(`LoopState`), that a poller that runs has a leader (`LeaderRuns`), and that a
waiting ack is one the application gave (`AcksHonest`).  `FirstDeliveries` follows an
event from the page through channel and queue (`Pipeline`): at each stage every earlier
matching event is at that stage or further on, or was rejected.  `WindowBounded` adds to
the bound on the in-flight map, which a nack empties, that while nothing has been rejected
the application holds only what is in that map, each event once.

`OncePerMessage`.  The page in memory must agree with the database until its
transaction commits: its pins are undispatched (`PageUndispatched`), the results
it has collected are for distinct messages without events, all of whose pins
are inserted (`TodoFresh`), which rests on batches being pinned whole
(`WholeBatches`).  `PinsHaveEvents` and `EventsOnce` are the two halves of the
property, pin by pin.

`PagesInOrder`.  A context that is taken for free has no
undispatched pin before the page (`FreeClear`), and what is to be dispatched has
no pin of its topics before the page either (`TodoClear`); for this a page must leave out
no undispatched pin between its first and its last (`PageWhole`), and the pins of a message
that reaches beyond the page must be adjacent.

`NoLostRewind`.  Each undispatched pin that the poller has passed (`Remembered`) has a
reason: its batch or attachment has not arrived, an earlier pin of one of its topics
waits, its author is not known yet, or a rewind for its batch is held by a callback, a
queue or one of the two loops of the rewinder (`Held`).  The proof goes through the
thirty-odd actions of the model by whether they are `Calm`, that is, take no reason away.
It showed that the property, as it was first stated, left out one reason: a page that fails
after PreFinalize leaves the identity of its claim behind, so that a message by that
identity may have been blocked behind a claim that is dispatched, with its rewind, only
when the page is tried again.  TLC then found that state, and the property names it now.

`NoDoubleSend`.  A rewound sequencer reads messages again that are queued, being
flushed, or marked after the page was read.  The invariant follows a message:
whatever a processor holds is in flight and not flushed (`BusyInflight`), and in
one place (`OnePlace`); a message that has been sent is marked or in a batch about
to be marked (`SentTracked`); a sent message in a page that is not yet filtered is
still in flight, and a filtered page holds nothing that is in flight or sent
(`PageFresh`); queues and batches before dispatch hold unsent messages
(`WorkUnsent`).  `PageFresh` is where the order of filter and drain matters.

`OwnPins` and `PinsInNonceOrder` rest on the nonce row being above every pin of its
context (`PinsSpent`, `DrawnAbove`) and on the next pin to reach the chain being the next
one drawn (`NextOnChain`).  `AuthorOrder` puts the places of a message in an order: below
the cursor, page, channel, queue, batch, chain (`CursorOrder`, `PageOrder`, `WorkOrder`,
`QueueOrder`, `BatchOrder`, `ChainOrder`), each of which holds later messages than the
next.

### The node's components

`Requests`.  An answer must be about the request that gets it: events are only emitted
for requests that were sent (`EmittedAbout`), and a callback that waits for its lock holds
an event that was emitted (`HeldEmitted`).  Of the calls with one key one is the
owner of the transaction (`OneOwner`); every other call that found the key used works under
that transaction, or was told of one that rolled back (`RunsUnder`, `DupsUnder`), and what
runs is stored, about to be, or was rolled back (`RunsStored`).  Under one transaction, but
for calls that started again beside another, one call runs an operation of its own
(`OneRun`): a call starts again only when the transaction has no operation, and then nobody
else was about to insert one.

`Sent`.  Callers that wait are in the batch of exactly one worker (`BatchesWait`), keys
that clash in a batch are noted (`ClashesNoted`), groups are stored before they are named
(`GroupsStored`); a dispatch has done every stage before the one it is at (`DoneBefore`),
where the stages of the three kinds of batch have their shape by four lemmas.  Here, too, the
proof corrected a property: `OthersStored` left out messages that another worker's batch
overtakes with the same keys between insert and retry.

`PrivateKept`.  Both halves of the property are about the tables, which a page writes when
it ends; the invariant therefore speaks of what has been released so far, by the
pages before and by the page at hand (`Through`).  Each message is released once, and its
nonce on a topic is the number of messages of its author released before it there
(`InOrderMP`); a context that is loaded counts them for every member (`CountsMP`), and of a
topic without a context nothing is released (`Untouched`).  A message that is ready on its
first topic but not on its second leaves contexts behind (`LoadedCounts`); a page that fails
falls back to a beginning of the sequence (`Beginning`).  Rows and messages are as many by a
bijection (`RowsCounted`).  A message whose key is not the signer's is rejected, which takes its
nonce as well; the theorem holds whichever messages are `Forged`.

`Received`.  Two handlers of one event may run at a time, and each may acknowledge: the
invariant is about what any of them may say (`Reported`: the manifest is that of the batch,
and a valid batch is stored) and holds after the acknowledgement because tables only grow
(`Grows`).  Blobs are acknowledged before the aggregator hears of them, so that
they are followed through loop and workers (`WorkersOK`, `BlobsKnown`).  The conditions that
end with the first fault, in `RewindFollows` and `PeersKnown`, are as the properties state them.
For downloads, the six places an operation may be in hold it once and are apart
(`OnePlace`).  That the recovery dispatches nothing that is already on its way rests on
`LaterDL`: an unfinished operation whose rank is beyond the pages read so far is in no
place, since the set a page counts in only shrinks and ranks only fall (`RanksShrink`).  The
same fact is why a later page may pass over an operation; `FirstDL` therefore asks that one page
hold them all, as `RecoveredAll` does.

`Delivered`.  The socket that starts a subscription, the change of its definition and the
end of the connection work on one table of dispatchers.  `ConnsOK` says how far the start and
the end of a connection have come in both the socket and the manager, and names the one
crossing after which a connection comes back (`lateS`); while changes are handled one at a
time, tables hold dispatchers of the version in use (`TablesFollow`), which is the stored one
whenever no change is under way (`OneChange`).  What a socket has in flight was given to it
for a subscription that takes single events, and is in the list once (`InflightT`); an
acknowledgement that names its event therefore takes the meant one.  One that names none
takes the first, which is the meant one as long as one subscription is served
(`SentInOrderT`).

`Consistent` and `Kept` hold for each of the tables: `TableFacts` goes through the
list and establishes what the proofs ask of a table (`TableOK`), for instance that the WHERE
clause of an upsert names a unique index.  The invariant is about each transaction
(`TxOK`): what it has written conflicts with no row that stays and with nothing another open
transaction has written (`TxView`, `ApartDB`), of a row it took out it has one
with the columns it is found by, the same hash and the same namespace (`TxKept`), and the row
it goes by is there (`TxFound`).  An event about to be committed holds the lock of its
namespace, with a sequence past all others there (`EventInv`); every stored row is told of or
about to be (`NotifyInv`).  Three parts of `RecordsKept` are then shown of a commit, the one
step that changes what others see.  The two about operations are the lemma `EndKept` of
`NodeOutboundProofs`.  As
long as no submission of an operation returned an error, the connector says one end of it at
most, and its row, what is queued for it and what its callers have yet to report know no
other (`EndsKnown`); a row is inserted once, so that no insert replaces an end
(`NotWritten`), and an update to Pending does not either.

`AddUp`.  Events of one listener come in the order of the chain, and again after a
restart: what waits for a namespace is ordered and not before anything of its kind that it has
stored (`QueueOrdered`, `RowsOrdered`).  An approval that is not yet stored is therefore later than
all that are, and may replace the active one.  Everything stored or waiting is on the chain
(`ChainInv`), so that an operation that has not been sent has not been stored, and staging its
message breaks no promise.  The balance grows by what one transfer moves (`MovedIs`), once.

`Served`.  Of the orchestrators of a name the newest is the one that is served, and no
other one lives (`ServedInv`); a served one has the configuration and the plugin instances of the
file in force (`ConfInv`, `PluginInv`), which a reload that keeps it finds unchanged by their
hashes.  The handlers of a served orchestrator are there, and those of the last one of a
namespace that is gone are not (`HandlerInv`).  Steps of a starter change none of this
(`Images`); a reload is a lemma about the instances before it, those that start and
those that go (`Reloaded`).

`Agreed`.  But for the cases that `Excused` names, the first message with a network name is
confirmed by every member that handles it and the others are refused (`DecidedDF`), which does
not depend on local names.  The first finds no published row in its way, because messages with
one name are handled in order (`OrderDF`) and each published row is that of a confirmed message
(`RowsInvDF`); a later one finds the row of the first, because what was confirmed is not deleted
(`KeptDF`).  `FirstFinds` states both, and `HandledIs` what each handler makes of it, whichever of
the rows in the way the query returns.  What is excused stays so (`ExcusedStays`).

`ChainNoted`.  The invariant relates four things.  The connector's queue holds the messages of
one subscription in the order of the chain, and each is of the contract the subscription is
for (`QueueInv`); a batch prepared for a namespace is cut from the queue in this order and
leaves out no pin the namespace wants (`PrepInv`); stored pins of a contract are in order, and
a pin that is still queued, behind which one is stored, is stored itself, so that a batch that
comes again adds nothing in a wrong place (`PinsInv`); what is noted is noted once
(`NotedInv`).  A handler changes much before it commits, and a part of that stays when the
attempt fails: `RecOK` and `MovesC` say of its record what each event of a batch preserves, and
`FoldC` what a batch has done after its n-th event, by induction over the numbers up to its
length (`AttemptKeeps`).  That subscriptions are only added to, for a contract or a listener, is
`Ext`.  `ChainHeard`: what a namespace hears is part of the same record (`HearInv`); a name that
stands for one contract and one namespace is not taken away by another one.

### The chaincodes

`Conserved`, `Auctions` and `Ledgers` are about sums over sets of any size.  The provers
have no induction principle that they can instantiate, but a least counterexample does as
well: `SumTheorems` shows that a nonempty set of subsets of a finite set has a minimal
element, from the library's theorem that strict inclusion is well founded, and from it
induction over subsets and over the natural numbers in which the hypothesis is a set
(`SubsetInduction`, `NatSetInduction`).  The lemmas that follow are what accounts, rows and bids
need: a change of one value (`SumChange`), a move between two (`SumMove`), sums of sums
(`SumPlus`, `SumUnion`), exchange of two sums (`SumSwap`), renumbering (`SumPlaces`),
monotonicity (`SumMono`).

`Ledgers`: both tokens refine `TokenLedger` step by step.  For the multi-token, a withdrawal
takes what it is asked for from however many rows it visits and returns the remainder
(`WithdrawnSum`), and what the recipients of a call get is what its items need, type by type
(`GroupsAddUp`).  `Auctions`: the winners in the order of their prices are a prefix of the
sorted bids (`ServedFirst`) and get the smaller of what there is and what was asked
(`ServedGet`), so that a loser bid no more than the last winner.  `Agreements`: both samples
delete an agreement with the transfer that uses it.

`MCContracts` deploys one chaincode at a time and `MCNode` runs one component, so that a step
is for each component a step of it or none (`OneChaincode`, `NodeSteps`), and invariants of
components combine by conjunction.

### What is model-checked only

Liveness (fairness and `ENABLED` are out of the prover's reach), and of `MCNode` parts of three
invariants: the half of `NetworkAgrees` about identities, which compares two orders of handling
one ledger, with caches that run ahead of the tables; the half of `ServedAsDocumented` about
routes, a table of constants that TLC enumerates whole; and, of `ChainFollowed`, that no pin is
left out (`PinsFollowChain`), which holds only while nothing is restarted or, for later
contracts, fails, and `HearsActive` for plugins and versions that `ChainHeard` excludes.

## 6. Not modelled

- Shared storage plugin, the change-event stream for administrators, cache, metrics,
  configuration and messages, the documentation generator, sample network and
  applications: no state of their own beyond what a caller sees, or best effort by
  design.  The smart contracts emit one event per batch; the Tezos connector
  repeats the structure of the Ethereum one.
- Encodings: addresses, ABIs, schemas, payload hashes, filters and paging in SQL, requests
  and answers of the API.  They decide what is accepted, not in which order.
- Operations of modelled components: retry of an operation by a user, publication of
  single data and blobs, the shutdown handshake of the batch manager, normalisation of
  keys, deprecated definitions of version 0.13.  `PROJECT.json` marks these components
  `partly`.

Services outside the repository appear as what they may do: accept, refuse, delay or
repeat a call.

## 7. Plan

Theorems next: the half of `NetworkAgrees` about identities, which needs an invariant that relates
the caches of each member to what it has handled; then `PinsFollowChain`, for which the invariant
of `ChainNoted` has to say of each stored pin that those before it are stored.

Models next: an abstract log per topic implemented by `Aggregator` with pages of one pin,
and the composition of sender, chain and receiver.
