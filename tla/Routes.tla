------------------------------- MODULE Routes -------------------------------
(***************************************************************************)
(* The REST API (internal/apiserver): the table of routes in the order in  *)
(* which they are given to the router, the router's choice of the first    *)
(* route that matches, and the handler, which tests whether the route is   *)
(* enabled in the namespace and calls a manager of its orchestrator.  The  *)
(* managers a namespace has follow from its plugins                        *)
(* (orchestrator.initManagers, namespace.validateMultiPartyConfig).        *)
(* The contents of requests and answers are left out.                      *)
(***************************************************************************)
EXTENDS Integers, Sequences, FiniteSets

CONSTANTS
    Plain,      \* values a path parameter takes
    DidPaths    \* DIDs, as sequences of path segments

VARIABLES
    pluginsR,   \* plugins of the namespace, and "multiparty" if it is one
    requestR,   \* [route: the one meant, method, path, waits], or NoRequest
    routeR,     \* the route the router chose
    answerR     \* status code, 0 while there is none; Crash for a nil manager
varsR == <<pluginsR, requestR, routeR, answerR>>

(* A segment of a path: a literal, one parameter {x}, or a parameter with *)
(* a pattern that takes the rest of the path.                             *)
P == "{}"
Did == "{did:did:.+}"
Rest == "{:.+}"
Waits == 0      \* status 200 or 202, by the query parameter confirm
Crash == 500

Route(method, path, enabledIf, calls, success, codes) ==
    [method |-> method, path |-> path, enabledIf |-> enabledIf, calls |-> calls,
     success |-> success, codes |-> codes]
Get(path, enabledIf, calls) == Route("GET", path, enabledIf, calls, 200, {200})
Post(path, enabledIf, calls, success, codes) == Route("POST", path, enabledIf, calls, success, codes)
Put(path, enabledIf, calls, success, codes) == Route("PUT", path, enabledIf, calls, success, codes)
Patch(path, enabledIf, calls, success, codes) == Route("PATCH", path, enabledIf, calls, success, codes)
Delete(path, calls) == Route("DELETE", path, "always", calls, 204, {204})
-----------------------------------------------------------------------------
deleteContractAPI == Delete(<<"apis", P>>, "contracts")
deleteContractInterface == Delete(<<"contracts", "interfaces", P>>, "contracts")
deleteContractListener == Delete(<<"contracts", "listeners", P>>, "contracts")
deleteData == Delete(<<"data", P>>, "data")
deleteSubscription == Delete(<<"subscriptions", P>>, "database")
deleteTokenPool == Delete(<<"tokens", "pools", P>>, "assets")
getBatchByID == Get(<<"batches", P>>, "always", "database")
getBatches == Get(<<"batches">>, "always", "database")
getBlockchainEventByID == Get(<<"blockchainevents", P>>, "always", "database")
getBlockchainEvents == Get(<<"blockchainevents">>, "always", "database")
getChartHistogram == Get(<<"charts", "histogram", P>>, "always", "database")
getContractAPIByName == Get(<<"apis", P>>, "contracts", "contracts")
getContractAPIInterface == Get(<<"apis", P, "interface">>, "contracts", "contracts")
getContractAPIListeners == Get(<<"apis", P, "listeners", P>>, "contracts", "contracts")
getContractAPIs == Get(<<"apis">>, "contracts", "contracts")
getContractInterface == Get(<<"contracts", "interfaces", P>>, "contracts", "contracts")
getContractInterfaceNameVersion == Get(<<"contracts", "interfaces", P, P>>, "contracts", "contracts")
getContractInterfaces == Get(<<"contracts", "interfaces">>, "contracts", "contracts")
getContractListenerByNameOrID == Get(<<"contracts", "listeners", P>>, "contracts", "contracts")
getContractListeners == Get(<<"contracts", "listeners">>, "contracts", "contracts")
getData == Get(<<"data">>, "always", "database")
getDataBlob == Get(<<"data", P, "blob">>, "blobs", "blobs")
getDataByID == Get(<<"data", P>>, "always", "database")
getDataMsgs == Get(<<"data", P, "messages">>, "multiparty", "database")
getDataSubPaths == Get(<<"datasubpaths", Rest>>, "always", "database")
getDataValue == Get(<<"data", P, "value">>, "always", "database")
getDatatypeByName == Get(<<"datatypes", P, P>>, "always", "database")
getDatatypes == Get(<<"datatypes">>, "always", "database")
getEventByID == Get(<<"events", P>>, "always", "database")
getEvents == Get(<<"events">>, "always", "database")
getGroupByHash == Get(<<"groups", P>>, "messaging", "messaging")
getGroups == Get(<<"groups">>, "messaging", "messaging")
getIdentities == Get(<<"identities">>, "always", "networkmap")
getIdentityByDID == Get(<<"identities", Did>>, "always", "networkmap")
getIdentityByID == Get(<<"identities", P>>, "always", "networkmap")
getIdentityDID == Get(<<"identities", P, "did">>, "always", "networkmap")
getIdentityVerifiers == Get(<<"identities", P, "verifiers">>, "always", "networkmap")
getMsgByID == Get(<<"messages", P>>, "always", "database")
getMsgData == Get(<<"messages", P, "data">>, "always", "database")
getMsgEvents == Get(<<"messages", P, "events">>, "always", "database")
getMsgTxn == Get(<<"messages", P, "transaction">>, "always", "database")
getMsgs == Get(<<"messages">>, "always", "database")
getNamespace == Get(<<"namespaces", P>>, "always", "database")
getNamespaces == Get(<<"namespaces">>, "always", "database")
getNetworkDIDDocByDID == Get(<<"network", "diddocs", Rest>>, "always", "networkmap")
getNetworkIdentities == Get(<<"network", "identities">>, "always", "networkmap")
getNetworkIdentityByDID == Get(<<"network", "identities", Rest>>, "always", "networkmap")
getNetworkNode == Get(<<"network", "nodes", P>>, "always", "networkmap")
getNetworkNodes == Get(<<"network", "nodes">>, "always", "networkmap")
getNetworkOrg == Get(<<"network", "organizations", P>>, "always", "networkmap")
getNetworkOrgs == Get(<<"network", "organizations">>, "always", "networkmap")
getNextPins == Get(<<"nextpins">>, "always", "database")
getOpByID == Get(<<"operations", P>>, "always", "database")
getOps == Get(<<"operations">>, "always", "database")
getPins == Get(<<"pins">>, "always", "database")
getStatus == Get(<<"status">>, "always", "database")
getStatusBatchManager == Get(<<"status", "batchmanager">>, "batch", "batch")
getSubscriptionByID == Get(<<"subscriptions", P>>, "always", "database")
getSubscriptionEventsFiltered == Get(<<"subscriptions", P, "events">>, "always", "database")
getSubscriptions == Get(<<"subscriptions">>, "always", "database")
getTokenAccountPools == Get(<<"tokens", "accounts", P, "pools">>, "always", "assets")
getTokenAccounts == Get(<<"tokens", "accounts">>, "always", "assets")
getTokenApprovals == Get(<<"tokens", "approvals">>, "always", "assets")
getTokenBalances == Get(<<"tokens", "balances">>, "always", "assets")
getTokenConnectors == Get(<<"tokens", "connectors">>, "always", "assets")
getTokenPoolByNameOrID == Get(<<"tokens", "pools", P>>, "always", "assets")
getTokenPools == Get(<<"tokens", "pools">>, "always", "assets")
getTokenTransferByID == Get(<<"tokens", "transfers", P>>, "always", "assets")
getTokenTransfers == Get(<<"tokens", "transfers">>, "always", "assets")
getTxnBlockchainEvents == Get(<<"transactions", P, "blockchainevents">>, "always", "database")
getTxnByID == Get(<<"transactions", P>>, "always", "database")
getTxnOps == Get(<<"transactions", P, "operations">>, "always", "database")
getTxnStatus == Get(<<"transactions", P, "status">>, "always", "database")
getTxns == Get(<<"transactions">>, "always", "database")
getVerifierByID == Get(<<"verifiers", P>>, "always", "networkmap")
getVerifiers == Get(<<"verifiers">>, "always", "networkmap")
getWebSockets == Get(<<"websockets">>, "always", "database")
patchUpdateIdentity == Patch(<<"identities", P>>, "always", "networkmap", Waits, {202, 200})
postContractAPIInvoke == Post(<<"apis", P, "invoke", P>>, "contracts", "contracts", Waits, {200, 202})
postContractAPIListeners == Post(<<"apis", P, "listeners", P>>, "contracts", "contracts", 200, {200})
postContractAPIPublish == Post(<<"apis", P, "publish">>, "always", "defsender", Waits, {202, 200})
postContractAPIQuery == Post(<<"apis", P, "query", P>>, "contracts", "contracts", 200, {200})
postContractDeploy == Post(<<"contracts", "deploy">>, "contracts", "contracts", Waits, {200, 202})
postContractInterfaceGenerate == Post(<<"contracts", "interfaces", "generate">>, "contracts", "contracts", 200, {200})
postContractInterfacePublish == Post(<<"contracts", "interfaces", P, P, "publish">>, "always", "defsender", Waits, {202, 200})
postContractInvoke == Post(<<"contracts", "invoke">>, "contracts", "contracts", Waits, {200, 202})
postContractQuery == Post(<<"contracts", "query">>, "contracts", "contracts", 200, {200})
postData == Post(<<"data">>, "data", "data", 201, {201})
postDataBlobPublish == Post(<<"data", P, "blob", "publish">>, "broadcast", "broadcast", 200, {200})
postDataValuePublish == Post(<<"data", P, "value", "publish">>, "broadcast", "broadcast", 200, {200})
postNetworkAction == Post(<<"network", "action">>, "multiparty", "multiparty", 202, {202})
postNewContractAPI == Post(<<"apis">>, "contracts", "defsender", Waits, {200, 202})
postNewContractInterface == Post(<<"contracts", "interfaces">>, "contracts", "defsender", Waits, {200})
postNewContractListener == Post(<<"contracts", "listeners">>, "contracts", "contracts", 200, {200})
postNewDatatype == Post(<<"datatypes">>, "always", "defsender", Waits, {202, 200})
postNewIdentity == Post(<<"identities">>, "always", "networkmap", Waits, {202, 200})
postNewMessageBroadcast == Post(<<"messages", "broadcast">>, "multiparty", "broadcast", Waits, {202, 200})
postNewMessagePrivate == Post(<<"messages", "private">>, "multiparty", "messaging", Waits, {202, 200})
postNewMessageRequestReply == Post(<<"messages", "requestreply">>, "multiparty", "messaging", 200, {200})
postNewOrganization == Post(<<"network", "organizations">>, "multiparty", "networkmap", Waits, {202, 200})
postNewOrganizationSelf == Post(<<"network", "organizations", "self">>, "multiparty", "networkmap", Waits, {202, 200})
postNewSubscription == Post(<<"subscriptions">>, "always", "database", 201, {201})
postNodesSelf == Post(<<"network", "nodes", "self">>, "multiparty", "networkmap", Waits, {202, 200})
postOpRetry == Post(<<"operations", P, "retry">>, "always", "operations", 202, {202})
postPinsRewind == Post(<<"pins", "rewind">>, "always", "aggregator", 200, {200})
postTokenApproval == Post(<<"tokens", "approvals">>, "always", "assets", Waits, {202, 200})
postTokenBurn == Post(<<"tokens", "burn">>, "always", "assets", Waits, {202, 200})
postTokenMint == Post(<<"tokens", "mint">>, "always", "assets", Waits, {202, 200})
postTokenPool == Post(<<"tokens", "pools">>, "always", "assets", Waits, {202, 200})
postTokenPoolPublish == Post(<<"tokens", "pools", P, "publish">>, "always", "defsender", Waits, {202, 200})
postTokenTransfer == Post(<<"tokens", "transfers">>, "always", "assets", Waits, {202, 200})
postVerifiersResolve == Post(<<"verifiers", "resolve">>, "always", "identity", 200, {200})
putContractAPI == Put(<<"apis", P>>, "contracts", "defsender", Waits, {200, 202})
putSubscription == Put(<<"subscriptions">>, "always", "database", 200, {200})

spiGetNamespaceByName == Get(<<"namespaces", P>>, "always", "database")
spiGetNamespaces == Get(<<"namespaces">>, "always", "database")
spiGetOpByID == Get(<<"operations", P>>, "always", "database")
spiPatchOpByID == Patch(<<"operations", P>>, "always", "database", 200, {200})
spiPostReset == Post(<<"reset">>, "always", "database", 204, {204})
spiGetOps == Get(<<"namespaces", P, "operations">>, "always", "database")
-----------------------------------------------------------------------------
(* The lists of routes.go and spi_routes.go, in their order.              *)
globalRoutes == <<getNamespace, getNamespaces, getWebSockets>>
nsRoutes == <<
    deleteContractAPI, deleteContractInterface, deleteContractListener, deleteData,
    deleteSubscription, deleteTokenPool, getBatchByID, getBatches, getBlockchainEventByID,
    getBlockchainEvents, getChartHistogram, getContractAPIByName, getContractAPIInterface,
    getContractAPIs, getContractAPIListeners, getContractInterface,
    getContractInterfaceNameVersion, getContractInterfaces, getContractListenerByNameOrID,
    getContractListeners, getData, getDataBlob, getDataSubPaths, getDataValue, getDataByID,
    getDataMsgs, getDatatypeByName, getDatatypes, getEventByID, getEvents, getGroupByHash,
    getGroups, getIdentities, getIdentityByDID, getIdentityByID, getIdentityDID,
    getIdentityVerifiers, getMsgByID, getMsgData, getMsgEvents, getMsgs, getMsgTxn,
    getNetworkDIDDocByDID, getNetworkIdentities, getNetworkIdentityByDID, getNetworkNode,
    getNetworkNodes, getNetworkOrg, getNetworkOrgs, getNextPins, getOpByID, getOps, getPins,
    getStatus, getStatusBatchManager, getSubscriptionByID, getSubscriptions,
    getSubscriptionEventsFiltered, getTokenAccountPools, getTokenAccounts, getTokenApprovals,
    getTokenBalances, getTokenConnectors, getTokenPoolByNameOrID, getTokenPools,
    getTokenTransferByID, getTokenTransfers, getTxnBlockchainEvents, getTxnByID, getTxnOps,
    getTxns, getTxnStatus, getVerifierByID, getVerifiers, patchUpdateIdentity,
    postContractAPIInvoke, postContractAPIPublish, postContractAPIQuery, postContractAPIListeners,
    postContractInterfaceGenerate, postContractInterfacePublish, postContractDeploy,
    postContractInvoke, postContractQuery, postData, postDataBlobPublish, postDataValuePublish,
    postNetworkAction, postNewContractAPI, postNewContractInterface, postNewContractListener,
    postNewDatatype, postNewIdentity, postNewMessageBroadcast, postNewMessagePrivate,
    postNewMessageRequestReply, postNewSubscription, postNewOrganization, postNewOrganizationSelf,
    postNodesSelf, postOpRetry, postPinsRewind, postTokenApproval, postTokenBurn, postTokenMint,
    postTokenPool, postTokenPoolPublish, postTokenTransfer, putContractAPI, putSubscription,
    postVerifiersResolve>>
spiRoutes == <<spiGetNamespaceByName, spiGetNamespaces, spiGetOpByID, spiPatchOpByID, spiPostReset, spiGetOps>>

(* namespacedRoutes: after the routes for the default namespace comes a   *)
(* copy of each under namespaces/{ns}.                                    *)
Under(prefix, r) == [r EXCEPT !.path = prefix \o @]
namespacedRoutes(rs) == rs \o [i \in DOMAIN rs |-> Under(<<"namespaces", P>>, rs[i])]
ApiRoutes == globalRoutes \o namespacedRoutes(nsRoutes)
SpiOnly == [i \in 1..5 |-> spiRoutes[i]] \o namespacedRoutes(<<spiRoutes[6]>>)
Registered == [i \in DOMAIN ApiRoutes |-> Under(<<"api">>, ApiRoutes[i])]
              \o [i \in DOMAIN SpiOnly |-> Under(<<"spi">>, SpiOnly[i])]

(* createMuxRouter: the router takes the first route that matches.        *)
SegmentMatches(pattern, s) ==
    CASE pattern = P -> TRUE
      [] pattern = Did -> \E d \in DidPaths : d[1] = s
      [] pattern = Rest -> TRUE
      [] OTHER -> pattern = s
OpenEnded(path) == path[Len(path)] \in {Did, Rest}
Matches(r, q) ==
    /\ r.method = q.method
    /\ IF OpenEnded(r.path) THEN Len(q.path) >= Len(r.path) ELSE Len(q.path) = Len(r.path)
    /\ \A i \in DOMAIN r.path : SegmentMatches(r.path[i], q.path[i])
FirstMatch(q) == LET hits == {i \in DOMAIN Registered : Matches(Registered[i], q)}
                 IN IF hits = {} THEN 0 ELSE CHOOSE i \in hits : \A j \in hits : i <= j

(* validateMultiPartyConfig and validateNonMultipartyConfig: the sets of  *)
(* plugins beside the database that a namespace may have.                 *)
Optional == {"blockchain", "dataexchange", "sharedstorage"}
ValidPlugins == SUBSET Optional \cup {Optional \cup {"multiparty"}}

(* initManagers: which managers the orchestrator has.                     *)
ManagersOf(plugins) ==
    {"database", "data", "assets", "defsender", "networkmap", "operations", "identity"}
    \cup (IF "multiparty" \in plugins THEN {"multiparty", "batch", "messaging", "aggregator"} ELSE {})
    \cup (IF {"dataexchange", "sharedstorage"} \subseteq plugins THEN {"broadcast"} ELSE {})
    \cup (IF "dataexchange" \in plugins THEN {"blobs"} ELSE {})
    \cup (IF "blockchain" \in plugins THEN {"contracts"} ELSE {})
-----------------------------------------------------------------------------
NoRequest == [route |-> 0, method |-> "", path |-> <<>>, waits |-> FALSE]
InitR == pluginsR \in ValidPlugins /\ requestR = NoRequest /\ routeR = 0 /\ answerR = 0

(* A caller asks for route i: its literals, values for its parameters.    *)
Filled(path, v, rest) ==
    LET one == [i \in DOMAIN path |-> IF path[i] = P THEN v ELSE path[i]]
    IN IF OpenEnded(path) THEN SubSeq(one, 1, Len(path) - 1) \o rest ELSE one
request(i, v, rest, waits) ==
    LET r == Registered[i] IN
    /\ requestR = NoRequest
    /\ waits => r.success = Waits
    /\ requestR' = [route |-> i, method |-> r.method, path |-> Filled(r.path, v, rest), waits |-> waits]
    /\ UNCHANGED <<pluginsR, routeR, answerR>>
route ==
    /\ requestR # NoRequest /\ routeR = 0
    /\ routeR' = FirstMatch(requestR)
    /\ UNCHANGED <<pluginsR, requestR, answerR>>

(* routeHandler: a route that is not enabled is refused, one that is      *)
(* enabled calls its manager.                                             *)
EnabledIf(r) == r.enabledIf = "always" \/ r.enabledIf \in ManagersOf(pluginsR)
syncRetcode(waits) == IF waits THEN 200 ELSE 202
StatusOf(r, waits) == IF r.success = Waits THEN syncRetcode(waits) ELSE r.success
routeHandler ==
    /\ routeR # 0 /\ answerR = 0
    /\ answerR' = LET r == Registered[routeR] IN
                  IF ~EnabledIf(r) THEN 400
                  ELSE IF r.calls \notin ManagersOf(pluginsR) THEN Crash
                  ELSE StatusOf(r, requestR.waits)
    /\ UNCHANGED <<pluginsR, requestR, routeR>>
answered ==
    /\ answerR # 0
    /\ requestR' = NoRequest /\ routeR' = 0 /\ answerR' = 0
    /\ UNCHANGED pluginsR

NextR == \/ \E i \in DOMAIN Registered, v \in Plain, rest \in DidPaths, w \in BOOLEAN : request(i, v, rest, w)
         \/ route \/ routeHandler \/ answered
SpecR == InitR /\ [][NextR]_varsR
-----------------------------------------------------------------------------
(* A request reaches the route it was meant for: no route is hidden by an *)
(* earlier one, whatever values the parameters take, a DID with slashes   *)
(* and a name equal to a literal of another route included.               *)
EachRouteReached == routeR # 0 => routeR = requestR.route

(* A route that is enabled finds the manager it calls, in every kind of   *)
(* namespace, except the four that test nothing before they use the       *)
(* contract manager or the aggregator.                                    *)
Untested == {deleteContractAPI, deleteContractInterface, deleteContractListener, postPinsRewind}
IsCopyOf(r, u) == \E prefix \in {<<"api">>, <<"spi">>, <<"api", "namespaces", P>>, <<"spi", "namespaces", P>>} :
                      r = Under(prefix, u)
ManagersFound == answerR = Crash => \E u \in Untested : IsCopyOf(Registered[routeR], u)

(* An answer has a status that the OpenAPI document lists for its route,  *)
(* except the one for a new contract interface that is not waited for.    *)
StatusDocumented ==
    answerR \notin {0, 400, Crash} =>
        \/ answerR \in Registered[routeR].codes
        \/ IsCopyOf(Registered[routeR], postNewContractInterface)
=============================================================================
