------------------------------- MODULE MCNode -------------------------------
(***************************************************************************)
(* The components of a FireFly node for TLC.  Each is checked with its     *)
(* neighbours as its environment, as its own module describes them, so one *)
(* run takes them side by side: the variable part says which component     *)
(* runs, and the others rest in an initial state.                          *)
(***************************************************************************)
EXTENDS SyncAsyncBridge, Operations, Downloads, MaskedPins, BatchDispatch,
        MessageWriter, Inbound, Subscriptions, WebSocket, WebHook, Identities,
        Routes, Namespaces, Store, Tokens, Connector, Definitions

CONSTANT Parts   \* the components that the run checks

VARIABLE part

(* A namespace manager that is not running.                               *)
DownN == /\ upN = FALSE /\ fileN = CHOOSE conf \in ConfigFiles : TRUE
         /\ pluginsN = Empty /\ cancelledN = {} /\ servedN = Empty /\ instN = {}
         /\ handlersN = {} /\ genN = 0 /\ failsN = 0

Init ==
    /\ part \in Parts
    /\ InitSA /\ (part # "bridge" => typeSA = CHOOSE t \in [Req -> ReqTypes] : TRUE)
    /\ InitO /\ (part # "operations" => \A c \in Call : stepO[c] = "done")
    /\ InitDL
    /\ InitMP
    /\ InitBD
    /\ InitMW /\ (part # "writer" => ~concurrentMW)
    /\ InitIN /\ (part # "inbound" => ~needsInitIN /\ \A e \in EvIN : wireIN[e] = "never")
    /\ InitS
    /\ InitT
    /\ InitWH /\ (part # "webhook" => modeT = CHOOSE m \in HookModes : TRUE)
    /\ InitID
    /\ InitR /\ (part # "routes" => pluginsR = CHOOSE p \in ValidPlugins : TRUE)
    /\ IF part = "namespaces" THEN InitN ELSE DownN
    /\ InitDB /\ (part # "store" => collection = "messages" /\ storeDB = {})
    /\ InitTK /\ (part # "tokens" => ~olderTK /\ ~publishedTK)
    /\ InitC /\ (part # "connector" => pluginC = (CHOOSE p \in PluginsC : TRUE) /\ linkC = "new")
    /\ InitDF /\ (part # "definitions" => kindDF = CHOOSE k \in KindsDF : TRUE)

Next ==
    \/ /\ part = "bridge" /\ NextSA
       /\ UNCHANGED <<part, varsO, varsDL, varsMP, varsBD, varsMW, varsIN,
                     varsS, varsT, varsWH, varsID, varsR, varsN, varsDB, varsTK, varsC,
                     varsDF>>
    \/ /\ part = "operations" /\ NextO
       /\ UNCHANGED <<part, varsSA, varsDL, varsMP, varsBD, varsMW, varsIN,
                     varsS, varsT, varsWH, varsID, varsR, varsN, varsDB, varsTK, varsC,
                     varsDF>>
    \/ /\ part = "downloads" /\ NextDL
       /\ UNCHANGED <<part, varsSA, varsO, varsMP, varsBD, varsMW, varsIN,
                     varsS, varsT, varsWH, varsID, varsR, varsN, varsDB, varsTK, varsC,
                     varsDF>>
    \/ /\ part = "privatePins" /\ NextMP
       /\ UNCHANGED <<part, varsSA, varsO, varsDL, varsBD, varsMW, varsIN,
                     varsS, varsT, varsWH, varsID, varsR, varsN, varsDB, varsTK, varsC,
                     varsDF>>
    \/ /\ part = "dispatch" /\ NextBD
       /\ UNCHANGED <<part, varsSA, varsO, varsDL, varsMP, varsMW, varsIN,
                     varsS, varsT, varsWH, varsID, varsR, varsN, varsDB, varsTK, varsC,
                     varsDF>>
    \/ /\ part = "writer" /\ NextMW
       /\ UNCHANGED <<part, varsSA, varsO, varsDL, varsMP, varsBD, varsIN,
                     varsS, varsT, varsWH, varsID, varsR, varsN, varsDB, varsTK, varsC,
                     varsDF>>
    \/ /\ part = "inbound" /\ NextIN
       /\ UNCHANGED <<part, varsSA, varsO, varsDL, varsMP, varsBD, varsMW,
                     varsS, varsT, varsWH, varsID, varsR, varsN, varsDB, varsTK, varsC,
                     varsDF>>
    \/ /\ part = "subscriptions" /\ NextS
       /\ UNCHANGED <<part, varsSA, varsO, varsDL, varsMP, varsBD, varsMW,
                     varsIN, varsT, varsWH, varsID, varsR, varsN, varsDB, varsTK, varsC,
                     varsDF>>
    \/ /\ part = "websocket" /\ NextT
       /\ UNCHANGED <<part, varsSA, varsO, varsDL, varsMP, varsBD, varsMW,
                     varsIN, varsS, varsWH, varsID, varsR, varsN, varsDB, varsTK, varsC,
                     varsDF>>
    \/ /\ part = "webhook" /\ NextWH
       /\ UNCHANGED <<part, varsSA, varsO, varsDL, varsMP, varsBD, varsMW,
                     varsIN, varsS, varsT, varsID, varsR, varsN, varsDB, varsTK, varsC,
                     varsDF>>
    \/ /\ part = "identities" /\ NextID
       /\ UNCHANGED <<part, varsSA, varsO, varsDL, varsMP, varsBD, varsMW,
                     varsIN, varsS, varsT, varsWH, varsR, varsN, varsDB, varsTK, varsC,
                     varsDF>>
    \/ /\ part = "routes" /\ NextR
       /\ UNCHANGED <<part, varsSA, varsO, varsDL, varsMP, varsBD, varsMW,
                     varsIN, varsS, varsT, varsWH, varsID, varsN, varsDB, varsTK, varsC,
                     varsDF>>
    \/ /\ part = "namespaces" /\ NextN
       /\ UNCHANGED <<part, varsSA, varsO, varsDL, varsMP, varsBD, varsMW,
                     varsIN, varsS, varsT, varsWH, varsID, varsR, varsDB, varsTK, varsC,
                     varsDF>>
    \/ /\ part = "store" /\ NextDB
       /\ UNCHANGED <<part, varsSA, varsO, varsDL, varsMP, varsBD, varsMW,
                     varsIN, varsS, varsT, varsWH, varsID, varsR, varsN, varsTK, varsC,
                     varsDF>>
    \/ /\ part = "tokens" /\ NextTK
       /\ UNCHANGED <<part, varsSA, varsO, varsDL, varsMP, varsBD, varsMW,
                     varsIN, varsS, varsT, varsWH, varsID, varsR, varsN, varsDB, varsC,
                     varsDF>>
    \/ /\ part = "connector" /\ NextC
       /\ UNCHANGED <<part, varsSA, varsO, varsDL, varsMP, varsBD, varsMW,
                     varsIN, varsS, varsT, varsWH, varsID, varsR, varsN, varsDB, varsTK,
                     varsDF>>
    \/ /\ part = "definitions" /\ NextDF
       /\ UNCHANGED <<part, varsSA, varsO, varsDL, varsMP, varsBD, varsMW,
                     varsIN, varsS, varsT, varsWH, varsID, varsR, varsN, varsDB, varsTK,
                     varsC>>

varsNode == <<part, varsSA, varsO, varsDL, varsMP, varsBD, varsMW, varsIN,
              varsS, varsT, varsWH, varsID, varsR, varsN, varsDB, varsTK,
              varsC, varsDF>>

Spec == Init /\ [][Next]_varsNode

(* Fairness of the component that runs.                                   *)
FairSpec ==
    /\ Spec
    /\ \/ <>[](part = "bridge") /\ FairSA
       \/ <>[](part = "operations") /\ FairO
       \/ <>[](part = "downloads") /\ FairDL
       \/ <>[](part = "privatePins") /\ FairMP
       \/ <>[](part = "inbound") /\ FairIN
       \/ <>[](part = "identities") /\ FairID
       \/ <>[](part = "namespaces") /\ FairN
       \/ <>[](part = "connector") /\ FairC
-----------------------------------------------------------------------------
(* Operations: calls of every shape with one key, and which of them come   *)
(* together.                                                              *)
Keys == [c \in Call |-> "k"]
Kinds == [c \in Call |-> <<"contracts", "contracts", "assets", "broadcast", "pools">>[c]]
CallsTogether == {{1, 2, 3}, {3, 4}, {4, 5}, {1, 5}, {}}
CallsLive == {{1, 3}, {}}

(* Downloads: a batch with one attachment.                                *)
OneBlob == <<{2}>>

(* Private pins of two members on two topics, after the pin of the group. *)
Pin(m, t, w, n) == [msg |-> m, topic |-> t, who |-> w, nonce |-> n]
Pins == <<Pin("g", "sys", "A", 0), Pin("m1", "t", "A", 0), Pin("m1", "u", "A", 0),
          Pin("m2", "t", "B", 0), Pin("m3", "t", "A", 1)>>
Authors == [m \in {"g", "m1", "m2", "m3"} |-> IF m = "m2" THEN "B" ELSE "A"]
GroupMembers == <<"A", "B", "A">>

(* Batches of every kind.                                                 *)
BatchKinds == <<"private", "broadcast", "invoke", "unpinned">>
BatchNodes == <<<<"a", "me", "b">>, <<>>, <<>>, <<"a">>>>
BatchBlobs == <<{"x"}, {"y"}, {}, {}>>

(* Messages: two with each of two keys; two of one group.                 *)
MessageKeys == <<"k", "k", "j", "j">>
MessageGroups == <<"g", "", "g", "">>

(* Inbound events, sound and faulty, and which of them come together.     *)
Inb(k, i, f) == [kind |-> k, item |-> i, fault |-> f]
Inbounds == <<Inb("pinned", "b", "none"), Inb("unpinned", "u", "none"), Inb("blob", "x", "none"),
              Inb("pinned", "c", "clash"), Inb("unpinned", "u", "author"), Inb("unpinned", "u", "group"),
              Inb("pinned", "b", "content"), Inb("shared", "b", "hash"), Inb("shared", "o", "none"),
              Inb("blob", "x", "peer"), Inb("blob", "x", "dataid"), Inb("status", "", "parse"),
              Inb("blob", "x", "none")>>
Together == {{1, 2}, {1, 3}, {1, 4}, {2, 5}, {6, 7}, {8, 9}, {10, 11}, {12}, {3, 13}, {}}
TogetherLive == {{1, 2}, {3, 13}, {10, 11}, {12}, {}}
BatchMsgs == [b |-> <<"m1", "m2">>, u |-> <<"m3">>, o |-> <<"m4">>, c |-> <<"m1", "m4">>]

(* Websocket and webhook subscriptions.                                   *)
SocketEvents == [s |-> <<1, 2>>, r |-> <<1>>, b |-> <<1, 2>>]
Hook(m, c) == [msg |-> m, cid |-> c]
Hooks == <<Hook(TRUE, FALSE), Hook(TRUE, TRUE), Hook(FALSE, FALSE)>>
AllModes == [reply : BOOLEAN, fastack : BOOLEAN, batch : BOOLEAN]

(* A root, two children that claim one name, and a node below a child.    *)
IdentityTypes == [i \in Identity |-> IF i = "N" THEN "node" ELSE "org"]
Parents == [i \in Identity |-> CASE i = "P" -> NoParent [] i = "N" -> "C" [] OTHER -> "P"]
IdentityNames == [i \in Identity |-> IF i = "D" THEN "C" ELSE i]
IdentityKeys == [i \in Identity |-> IF i = "D" THEN "kd" ELSE i]

Dids == {<<"did:v">>, <<"did:v", "v">>}

(* Configuration files: two namespaces, or one of them on a changed       *)
(* plugin, or with changed plugins and configuration, or on a plugin that *)
(* does not exist, or two of version 1.                                   *)
PluginsAll == {"db", "bc", "ss", "dx", "ev", "tk"}
Categories == [p \in PluginsAll |-> CASE p = "db" -> "database" [] p = "bc" -> "blockchain"
                  [] p = "ss" -> "sharedstorage" [] p = "dx" -> "dataexchange"
                  [] p = "tk" -> "tokens" [] OTHER -> "events"]
Ns(h, all, ps, mp, v) == [hash |-> h, all |-> all, plugins |-> ps, multiparty |-> mp, v1 |-> v]
Pl(ps, bc, ev) == [p \in ps |-> CASE p = "bc" -> bc [] p = "ev" -> ev [] OTHER -> 1]
Two(a, b) == [n \in {"n1", "n2"} |-> IF n = "n1" THEN a ELSE b]
File(ps, ns) == [plugins |-> ps, namespaces |-> ns]
Whole == {"db", "bc", "ss", "dx"}
FilesTwo == {File(Pl({"db", "bc", "ev"}, 1, 1), Two(Ns(1, FALSE, {"db", "bc"}, FALSE, 0), Ns(1, FALSE, {"db"}, FALSE, 0))),
             File(Pl({"db", "bc", "ev"}, 2, 1), [n1 |-> Ns(1, FALSE, {"db", "bc"}, FALSE, 0)]),
             File(Pl({"db", "ev"}, 1, 2), Two(Ns(2, FALSE, {"db"}, FALSE, 0), Ns(2, TRUE, {}, FALSE, 0)))}
Files == FilesTwo \cup
         {File(Pl({"db", "bc", "ev"}, 1, 1), [n1 |-> Ns(3, FALSE, {"db", "tk"}, FALSE, 0)]),
          File(Pl(Whole, 1, 1), Two(Ns(4, FALSE, Whole, TRUE, 7), Ns(4, FALSE, Whole, TRUE, 8)))}

(* Rows that share an ID, a name or a network name with one that is there *)
(* already, and one of another namespace.                                 *)
Record(ns, id, name, net, hash) == [ns |-> ns, id |-> id, name |-> name, net |-> net, hash |-> hash]
Rows == {Record(1, 2, "a", Null, 1), Record(1, 1, "b", "n", 2), Record(2, 1, "a", "n", 1)}
FirstRows == {Record(1, 1, "a", "n", 1)}

(* A mint with a message, sent by the node, and two approvals of others.  *)
Transfers == [i \in {1} |-> [from |-> Nobody, to |-> "x", n |-> 2, by |-> 1, msg |-> TRUE]]
Approvals == [i \in {3, 4} |-> [subject |-> "o", by |-> 0]]

(* Two contracts; the first is terminated.                                *)
Networks == [ns \in {1, 2} |-> ns]
Versions == <<2, 2>>
Emitted(c, k, n) == [contract |-> c, kind |-> k, net |-> n, known |-> TRUE]
ChainPins == <<Emitted(1, "pin", 1), Emitted(1, "pin", 1), Emitted(1, "terminate", 0), Emitted(0, "event", 0)>>

(* Definitions: one member has a local definition with the network name   *)
(* of the other's, or with the name that comes next.                      *)
D(a, n, l) == [author |-> a, name |-> n, loc |-> l]
SomeDefs == <<D(1, <<"n", 0>>, 1), D(2, <<"n", 0>>, 2), D(2, <<"x", 0>>, 1)>>
-----------------------------------------------------------------------------
(* The properties of the runs, by what they are about; each part belongs  *)
(* to the component that defines it.                                      *)

(* A waiting request gets an answer to what it asked and leaves nothing   *)
(* behind; calls that share an idempotency key submit one operation,      *)
(* unless they overlap while the first has not written its own.           *)
RequestsOnce ==
    /\ AnswersAreOwn
    /\ NothingLeftInFlight
    /\ SubmittedOncePerKey

(* What callers hand over is sent: each gets a true answer and is stored  *)
(* unless a duplicate or overtaken by one, a group is defined before its  *)
(* messages, the pin comes after the payload, and retries add no          *)
(* operation.                                                             *)
SentFaithfully ==
    /\ AnswersTrue
    /\ OthersStored
    /\ GroupDefinedFirst
    /\ PinAfterPayload
    /\ OneOperationEach

(* What is acknowledged to the data exchange is stored and the aggregator *)
(* is told; a service that wants its nodes at each connection knows every *)
(* node; a download is worked on once and found again after a restart.    *)
ReceivedFaithfully ==
    /\ AckedIsStored
    /\ RewindFollows
    /\ PeersKnown
    /\ OneWorkItem
    /\ RecoveredAll

(* Private messages are released in the order of each author, and the     *)
(* next pins stand where the released ones ended.                         *)
PrivateOrder ==
    /\ AuthorOrder
    /\ NextPinsExact

(* Dispatchers follow subscriptions and connections through changes and   *)
(* closes, and a delivery is answered by the acknowledgement meant for    *)
(* it, once.                                                              *)
DeliveredAsSubscribed ==
    /\ NoOrphan
    /\ ChangesTakeEffect
    /\ ClosedIsSilent
    /\ AcksMeant
    /\ NothingDropped
    /\ HookAnswersOnce

(* Members that have handled a definition agree on it, and what one       *)
(* confirmed is in its table.                                             *)
DefinitionsAgreed ==
    /\ DefinitionsAgree
    /\ ConfirmedIsKept

(* Members that have handled the same ledger agree on identities and      *)
(* definitions, children are verified by their parents, and what was      *)
(* confirmed stays.                                                       *)
NetworkAgrees ==
    /\ VerifiedByParent
    /\ MembersAgree
    /\ DefinitionsAgreed

(* Namespaces are served by one orchestrator of the configuration in      *)
(* force, and plugins call that one.                                      *)
NamespacesServed ==
    /\ ServedAsConfigured
    /\ CallbacksFollow
    /\ OneOrchestrator

(* Requests reach their route and the manager it needs, with a status the *)
(* document lists, and namespaces are served by one orchestrator of the   *)
(* configuration in force.                                                *)
ServedAsDocumented ==
    /\ EachRouteReached
    /\ ManagersFound
    /\ StatusDocumented
    /\ NamespacesServed

(* Listeners hear of rows that are stored, an upsert stores its row, and  *)
(* a lookup by a unique key finds at most one.                            *)
TablesConsistent ==
    /\ NotifiedAreStored
    /\ UpsertStored
    /\ GetsAreUnique

(* Balances are the sum of the transfers counted once, the last approval  *)
(* is the active one, and a transfer releases its message.                *)
TokensAddUp ==
    /\ BalancesAddUp
    /\ LastApprovalActive
    /\ MessageReleased

(* The pins of a contract are stored in the order of the chain, and an    *)
(* event is noted once however often it comes.                            *)
NotedInOrder ==
    /\ PinsInOrder
    /\ NotedOnce

(* Pins are stored in the order of the chain and none is left out, an     *)
(* event is noted once however often it comes, and the connector listens  *)
(* to the active contract.                                                *)
ChainFollowed ==
    /\ PinsFollowChain
    /\ NotedInOrder
    /\ HearsActive

(* What a step may never do to a row: take a final operation back, change *)
(* its end unless a submission of it failed, commit an event behind one   *)
(* already seen, change the hash of a message, or touch the rows of       *)
(* another namespace.                                                     *)
RecordsKept ==
    /\ NeverBackToPending
    /\ FinalKept
    /\ EventsInOrder
    /\ HashKept
    /\ NamespacesApart

(* Events are handled, requests are answered in time, and calls return,   *)
(* with one submission per key across rollbacks and restarts.             *)
CallersAnswered ==
    /\ EventsHandled
    /\ AnsweredInTime
    /\ CallsReturn
    /\ []SubmittedOncePerKey

(* Downloads end, inbound events are acknowledged, and every pin of the   *)
(* chain is stored, in order and once.                                    *)
AllReceived ==
    /\ DownloadsEnd
    /\ EventsAcked
    /\ PinsStored
    /\ [](PinsFollowChain /\ NotedInOrder)

(* What waits for something else is released: private messages for their  *)
(* group and their payloads, claims for their verification, namespaces    *)
(* for plugins that fail at first.                                        *)
WaitersReleased ==
    /\ PrivateDispatched
    /\ ClaimsDecided
    /\ NamespacesStart
=============================================================================
