------------------------------- MODULE WebHook -------------------------------
(***************************************************************************)
(* Webhooks (events/webhooks/webhooks.go): events call an application over *)
(* HTTP, and its answer may be sent as a message in reply.                 *)
(***************************************************************************)
EXTENDS Integers, FiniteSets

CONSTANTS
    HookEvents, \* HookEvents[e]: [msg, cid], whether it has a message, and that one is a reply
    HookModes   \* the options of the subscription: [reply, fastack, batch]

VARIABLES
    modeT, todoT,       \* the options; events still to deliver
    callsT,             \* requests under way: sets of events
    answersT, repliesT  \* answers to the dispatcher per event; <<event, status>> of replies
varsWH == <<modeT, todoT, callsT, answersT, repliesT>>

InitWH ==
    /\ modeT \in HookModes /\ todoT = DOMAIN HookEvents /\ callsT = {}
    /\ answersT = [e \in DOMAIN HookEvents |-> 0] /\ repliesT = {}

(* An event of a reply is acknowledged without a call when the *)
(* subscription replies, or calls would answer each other for ever.       *)
Answer(E) == answersT' = [e \in DOMAIN HookEvents |-> IF e \in E THEN answersT[e] + 1 ELSE answersT[e]]
IsReply(E) == {e \in E : modeT.reply /\ HookEvents[e].msg /\ HookEvents[e].cid}
FastAck == ~modeT.reply /\ modeT.fastack
(* DeliveryRequest: with fastack the acknowledgement goes first and the   *)
(* call runs on its own.                                                  *)
DeliveryRequest(e) ==
    /\ ~modeT.batch /\ (FastAck \/ callsT = {})
    /\ todoT' = todoT \ {e}
    /\ Answer(IF FastAck THEN {e} ELSE IsReply({e}))
    /\ callsT' = IF e \in IsReply({e}) THEN callsT ELSE callsT \cup {{e}}
    /\ UNCHANGED <<modeT, repliesT>>
(* BatchDeliveryRequest calls once, also when only replies were given.    *)
BatchDeliveryRequest(E) ==
    /\ modeT.batch /\ E # {} /\ (FastAck \/ callsT = {})
    /\ todoT' = todoT \ E
    /\ Answer(IF FastAck THEN E ELSE IsReply(E))
    /\ callsT' = callsT \cup {E \ IsReply(E)}
    /\ UNCHANGED <<modeT, repliesT>>
(* attemptRequest: the status of the application, or an error that        *)
(* doDelivery turns into a status of its own.  It goes out in a reply, or *)
(* is dropped with an acknowledgement.                                    *)
attemptRequest == {"application", "badGateway"}
doDelivery(E, status) ==
    LET replied == {e \in E : modeT.reply /\ HookEvents[e].msg}
    IN /\ callsT' = callsT \ {E}
       /\ repliesT' = repliesT \cup {<<e, status>> : e \in replied}
       /\ Answer(replied \cup (IF FastAck THEN {} ELSE E))
       /\ UNCHANGED <<modeT, todoT>>

NextWH == \/ \E e \in todoT : DeliveryRequest(e)
          \/ \E E \in SUBSET todoT : BatchDeliveryRequest(E)
          \/ \E E \in callsT, status \in attemptRequest : doDelivery(E, status)
SpecWH == InitWH /\ [][NextWH]_varsWH
-----------------------------------------------------------------------------
(* Every event of a webhook is answered once, and a reply is never sent   *)
(* for an event that is itself a reply.                                   *)
HookAnswersOnce ==
    /\ \A e \in DOMAIN HookEvents : answersT[e] <= 1
    /\ todoT = {} /\ callsT = {} => \A e \in DOMAIN HookEvents : answersT[e] = 1
    /\ \A r \in repliesT : ~HookEvents[r[1]].cid
=============================================================================
