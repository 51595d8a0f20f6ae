--------------------------- MODULE Subscriptions ---------------------------
(***************************************************************************)
(* The subscription manager (events/subscription_manager.go) with one      *)
(* durable subscription, and the websocket connections that start it       *)
(* (events/websockets).  Changes of the subscriptions table are announced  *)
(* after commit and handled by a goroutine each; a connection is served by *)
(* a receive loop and a send loop that may close it at any time.  A        *)
(* section under sm.mux is one step.                                       *)
(***************************************************************************)
EXTENDS Integers, FiniteSets

CONSTANTS
    ConnS,      \* websocket connections
    MaxVersion, \* bound: how often the subscription is created or updated
    MaxEphemeral \* bound: ephemeral subscriptions at a time
ASSUME VersionsAssumption == MaxVersion \in Nat

VARIABLES
    dbS,      \* the stored definition: 0 before, a version, or Deleted
    jobsS,    \* goroutines [id, kind, phase, def, list] of announced changes
    durableS, \* sm.durableSubs: the version in use, or 0
    wsS,      \* wsS[c]: the socket, "none", "open", "closed", or "gone" for the manager too
    startS,   \* startS[c]: "no", "adding" to wc.started, "yes"
    connS,    \* sm.connections: those registered
    matchS,   \* those whose matcher is set
    tableS,   \* tableS[c]: conn.dispatchers, a set of dispatchers
    closingS, \* dispatchers a closed connection has still to close
    runS,     \* dispatchers [c, v, n] that run: version v (0 is ephemeral), n-th started
    countS,   \* number of dispatchers started
    overlapS, \* (history) two changes were handled at the same time
    lateS     \* (history) connections closed while a start was under way
varsS == <<dbS, jobsS, durableS, wsS, startS, connS, matchS, tableS, closingS, runS, countS, overlapS, lateS>>
Deleted == -1

InitS ==
    /\ dbS = 0 /\ jobsS = {} /\ durableS = 0
    /\ wsS = [c \in ConnS |-> "none"] /\ startS = [c \in ConnS |-> "no"]
    /\ connS = {} /\ matchS = {} /\ tableS = [c \in ConnS |-> {}] /\ closingS = [c \in ConnS |-> {}]
    /\ runS = {} /\ countS = 0 /\ overlapS = FALSE /\ lateS = {}

(* CreateUpdateDurableSubscription and DeleteDurableSubscription: the     *)
(* change is committed and its announcement starts a goroutine.           *)
Job(kind) == [id |-> dbS, kind |-> kind, phase |-> "new", def |-> 0, list |-> {}]
Announced(kind) ==
    /\ jobsS' = jobsS \cup {Job(kind)}
    /\ overlapS' = (overlapS \/ jobsS # {})
    /\ UNCHANGED <<durableS, wsS, startS, connS, matchS, tableS, closingS, runS, countS, lateS>>
CreateUpdateDurableSubscription ==
    /\ dbS \in 0..(MaxVersion - 1) /\ dbS' = dbS + 1 /\ Announced("update")
DeleteDurableSubscription ==
    /\ dbS > 0 /\ dbS' = Deleted /\ Announced("delete")

Moves(job, phase, def, list) ==
    jobsS' = (jobsS \ {job}) \cup {[job EXCEPT !.phase = phase, !.def = def, !.list = list]}
Ends(job) == jobsS' = jobsS \ {job}

(* newOrUpdatedDurableSubscription reads the definition without the lock. *)
readDefinition(job) ==
    /\ job.kind = "update" /\ job.phase = "new"
    /\ IF dbS > 0 THEN Moves(job, "read", dbS, {}) ELSE Ends(job)
    /\ UNCHANGED <<dbS, durableS, wsS, startS, connS, matchS, tableS, closingS, runS, countS, overlapS, lateS>>

(* matchSubToConnLocked for each connection that has none yet.            *)
Starting(conns) == {c \in conns : c \in matchS' /\ startS[c] # "no"
                                     /\ ~\E d \in tableS[c] : d.v > 0}
matchSubToConnLocked(v, conns) ==
    LET new == {[c |-> c, v |-> v, n |-> countS] : c \in Starting(conns)}
    IN /\ tableS' = [c \in ConnS |-> tableS[c] \cup {d \in new : d.c = c}]
       /\ runS' = runS \cup new /\ countS' = countS + (IF new = {} THEN 0 ELSE 1)
installed(job) ==
    /\ durableS' = job.def /\ UNCHANGED matchS
    /\ matchSubToConnLocked(job.def, connS) /\ Ends(job)

(* closeDurableSubscriptionLocked takes the dispatchers out of the        *)
(* tables, for the caller to close outside the lock.                      *)
closeForgets(job) ==
    /\ durableS' = 0
    /\ tableS' = [c \in ConnS |-> IF c \in connS THEN {d \in tableS[c] : d.v = 0} ELSE tableS[c]]
    /\ Moves(job, "close", job.def, {})
closeDurableSubscriptionLocked(job) ==
    /\ durableS' = 0
    /\ tableS' = [c \in ConnS |-> IF c \in connS THEN {d \in tableS[c] : d.v = 0} ELSE tableS[c]]
    /\ Moves(job, "close", job.def, UNION {{d \in tableS[c] : d.v > 0} : c \in connS})
newOrUpdatedDurableSubscription(job) ==
    /\ job.kind = "update" /\ job.phase = "read"
    /\ \/ durableS = job.def /\ Ends(job) /\ UNCHANGED <<durableS, matchS, tableS, runS, countS>>
       \/ durableS = 0 /\ installed(job)
       \/ /\ durableS \notin {0, job.def}
          /\ closeDurableSubscriptionLocked(job) /\ UNCHANGED <<matchS, runS, countS>>
    /\ UNCHANGED <<dbS, wsS, startS, connS, closingS, overlapS, lateS>>
deletedDurableSubscription(job) ==
    /\ job.kind = "delete" /\ job.phase = "new"
    /\ IF durableS # 0 THEN closeDurableSubscriptionLocked(job) ELSE Ends(job) /\ UNCHANGED <<durableS, tableS>>
    /\ UNCHANGED <<dbS, wsS, startS, connS, matchS, closingS, runS, countS, overlapS, lateS>>
(* dispatcher.close for each, then an update takes the lock again.        *)
closeDispatchers(job) ==
    /\ job.phase = "close"
    /\ runS' = runS \ job.list
    /\ IF job.kind = "update" THEN Moves(job, "install", job.def, {}) ELSE Ends(job)
    /\ UNCHANGED <<dbS, durableS, wsS, startS, connS, matchS, tableS, closingS, countS, overlapS, lateS>>
installAgain(job) ==
    /\ job.phase = "install" /\ installed(job)
    /\ UNCHANGED <<dbS, wsS, startS, connS, closingS, overlapS, lateS>>
-----------------------------------------------------------------------------
(* A client connects; its start is noted in wc.started and then handed to *)
(* the manager: handleStart.                                              *)
ServeHTTP(c) ==
    /\ wsS[c] = "none"
    /\ wsS' = [wsS EXCEPT ![c] = "open"]
    /\ UNCHANGED <<dbS, jobsS, durableS, startS, connS, matchS, tableS, closingS, runS, countS, overlapS, lateS>>
handleStart(c) ==
    /\ wsS[c] = "open" /\ startS[c] = "no"
    /\ startS' = [startS EXCEPT ![c] = "adding"]
    /\ UNCHANGED <<dbS, jobsS, durableS, wsS, connS, matchS, tableS, closingS, runS, countS, overlapS, lateS>>
(* registerConnection creates the connection when it is not known, and    *)
(* does not ask whether the socket is still there.                        *)
registerConnection(c) ==
    /\ startS[c] = "adding"
    /\ startS' = [startS EXCEPT ![c] = "yes"]
    /\ connS' = connS \cup {c} /\ matchS' = matchS \cup {c}
    /\ IF durableS > 0 THEN matchSubToConnLocked(durableS, {c}) ELSE UNCHANGED <<tableS, runS, countS>>
    /\ UNCHANGED <<dbS, jobsS, durableS, wsS, closingS, overlapS, lateS>>
Ephemerals == {d \in runS : d.v = 0}
ephemeralSubscription(c) ==
    LET d == [c |-> c, v |-> 0, n |-> countS] IN
    /\ wsS[c] = "open" /\ startS[c] # "adding" /\ Cardinality(Ephemerals) < MaxEphemeral
    /\ connS' = connS \cup {c}
    /\ tableS' = [tableS EXCEPT ![c] = @ \cup {d}] /\ runS' = runS \cup {d} /\ countS' = countS + 1
    /\ UNCHANGED <<dbS, jobsS, durableS, wsS, startS, matchS, closingS, overlapS, lateS>>
(* websocketConnection.close, by either loop ...                          *)
closeSocket(c) ==
    /\ wsS[c] = "open"
    /\ wsS' = [wsS EXCEPT ![c] = "closed"]
    /\ lateS' = IF startS[c] = "adding" THEN lateS \cup {c} ELSE lateS
    /\ UNCHANGED <<dbS, jobsS, durableS, startS, connS, matchS, tableS, closingS, runS, countS, overlapS>>
(* ... and connectionClosed in the manager: out of the table under the    *)
(* lock, the dispatchers closed after it.                                 *)
connectionClosed(c) ==
    /\ wsS[c] = "closed"
    /\ wsS' = [wsS EXCEPT ![c] = "gone"]
    /\ connS' = connS \ {c} /\ matchS' = matchS \ {c}
    /\ closingS' = [closingS EXCEPT ![c] = tableS[c]] /\ tableS' = [tableS EXCEPT ![c] = {}]
    /\ UNCHANGED <<dbS, jobsS, durableS, startS, runS, countS, overlapS, lateS>>
closeOfConnection(c) ==
    /\ closingS[c] # {}
    /\ runS' = runS \ closingS[c] /\ closingS' = [closingS EXCEPT ![c] = {}]
    /\ UNCHANGED <<dbS, jobsS, durableS, wsS, startS, connS, matchS, tableS, countS, overlapS, lateS>>

NextS == \/ CreateUpdateDurableSubscription \/ DeleteDurableSubscription
         \/ \E job \in jobsS : \/ readDefinition(job) \/ newOrUpdatedDurableSubscription(job)
                               \/ deletedDurableSubscription(job) \/ closeDispatchers(job)
                               \/ installAgain(job)
         \/ \E c \in ConnS : \/ ServeHTTP(c) \/ handleStart(c) \/ registerConnection(c)
                             \/ ephemeralSubscription(c) \/ closeSocket(c)
                             \/ connectionClosed(c) \/ closeOfConnection(c)
SpecS == InitS /\ [][NextS]_varsS
-----------------------------------------------------------------------------
(* Every dispatcher that runs is in the table of a connection, or on the  *)
(* list of somebody who will close it: none is lost when an update, a     *)
(* deletion and the end of a connection cross.                            *)
NoOrphan ==
    \A d \in runS : \/ d.c \in connS /\ d \in tableS[d.c]
                    \/ d \in closingS[d.c]
                    \/ \E job \in jobsS : d \in job.list

(* When changes were handled one at a time, the manager ends with the     *)
(* stored definition, and every connection that started the subscription  *)
(* has one dispatcher, of that definition.                                *)
ChangesTakeEffect ==
    jobsS = {} /\ ~overlapS =>
        /\ durableS = IF dbS > 0 THEN dbS ELSE 0
        /\ \A c \in connS : {d.v : d \in {e \in tableS[c] : e.v > 0}} =
               IF startS[c] = "yes" /\ dbS > 0 THEN {dbS} ELSE {}

(* A connection that is gone has no dispatcher left, unless it went while *)
(* a start was on its way from the socket to the manager.                 *)
ClosedIsSilent ==
    \A c \in ConnS \ lateS : wsS[c] = "gone" /\ closingS[c] = {} =>
        ~\E d \in runS : d.c = c /\ ~\E job \in jobsS : d \in job.list
=============================================================================
