---------------------------- MODULE Definitions ----------------------------
(***************************************************************************)
(* Contract interfaces, contract APIs and datatypes (internal/definitions  *)
(* and internal/contracts).  A member defines one for itself, under a      *)
(* local name, or publishes it: a message with a network name goes to the  *)
(* ledger, and every member handles it against the rows it has.  Messages  *)
(* with one network name share a topic and are handled in ledger order;    *)
(* others in any order.  A name is a pair <<base, suffix>>: the loop that  *)
(* looks for a free local name appends a number to the network name.       *)
(***************************************************************************)
EXTENDS Integers, Sequences, FiniteSets

CONSTANTS
    KindsDF,     \* of "interface", "api" and "datatype"
    MembersDF,
    DefsDF,      \* DefsDF[d]: [author, name, loc] of definition d
    NetsDF,      \* network names
    MaxMsgsDF    \* bound: messages sent

(* A published definition has a network name: getFFISender and             *)
(* getContractAPISender replace an empty one by the local name, a datatype *)
(* without a name does not validate.                                       *)
ASSUME DefinitionsAssumption == "" \notin NetsDF

VARIABLES
    kindDF,      \* what is defined in this behaviour
    rowsDF,      \* rowsDF[m]: the table of member m: [id, name, net, msg, loc]
    usedDF,      \* definitions that were given their ID
    sentDF,      \* messages that passed the checks and are not on the ledger
    ledgerDF,    \* messages on the ledger: [id, net, loc]
    doneDF,      \* doneDF[m][p]: what member m made of message p
    putDF        \* (history) published definitions overwritten by an update
varsDF == <<kindDF, rowsDF, usedDF, sentDF, ledgerDF, doneDF, putDF>>

InitDF == /\ kindDF \in KindsDF /\ rowsDF = [m \in MembersDF |-> {}] /\ usedDF = {}
          /\ sentDF = {} /\ ledgerDF = <<>> /\ doneDF = [m \in MembersDF |-> <<>>] /\ putDF = {}

(* A row is published when it has a message (0: none).                    *)
RowDF(d, name, net, msg) == [id |-> d, name |-> name, net |-> net, msg |-> msg, loc |-> DefsDF[d].loc]
RowsWith(m, d) == {r \in rowsDF[m] : r.id = d}
InstallDF(m, row) == rowsDF' = [rowsDF EXCEPT ![m] = {r \in @ : r.id # row.id} \cup {row}]

(* The rows that stand in the way of a row: the unique indexes.           *)
ClashesDF(m, row) == {r \in rowsDF[m] : \/ r.id = row.id \/ r.name = row.name
                                        \/ row.net # "" /\ r.net = row.net}
UpsertFits(m, row) == \A r \in ClashesDF(m, row) : r.id = row.id
-----------------------------------------------------------------------------
(* ResolveContractAPI: the name may not be that of an API elsewhere.      *)
WrongLocation(m, name, loc) == kindDF = "api" /\ \E r \in rowsDF[m] : r.name = name /\ r.loc # loc

(* A definition for the member alone; an existing row is a conflict.      *)
defineLocally(m, d) ==
    LET row == RowDF(d, DefsDF[d].name, "", 0) IN
    /\ kindDF # "datatype" /\ DefsDF[d].author = m /\ d \notin usedDF
    /\ ~WrongLocation(m, row.name, row.loc) /\ ClashesDF(m, row) = {}
    /\ InstallDF(m, row) /\ usedDF' = usedDF \cup {d}
    /\ UNCHANGED <<kindDF, sentDF, ledgerDF, doneDF, putDF>>

(* getFFISender and getContractAPISender: no row has the network name     *)
(* now.  The message is sent when the transaction of the check is over.   *)
sendsDefinition(m, d, n) ==
    /\ ~\E r \in rowsDF[m] : r.net = n
    /\ Len(ledgerDF) + Cardinality(sentDF) < MaxMsgsDF                     \* bound
    /\ sentDF' = sentDF \cup {[id |-> d, net |-> n, loc |-> DefsDF[d].loc]}
    /\ usedDF' = usedDF \cup {d}
    /\ UNCHANGED <<kindDF, rowsDF, ledgerDF, doneDF, putDF>>
definePublished(m, d, n) ==
    /\ DefsDF[d].author = m /\ d \notin usedDF
    /\ ~WrongLocation(m, DefsDF[d].name, DefsDF[d].loc)
    /\ sendsDefinition(m, d, n)
publishDefinition(m, d, n) ==
    /\ \E r \in RowsWith(m, d) : r.msg = 0
    /\ ~\E x \in sentDF : x.id = d /\ x.net = n
    /\ sendsDefinition(m, d, n)

(* The update of an API by its ID, unpublished as requests are unless     *)
(* they say otherwise: reconcileContractAPI overwrites the row.           *)
updateAPI(m, d) ==
    /\ kindDF = "api"
    /\ \E r \in RowsWith(m, d) :
          /\ InstallDF(m, RowDF(d, r.name, "", 0))
          /\ putDF' = IF r.msg # 0 THEN putDF \cup {d} ELSE putDF
    /\ UNCHANGED <<kindDF, usedDF, sentDF, ledgerDF, doneDF>>

(* DeleteFFI and DeleteContractAPI refuse what is published.              *)
deleteAny(m, d) ==
    /\ RowsWith(m, d) # {}
    /\ rowsDF' = [rowsDF EXCEPT ![m] = @ \ RowsWith(m, d)]
    /\ UNCHANGED <<kindDF, usedDF, sentDF, ledgerDF, doneDF, putDF>>
deleteDefinition(m, d) ==
    /\ \E r \in RowsWith(m, d) : r.msg = 0
    /\ rowsDF' = [rowsDF EXCEPT ![m] = @ \ RowsWith(m, d)]
    /\ UNCHANGED <<kindDF, usedDF, sentDF, ledgerDF, doneDF, putDF>>

(* The ledger orders the messages (external).                             *)
pinDefinition(x) ==
    /\ x \in sentDF
    /\ sentDF' = sentDF \ {x} /\ ledgerDF' = Append(ledgerDF, x)
    /\ doneDF' = [m \in MembersDF |-> Append(doneDF[m], "no")]
    /\ UNCHANGED <<kindDF, rowsDF, usedDF, putDF>>
-----------------------------------------------------------------------------
(* What InsertOrGet, called for the i-th name, makes of the message: the  *)
(* query returns any one of the rows in the way.  A result says how the   *)
(* message ends and which row is written, if any.                         *)
Result(how, rows) == [how |-> how, rows |-> rows]
NamedDF(p, i) == RowDF(ledgerDF[p].id, <<ledgerDF[p].net, i>>, ledgerDF[p].net, p)

(* The author's own row becomes the published one, under its local name.  *)
(* When that cannot be written the handler asks to be called again.       *)
adoptAny(m, p, r) ==
    IF UpsertFits(m, [NamedDF(p, 0) EXCEPT !.name = r.name])
    THEN {Result("confirmed", {[NamedDF(p, 0) EXCEPT !.name = r.name]})} ELSE {}
reconcilePublished(m, p, r) ==
    IF r.msg = p THEN {Result("confirmed", {})}
    ELSE IF r.msg = 0 /\ DefsDF[r.id].author = m
    THEN IF UpsertFits(m, [NamedDF(p, 0) EXCEPT !.name = r.name])
         THEN {Result("confirmed", {[NamedDF(p, 0) EXCEPT !.name = r.name]})} ELSE {}
    ELSE {Result("conflict", {})}

attemptName(m, p, i) ==
    LET row == NamedDF(p, i) IN
    IF WrongLocation(m, row.name, row.loc) THEN {Result("location", {})}
    ELSE IF ClashesDF(m, row) = {} THEN {Result("confirmed", {row})}
    ELSE UNION {IF r.id = row.id THEN reconcilePublished(m, p, r)
                ELSE IF r.name = row.name THEN {} ELSE {Result("conflict", {})}
                  : r \in ClashesDF(m, row)}

(* The loop goes on to the next name when the row that came back is       *)
(* another definition with the same local name.                           *)
GoesOn(m, p, i) == /\ ~WrongLocation(m, NamedDF(p, i).name, ledgerDF[p].loc)
                   /\ \E r \in rowsDF[m] : r.id # ledgerDF[p].id /\ r.name = NamedDF(p, i).name
persistDefinition(m, p) ==
    UNION {attemptName(m, p, i) : i \in {k \in 0..Cardinality(rowsDF[m]) : \A j \in 0..(k - 1) : GoesOn(m, p, j)}}

(* handleDatatypeBroadcast: the first of a name and version.              *)
firstDatatype(m, p) ==
    IF \E r \in rowsDF[m] : r.net = ledgerDF[p].net THEN {Result("conflict", {})}
    ELSE {Result("confirmed", {NamedDF(p, 0)})}

InTopicOrder(m, p) == \A q \in 1..(p - 1) : ledgerDF[q].net = ledgerDF[p].net => doneDF[m][q] # "no"
handleDefinition(m, p) ==
    /\ doneDF[m][p] = "no" /\ InTopicOrder(m, p)
    /\ \E res \in IF kindDF = "datatype" THEN firstDatatype(m, p) ELSE persistDefinition(m, p) :
          /\ doneDF' = [doneDF EXCEPT ![m][p] = res.how]
          /\ IF res.rows = {} THEN UNCHANGED rowsDF ELSE \E row \in res.rows : InstallDF(m, row)
    /\ UNCHANGED <<kindDF, usedDF, sentDF, ledgerDF, putDF>>

NextDF == \/ \E m \in MembersDF, d \in DOMAIN DefsDF :
                \/ defineLocally(m, d) \/ updateAPI(m, d) \/ deleteDefinition(m, d)
                \/ \E n \in NetsDF : definePublished(m, d, n) \/ publishDefinition(m, d, n)
          \/ \E x \in sentDF : pinDefinition(x)
          \/ \E m \in MembersDF, p \in DOMAIN ledgerDF : handleDefinition(m, p)

SpecDF == InitDF /\ [][NextDF]_varsDF
-----------------------------------------------------------------------------
(* Members that have handled a message agree on it, whatever local names  *)
(* they use and whichever of two senders with one network name was first. *)
(* Excused are messages under a name that some member refused for the     *)
(* location of a local API or overwrote by an update, and definitions     *)
(* that were published twice before the first was confirmed.              *)
SameNet(p) == {q \in DOMAIN ledgerDF : ledgerDF[q].net = ledgerDF[p].net}
Excused(p) == \/ \E q \in DOMAIN ledgerDF \ {p} : ledgerDF[q].id = ledgerDF[p].id
              \/ \E q \in SameNet(p) : ledgerDF[q].id \in putDF \/ \E m \in MembersDF : doneDF[m][q] = "location"
              \/ \E q \in SameNet(p), t \in DOMAIN ledgerDF : q # t /\ ledgerDF[q].id = ledgerDF[t].id
DefinitionsAgree ==
    \A p \in DOMAIN ledgerDF : \A a, b \in MembersDF :
        doneDF[a][p] # "no" /\ doneDF[b][p] # "no" => doneDF[a][p] = doneDF[b][p] \/ Excused(p)

(* A definition that a member confirmed is in its table under its network *)
(* name, and stays there, unless the member overwrote it by an update.    *)
ConfirmedIsKept ==
    \A m \in MembersDF : \A p \in DOMAIN ledgerDF :
        doneDF[m][p] = "confirmed" /\ ledgerDF[p].id \notin putDF =>
            \E r \in rowsDF[m] : r.msg = p /\ r.net = ledgerDF[p].net /\ r.id = ledgerDF[p].id
=============================================================================
