------------------------------- MODULE Store --------------------------------
(***************************************************************************)
(* The SQL layer (internal/database/sqlcommon): for every collection, its  *)
(* table with the unique indexes of db/migrations, the columns its WHERE   *)
(* clauses name, and the functions that write it; and the transactions     *)
(* those functions run in, which hold back the inserts of events until the *)
(* commit and the notifications of changes until after it.                 *)
(*                                                                         *)
(* A behaviour is about one collection.  A row is reduced to the columns   *)
(* that keys are made of: its namespace, its id (UUID or hash), its name   *)
(* (name, DID, protocol ID, idempotency key, path...), its network name,   *)
(* its hash, and the transaction that wrote it last.  Two transactions run *)
(* at read committed, as PostgreSQL does: an insert waits for a            *)
(* transaction with a conflicting row, an update for one that changed the  *)
(* row, and a failing statement spoils the transaction, unless the insert  *)
(* asked for an empty result on conflict.                                  *)
(***************************************************************************)
EXTENDS Integers, Sequences, FiniteSets

CONSTANTS
    TxDB,           \* transactions
    RowsDB,         \* [ns, id, name, net, hash]: rows the callers write
    FirstDB         \* rows that may be there before
ASSUME TxAssumption == 0 \notin TxDB  \* 0 stands for no transaction
Null == "null"      \* the network name of a row that has none

VARIABLES
    collection,     \* name of the collection this behaviour is about
    storeDB,        \* committed rows: a row of RowsDB with seq and val
    txDB,           \* each transaction, see Idle
    seqDB,          \* sequences drawn
    eventsDB,       \* committed rows of the events table: [ns, seq]
    lockDB,         \* transaction that holds the lock of each namespace, or 0
    createdDB,      \* rows ever inserted by a committed transaction
    notifiedDB      \* rows a change event Created was sent for
varsDB == <<collection, storeDB, txDB, seqDB, eventsDB, lockDB, createdDB, notifiedDB>>
-----------------------------------------------------------------------------
(* A table: the column sets of its unique indexes, the alternatives of    *)
(* the query for an existing row, the WHERE of its update and its delete, *)
(* its functions, and the WHERE of each getter that returns one row.      *)
Table(unique, exists, where, ops, gets) ==
    [unique |-> unique, exists |-> exists, where |-> where, ops |-> ops, gets |-> gets]
Id == {"ns", "id"}
Name == {"ns", "name"}
Net == {"ns", "net"}
Optimized == {"new", "existing", "skip"}

(* The WHERE of each getter that returns one row.                         *)
messagesGets == {Id}
dataGets == {Id}
batchesGets == {Id}
transactionsGets == {Id, Name}
operationsGets == {Id}
datatypesGets == {Id, Name}
offsetsGets == {{"name"}}
namespacesGets == {{"name"}}
subscriptionsGets == {Id, Name}
groupsGets == {Id}
noncesGets == {{"id"}}
tokenpoolGets == {Id, Name, Net}
tokentransferGets == {Id, Name}
tokenapprovalGets == {Id, Name}
tokenbalanceGets == {Name}
ffiGets == {Id, Name, Net}
ffimethodsGets == {Name}
ffieventsGets == {Name}
contractlistenersGets == {Name}
blockchaineventsGets == {Id, Name}
identitiesGets == {Id, Name}
verifiersGets == {Id, Name}
contractapisGets == {Id, Name, Net}

messagesTable == Table({Id, Name}, {Id}, Id \cup {"hash"}, Optimized \cup {"insert", "replace", "update"}, messagesGets)
dataTable == Table({Id}, {Id}, Id \cup {"hash"}, Optimized \cup {"insert", "update", "delete"}, dataGets)
batchesTable == Table({Id}, {Id}, Id, {"insertOrGet", "update"}, batchesGets)
transactionsTable == Table({Id, Name}, {Name}, Id, {"insertOrGet", "update"}, transactionsGets)
operationsTable == Table({{"id"}}, {Id}, Id, {"insert", "update"}, operationsGets)
datatypesTable == Table({Id, Name}, {Id}, {"id"}, {"skip", "insert"}, datatypesGets)
offsetsTable == Table({{"name"}}, {{"name"}}, {"name"}, {"skip", "insert", "update", "delete"}, offsetsGets)
namespacesTable == Table({{"name"}}, {{"name"}}, {"name"}, {"skip", "insert"}, namespacesGets)
subscriptionsTable == Table({{"id"}, Name}, {Name}, Name, {"sameId", "insert", "update", "delete"}, subscriptionsGets)
pinsTable == Table({Name}, {Name}, Id, {"keep", "insert", "update"}, {})
groupsTable == Table({Id}, {Id}, Id, Optimized, groupsGets)
noncesTable == Table({}, {}, {"id"}, {"insert", "update", "delete"}, noncesGets)
nextpinsTable == Table({}, {}, Id, {"insert", "update"}, {})
blobsTable == Table({}, {}, Id, {"insert", "delete"}, {})
tokenpoolTable == Table({{"id"}, Name, Net}, {Name, Net}, {"id"}, Optimized \cup {"insertOrGet", "delete"}, tokenpoolGets)
tokentransferTable == Table({{"id"}, Name}, {Name}, Id, {"insertOrGet"}, tokentransferGets)
tokenapprovalTable == Table({{"id"}, Name}, {Name}, {"name"}, {"skip", "update"}, tokenapprovalGets)
tokenbalanceTable == Table({Name}, {Name}, Name, {"skip"}, tokenbalanceGets)
ffiTable == Table({Id, Name, Net}, {Name, Net}, {"id"}, Optimized \cup {"insertOrGet", "delete"}, ffiGets)
ffimethodsTable == Table({{"name"}}, {Name}, Name, {"skip"}, ffimethodsGets)
ffieventsTable == Table({{"name"}}, {Name}, Name, {"skip"}, ffieventsGets)
ffierrorsTable == Table({{"name"}}, {Name}, Name, {"skip"}, {})
contractapisTable == Table({Id, Name, Net}, {Name, Net}, {"id"}, Optimized \cup {"insertOrGet", "delete"}, contractapisGets)
contractlistenersTable == Table({{"name"}, Name}, {}, Id, {"insert", "update", "delete"}, contractlistenersGets)
blockchaineventsTable == Table({{"id"}, Name}, {Name}, Id, {"insertOrGet", "insert"}, blockchaineventsGets)
identitiesTable == Table({Id, Name}, {Id}, Id, Optimized, identitiesGets)
verifiersTable == Table({Id, Name, Net}, {Id}, Id, Optimized, verifiersGets)    \* the hash covers the namespace
eventsTable == Table({}, {}, Id, {"event"}, {})

Collections ==
    [messages |-> messagesTable, data |-> dataTable, batches |-> batchesTable,
     transactions |-> transactionsTable, operations |-> operationsTable,
     datatypes |-> datatypesTable, offsets |-> offsetsTable, namespaces |-> namespacesTable,
     subscriptions |-> subscriptionsTable, pins |-> pinsTable, groups |-> groupsTable,
     nonces |-> noncesTable, nextpins |-> nextpinsTable, blobs |-> blobsTable,
     tokenpools |-> tokenpoolTable, tokentransfers |-> tokentransferTable,
     tokenapprovals |-> tokenapprovalTable, tokenbalances |-> tokenbalanceTable,
     ffis |-> ffiTable, ffimethods |-> ffimethodsTable, ffievents |-> ffieventsTable,
     ffierrors |-> ffierrorsTable, contractapis |-> contractapisTable,
     contractlisteners |-> contractlistenersTable, blockchainevents |-> blockchaineventsTable,
     identities |-> identitiesTable, verifiers |-> verifiersTable, events |-> eventsTable]
Hashed == {"messages", "data"}
Silent == {"offsets", "namespaces", "nonces", "nextpins", "blobs", "tokenbalances"}
T == Collections[collection]
-----------------------------------------------------------------------------
Agree(r, s, columns) == /\ \A c \in columns : r[c] = s[c]
                        /\ "net" \in columns => r.net # Null    \* a NULL equals nothing
Conflict(r, s) == \E u \in T.unique : Agree(r, s, u)

Idle == [phase |-> "idle", op |-> "none", row |-> CHOOSE r \in RowsDB : TRUE, exists |-> FALSE,
         ins |-> {}, del |-> {}, event |-> FALSE, seq |-> 0, ok |-> FALSE]
Open(t) == txDB[t].phase \notin {"idle", "ended", "committed"}
View(t) == (storeDB \ txDB[t].del) \cup txDB[t].ins
Others(t) == {u \in TxDB : u # t /\ Open(u)}
Change(t, tx) == txDB' = [txDB EXCEPT ![t] = tx]
Row(t) == txDB[t].row

Stored(r, seq, val) == [ns |-> r.ns, id |-> r.id, name |-> r.name, net |-> r.net, hash |-> r.hash, seq |-> seq, val |-> val]

InitDB ==
    /\ collection \in DOMAIN Collections
    /\ \E r \in FirstDB : storeDB \in {{}, {Stored(r, 1, 0)}}
    /\ txDB = [t \in TxDB |-> Idle] /\ seqDB = 1 /\ eventsDB = {}
    /\ lockDB = [n \in {r.ns : r \in RowsDB} |-> 0]
    /\ createdDB = {} /\ notifiedDB = {}

(* Unique indexes make a write wait for another transaction that wrote a  *)
(* conflicting row, and row locks an update for one that changed the row. *)
InsertWaits(t) == \E u \in Others(t) : \E s \in txDB[u].ins \cup txDB[u].del : Conflict(Row(t), s)
Conflicts(t) == \E s \in View(t) : Conflict(Row(t), s)

(* InsertTxExt: what the transaction is after a row went in.              *)
Inserted(t, tx) ==
    [tx EXCEPT !.ins = @ \cup {Stored(Row(t), seqDB + 1, t)}, !.phase = "done", !.ok = TRUE]

(* UpdateTx: every row the WHERE clause names takes the values.           *)
Matching(t, columns) == {s \in View(t) : Agree(Row(t), s, columns)}
Written(t, s) == [s EXCEPT !.name = Row(t).name, !.net = Row(t).net, !.hash = Row(t).hash, !.val = t]
UpdateWaits(t, columns) ==
    \E u \in Others(t) :
        \/ \E s \in txDB[u].del : Agree(Row(t), s, columns)
        \/ \E m \in Matching(t, columns), s \in txDB[u].ins : Conflict(Written(t, m), s)
Updated(t, tx, columns) ==
    LET old == Matching(t, columns)
    IN [tx EXCEPT !.ins = (@ \ old) \cup {Written(t, s) : s \in old}, !.del = @ \cup (old \cap storeDB),
                  !.phase = "done", !.ok = TRUE]
UpdateConflicts(t, columns) ==
    \E s \in Matching(t, columns) : \E x \in View(t) \ Matching(t, columns) : Conflict(Written(t, s), x)
Spoiled(tx) == [tx EXCEPT !.phase = "failed", !.ok = FALSE]
-----------------------------------------------------------------------------
(* A caller begins a transaction and calls a function of the collection.  *)
BeginOrUseTx(t, op, r) ==
    /\ txDB[t].phase = "idle" /\ op \in T.ops
    /\ op = "replace" => \E s \in storeDB : Agree(r, s, Id \cup {"hash"})
    /\ Change(t, [Idle EXCEPT !.phase = "first", !.op = op, !.row = r])
    /\ UNCHANGED <<collection, storeDB, seqDB, eventsDB, lockDB, createdDB, notifiedDB>>

(* InsertEvent: an event is held back until the commit.                   *)
InsertEvent(t) ==
    /\ txDB[t].phase = "first" /\ txDB[t].op = "event"
    /\ Change(t, [txDB[t] EXCEPT !.phase = "done", !.event = TRUE])
    /\ UNCHANGED <<collection, storeDB, seqDB, eventsDB, lockDB, createdDB, notifiedDB>>

(* The first statement of each function: an optimized insert or update    *)
(* that may give way to the query, the query, or the insert itself.       *)
attemptInsert(t) ==
    /\ txDB[t].phase = "first" /\ txDB[t].op \in {"new", "insertOrGet", "insert"}
    /\ ~InsertWaits(t)
    /\ IF Conflicts(t)
       THEN Change(t, CASE txDB[t].op = "new" -> [txDB[t] EXCEPT !.phase = "query"]
                        [] txDB[t].op = "insertOrGet" -> [txDB[t] EXCEPT !.phase = "get"]
                        [] OTHER -> Spoiled(txDB[t]))
            /\ UNCHANGED seqDB
       ELSE Change(t, Inserted(t, txDB[t])) /\ seqDB' = seqDB + 1
    /\ UNCHANGED <<collection, storeDB, eventsDB, lockDB, createdDB, notifiedDB>>
optimized(n) == n = 1
attemptUpdate(t) ==
    /\ txDB[t].phase = "first" /\ txDB[t].op = "existing"
    /\ ~UpdateWaits(t, T.where)
    /\ Change(t, IF UpdateConflicts(t, T.where) THEN Spoiled(txDB[t])
                 ELSE IF optimized(Cardinality(Matching(t, T.where))) THEN Updated(t, txDB[t], T.where)
                 ELSE [Updated(t, txDB[t], T.where) EXCEPT !.phase = "query"])
    /\ UNCHANGED <<collection, storeDB, seqDB, eventsDB, lockDB, createdDB, notifiedDB>>

(* The query for an existing row, and what it decides.  Messages and data *)
(* refuse another hash, subscriptions another ID; a pin is left as it is. *)
Existing(t) == {s \in View(t) : \E e \in T.exists : Agree(Row(t), s, e)}
queryExisting(t) ==
    LET found == Existing(t) IN
    /\ \/ txDB[t].phase = "query"
       \/ txDB[t].phase = "first" /\ txDB[t].op \in {"skip", "sameId", "keep"}
    /\ Change(t, IF collection \in Hashed /\ \E s \in found : s.hash # Row(t).hash THEN Spoiled(txDB[t])
                 ELSE IF txDB[t].op = "sameId" /\ \E s \in found : s.id # Row(t).id THEN Spoiled(txDB[t])
                 ELSE IF txDB[t].op = "keep" /\ found # {} THEN [txDB[t] EXCEPT !.phase = "done"]
                 ELSE [txDB[t] EXCEPT !.phase = "write", !.exists = found # {}])
    /\ UNCHANGED <<collection, storeDB, seqDB, eventsDB, lockDB, createdDB, notifiedDB>>

(* The statement that follows: it uses what the query found.              *)
writeUpdate(t) ==
    /\ txDB[t].phase = "write" /\ txDB[t].exists /\ ~UpdateWaits(t, T.where)
    /\ Change(t, IF UpdateConflicts(t, T.where) THEN Spoiled(txDB[t]) ELSE Updated(t, txDB[t], T.where))
    /\ UNCHANGED <<collection, storeDB, seqDB, eventsDB, lockDB, createdDB, notifiedDB>>
writeInsert(t) ==
    /\ txDB[t].phase = "write" /\ ~txDB[t].exists /\ ~InsertWaits(t)
    /\ IF Conflicts(t) THEN Change(t, Spoiled(txDB[t])) /\ UNCHANGED seqDB
       ELSE Change(t, Inserted(t, txDB[t])) /\ seqDB' = seqDB + 1
    /\ UNCHANGED <<collection, storeDB, eventsDB, lockDB, createdDB, notifiedDB>>

(* InsertOrGet: the row that was in the way, or the error of the insert.  *)
getExisting(t) ==
    /\ txDB[t].phase = "get"
    /\ Change(t, IF \E s \in View(t) : Agree(Row(t), s, {"ns"}) /\ Conflict(Row(t), s)
                 THEN [txDB[t] EXCEPT !.phase = "done"] ELSE Spoiled(txDB[t]))
    /\ UNCHANGED <<collection, storeDB, seqDB, eventsDB, lockDB, createdDB, notifiedDB>>

(* ReplaceMessage, the updates by filter, and the deletes.                *)
Removed2(t, columns) == [txDB[t] EXCEPT !.ins = @ \ Matching(t, columns), !.del = @ \cup (Matching(t, columns) \cap storeDB)]
ReplaceMessage(t) ==
    /\ txDB[t].phase = "first" /\ txDB[t].op = "replace" /\ ~UpdateWaits(t, Id)
    /\ IF Matching(t, Id) = {} THEN Change(t, Spoiled(txDB[t])) /\ UNCHANGED seqDB
       ELSE LET rest == View(t) \ Matching(t, Id) IN
            IF \E s \in rest : Conflict(Row(t), s) THEN Change(t, Spoiled(txDB[t])) /\ UNCHANGED seqDB
            ELSE ~InsertWaits(t) /\ Change(t, Inserted(t, Removed2(t, Id))) /\ seqDB' = seqDB + 1
    /\ UNCHANGED <<collection, storeDB, eventsDB, lockDB, createdDB, notifiedDB>>
updateFiltered(t) ==
    /\ txDB[t].phase = "first" /\ txDB[t].op = "update" /\ ~UpdateWaits(t, Id)
    /\ LET old == Matching(t, Id) IN
       Change(t, [txDB[t] EXCEPT !.ins = (@ \ old) \cup {[s EXCEPT !.val = t] : s \in old},
                                 !.del = @ \cup (old \cap storeDB), !.phase = "done"])
    /\ UNCHANGED <<collection, storeDB, seqDB, eventsDB, lockDB, createdDB, notifiedDB>>
deleteRow(t) ==
    /\ txDB[t].phase = "first" /\ txDB[t].op = "delete" /\ ~UpdateWaits(t, Id)
    /\ Change(t, IF Matching(t, Id) = {} THEN Spoiled(txDB[t]) ELSE [Removed2(t, Id) EXCEPT !.phase = "done"])
    /\ UNCHANGED <<collection, storeDB, seqDB, eventsDB, lockDB, createdDB, notifiedDB>>
-----------------------------------------------------------------------------
(* CommitTx: first the events held back go in, under the lock of their    *)
(* namespace (eventsPCA.PreCommit), then the commit, then the hooks.      *)
AcquireNothing(t) == UNCHANGED lockDB
AcquireLockTx(t) == lockDB[Row(t).ns] = 0 /\ lockDB' = [lockDB EXCEPT ![Row(t).ns] = t]
PreCommit(t) ==
    /\ txDB[t].phase = "done"
    /\ IF txDB[t].event
       THEN /\ AcquireLockTx(t)
            /\ Change(t, [txDB[t] EXCEPT !.phase = "precommit", !.seq = seqDB + 1])
            /\ seqDB' = seqDB + 1
       ELSE Change(t, [txDB[t] EXCEPT !.phase = "precommit"]) /\ UNCHANGED <<lockDB, seqDB>>
    /\ UNCHANGED <<collection, storeDB, eventsDB, createdDB, notifiedDB>>
NewRows(t) == {s \in txDB[t].ins : ~\E old \in storeDB : old.seq = s.seq}
CommitTx(t) ==
    /\ txDB[t].phase = "precommit"
    /\ storeDB' = View(t)
    /\ eventsDB' = IF txDB[t].event THEN eventsDB \cup {[ns |-> Row(t).ns, seq |-> txDB[t].seq]} ELSE eventsDB
    /\ lockDB' = [n \in DOMAIN lockDB |-> IF lockDB[n] = t THEN 0 ELSE lockDB[n]]
    /\ createdDB' = createdDB \cup {s.seq : s \in NewRows(t)}
    /\ Change(t, [txDB[t] EXCEPT !.phase = "committed", !.ins = NewRows(t), !.del = {}])
    /\ UNCHANGED <<collection, seqDB, notifiedDB>>
Over(t) == [Idle EXCEPT !.phase = "ended", !.op = txDB[t].op]
postCommit(t) ==
    /\ txDB[t].phase = "committed"
    /\ notifiedDB' = IF collection \in Silent THEN notifiedDB ELSE notifiedDB \cup {s.seq : s \in txDB[t].ins}
    /\ Change(t, Over(t))
    /\ UNCHANGED <<collection, storeDB, seqDB, eventsDB, lockDB, createdDB>>

(* RollbackTx: after an error, or because the caller failed elsewhere.    *)
rollbackNotifies(t) ==
    /\ txDB[t].phase \in {"failed", "done"}
    /\ notifiedDB' = notifiedDB \cup {s.seq : s \in NewRows(t)}
    /\ Change(t, Over(t))
    /\ UNCHANGED <<collection, storeDB, seqDB, eventsDB, lockDB, createdDB>>
RollbackTx(t) ==
    /\ txDB[t].phase \in {"failed", "done"}
    /\ Change(t, Over(t))
    /\ UNCHANGED <<collection, storeDB, seqDB, eventsDB, lockDB, createdDB, notifiedDB>>

(* Transactions that wait for one another: the database fails one.        *)
abortTx(t) ==
    /\ \/ txDB[t].phase = "first" /\ (InsertWaits(t) \/ UpdateWaits(t, Id))
       \/ txDB[t].phase = "write" /\ (InsertWaits(t) \/ UpdateWaits(t, T.where))
    /\ Change(t, Spoiled(txDB[t]))
    /\ UNCHANGED <<collection, storeDB, seqDB, eventsDB, lockDB, createdDB, notifiedDB>>

NextDB == \E t \in TxDB :
    \/ \E op \in T.ops, r \in RowsDB : BeginOrUseTx(t, op, r)
    \/ InsertEvent(t) \/ attemptInsert(t) \/ attemptUpdate(t) \/ queryExisting(t) \/ writeUpdate(t) \/ writeInsert(t)
    \/ getExisting(t) \/ ReplaceMessage(t) \/ updateFiltered(t) \/ deleteRow(t)
    \/ PreCommit(t) \/ CommitTx(t) \/ postCommit(t) \/ RollbackTx(t) \/ abortTx(t)
SpecDB == InitDB /\ [][NextDB]_varsDB
-----------------------------------------------------------------------------
(* Events of a namespace become visible in the order of their sequences:  *)
(* the poller, which reads on from the last one it saw, misses none.      *)
EventsInOrder ==
    [][\A new \in eventsDB' \ eventsDB, old \in eventsDB : new.ns = old.ns => new.seq > old.seq]_varsDB

(* A change event is sent for a row only once the row is committed, and   *)
(* for every one of them when the work is over.                           *)
NotifiedAreStored ==
    /\ notifiedDB \subseteq createdDB
    /\ (collection \notin Silent /\ \A t \in TxDB : txDB[t].phase \in {"idle", "ended"}) => notifiedDB = createdDB

(* What is stored for an ID under a hash is never stored under another.   *)
HashKept ==
    [][\A r \in storeDB, s \in storeDB' :
          collection \in Hashed /\ r.ns = s.ns /\ r.id = s.id => r.hash = s.hash]_varsDB

(* An upsert that returned no error has left its row, when it commits.    *)
(* Not so for the definitions that are looked up by name and updated by   *)
(* ID, and for a row that another transaction deleted in between.         *)
ByName == {"tokenpools", "ffis", "contractapis"}
Deleting == \E t \in TxDB : txDB[t].op = "delete"
UpsertStored ==
    \A t \in TxDB : txDB[t].phase = "precommit" /\ txDB[t].ok /\ collection \notin ByName /\ ~Deleting
        => \E s \in View(t) : s.val = t /\ (\E e \in T.exists \cup {Id} : Agree(Row(t), s, e))

(* A transaction of one namespace leaves the rows of another alone.  Not  *)
(* so where the WHERE clause has no namespace.                            *)
Unscoped == {"datatypes", "tokenpools", "tokenapprovals", "ffis", "contractapis"}
Shared == {"offsets", "namespaces", "nonces"}      \* have no namespace
NamespacesApart ==
    [][\A t \in TxDB :
          /\ collection \notin Unscoped \cup Shared
          /\ txDB[t].phase = "precommit" /\ txDB'[t].phase = "committed"
          => {s \in storeDB : s.ns # txDB[t].row.ns} = {s \in storeDB' : s.ns # txDB[t].row.ns}]_varsDB

(* A getter that returns one row has only one to return.  Not so for the  *)
(* nonces, whose hash has no unique index.                                *)
GetsAreUnique ==
    collection # "nonces" => \A g \in T.gets : \A r, s \in storeDB : Agree(r, s, g) => r = s
=============================================================================
