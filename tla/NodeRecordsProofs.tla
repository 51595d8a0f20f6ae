-------------------------- MODULE NodeRecordsProofs --------------------------
(***************************************************************************)
(* Proofs about what a node keeps: the tables of the database, operations, *)
(* token balances, the namespaces it serves, and the definitions on which  *)
(* the members of a network agree.                                         *)
(***************************************************************************)
EXTENDS NodeOutboundProofs, SumTheorems, SequenceTheorems

---------------------------------------------------------------------------
(* The SQL tables *)

(* What the proofs need to know of a table.  Tables with upserts: the      *)
(* WHERE clause names a unique index (but for the namespace), as do the    *)
(* indexes over namespaces, so that an update gives no two rows one key;   *)
(* and what an upsert looks for it keeps.                                  *)
UpsertOps == {"new", "existing", "skip", "sameId"}
ColsDB == {"ns", "id", "name", "net", "hash"}
KeptOf(t) == {c \in {"ns", "id", "name", "hash"} : c \in t.where \/ \E e \in t.exists : c \in e}
WhereIsKey(t) ==
    /\ t.unique = {} \/ \E u \in t.unique : "net" \notin u /\ u \subseteq t.where \cup {"ns"}
    /\ \A u \in t.unique : "ns" \in u \/ u = {"id"} \/ (u \subseteq t.where /\ "net" \notin u)
UpsertKeeps(t) ==
    /\ \A c \in KeptOf(t) : c \in {"ns", "id"} \/ c \in t.where
    /\ t.where \subseteq {"ns", "id", "name", "hash"}
    /\ \A e \in t.exists : e \subseteq {"ns", "id", "name"} /\ t.where \subseteq e \cup {"hash"}
    /\ "existing" \in t.ops => Id \subseteq t.where /\ \E u \in t.unique : "net" \notin u /\ u \subseteq t.where
TableOK(name, t) ==
    /\ t.ops \cap UpsertOps # {} => WhereIsKey(t)
    /\ t.ops \cap UpsertOps # {} /\ name \notin ByName => UpsertKeeps(t)
    /\ \A e \in t.exists : name \notin ByName => e \subseteq {"ns", "id", "name"}
    /\ t.where \subseteq {"ns", "id", "name", "hash"}
    /\ "hash" \in t.where <=> name \in Hashed
    /\ name # "nonces" => \A g \in t.gets : \E u \in t.unique : u \subseteq g
    /\ name \notin Unscoped \cup Shared => "ns" \in t.where
    /\ name \in Hashed => Id \in t.unique /\ t.where = Id \cup {"hash"} /\ t.exists = {Id}
    /\ "replace" \in t.ops => name = "messages"
    /\ name = "messages" => "delete" \notin t.ops
    /\ \A u \in t.unique : u \subseteq ColsDB
    /\ "none" \notin t.ops

(* Every table is like that.                                               *)
LEMMA TableFacts == ASSUME collection \in DOMAIN Collections PROVE TableOK(collection, T)
<1> USE DEF TableOK, WhereIsKey, UpsertKeeps, KeptOf, UpsertOps, ColsDB, Table, Id, Name, Net, Optimized, Hashed, ByName, Unscoped, Shared
<1>1. TableOK("messages", messagesTable) BY DEF messagesTable, messagesGets
<1>2. TableOK("data", dataTable) BY DEF dataTable, dataGets
<1>3. TableOK("batches", batchesTable) BY DEF batchesTable, batchesGets
<1>4. TableOK("transactions", transactionsTable) BY DEF transactionsTable, transactionsGets
<1>5. TableOK("operations", operationsTable) BY DEF operationsTable, operationsGets
<1>6. TableOK("datatypes", datatypesTable) BY DEF datatypesTable, datatypesGets
<1>7. TableOK("offsets", offsetsTable) BY DEF offsetsTable, offsetsGets
<1>8. TableOK("namespaces", namespacesTable) BY DEF namespacesTable, namespacesGets
<1>9. TableOK("subscriptions", subscriptionsTable) BY DEF subscriptionsTable, subscriptionsGets
<1>10. TableOK("pins", pinsTable) BY DEF pinsTable
<1>11. TableOK("groups", groupsTable) BY DEF groupsTable, groupsGets
<1>12. TableOK("nonces", noncesTable) BY DEF noncesTable, noncesGets
<1>13. TableOK("nextpins", nextpinsTable) BY DEF nextpinsTable
<1>14. TableOK("blobs", blobsTable) BY DEF blobsTable
<1>15. TableOK("tokenpools", tokenpoolTable) BY DEF tokenpoolTable, tokenpoolGets
<1>16. TableOK("tokentransfers", tokentransferTable) BY DEF tokentransferTable, tokentransferGets
<1>17. TableOK("tokenapprovals", tokenapprovalTable) BY DEF tokenapprovalTable, tokenapprovalGets
<1>18. TableOK("tokenbalances", tokenbalanceTable) BY DEF tokenbalanceTable, tokenbalanceGets
<1>19. TableOK("ffis", ffiTable) BY DEF ffiTable, ffiGets
<1>20. TableOK("ffimethods", ffimethodsTable) BY DEF ffimethodsTable, ffimethodsGets
<1>21. TableOK("ffievents", ffieventsTable) BY DEF ffieventsTable, ffieventsGets
<1>22. TableOK("ffierrors", ffierrorsTable) BY DEF ffierrorsTable
<1>23. TableOK("contractapis", contractapisTable) BY DEF contractapisTable, contractapisGets
<1>24. TableOK("contractlisteners", contractlistenersTable) BY DEF contractlistenersTable, contractlistenersGets
<1>25. TableOK("blockchainevents", blockchaineventsTable) BY DEF blockchaineventsTable, blockchaineventsGets
<1>26. TableOK("identities", identitiesTable) BY DEF identitiesTable, identitiesGets
<1>27. TableOK("verifiers", verifiersTable) BY DEF verifiersTable, verifiersGets
<1>28. TableOK("events", eventsTable) BY DEF eventsTable
<1> HIDE DEF TableOK, WhereIsKey, UpsertKeeps, KeptOf, UpsertOps, ColsDB, Table, Id, Name, Net, Optimized, Hashed, ByName, Unscoped, Shared
<1> QED
  BY <1>1, <1>2, <1>3, <1>4, <1>5, <1>6, <1>7, <1>8, <1>9, <1>10, <1>11, <1>12, <1>13, <1>14, <1>15, <1>16, <1>17, <1>18, <1>19, <1>20, <1>21, <1>22, <1>23, <1>24, <1>25, <1>26, <1>27, <1>28 DEF T, Collections

(* Rows that agree in the columns of keys are in each other's way alike.   *)
CopyOf(r, s) == \A c \in ColsDB : r[c] = s[c]
LEMMA AgreeIs ==
    ASSUME NEW r, NEW s, NEW columns
    PROVE  Agree(r, s, columns) <=> (\A c \in columns : r[c] = s[c]) /\ ("net" \in columns => r["net"] # Null)
<1>1. r.net = r["net"] OBVIOUS
<1> QED BY <1>1 DEF Agree
LEMMA ConflictCopies ==
    ASSUME collection \in DOMAIN Collections, NEW r, NEW s, NEW p, NEW q, CopyOf(r, p), CopyOf(s, q), Conflict(p, q)
    PROVE  Conflict(r, s)
<1>1. PICK u \in T.unique : Agree(p, q, u) BY DEF Conflict
<1>2. u \subseteq ColsDB BY TableFacts DEF TableOK
<1>3. "net" \in ColsDB BY DEF ColsDB
<1>4. Agree(r, s, u)
  <2>1. (\A c \in u : p[c] = q[c]) /\ ("net" \in u => p["net"] # Null) BY <1>1, AgreeIs
  <2>2. (\A c \in u : r[c] = s[c]) /\ ("net" \in u => r["net"] # Null) BY <1>2, <1>3, <2>1 DEF CopyOf
  <2> QED BY <2>2, AgreeIs
<1> QED BY <1>4 DEF Conflict
LEMMA ConflictBack == ASSUME NEW r, NEW s, Conflict(r, s) PROVE Conflict(s, r)
<1>1. PICK u \in T.unique : Agree(r, s, u) BY DEF Conflict
<1>2. (\A c \in u : r[c] = s[c]) /\ ("net" \in u => r["net"] # Null) BY <1>1, AgreeIs
<1>3. (\A c \in u : s[c] = r[c]) /\ ("net" \in u => s["net"] # Null) BY <1>2
<1>4. Agree(s, r, u) BY <1>3, AgreeIs
<1> QED BY <1>4 DEF Conflict

(* A stored row has the columns of the row it is made of; an update gives  *)
(* a row the name, the network name and the hash of the caller's.          *)
RowCols == {"ns", "id", "name", "net", "hash", "seq", "val"}
LEMMA StoredIs ==
    ASSUME NEW r, NEW seq, NEW val
    PROVE  /\ DOMAIN Stored(r, seq, val) = RowCols /\ CopyOf(Stored(r, seq, val), r)
           /\ Stored(r, seq, val).seq = seq /\ Stored(r, seq, val).val = val /\ Stored(r, seq, val).ns = r.ns
<1>1. /\ Stored(r, seq, val).ns = r.ns /\ Stored(r, seq, val).id = r.id /\ Stored(r, seq, val).name = r.name
      /\ Stored(r, seq, val).net = r.net /\ Stored(r, seq, val).hash = r.hash
      /\ Stored(r, seq, val).seq = seq /\ Stored(r, seq, val).val = val
      /\ DOMAIN Stored(r, seq, val) = RowCols
  BY DEF Stored, RowCols
<1> QED BY <1>1 DEF CopyOf, ColsDB
LEMMA WrittenIs ==
    ASSUME NEW t, NEW s, DOMAIN s = RowCols
    PROVE  /\ DOMAIN Written(t, s) = RowCols
           /\ Written(t, s)["ns"] = s["ns"] /\ Written(t, s)["id"] = s["id"]
           /\ Written(t, s)["name"] = Row(t)["name"] /\ Written(t, s)["net"] = Row(t)["net"]
           /\ Written(t, s)["hash"] = Row(t)["hash"] /\ Written(t, s).val = t
BY DEF Written, RowCols
LEMMA FilteredIs ==
    ASSUME NEW t, NEW s, DOMAIN s = RowCols
    PROVE  DOMAIN [s EXCEPT !.val = t] = RowCols /\ CopyOf([s EXCEPT !.val = t], s)
BY DEF RowCols, CopyOf, ColsDB

(* A transaction: what it has written conflicts with nothing that stays;   *)
(* of a row it took out it has one with the columns it may be found by,    *)
(* under the same hash; all is of its namespace; and what it goes by is    *)
(* there: the row to be replaced, the row found, the row it has left.      *)
IsOpen(tx) == tx.phase \notin {"idle", "ended", "committed"}
KeepsDB == collection \notin ByName /\ ~Deleting
TxFields == {"phase", "op", "row", "exists", "ins", "del", "event", "seq", "ok"}
TxType(tx) ==
    /\ DOMAIN tx = TxFields /\ tx.op \in T.ops \cup {"none"}
    /\ \A r \in tx.ins \cup tx.del : DOMAIN r = RowCols
TxPhase(tx) ==
    /\ tx.phase = "idle" => tx.op = "none"
    /\ tx.phase \in {"first", "get"} => tx.ok = FALSE
    /\ tx.phase = "query" => tx.op \in {"new", "existing"}
    /\ tx.phase = "write" => tx.op \in UpsertOps \cup {"keep"}
    /\ tx.phase = "write" /\ tx.exists => tx.op \in UpsertOps
    /\ tx.phase = "first" => tx.ins = {} /\ tx.del = {}
    /\ tx.phase \in {"query", "write", "get"} /\ collection \notin ByName => tx.ins = {} /\ tx.del = {}
TxView(tx) ==
    IsOpen(tx) => /\ \A r \in storeDB \ tx.del, s \in tx.ins : ~Conflict(r, s)
                  /\ \A r, s \in tx.ins : Conflict(r, s) => r = s
TxKept(tx) ==
    IsOpen(tx) =>
        /\ KeepsDB => \A r \in tx.del : \E s \in tx.ins : \A c \in KeptOf(T) : s[c] = r[c]
        /\ collection \in Hashed => \A r \in tx.del, s \in tx.ins :
              r["ns"] = s["ns"] /\ r["id"] = s["id"] => r["hash"] = s["hash"]
        /\ collection \notin Unscoped \cup Shared => \A r \in tx.ins \cup tx.del : r["ns"] = tx.row["ns"]
TxFound(t, tx) ==
    /\ tx.phase = "first" /\ tx.op = "replace" => \E s \in storeDB : \A c \in Id \cup {"hash"} : tx.row[c] = s[c]
    /\ tx.phase = "write" /\ tx.exists /\ KeepsDB =>
          \E s \in storeDB : \E e \in T.exists : \A c \in e \cup T.where : tx.row[c] = s[c]
    /\ tx.phase \in {"done", "precommit"} /\ (tx.ok = TRUE) /\ KeepsDB =>
          \E s \in tx.ins : \E e \in T.exists \cup {Id} : s.val = t /\ \A c \in e : tx.row[c] = s[c]
TxOK(t, tx) == TxType(tx) /\ TxPhase(tx) /\ TxView(tx) /\ TxKept(tx) /\ TxFound(t, tx)
ApartDB(tx, ty) == IsOpen(tx) /\ IsOpen(ty) => \A r \in tx.ins, s \in ty.ins : ~Conflict(r, s)
TableInv ==
    /\ collection \in DOMAIN Collections /\ DOMAIN txDB = TxDB
    /\ \A r \in storeDB : DOMAIN r = RowCols
    /\ \A r, s \in storeDB : Conflict(r, s) => r = s
    /\ \A t \in TxDB : \A tx \in {txDB[t]} : TxOK(t, tx)
    /\ \A t, u \in TxDB : t # u => \A tx \in {txDB[t]}, ty \in {txDB[u]} : ApartDB(tx, ty)

(* It holds of empty tables and of a first row.                            *)
LEMMA IdleIs ==
    /\ DOMAIN Idle = TxFields /\ Idle.phase = "idle" /\ Idle.op = "none" /\ Idle.exists = FALSE
    /\ Idle.ins = {} /\ Idle.del = {} /\ Idle.event = FALSE /\ Idle.seq = 0 /\ Idle.ok = FALSE
BY DEF Idle, TxFields
LEMMA TableInit == ASSUME InitDB PROVE TableInv
<1>1. collection \in DOMAIN Collections /\ txDB = [t \in TxDB |-> Idle] BY DEF InitDB
<1>2. (\A r \in storeDB : DOMAIN r = RowCols) /\ (\A r, s \in storeDB : r = s)
  <2>1. PICK r : storeDB \in {{}, {Stored(r, 1, 0)}} BY DEF InitDB
  <2> QED BY <2>1, StoredIs
<1>3. \A t \in TxDB : txDB[t] = Idle BY <1>1
<1>4. ASSUME NEW t PROVE TxOK(t, Idle)
  BY IdleIs DEF TxOK, TxType, TxPhase, TxView, TxKept, TxFound, IsOpen
<1>5. ApartDB(Idle, Idle) BY IdleIs DEF ApartDB, IsOpen
<1> QED BY <1>1, <1>2, <1>3, <1>4, <1>5 DEF TableInv

(* A step of one transaction that changes no stored row.                   *)
LEMMA LocalKeeps ==
    ASSUME TableInv, NEW t \in TxDB, NEW tx, Change(t, tx), storeDB' = storeDB, collection' = collection,
           TxOK(t, tx), txDB[t].op = "delete" => tx.op = "delete",
           \A u \in TxDB \ {t} : \A ty \in {txDB[u]} : ApartDB(tx, ty)
    PROVE  TableInv'
<1>1. DOMAIN txDB' = TxDB /\ txDB'[t] = tx /\ \A u \in TxDB \ {t} : txDB'[u] = txDB[u] BY DEF Change, TableInv
<1>2. KeepsDB' => KeepsDB
  <2>1. Deleting => Deleting' BY <1>1 DEF Deleting
  <2> QED BY <2>1 DEF KeepsDB
<1>3. T' = T /\ \A r, s : Conflict(r, s)' <=> Conflict(r, s) BY DEF T, Conflict
<1>4. ASSUME NEW u, NEW ty, TxOK(u, ty) PROVE TxOK(u, ty)'
  <2>1. TxType(ty)' BY <1>3, <1>4 DEF TxOK, TxType
  <2>2. TxPhase(ty)' BY <1>4 DEF TxOK, TxPhase
  <2>3. TxView(ty)' BY <1>3, <1>4 DEF TxOK, TxView
  <2>4. TxKept(ty)' BY <1>2, <1>3, <1>4 DEF TxOK, TxKept
  <2>5. TxFound(u, ty)' BY <1>2, <1>3, <1>4 DEF TxOK, TxFound
  <2> QED BY <2>1, <2>2, <2>3, <2>4, <2>5 DEF TxOK
<1>5. \A u \in TxDB : \A ty \in {txDB'[u]} : TxOK(u, ty)' BY <1>1, <1>4 DEF TableInv
<1>6. \A tz, ty : ApartDB(tz, ty) => ApartDB(tz, ty)' /\ ApartDB(ty, tz)
  BY <1>3, ConflictBack DEF ApartDB
<1>7. \A u, v \in TxDB : u # v => \A tz \in {txDB'[u]}, ty \in {txDB'[v]} : ApartDB(tz, ty)'
  BY <1>1, <1>6 DEF TableInv
<1> QED BY <1>1, <1>3, <1>5, <1>7 DEF TableInv

(* What the invariant says of one transaction and another.                 *)
LEMMA TxFacts ==
    ASSUME TableInv, NEW t \in TxDB, NEW tx, tx = txDB[t]
    PROVE  /\ TxOK(t, tx) /\ (Open(t) <=> IsOpen(tx))
           /\ View(t) = (storeDB \ tx.del) \cup tx.ins /\ Row(t) = tx.row
           /\ \A u \in TxDB \ {t} : \A ty \in {txDB[u]} : ApartDB(tx, ty)
           /\ IsOpen(tx) => \A r, s \in View(t) : Conflict(r, s) => r = s
           /\ \A r \in View(t) : DOMAIN r = RowCols
           /\ collection \in DOMAIN Collections /\ TableOK(collection, T)
<1>1. TxOK(t, tx) /\ \A u \in TxDB \ {t} : \A ty \in {txDB[u]} : ApartDB(tx, ty) BY DEF TableInv
<1>2. (Open(t) <=> IsOpen(tx)) /\ View(t) = (storeDB \ tx.del) \cup tx.ins /\ Row(t) = tx.row
  BY DEF Open, IsOpen, View, Row
<1>3. ASSUME IsOpen(tx), NEW r \in View(t), NEW s \in View(t), Conflict(r, s) PROVE r = s
  <2>1. CASE r \in storeDB \ tx.del /\ s \in storeDB \ tx.del BY <1>3, <2>1 DEF TableInv
  <2>2. CASE r \in tx.ins /\ s \in tx.ins BY <1>1, <1>3, <2>2 DEF TxOK, TxView
  <2>3. CASE r \in storeDB \ tx.del /\ s \in tx.ins BY <1>1, <1>3, <2>3 DEF TxOK, TxView
  <2>4. CASE r \in tx.ins /\ s \in storeDB \ tx.del BY <1>1, <1>3, <2>4, ConflictBack DEF TxOK, TxView
  <2> QED BY <1>2, <2>1, <2>2, <2>3, <2>4
<1>4. \A r \in View(t) : DOMAIN r = RowCols BY <1>1, <1>2 DEF TableInv, TxOK, TxType
<1>5. collection \in DOMAIN Collections BY DEF TableInv
<1>6. TableOK(collection, T) BY <1>5, TableFacts
<1> QED BY <1>1, <1>2, <1>3, <1>4, <1>5, <1>6

(* A step that leaves a transaction what it has written.                   *)
LEMMA SameRows ==
    ASSUME TableInv, NEW t \in TxDB, Open(t), NEW tx, Change(t, tx), storeDB' = storeDB, collection' = collection,
           tx.ins = txDB[t].ins, tx.del = txDB[t].del, tx.row = txDB[t].row, tx.op = txDB[t].op,
           DOMAIN tx = TxFields, TxPhase(tx), TxFound(t, tx)
    PROVE  TableInv'
<1>1. PICK old : old = txDB[t] OBVIOUS
<1>2. TxOK(t, old) /\ IsOpen(old) /\ \A u \in TxDB \ {t} : \A ty \in {txDB[u]} : ApartDB(old, ty) BY <1>1, TxFacts
<1>3. tx.ins = old.ins /\ tx.del = old.del /\ tx.row = old.row /\ tx.op = old.op BY <1>1
<1>4. TxType(tx) BY <1>2, <1>3 DEF TxOK, TxType
<1>5. TxView(tx) /\ TxKept(tx) BY <1>2, <1>3 DEF TxOK, TxView, TxKept
<1>6. \A u \in TxDB \ {t} : \A ty \in {txDB[u]} : ApartDB(tx, ty) BY <1>2, <1>3 DEF ApartDB
<1>7. TxOK(t, tx) BY <1>4, <1>5 DEF TxOK
<1> QED BY <1>1, <1>3, <1>6, <1>7, LocalKeeps

(* A step that takes the rows gone out and puts the rows made in.          *)
LEMMA MadeKeeps ==
    ASSUME TableInv, NEW t \in TxDB, Open(t), NEW tx, Change(t, tx), storeDB' = storeDB, collection' = collection,
           NEW gone, NEW made, tx.ins = (txDB[t].ins \ gone) \cup made, tx.del = txDB[t].del \cup (gone \cap storeDB),
           tx.row = txDB[t].row, tx.op = txDB[t].op, DOMAIN tx = TxFields, TxPhase(tx), TxFound(t, tx),
           collection \notin ByName => txDB[t].ins = {} /\ txDB[t].del = {},
           gone \subseteq View(t), \A m \in made : DOMAIN m = RowCols,
           \A m \in made, s \in View(t) \ gone : ~Conflict(m, s),
           \A m, n \in made : Conflict(m, n) => m = n,
           \A u \in Others(t) : \A m \in made, s \in txDB[u].ins : ~Conflict(m, s),
           collection \notin Unscoped \cup Shared => \A r \in gone \cup made : r["ns"] = Row(t)["ns"],
           KeepsDB => \A r \in gone : \E m \in made : \A c \in KeptOf(T) : m[c] = r[c],
           collection \in Hashed => \A r \in gone, m \in made :
              r["ns"] = m["ns"] /\ r["id"] = m["id"] => r["hash"] = m["hash"]
    PROVE  TableInv'
<1>1. PICK old : old = txDB[t] OBVIOUS
<1>2. /\ TxOK(t, old) /\ IsOpen(old) /\ View(t) = (storeDB \ old.del) \cup old.ins /\ Row(t) = old.row
      /\ \A u \in TxDB \ {t} : \A ty \in {txDB[u]} : ApartDB(old, ty)
      /\ \A r \in View(t) : DOMAIN r = RowCols
  BY <1>1, TxFacts
<1>3. /\ tx.ins = (old.ins \ gone) \cup made /\ tx.del = old.del \cup (gone \cap storeDB)
      /\ tx.row = old.row /\ tx.op = old.op
  BY <1>1
<1>4. TxType(tx) BY <1>2, <1>3 DEF TxOK, TxType
<1>5. TxView(tx)
  <2>1. \A r \in storeDB \ tx.del, s \in tx.ins : ~Conflict(r, s)
    <3> SUFFICES ASSUME NEW r \in storeDB \ tx.del, NEW s \in tx.ins PROVE ~Conflict(r, s) OBVIOUS
    <3>1. r \in storeDB \ old.del /\ r \notin gone /\ r \in View(t) BY <1>2, <1>3
    <3>2. CASE s \in made BY <3>1, <3>2, ConflictBack
    <3>3. CASE s \in old.ins BY <1>2, <3>1, <3>3 DEF TxOK, TxView
    <3> QED BY <1>3, <3>2, <3>3
  <2>2. \A r, s \in tx.ins : Conflict(r, s) => r = s
    <3> SUFFICES ASSUME NEW r \in tx.ins, NEW s \in tx.ins, Conflict(r, s) PROVE r = s OBVIOUS
    <3>1. \A q \in old.ins \ gone : q \in View(t) \ gone BY <1>2
    <3>2. CASE r \in made /\ s \in made BY <3>2
    <3>3. CASE r \in made /\ s \in old.ins \ gone BY <3>1, <3>3
    <3>4. CASE r \in old.ins \ gone /\ s \in made BY <3>1, <3>4, ConflictBack
    <3>5. CASE r \in old.ins /\ s \in old.ins BY <1>2, <3>5 DEF TxOK, TxView
    <3> QED BY <1>3, <3>2, <3>3, <3>4, <3>5
  <2> QED BY <2>1, <2>2 DEF TxView
<1>6. TxKept(tx)
  <2>1. collection \notin ByName => tx.ins = made /\ tx.del \subseteq gone BY <1>1, <1>3
  <2>2. KeepsDB => \A r \in tx.del : \E s \in tx.ins : \A c \in KeptOf(T) : s[c] = r[c] BY <2>1 DEF KeepsDB
  <2>3. collection \in Hashed => \A r \in tx.del, s \in tx.ins :
              r["ns"] = s["ns"] /\ r["id"] = s["id"] => r["hash"] = s["hash"]
    BY <2>1 DEF Hashed, ByName
  <2>4. collection \notin Unscoped \cup Shared => \A r \in tx.ins \cup tx.del : r["ns"] = tx.row["ns"]
    BY <1>2, <1>3 DEF TxOK, TxKept
  <2> QED BY <2>2, <2>3, <2>4 DEF TxKept
<1>7. \A u \in TxDB \ {t} : \A ty \in {txDB[u]} : ApartDB(tx, ty)
  <2> SUFFICES ASSUME NEW u \in TxDB \ {t}, NEW ty, ty = txDB[u], IsOpen(ty), NEW r \in tx.ins, NEW s \in ty.ins
               PROVE  ~Conflict(r, s)
    BY DEF ApartDB
  <2>1. u \in Others(t) BY DEF Others, Open, IsOpen
  <2>2. CASE r \in made BY <2>1, <2>2
  <2>3. CASE r \in old.ins BY <1>2, <2>3 DEF ApartDB
  <2> QED BY <1>3, <2>2, <2>3
<1>8. TxOK(t, tx) BY <1>4, <1>5, <1>6 DEF TxOK
<1> QED BY <1>1, <1>3, <1>7, <1>8, LocalKeeps

(* A row that goes in in place of the rows gone.                           *)
LEMMA InsertKeeps ==
    ASSUME TableInv, NEW t \in TxDB, Open(t), NEW tx, Change(t, tx), storeDB' = storeDB, collection' = collection,
           NEW gone, NEW new, new = Stored(Row(t), seqDB + 1, t),
           tx.ins = (txDB[t].ins \ gone) \cup {new}, tx.del = txDB[t].del \cup (gone \cap storeDB),
           tx.row = txDB[t].row, tx.op = txDB[t].op, DOMAIN tx = TxFields, tx.phase = "done",
           collection \notin ByName => txDB[t].ins = {} /\ txDB[t].del = {},
           gone \subseteq View(t), ~InsertWaits(t), \A s \in View(t) \ gone : ~Conflict(Row(t), s),
           \A g \in gone : \A c \in {"ns", "id"} : Row(t)[c] = g[c],
           gone # {} => collection \in Hashed /\ \A g \in gone : Row(t)["hash"] = g["hash"]
    PROVE  TableInv'
<1>1. PICK old : old = txDB[t] OBVIOUS
<1>2. TxOK(t, old) /\ Row(t) = old.row /\ TableOK(collection, T) /\ collection \in DOMAIN Collections BY <1>1, TxFacts
<1>3. DOMAIN new = RowCols /\ new.val = t /\ \A c \in ColsDB : new[c] = old.row[c]
  <2>1. DOMAIN new = RowCols /\ new.val = t /\ CopyOf(new, Row(t)) BY StoredIs
  <2> QED BY <1>2, <2>1 DEF CopyOf
<1>4. \A c \in {"ns", "id", "hash"} : new[c] = old.row[c] BY <1>3 DEF ColsDB
<1>5. \A s : Conflict(new, s) => Conflict(Row(t), s)
  <2> SUFFICES ASSUME NEW s, Conflict(new, s) PROVE Conflict(Row(t), s) OBVIOUS
  <2>1. CopyOf(Row(t), new) /\ CopyOf(s, s) BY <1>2, <1>3 DEF CopyOf
  <2> QED BY <1>2, <2>1, ConflictCopies
<1>6. \A m \in {new}, s \in View(t) \ gone : ~Conflict(m, s) BY <1>5
<1>7. \A u \in Others(t) : \A m \in {new}, s \in txDB[u].ins : ~Conflict(m, s) BY <1>5 DEF InsertWaits
<1>8. \A r \in gone \cup {new} : r["ns"] = Row(t)["ns"] BY <1>2, <1>4
<1>9. KeepsDB => \A r \in gone : \E m \in {new} : \A c \in KeptOf(T) : m[c] = r[c]
  <2> SUFFICES ASSUME KeepsDB, NEW r \in gone, NEW c \in KeptOf(T) PROVE new[c] = r[c] OBVIOUS
  <2>1. c \in {"ns", "id", "hash"} BY <1>2 DEF KeptOf, TableOK, Id
  <2> QED BY <1>2, <1>4, <2>1
<1>10. collection \in Hashed => \A r \in gone, m \in {new} :
              r["ns"] = m["ns"] /\ r["id"] = m["id"] => r["hash"] = m["hash"]
  BY <1>2, <1>4
<1>11. TxPhase(tx) BY <1>1, <1>2 DEF TxPhase
<1>12. TxFound(t, tx)
  <2>1. new \in tx.ins /\ new.val = t /\ \A c \in Id : tx.row[c] = new[c] BY <1>1, <1>3, <1>4 DEF Id
  <2> QED BY <2>1 DEF TxFound
<1>13. PICK made : made = {new} OBVIOUS
<1>14. /\ tx.ins = (txDB[t].ins \ gone) \cup made
       /\ \A m \in made : DOMAIN m = RowCols
       /\ \A m \in made, s \in View(t) \ gone : ~Conflict(m, s)
       /\ \A m, n \in made : Conflict(m, n) => m = n
       /\ \A u \in Others(t) : \A m \in made, s \in txDB[u].ins : ~Conflict(m, s)
       /\ \A r \in gone \cup made : r["ns"] = Row(t)["ns"]
  BY <1>3, <1>6, <1>7, <1>8, <1>13
<1>15. /\ KeepsDB => \A r \in gone : \E m \in made : \A c \in KeptOf(T) : m[c] = r[c]
       /\ collection \in Hashed => \A r \in gone, m \in made :
              r["ns"] = m["ns"] /\ r["id"] = m["id"] => r["hash"] = m["hash"]
  BY <1>9, <1>10, <1>13
<1> QED BY <1>11, <1>12, <1>14, <1>15, MadeKeeps

(* The rows an update matches, and those it makes of them.                 *)
LEMMA MatchingIs ==
    ASSUME NEW t, NEW columns, "net" \notin columns
    PROVE  Matching(t, columns) = {s \in View(t) : \A c \in columns : Row(t)[c] = s[c]}
BY AgreeIs DEF Matching
LEMMA WrittenApart ==
    ASSUME TableInv, NEW t \in TxDB, Open(t), txDB[t].op \in UpsertOps, "net" \notin T.where,
           NEW r \in Matching(t, T.where), NEW s \in Matching(t, T.where), Conflict(Written(t, r), Written(t, s))
    PROVE  r = s
<1>1. PICK old : old = txDB[t] OBVIOUS
<1>2. /\ TxOK(t, old) /\ IsOpen(old) /\ TableOK(collection, T) /\ \A p, q \in View(t) : Conflict(p, q) => p = q
      /\ \A p \in View(t) : DOMAIN p = RowCols
  BY <1>1, TxFacts
<1>3. WhereIsKey(T) BY <1>1, <1>2 DEF TableOK, TxOK, TxType, UpsertOps
<1>4. PICK u \in T.unique : Agree(Written(t, r), Written(t, s), u) BY DEF Conflict
<1>5. \A c \in u : Written(t, r)[c] = Written(t, s)[c] BY <1>4, AgreeIs
<1>6. r \in View(t) /\ s \in View(t) /\ \A c \in T.where : r[c] = s[c] BY MatchingIs
<1>7. /\ Written(t, r)["ns"] = r["ns"] /\ Written(t, r)["id"] = r["id"]
      /\ Written(t, s)["ns"] = s["ns"] /\ Written(t, s)["id"] = s["id"]
  BY <1>2, <1>6, WrittenIs
<1>8. SUFFICES Conflict(r, s) BY <1>2, <1>6
<1>9. CASE "ns" \in u
  <2>1. r["ns"] = s["ns"] BY <1>5, <1>7, <1>9
  <2>2. PICK v \in T.unique : "net" \notin v /\ v \subseteq T.where \cup {"ns"} BY <1>3 DEF WhereIsKey
  <2>3. \A c \in v : r[c] = s[c] BY <1>6, <2>1, <2>2
  <2>4. Agree(r, s, v) BY <2>2, <2>3, AgreeIs
  <2> QED BY <2>4 DEF Conflict
<1>10. CASE u = {"id"}
  <2>1. \A c \in u : r[c] = s[c] BY <1>5, <1>7, <1>10
  <2>2. "net" \notin u BY <1>10
  <2>3. Agree(r, s, u) BY <2>1, <2>2, AgreeIs
  <2> QED BY <2>3 DEF Conflict
<1>11. CASE u \subseteq T.where /\ "net" \notin u
  <2>1. Agree(r, s, u) BY <1>6, <1>11, AgreeIs
  <2> QED BY <2>1 DEF Conflict
<1> QED BY <1>3, <1>9, <1>10, <1>11 DEF WhereIsKey

(* An update through the WHERE clause of an upsert.                        *)
LEMMA UpdateKeeps ==
    ASSUME TableInv, NEW t \in TxDB, Open(t), NEW tx, Change(t, tx), storeDB' = storeDB, collection' = collection,
           NEW gone, gone = Matching(t, T.where),
           tx.ins = (txDB[t].ins \ gone) \cup {Written(t, s) : s \in gone}, tx.del = txDB[t].del \cup (gone \cap storeDB),
           tx.row = txDB[t].row, tx.op = txDB[t].op, DOMAIN tx = TxFields, TxPhase(tx), TxFound(t, tx),
           collection \notin ByName => txDB[t].ins = {} /\ txDB[t].del = {},
           txDB[t].op \in UpsertOps, ~UpdateWaits(t, T.where), ~UpdateConflicts(t, T.where)
    PROVE  TableInv'
<1>1. PICK old : old = txDB[t] OBVIOUS
<1>2. /\ TxOK(t, old) /\ Row(t) = old.row /\ TableOK(collection, T) /\ \A p \in View(t) : DOMAIN p = RowCols
  BY <1>1, TxFacts
<1>3. "net" \notin T.where BY <1>2 DEF TableOK
<1>4. gone \subseteq View(t) /\ \A s \in gone : \A c \in T.where : Row(t)[c] = s[c] BY <1>3, MatchingIs
<1>5. PICK made : made = {Written(t, s) : s \in gone} OBVIOUS
<1>6. \A m \in made : DOMAIN m = RowCols BY <1>2, <1>4, <1>5, WrittenIs
<1>7. \A m \in made, s \in View(t) \ gone : ~Conflict(m, s) BY <1>5 DEF UpdateConflicts
<1>8. \A m, n \in made : Conflict(m, n) => m = n
  <2> SUFFICES ASSUME NEW p \in gone, NEW q \in gone, Conflict(Written(t, p), Written(t, q)) PROVE p = q BY <1>5
  <2> QED BY <1>3, WrittenApart
<1>9. \A u \in Others(t) : \A m \in made, s \in txDB[u].ins : ~Conflict(m, s) BY <1>5 DEF UpdateWaits
<1>10. collection \notin Unscoped \cup Shared => \A r \in gone \cup made : r["ns"] = Row(t)["ns"]
  <2> SUFFICES ASSUME collection \notin Unscoped \cup Shared, NEW p \in gone
               PROVE  p["ns"] = Row(t)["ns"] /\ Written(t, p)["ns"] = Row(t)["ns"]
    BY <1>5
  <2>1. p["ns"] = Row(t)["ns"] BY <1>2, <1>4 DEF TableOK
  <2> QED BY <1>2, <1>4, <2>1, WrittenIs
<1>11. KeepsDB => \A r \in gone : \E m \in made : \A c \in KeptOf(T) : m[c] = r[c]
  <2> SUFFICES ASSUME KeepsDB, NEW r \in gone PROVE \A c \in KeptOf(T) : Written(t, r)[c] = r[c] BY <1>5
  <2>1. UpsertKeeps(T) BY <1>1, <1>2 DEF TableOK, TxOK, TxType, UpsertOps, KeepsDB
  <2> SUFFICES ASSUME NEW c \in KeptOf(T) PROVE Written(t, r)[c] = r[c] OBVIOUS
  <2>2. CASE c \in {"ns", "id"} BY <1>2, <1>4, <2>2, WrittenIs
  <2>3. CASE c \in T.where /\ c \in {"name", "hash"} BY <1>2, <1>4, <2>3, WrittenIs
  <2> QED BY <2>1, <2>2, <2>3 DEF UpsertKeeps, KeptOf
<1>12. collection \in Hashed => \A r \in gone, m \in made :
              r["ns"] = m["ns"] /\ r["id"] = m["id"] => r["hash"] = m["hash"]
  <2> SUFFICES ASSUME collection \in Hashed, NEW r \in gone, NEW p \in gone PROVE r["hash"] = Written(t, p)["hash"]
    BY <1>5
  <2>1. "hash" \in T.where BY <1>2 DEF TableOK
  <2> QED BY <1>2, <1>4, <2>1, WrittenIs
<1>13. tx.ins = (txDB[t].ins \ gone) \cup made BY <1>5
<1> QED BY <1>4, <1>6, <1>7, <1>8, <1>9, <1>10, <1>11, <1>12, <1>13, MadeKeeps

(* A statement that fails, and one that ends without a row of its own.     *)
LEMMA SpoiledKeeps ==
    ASSUME TableInv, NEW t \in TxDB, Open(t), Change(t, Spoiled(txDB[t])), storeDB' = storeDB, collection' = collection
    PROVE  TableInv'
<1>1. PICK tx : tx = Spoiled(txDB[t]) OBVIOUS
<1>2. PICK old : old = txDB[t] OBVIOUS
<1>3. DOMAIN old = TxFields BY <1>2, TxFacts DEF TxOK, TxType
<1>4. /\ DOMAIN tx = TxFields /\ tx.phase = "failed" /\ tx.ins = old.ins /\ tx.del = old.del /\ tx.row = old.row
      /\ tx.op = old.op
  BY <1>1, <1>2, <1>3 DEF Spoiled, TxFields
<1>5. TxPhase(tx) /\ TxFound(t, tx) BY <1>4 DEF TxPhase, TxFound
<1> QED BY <1>1, <1>2, <1>4, <1>5, SameRows
LEMMA DoneKeeps ==
    ASSUME TableInv, NEW t \in TxDB, Open(t), NEW tx, Change(t, tx), storeDB' = storeDB, collection' = collection,
           DOMAIN tx = TxFields, tx.phase = "done", tx.ok = FALSE, tx.ins = txDB[t].ins, tx.del = txDB[t].del,
           tx.row = txDB[t].row, tx.op = txDB[t].op
    PROVE  TableInv'
<1>1. TxPhase(tx) /\ TxFound(t, tx) BY DEF TxPhase, TxFound
<1> QED BY <1>1, SameRows

(* Every action of a transaction but the commit.                           *)
LEMMA BeginTable == ASSUME TableInv, NEW t \in TxDB, NEW op \in T.ops, NEW r \in RowsDB, BeginOrUseTx(t, op, r) PROVE TableInv'
<1>1. PICK tx : tx = [Idle EXCEPT !.phase = "first", !.op = op, !.row = r] OBVIOUS
<1>2. /\ DOMAIN tx = TxFields /\ tx.phase = "first" /\ tx.op = op /\ tx.row = r /\ tx.exists = FALSE
      /\ tx.ins = {} /\ tx.del = {} /\ tx.ok = FALSE
  BY <1>1, IdleIs DEF TxFields
<1>3. Change(t, tx) /\ storeDB' = storeDB /\ collection' = collection /\ txDB[t].phase = "idle" BY <1>1 DEF BeginOrUseTx
<1>4. TxOK(t, tx)
  <2>1. TxType(tx) /\ TxPhase(tx) BY <1>2 DEF TxType, TxPhase
  <2>2. TxView(tx) /\ TxKept(tx) BY <1>2 DEF TxView, TxKept
  <2>3. TxFound(t, tx)
    <3>1. op = "replace" => \E s \in storeDB : \A c \in Id \cup {"hash"} : r[c] = s[c] BY AgreeIs DEF BeginOrUseTx
    <3> QED BY <1>2, <3>1 DEF TxFound
  <2> QED BY <2>1, <2>2, <2>3 DEF TxOK
<1>5. \A u \in TxDB \ {t} : \A ty \in {txDB[u]} : ApartDB(tx, ty) BY <1>2 DEF ApartDB
<1>6. txDB[t].op # "delete"
  <2>1. PICK old : old = txDB[t] OBVIOUS
  <2> QED BY <1>3, <2>1, TxFacts DEF TxOK, TxPhase
<1> QED BY <1>3, <1>4, <1>5, <1>6, LocalKeeps
LEMMA InsertEventTable == ASSUME TableInv, NEW t \in TxDB, InsertEvent(t) PROVE TableInv'
<1>1. PICK old : old = txDB[t] OBVIOUS
<1>2. PICK tx : tx = [txDB[t] EXCEPT !.phase = "done", !.event = TRUE] OBVIOUS
<1>3. TxOK(t, old) BY <1>1, TxFacts
<1>4. old.phase = "first" /\ Open(t) BY <1>1 DEF InsertEvent, Open
<1>5. /\ DOMAIN tx = TxFields /\ tx.phase = "done" /\ tx.ins = old.ins /\ tx.del = old.del /\ tx.row = old.row
      /\ tx.op = old.op /\ tx.ok = FALSE
  BY <1>1, <1>2, <1>3, <1>4 DEF TxOK, TxType, TxFields, TxPhase
<1>6. Change(t, tx) /\ storeDB' = storeDB /\ collection' = collection BY <1>2 DEF InsertEvent
<1> QED BY <1>1, <1>4, <1>5, <1>6, DoneKeeps
LEMMA InsertTable ==
    ASSUME TableInv, NEW t \in TxDB, Open(t), Change(t, Inserted(t, txDB[t])), storeDB' = storeDB, collection' = collection,
           ~InsertWaits(t), ~Conflicts(t), collection \notin ByName => txDB[t].ins = {} /\ txDB[t].del = {}
    PROVE  TableInv'
<1>1. PICK old : old = txDB[t] OBVIOUS
<1>2. PICK tx : tx = Inserted(t, txDB[t]) OBVIOUS
<1>3. PICK new : new = Stored(Row(t), seqDB + 1, t) OBVIOUS
<1>4. TxOK(t, old) BY <1>1, TxFacts
<1>5. /\ DOMAIN tx = TxFields /\ tx.phase = "done" /\ tx.ins = old.ins \cup {new} /\ tx.del = old.del /\ tx.row = old.row
      /\ tx.op = old.op
  BY <1>1, <1>2, <1>3, <1>4 DEF TxOK, TxType, TxFields, Inserted
<1>6. PICK gone : gone = {} OBVIOUS
<1>7. tx.ins = (txDB[t].ins \ gone) \cup {new} /\ tx.del = txDB[t].del \cup (gone \cap storeDB) BY <1>1, <1>5, <1>6
<1>8. \A s \in View(t) \ gone : ~Conflict(Row(t), s) BY DEF Conflicts
<1>9. Change(t, tx) BY <1>2
<1> QED BY <1>1, <1>3, <1>5, <1>6, <1>7, <1>8, <1>9, InsertKeeps
LEMMA attemptInsertTable == ASSUME TableInv, NEW t \in TxDB, attemptInsert(t) PROVE TableInv'
<1>1. PICK old : old = txDB[t] OBVIOUS
<1>2. TxOK(t, old) BY <1>1, TxFacts
<1>3. /\ old.phase = "first" /\ Open(t) /\ storeDB' = storeDB /\ collection' = collection
      /\ old.op \in {"new", "insertOrGet", "insert"} /\ ~InsertWaits(t)
  BY <1>1 DEF attemptInsert, Open
<1>4. CASE Conflicts(t)
  <2>1. CASE old.op \in {"new", "insertOrGet"}
    <3>1. PICK ph \in {"query", "get"} : Change(t, [txDB[t] EXCEPT !.phase = ph]) /\ (ph = "query" => old.op = "new")
      BY <1>1, <1>4, <2>1 DEF attemptInsert
    <3>2. PICK tx : tx = [txDB[t] EXCEPT !.phase = ph] OBVIOUS
    <3>3. /\ DOMAIN tx = TxFields /\ tx.phase = ph /\ tx.ins = old.ins /\ tx.del = old.del /\ tx.row = old.row
          /\ tx.op = old.op /\ tx.ok = old.ok
      BY <1>1, <1>2, <3>2 DEF TxOK, TxType, TxFields
    <3>4. TxPhase(tx) BY <1>2, <1>3, <3>1, <3>3 DEF TxOK, TxPhase
    <3>5. TxFound(t, tx) BY <3>1, <3>3 DEF TxFound
    <3> QED BY <1>1, <1>3, <3>1, <3>2, <3>3, <3>4, <3>5, SameRows
  <2>2. CASE old.op \notin {"new", "insertOrGet"}
    <3>1. Change(t, Spoiled(txDB[t])) BY <1>1, <1>4, <2>2 DEF attemptInsert
    <3> QED BY <1>3, <3>1, SpoiledKeeps
  <2> QED BY <2>1, <2>2
<1>5. CASE ~Conflicts(t)
  <2>1. Change(t, Inserted(t, txDB[t])) BY <1>5 DEF attemptInsert
  <2>2. txDB[t].ins = {} /\ txDB[t].del = {} BY <1>1, <1>2, <1>3 DEF TxOK, TxPhase
  <2> QED BY <1>3, <1>5, <2>1, <2>2, InsertTable
<1> QED BY <1>4, <1>5
LEMMA writeInsertTable == ASSUME TableInv, NEW t \in TxDB, writeInsert(t) PROVE TableInv'
<1>1. PICK old : old = txDB[t] OBVIOUS
<1>2. TxOK(t, old) BY <1>1, TxFacts
<1>3. old.phase = "write" /\ Open(t) /\ storeDB' = storeDB /\ collection' = collection /\ ~InsertWaits(t)
  BY <1>1 DEF writeInsert, Open
<1>4. CASE Conflicts(t)
  <2>1. Change(t, Spoiled(txDB[t])) BY <1>4 DEF writeInsert
  <2> QED BY <1>3, <2>1, SpoiledKeeps
<1>5. CASE ~Conflicts(t)
  <2>1. Change(t, Inserted(t, txDB[t])) BY <1>5 DEF writeInsert
  <2>2. collection \notin ByName => txDB[t].ins = {} /\ txDB[t].del = {} BY <1>1, <1>2, <1>3 DEF TxOK, TxPhase
  <2> QED BY <1>3, <1>5, <2>1, <2>2, InsertTable
<1> QED BY <1>4, <1>5

(* What an update finds of a row is in the row it makes of it.             *)
LEMMA MatchedFound ==
    ASSUME TableInv, NEW t \in TxDB, NEW s \in Matching(t, T.where), NEW e, e \subseteq {"ns", "id", "name"},
           \A c \in e : Row(t)[c] = s[c]
    PROVE  Written(t, s).val = t /\ \A c \in e : Row(t)[c] = Written(t, s)[c]
<1>1. PICK old : old = txDB[t] OBVIOUS
<1>2. DOMAIN s = RowCols BY <1>1, TxFacts DEF Matching
<1> QED BY <1>2, WrittenIs
LEMMA attemptUpdateTable == ASSUME TableInv, NEW t \in TxDB, attemptUpdate(t) PROVE TableInv'
<1>1. PICK old : old = txDB[t] OBVIOUS
<1>2. TxOK(t, old) /\ DOMAIN old = TxFields /\ TableOK(collection, T) /\ Row(t) = old.row
      /\ View(t) = (storeDB \ old.del) \cup old.ins /\ (Open(t) => \A r, s \in View(t) : Conflict(r, s) => r = s)
  BY <1>1, TxFacts DEF TxOK, TxType
<1>3. /\ old.phase = "first" /\ Open(t) /\ storeDB' = storeDB /\ collection' = collection
      /\ old.op = "existing" /\ ~UpdateWaits(t, T.where)
  BY <1>1 DEF attemptUpdate, Open
<1>4. old.ins = {} /\ old.del = {} /\ "existing" \in T.ops /\ "net" \notin T.where
  BY <1>2, <1>3 DEF TxOK, TxPhase, TxType, TableOK
<1>5. CASE UpdateConflicts(t, T.where)
  <2>1. Change(t, Spoiled(txDB[t])) BY <1>5 DEF attemptUpdate
  <2> QED BY <1>3, <2>1, SpoiledKeeps
<1>6. ASSUME ~UpdateConflicts(t, T.where) PROVE TableInv'
  <2>1. PICK gone : gone = Matching(t, T.where) OBVIOUS
  <2>2. PICK up : up = Updated(t, txDB[t], T.where) OBVIOUS
  <2>3. /\ DOMAIN up = TxFields /\ up.phase = "done" /\ up.ok = TRUE /\ up.row = old.row /\ up.op = old.op
        /\ up.ins = (old.ins \ gone) \cup {Written(t, s) : s \in gone} /\ up.del = old.del \cup (gone \cap storeDB)
    <3>1. PICK rows : rows = {Written(t, s) : s \in gone} OBVIOUS
    <3>2. up = [old EXCEPT !.ins = (@ \ gone) \cup rows, !.del = @ \cup (gone \cap storeDB), !.phase = "done", !.ok = TRUE]
      BY <1>1, <2>1, <2>2, <3>1 DEF Updated
    <3>3. /\ DOMAIN up = TxFields /\ up.phase = "done" /\ up.ok = TRUE /\ up.row = old.row /\ up.op = old.op
          /\ up.ins = (old.ins \ gone) \cup rows /\ up.del = old.del \cup (gone \cap storeDB)
      BY <1>2, <3>2 DEF TxFields
    <3> QED BY <3>1, <3>3
  <2>4. "existing" \in UpsertOps BY DEF UpsertOps
  <2>5. collection \notin ByName => Id \subseteq T.where /\ \A r, s \in gone : r = s
    <3> SUFFICES ASSUME collection \notin ByName PROVE Id \subseteq T.where /\ \A r, s \in gone : r = s OBVIOUS
    <3>1. UpsertKeeps(T) BY <1>2, <1>4, <2>4 DEF TableOK
    <3>2. PICK u \in T.unique : "net" \notin u /\ u \subseteq T.where BY <1>4, <3>1 DEF UpsertKeeps
    <3>3. ASSUME NEW r \in gone, NEW s \in gone PROVE r = s
      <4>1. r \in View(t) /\ s \in View(t) /\ \A c \in T.where : r[c] = s[c] BY <1>4, <2>1, MatchingIs
      <4>2. Agree(r, s, u) BY <3>2, <4>1, AgreeIs
      <4> QED BY <1>2, <1>3, <4>1, <4>2 DEF Conflict
    <3> QED BY <1>4, <3>1, <3>3 DEF UpsertKeeps
  <2>6. CASE optimized(Cardinality(Matching(t, T.where)))
    <3>1. Change(t, up) BY <1>6, <2>2, <2>6 DEF attemptUpdate
    <3>2. TxFound(t, up)
      <4> SUFFICES ASSUME KeepsDB PROVE \E s \in up.ins : s.val = t /\ \A c \in Id : up.row[c] = s[c]
        BY <2>3 DEF TxFound
      <4>1. gone # {} BY <2>1, <2>6, FS_EmptySet DEF optimized
      <4>2. PICK s \in gone : TRUE BY <4>1
      <4>3. \A c \in Id : Row(t)[c] = s[c] BY <1>4, <2>1, <2>5, MatchingIs DEF KeepsDB
      <4>4. Id \subseteq {"ns", "id", "name"} BY DEF Id
      <4>5. Written(t, s).val = t /\ \A c \in Id : Row(t)[c] = Written(t, s)[c] BY <2>1, <4>3, <4>4, MatchedFound
      <4> QED BY <1>2, <2>3, <4>5
    <3>3. TxPhase(up) BY <2>3 DEF TxPhase
    <3>4. collection \notin ByName => txDB[t].ins = {} /\ txDB[t].del = {} BY <1>1, <1>4
    <3> QED BY <1>1, <1>3, <1>6, <2>1, <2>3, <2>4, <3>1, <3>2, <3>3, <3>4, UpdateKeeps
  <2>7. CASE ~optimized(Cardinality(Matching(t, T.where)))
    <3>1. PICK tx : tx = [up EXCEPT !.phase = "query"] OBVIOUS
    <3>2. Change(t, tx) BY <1>6, <2>2, <2>7, <3>1 DEF attemptUpdate
    <3>3. /\ DOMAIN tx = TxFields /\ tx.phase = "query" /\ tx.row = old.row /\ tx.op = old.op
          /\ tx.ins = (old.ins \ gone) \cup {Written(t, s) : s \in gone} /\ tx.del = old.del \cup (gone \cap storeDB)
      BY <2>3, <3>1 DEF TxFields
    <3>4. collection \notin ByName => gone = {}
      <4> SUFFICES ASSUME collection \notin ByName, gone # {} PROVE FALSE OBVIOUS
      <4>1. PICK s \in gone : TRUE OBVIOUS
      <4>2. gone = {s} BY <2>5, <4>1
      <4>3. Cardinality(gone) = 1 BY <4>2, FS_Singleton
      <4> QED BY <2>1, <2>7, <4>3 DEF optimized
    <3>5. TxPhase(tx)
      <4>1. gone = {} => tx.ins = {} /\ tx.del = {} BY <1>4, <3>3
      <4> QED BY <1>3, <3>3, <3>4, <4>1 DEF TxPhase
    <3>6. TxFound(t, tx) BY <3>3 DEF TxFound
    <3>7. collection \notin ByName => txDB[t].ins = {} /\ txDB[t].del = {} BY <1>1, <1>4
    <3> QED BY <1>1, <1>3, <1>6, <2>1, <2>4, <3>2, <3>3, <3>5, <3>6, <3>7, UpdateKeeps
  <2> QED BY <2>6, <2>7
<1> QED BY <1>5, <1>6
LEMMA writeUpdateTable == ASSUME TableInv, NEW t \in TxDB, writeUpdate(t) PROVE TableInv'
<1>1. PICK old : old = txDB[t] OBVIOUS
<1>2. TxOK(t, old) /\ DOMAIN old = TxFields /\ TableOK(collection, T) /\ Row(t) = old.row
      /\ View(t) = (storeDB \ old.del) \cup old.ins
  BY <1>1, TxFacts DEF TxOK, TxType
<1>3. /\ old.phase = "write" /\ Open(t) /\ storeDB' = storeDB /\ collection' = collection
      /\ old.exists /\ ~UpdateWaits(t, T.where)
  BY <1>1 DEF writeUpdate, Open
<1>4. old.op \in UpsertOps /\ (collection \notin ByName => old.ins = {} /\ old.del = {})
  BY <1>2, <1>3 DEF TxOK, TxPhase
<1>5. CASE UpdateConflicts(t, T.where)
  <2>1. Change(t, Spoiled(txDB[t])) BY <1>5 DEF writeUpdate
  <2> QED BY <1>3, <2>1, SpoiledKeeps
<1>6. ASSUME ~UpdateConflicts(t, T.where) PROVE TableInv'
  <2>1. PICK gone : gone = Matching(t, T.where) OBVIOUS
  <2>2. PICK up : up = Updated(t, txDB[t], T.where) OBVIOUS
  <2>3. /\ DOMAIN up = TxFields /\ up.phase = "done" /\ up.ok = TRUE /\ up.row = old.row /\ up.op = old.op
        /\ up.ins = (old.ins \ gone) \cup {Written(t, s) : s \in gone} /\ up.del = old.del \cup (gone \cap storeDB)
    <3>1. PICK rows : rows = {Written(t, s) : s \in gone} OBVIOUS
    <3>2. up = [old EXCEPT !.ins = (@ \ gone) \cup rows, !.del = @ \cup (gone \cap storeDB), !.phase = "done", !.ok = TRUE]
      BY <1>1, <2>1, <2>2, <3>1 DEF Updated
    <3>3. /\ DOMAIN up = TxFields /\ up.phase = "done" /\ up.ok = TRUE /\ up.row = old.row /\ up.op = old.op
          /\ up.ins = (old.ins \ gone) \cup rows /\ up.del = old.del \cup (gone \cap storeDB)
      BY <1>2, <3>2 DEF TxFields
    <3> QED BY <3>1, <3>3
  <2>4. Change(t, up) BY <1>6, <2>2 DEF writeUpdate
  <2>5. TxFound(t, up)
    <3> SUFFICES ASSUME KeepsDB PROVE \E s \in up.ins : \E e \in T.exists : s.val = t /\ \A c \in e : up.row[c] = s[c]
      BY <2>3 DEF TxFound
    <3>1. PICK s \in storeDB, e \in T.exists : \A c \in e \cup T.where : old.row[c] = s[c]
      BY <1>2, <1>3 DEF TxOK, TxFound
    <3>2. s \in View(t) BY <1>2, <1>4 DEF KeepsDB
    <3>3. s \in gone
      <4>1. "net" \notin T.where BY <1>2 DEF TableOK
      <4> QED BY <1>2, <2>1, <3>1, <3>2, <4>1, MatchingIs
    <3>4. e \subseteq {"ns", "id", "name"} BY <1>2, <3>1 DEF TableOK, KeepsDB
    <3>5. Written(t, s).val = t /\ \A c \in e : Row(t)[c] = Written(t, s)[c]
      <4>1. s \in Matching(t, T.where) /\ \A c \in e : Row(t)[c] = s[c] BY <1>2, <2>1, <3>1, <3>3
      <4> QED BY <3>4, <4>1, MatchedFound
    <3> QED BY <1>2, <2>3, <3>1, <3>3, <3>5
  <2>6. TxPhase(up) BY <2>3 DEF TxPhase
  <2>7. collection \notin ByName => txDB[t].ins = {} /\ txDB[t].del = {} BY <1>1, <1>4
  <2> QED BY <1>1, <1>3, <1>4, <1>6, <2>1, <2>3, <2>4, <2>5, <2>6, <2>7, UpdateKeeps
<1> QED BY <1>5, <1>6

(* The query for an existing row, and the row InsertOrGet gives back.      *)
LEMMA queryExistingTable == ASSUME TableInv, NEW t \in TxDB, queryExisting(t) PROVE TableInv'
<1>1. PICK old : old = txDB[t] OBVIOUS
<1>2. TxOK(t, old) /\ DOMAIN old = TxFields /\ TableOK(collection, T) /\ Row(t) = old.row
      /\ View(t) = (storeDB \ old.del) \cup old.ins
  BY <1>1, TxFacts DEF TxOK, TxType
<1>3. PICK found : found = Existing(t) OBVIOUS
<1>4. /\ old.phase = "query" \/ (old.phase = "first" /\ old.op \in {"skip", "sameId", "keep"})
      /\ storeDB' = storeDB /\ collection' = collection
      /\ Change(t, IF collection \in Hashed /\ \E s \in found : s.hash # Row(t).hash THEN Spoiled(old)
                   ELSE IF old.op = "sameId" /\ \E s \in found : s.id # Row(t).id THEN Spoiled(old)
                   ELSE IF old.op = "keep" /\ found # {} THEN [old EXCEPT !.phase = "done"]
                   ELSE [old EXCEPT !.phase = "write", !.exists = found # {}])
  BY <1>1, <1>3 DEF queryExisting
<1>5. Open(t) BY <1>1, <1>4 DEF Open
<1>6. /\ old.op \in UpsertOps \cup {"keep"} /\ (old.phase = "query" => old.op \in UpsertOps)
      /\ collection \notin ByName => old.ins = {} /\ old.del = {}
  BY <1>2, <1>4 DEF TxOK, TxPhase, UpsertOps
<1>7. CASE Change(t, Spoiled(old)) BY <1>1, <1>4, <1>5, <1>7, SpoiledKeeps
<1>8. CASE old.op = "keep" /\ found # {} /\ Change(t, [old EXCEPT !.phase = "done"])
  <2>1. PICK tx : tx = [old EXCEPT !.phase = "done"] OBVIOUS
  <2>2. old.ok = FALSE BY <1>2, <1>4, <1>8 DEF TxOK, TxPhase
  <2>3. /\ DOMAIN tx = TxFields /\ tx.phase = "done" /\ tx.ok = FALSE /\ tx.ins = old.ins /\ tx.del = old.del
        /\ tx.row = old.row /\ tx.op = old.op
    BY <1>2, <2>1, <2>2 DEF TxFields
  <2> QED BY <1>1, <1>4, <1>5, <1>8, <2>1, <2>3, DoneKeeps
<1>9. CASE /\ ~(collection \in Hashed /\ \E s \in found : s.hash # Row(t).hash) /\ ~(old.op = "keep" /\ found # {})
           /\ Change(t, [old EXCEPT !.phase = "write", !.exists = found # {}])
  <2>1. PICK tx : tx = [old EXCEPT !.phase = "write", !.exists = found # {}] OBVIOUS
  <2>2. /\ DOMAIN tx = TxFields /\ tx.phase = "write" /\ (tx.exists <=> found # {}) /\ tx.ins = old.ins /\ tx.del = old.del
        /\ tx.row = old.row /\ tx.op = old.op
    BY <1>2, <2>1 DEF TxFields
  <2>3. TxPhase(tx) BY <1>6, <1>9, <2>2 DEF TxPhase
  <2>4. TxFound(t, tx)
    <3> SUFFICES ASSUME KeepsDB, found # {}
                 PROVE  \E s \in storeDB : \E e \in T.exists : \A c \in e \cup T.where : tx.row[c] = s[c]
      BY <2>2 DEF TxFound
    <3>1. PICK s \in View(t), e \in T.exists : s \in found /\ Agree(Row(t), s, e) BY <1>3 DEF Existing
    <3>2. s \in storeDB BY <1>2, <1>6 DEF KeepsDB
    <3>3. \A c \in e : old.row[c] = s[c] BY <1>2, <3>1, AgreeIs
    <3>4. T.where \subseteq e \cup {"hash"} /\ ("hash" \in T.where => collection \in Hashed)
      <4>1. old.op \in T.ops BY <1>2, <1>6 DEF TxOK, TxType, UpsertOps
      <4>2. T.ops \cap UpsertOps # {} BY <1>6, <1>9, <4>1
      <4> QED BY <1>2, <3>1, <4>2 DEF TableOK, UpsertKeeps, KeepsDB
    <3>5. "hash" \in T.where => old.row["hash"] = s["hash"] BY <1>2, <1>9, <3>1, <3>4
    <3>6. \A c \in e \cup T.where : old.row[c] = s[c] BY <3>3, <3>4, <3>5
    <3> QED BY <2>2, <3>1, <3>2, <3>6
  <2> QED BY <1>1, <1>4, <1>5, <1>9, <2>1, <2>2, <2>3, <2>4, SameRows
<1> QED BY <1>4, <1>7, <1>8, <1>9
LEMMA getExistingTable == ASSUME TableInv, NEW t \in TxDB, getExisting(t) PROVE TableInv'
<1>1. PICK old : old = txDB[t] OBVIOUS
<1>2. TxOK(t, old) /\ DOMAIN old = TxFields BY <1>1, TxFacts DEF TxOK, TxType
<1>3. old.phase = "get" /\ Open(t) /\ storeDB' = storeDB /\ collection' = collection BY <1>1 DEF getExisting, Open
<1>4. PICK tx : tx = [old EXCEPT !.phase = "done"] OBVIOUS
<1>5. Change(t, tx) \/ Change(t, Spoiled(txDB[t])) BY <1>1, <1>4 DEF getExisting
<1>6. /\ DOMAIN tx = TxFields /\ tx.phase = "done" /\ tx.ins = old.ins /\ tx.del = old.del
      /\ tx.row = old.row /\ tx.op = old.op /\ tx.ok = FALSE
  BY <1>2, <1>3, <1>4 DEF TxFields, TxOK, TxPhase
<1>7. CASE Change(t, tx) BY <1>1, <1>3, <1>6, <1>7, DoneKeeps
<1>8. CASE Change(t, Spoiled(txDB[t])) BY <1>3, <1>8, SpoiledKeeps
<1> QED BY <1>5, <1>7, <1>8
LEMMA ReplaceTable == ASSUME TableInv, NEW t \in TxDB, ReplaceMessage(t) PROVE TableInv'
<1>1. PICK old : old = txDB[t] OBVIOUS
<1>2. /\ TxOK(t, old) /\ DOMAIN old = TxFields /\ TableOK(collection, T) /\ Row(t) = old.row
      /\ View(t) = (storeDB \ old.del) \cup old.ins /\ (Open(t) => \A r, s \in View(t) : Conflict(r, s) => r = s)
  BY <1>1, TxFacts DEF TxOK, TxType
<1>3. old.phase = "first" /\ old.op = "replace" /\ Open(t) /\ storeDB' = storeDB /\ collection' = collection
  BY <1>1 DEF ReplaceMessage, Open
<1>4. old.ins = {} /\ old.del = {} BY <1>2, <1>3 DEF TxOK, TxPhase
<1>5. CASE Change(t, Spoiled(txDB[t])) BY <1>3, <1>5, SpoiledKeeps
<1>6. ASSUME ~InsertWaits(t), \A s \in View(t) \ Matching(t, Id) : ~Conflict(Row(t), s),
             Change(t, Inserted(t, Removed2(t, Id)))
      PROVE  TableInv'
  <2>1. PICK gone : gone = Matching(t, Id) OBVIOUS
  <2>2. PICK new : new = Stored(Row(t), seqDB + 1, t) OBVIOUS
  <2>3. PICK out : out = Removed2(t, Id) OBVIOUS
  <2>4. out = [old EXCEPT !.ins = @ \ gone, !.del = @ \cup (gone \cap storeDB)] BY <1>1, <2>1, <2>3 DEF Removed2
  <2>5. /\ DOMAIN out = TxFields /\ out.ins = old.ins \ gone /\ out.del = old.del \cup (gone \cap storeDB)
        /\ out.row = old.row /\ out.op = old.op
    BY <1>2, <2>4 DEF TxFields
  <2>6. PICK tx : tx = [out EXCEPT !.ins = @ \cup {new}, !.phase = "done", !.ok = TRUE] OBVIOUS
  <2>7. Change(t, tx) BY <1>6, <2>2, <2>3, <2>6 DEF Inserted
  <2>8. /\ DOMAIN tx = TxFields /\ tx.phase = "done" /\ tx.ins = (old.ins \ gone) \cup {new}
        /\ tx.del = old.del \cup (gone \cap storeDB) /\ tx.row = old.row /\ tx.op = old.op
    BY <2>5, <2>6 DEF TxFields
  <2>9. gone \subseteq View(t) /\ \A g \in gone : \A c \in {"ns", "id"} : Row(t)[c] = g[c]
    <3>1. "net" \notin Id /\ Id = {"ns", "id"} BY DEF Id
    <3> QED BY <2>1, <3>1, MatchingIs
  <2>10. collection \in Hashed /\ Id \in T.unique
    <3>1. collection = "messages" BY <1>2, <1>3 DEF TxOK, TxType, TableOK
    <3> QED BY <1>2, <3>1 DEF TableOK, Hashed
  <2>11. \A g \in gone : Row(t)["hash"] = g["hash"]
    <3> SUFFICES ASSUME NEW g \in gone PROVE Row(t)["hash"] = g["hash"] OBVIOUS
    <3>1. PICK s \in storeDB : \A c \in Id \cup {"hash"} : old.row[c] = s[c] BY <1>2, <1>3 DEF TxOK, TxFound
    <3>2. \A c \in Id : g[c] = s[c] BY <1>2, <2>9, <3>1 DEF Id
    <3>3. Agree(g, s, Id)
      <4>1. "net" \notin Id BY DEF Id
      <4> QED BY <3>2, <4>1, AgreeIs
    <3>4. g = s BY <1>2, <1>3, <1>4, <2>9, <2>10, <3>3 DEF Conflict
    <3> QED BY <1>2, <3>1, <3>4
  <2>12. \A s \in View(t) \ gone : ~Conflict(Row(t), s) BY <1>6, <2>1
  <2> QED BY <1>1, <1>3, <1>4, <1>6, <2>2, <2>7, <2>8, <2>9, <2>10, <2>11, <2>12, InsertKeeps
<1>7. ~Change(t, Spoiled(txDB[t])) => /\ ~InsertWaits(t) /\ \A s \in View(t) \ Matching(t, Id) : ~Conflict(Row(t), s)
                                      /\ Change(t, Inserted(t, Removed2(t, Id)))
  BY DEF ReplaceMessage
<1> QED BY <1>5, <1>6, <1>7

(* The updates by filter and the deletes.                                  *)
LEMMA updateFilteredTable == ASSUME TableInv, NEW t \in TxDB, updateFiltered(t) PROVE TableInv'
<1>1. PICK old : old = txDB[t] OBVIOUS
<1>2. /\ TxOK(t, old) /\ DOMAIN old = TxFields /\ TableOK(collection, T) /\ Row(t) = old.row
      /\ View(t) = (storeDB \ old.del) \cup old.ins /\ (Open(t) => \A r, s \in View(t) : Conflict(r, s) => r = s)
      /\ (\A r \in View(t) : DOMAIN r = RowCols) /\ collection \in DOMAIN Collections
  BY <1>1, TxFacts DEF TxOK, TxType
<1>3. old.phase = "first" /\ old.op = "update" /\ Open(t) /\ storeDB' = storeDB /\ collection' = collection /\ ~UpdateWaits(t, Id)
  BY <1>1 DEF updateFiltered, Open
<1>4. old.ins = {} /\ old.del = {} /\ old.ok = FALSE BY <1>2, <1>3 DEF TxOK, TxPhase
<1>5. PICK gone : gone = Matching(t, Id) OBVIOUS
<1>6. PICK made : made = {[s EXCEPT !.val = t] : s \in gone} OBVIOUS
<1>7. PICK tx : tx = [old EXCEPT !.ins = (@ \ gone) \cup made, !.del = @ \cup (gone \cap storeDB), !.phase = "done"] OBVIOUS
<1>8. Change(t, tx) BY <1>1, <1>5, <1>6, <1>7 DEF updateFiltered
<1>9. /\ DOMAIN tx = TxFields /\ tx.phase = "done" /\ tx.ins = (old.ins \ gone) \cup made
      /\ tx.del = old.del \cup (gone \cap storeDB) /\ tx.row = old.row /\ tx.op = old.op /\ tx.ok = FALSE
  BY <1>2, <1>4, <1>7 DEF TxFields
<1>10. TxPhase(tx) /\ TxFound(t, tx) BY <1>9 DEF TxPhase, TxFound
<1>11. gone \subseteq View(t) /\ \A g \in gone : \A c \in {"ns", "id"} : Row(t)[c] = g[c]
  <2>1. "net" \notin Id /\ Id = {"ns", "id"} BY DEF Id
  <2> QED BY <1>5, <2>1, MatchingIs
<1>12. \A m \in made : \E g \in gone : CopyOf(g, m) /\ DOMAIN m = RowCols /\ m = [g EXCEPT !.val = t]
  <2> SUFFICES ASSUME NEW g \in gone PROVE CopyOf(g, [g EXCEPT !.val = t]) /\ DOMAIN [g EXCEPT !.val = t] = RowCols
    BY <1>6
  <2>1. DOMAIN g = RowCols BY <1>2, <1>11
  <2> QED BY <2>1, FilteredIs DEF CopyOf
<1>13. ASSUME NEW m \in made, NEW s, Conflict(m, s) PROVE \E g \in gone : CopyOf(g, m) /\ Conflict(g, s)
  <2>1. PICK g \in gone : CopyOf(g, m) BY <1>12
  <2>2. CopyOf(s, s) BY DEF CopyOf
  <2>3. Conflict(g, s) BY <1>2, <1>13, <2>1, <2>2, ConflictCopies
  <2> QED BY <2>1, <2>3
<1>14. \A m \in made, s \in View(t) \ gone : ~Conflict(m, s) BY <1>2, <1>3, <1>11, <1>13
<1>15. \A m, n \in made : Conflict(m, n) => m = n
  <2> SUFFICES ASSUME NEW g \in gone, NEW h \in gone, Conflict([g EXCEPT !.val = t], [h EXCEPT !.val = t]) PROVE g = h
    BY <1>6
  <2>1. DOMAIN g = RowCols /\ DOMAIN h = RowCols BY <1>2, <1>11
  <2>2. CopyOf(g, [g EXCEPT !.val = t]) /\ CopyOf(h, [h EXCEPT !.val = t])
    <3>1. ASSUME NEW q, DOMAIN q = RowCols PROVE CopyOf(q, [q EXCEPT !.val = t]) BY <3>1, FilteredIs DEF CopyOf
    <3> QED BY <2>1, <3>1
  <2>3. Conflict(g, h) BY <1>2, <2>2, ConflictCopies
  <2> QED BY <1>2, <1>3, <1>11, <2>3
<1>16. \A u \in Others(t) : \A m \in made, s \in txDB[u].ins : ~Conflict(m, s)
  <2> SUFFICES ASSUME NEW u \in Others(t), NEW m \in made, NEW s \in txDB[u].ins, Conflict(m, s) PROVE FALSE OBVIOUS
  <2>1. PICK g \in gone : Conflict(g, s) BY <1>13
  <2>2. PICK ty : ty = txDB[u] OBVIOUS
  <2>3. TxOK(u, ty) /\ IsOpen(ty) BY <2>2, TxFacts DEF Others
  <2>4. g \in storeDB BY <1>2, <1>4, <1>11
  <2>5. g \notin ty.del BY <1>3, <1>5, <2>2 DEF UpdateWaits, Matching
  <2> QED BY <2>1, <2>2, <2>3, <2>4, <2>5 DEF TxOK, TxView
<1>17. \A m \in made : \E g \in gone : \A c \in ColsDB : m[c] = g[c] BY <1>12 DEF CopyOf
<1>18. \A r \in gone \cup made : r["ns"] = Row(t)["ns"] BY <1>11, <1>17 DEF ColsDB
<1>19. KeepsDB => \A r \in gone : \E m \in made : \A c \in KeptOf(T) : m[c] = r[c]
  <2> SUFFICES ASSUME NEW r \in gone PROVE \A c \in KeptOf(T) : [r EXCEPT !.val = t][c] = r[c] BY <1>6
  <2>1. CopyOf([r EXCEPT !.val = t], r) BY <1>2, <1>11, FilteredIs
  <2> QED BY <2>1 DEF CopyOf, KeptOf, ColsDB
<1>20. collection \in Hashed => \A r \in gone, m \in made :
              r["ns"] = m["ns"] /\ r["id"] = m["id"] => r["hash"] = m["hash"]
  <2> SUFFICES ASSUME collection \in Hashed, NEW r \in gone, NEW m \in made, r["ns"] = m["ns"], r["id"] = m["id"]
               PROVE  r["hash"] = m["hash"]
    OBVIOUS
  <2>1. PICK g \in gone : \A c \in ColsDB : m[c] = g[c] BY <1>17
  <2>2. \A c \in Id : r[c] = g[c] BY <1>11 DEF Id
  <2>3. Agree(r, g, Id)
    <3>1. "net" \notin Id BY DEF Id
    <3> QED BY <2>2, <3>1, AgreeIs
  <2>4. Id \in T.unique BY <1>2 DEF TableOK
  <2>5. r = g BY <1>2, <1>3, <1>11, <2>3, <2>4 DEF Conflict
  <2> QED BY <2>1, <2>5 DEF ColsDB
<1>21. \A m \in made : DOMAIN m = RowCols BY <1>12
<1> QED BY <1>1, <1>3, <1>4, <1>8, <1>9, <1>10, <1>11, <1>14, <1>15, <1>16, <1>18, <1>19, <1>20, <1>21, MadeKeeps
LEMMA deleteRowTable == ASSUME TableInv, NEW t \in TxDB, deleteRow(t) PROVE TableInv'
<1>1. PICK old : old = txDB[t] OBVIOUS
<1>2. TxOK(t, old) /\ DOMAIN old = TxFields BY <1>1, TxFacts DEF TxOK, TxType
<1>3. old.phase = "first" /\ old.op = "delete" /\ Open(t) /\ storeDB' = storeDB /\ collection' = collection
  BY <1>1 DEF deleteRow, Open
<1>4. old.ins = {} /\ old.del = {} /\ old.ok = FALSE BY <1>2, <1>3 DEF TxOK, TxPhase
<1>5. CASE Change(t, Spoiled(txDB[t])) BY <1>3, <1>5, SpoiledKeeps
<1>6. CASE Change(t, [Removed2(t, Id) EXCEPT !.phase = "done"])
  <2>1. PICK gone : gone = Matching(t, Id) OBVIOUS
  <2>2. PICK made : made = {} OBVIOUS
  <2>3. PICK out : out = Removed2(t, Id) OBVIOUS
  <2>4. out = [old EXCEPT !.ins = @ \ gone, !.del = @ \cup (gone \cap storeDB)] BY <1>1, <2>1, <2>3 DEF Removed2
  <2>5. PICK tx : tx = [out EXCEPT !.phase = "done"] OBVIOUS
  <2>6. /\ DOMAIN tx = TxFields /\ tx.phase = "done" /\ tx.ins = (old.ins \ gone) \cup made
        /\ tx.del = old.del \cup (gone \cap storeDB) /\ tx.row = old.row /\ tx.op = old.op /\ tx.ok = FALSE
    BY <1>2, <1>4, <2>2, <2>4, <2>5 DEF TxFields
  <2>7. Change(t, tx) BY <1>6, <2>3, <2>5
  <2>8. TxPhase(tx) /\ TxFound(t, tx) BY <2>6 DEF TxPhase, TxFound
  <2>9. gone \subseteq View(t) /\ \A r \in gone : r["ns"] = Row(t)["ns"]
    <3>1. "net" \notin Id /\ "ns" \in Id BY DEF Id
    <3> QED BY <2>1, <3>1, MatchingIs
  <2>10. ~KeepsDB BY <1>1, <1>3 DEF KeepsDB, Deleting
  <2>11. /\ \A m \in made : DOMAIN m = RowCols
         /\ \A m \in made, s \in View(t) \ gone : ~Conflict(m, s)
         /\ \A m, n \in made : Conflict(m, n) => m = n
         /\ \A u \in Others(t) : \A m \in made, s \in txDB[u].ins : ~Conflict(m, s)
         /\ \A r \in gone \cup made : r["ns"] = Row(t)["ns"]
         /\ \A r \in gone, m \in made : r["ns"] = m["ns"] /\ r["id"] = m["id"] => r["hash"] = m["hash"]
    BY <2>2, <2>9
  <2> QED BY <1>1, <1>3, <1>4, <2>6, <2>7, <2>8, <2>9, <2>10, <2>11, MadeKeeps
<1> QED BY <1>5, <1>6 DEF deleteRow

(* The ends of a transaction that change no row.                           *)
LEMMA PreCommitTable == ASSUME TableInv, NEW t \in TxDB, PreCommit(t) PROVE TableInv'
<1>1. PICK old : old = txDB[t] OBVIOUS
<1>2. TxOK(t, old) /\ DOMAIN old = TxFields BY <1>1, TxFacts DEF TxOK, TxType
<1>3. old.phase = "done" /\ Open(t) /\ storeDB' = storeDB /\ collection' = collection BY <1>1 DEF PreCommit, Open
<1>4. PICK tx : tx \in {[old EXCEPT !.phase = "precommit", !.seq = seqDB + 1], [old EXCEPT !.phase = "precommit"]} /\ Change(t, tx)
  <2>1. PICK a : a = [old EXCEPT !.phase = "precommit", !.seq = seqDB + 1] OBVIOUS
  <2>2. PICK b : b = [old EXCEPT !.phase = "precommit"] OBVIOUS
  <2>3. Change(t, a) \/ Change(t, b) BY <1>1, <2>1, <2>2 DEF PreCommit
  <2> QED BY <2>1, <2>2, <2>3
<1>5. /\ DOMAIN tx = TxFields /\ tx.phase = "precommit" /\ tx.ins = old.ins /\ tx.del = old.del
      /\ tx.row = old.row /\ tx.op = old.op /\ tx.ok = old.ok
  BY <1>2, <1>4 DEF TxFields
<1>6. TxPhase(tx) BY <1>5 DEF TxPhase
<1>7. TxFound(t, tx) BY <1>2, <1>3, <1>5 DEF TxOK, TxFound
<1> QED BY <1>1, <1>3, <1>4, <1>5, <1>6, <1>7, SameRows
LEMMA OverTable ==
    ASSUME TableInv, NEW t \in TxDB, Change(t, Over(t)), storeDB' = storeDB, collection' = collection
    PROVE  TableInv'
<1>1. PICK old : old = txDB[t] OBVIOUS
<1>2. TxOK(t, old) BY <1>1, TxFacts
<1>3. PICK tx : tx = Over(t) OBVIOUS
<1>4. DOMAIN tx = TxFields /\ tx.phase = "ended" /\ tx.op = old.op /\ tx.ins = {} /\ tx.del = {} /\ ~IsOpen(tx)
  BY <1>1, <1>3, IdleIs DEF Over, TxFields, IsOpen
<1>5. TxOK(t, tx) BY <1>2, <1>4 DEF TxOK, TxType, TxPhase, TxView, TxKept, TxFound
<1>6. \A u \in TxDB \ {t} : \A ty \in {txDB[u]} : ApartDB(tx, ty) BY <1>4 DEF ApartDB
<1> QED BY <1>1, <1>3, <1>4, <1>5, <1>6, LocalKeeps

(* The commit: what another transaction has found is still there, or has   *)
(* a row in its place.                                                     *)
LEMMA CommitFound ==
    ASSUME TableInv, NEW t \in TxDB, NEW tx, tx = txDB[t], IsOpen(tx), KeepsDB, NEW s \in storeDB
    PROVE  \E r \in View(t) : \A c \in KeptOf(T) : r[c] = s[c]
<1>1. TxOK(t, tx) /\ View(t) = (storeDB \ tx.del) \cup tx.ins BY TxFacts
<1> QED BY <1>1 DEF TxOK, TxKept
LEMMA CommitTable == ASSUME TableInv, NEW t \in TxDB, CommitTx(t) PROVE TableInv'
<1>1. PICK old : old = txDB[t] OBVIOUS
<1>2. /\ TxOK(t, old) /\ DOMAIN old = TxFields /\ TableOK(collection, T) /\ View(t) = (storeDB \ old.del) \cup old.ins
      /\ \A u \in TxDB \ {t} : \A ty \in {txDB[u]} : ApartDB(old, ty)
  BY <1>1, TxFacts DEF TxOK, TxType
<1>3. old.phase = "precommit" /\ Open(t) /\ IsOpen(old) /\ storeDB' = View(t) /\ collection' = collection
  BY <1>1 DEF CommitTx, Open, IsOpen
<1>4. PICK new : new = NewRows(t) OBVIOUS
<1>5. PICK tx : tx = [old EXCEPT !.phase = "committed", !.ins = new, !.del = {}] OBVIOUS
<1>6. Change(t, tx) /\ new \subseteq old.ins BY <1>1, <1>4, <1>5 DEF CommitTx, NewRows
<1>7. /\ DOMAIN tx = TxFields /\ tx.phase = "committed" /\ tx.ins = new /\ tx.del = {} /\ tx.row = old.row /\ tx.op = old.op
      /\ ~IsOpen(tx)
  BY <1>2, <1>5 DEF TxFields, IsOpen
<1>8. DOMAIN txDB' = TxDB /\ txDB'[t] = tx /\ \A u \in TxDB \ {t} : txDB'[u] = txDB[u]
  BY <1>6 DEF Change, TableInv
<1>9. T' = T /\ \A r, s : Conflict(r, s)' <=> Conflict(r, s) BY <1>3 DEF T, Conflict
<1>10. KeepsDB' => KeepsDB
  <2>1. Deleting => Deleting' BY <1>1, <1>7, <1>8 DEF Deleting
  <2> QED BY <1>3, <2>1 DEF KeepsDB
<1>11. TxOK(t, tx)' BY <1>2, <1>6, <1>7, <1>9 DEF TxOK, TxType, TxPhase, TxView, TxKept, TxFound, IsOpen
<1>12. ASSUME NEW u \in TxDB \ {t}, NEW ty, ty = txDB[u] PROVE TxOK(u, ty)'
  <2>1. TxOK(u, ty) /\ ApartDB(old, ty) BY <1>2, <1>12, TxFacts
  <2>2. TxType(ty)' BY <1>9, <2>1 DEF TxOK, TxType
  <2>3. TxPhase(ty)' BY <1>3, <2>1 DEF TxOK, TxPhase
  <2>4. TxView(ty)'
    <3>1. ASSUME IsOpen(ty), NEW r \in View(t) \ ty.del, NEW s \in ty.ins PROVE ~Conflict(r, s)
      <4>1. CASE r \in storeDB BY <2>1, <3>1, <4>1 DEF TxOK, TxView
      <4>2. CASE r \in old.ins BY <1>3, <2>1, <3>1, <4>2 DEF ApartDB
      <4> QED BY <1>2, <4>1, <4>2
    <3> QED BY <1>3, <1>9, <2>1, <3>1 DEF TxOK, TxView
  <2>5. TxKept(ty)' BY <1>3, <1>9, <1>10, <2>1 DEF TxOK, TxKept
  <2>6. TxFound(u, ty)'
    <3>1. ASSUME ty.phase = "first", ty.op = "replace" PROVE \E s \in View(t) : \A c \in Id \cup {"hash"} : ty.row[c] = s[c]
      <4>1. PICK s \in storeDB : \A c \in Id \cup {"hash"} : ty.row[c] = s[c] BY <2>1, <3>1 DEF TxOK, TxFound
      <4>2. collection = "messages" BY <1>2, <2>1, <3>1 DEF TxOK, TxType, TableOK
      <4>3. KeepsDB
        <5>1. \A v \in TxDB : txDB[v].op # "delete"
          <6> SUFFICES ASSUME NEW v \in TxDB, txDB[v].op = "delete" PROVE FALSE OBVIOUS
          <6>1. PICK tv : tv = txDB[v] OBVIOUS
          <6> QED BY <1>2, <4>2, <6>1, TxFacts DEF TxOK, TxType, TableOK
        <5> QED BY <4>2, <5>1 DEF KeepsDB, Deleting, ByName
      <4>4. PICK r \in View(t) : \A c \in KeptOf(T) : r[c] = s[c] BY <1>1, <1>3, <4>3, CommitFound
      <4>5. Id \cup {"hash"} \subseteq KeptOf(T) BY <1>2, <4>2 DEF TableOK, Hashed, KeptOf, Id
      <4> QED BY <4>1, <4>4, <4>5
    <3>2. ASSUME ty.phase = "write", ty.exists, KeepsDB
          PROVE  \E s \in View(t) : \E e \in T.exists : \A c \in e \cup T.where : ty.row[c] = s[c]
      <4>1. PICK s \in storeDB, e \in T.exists : \A c \in e \cup T.where : ty.row[c] = s[c]
        BY <2>1, <3>2 DEF TxOK, TxFound
      <4>2. PICK r \in View(t) : \A c \in KeptOf(T) : r[c] = s[c] BY <1>1, <1>3, <3>2, CommitFound
      <4>3. e \cup T.where \subseteq KeptOf(T) BY <1>2, <3>2, <4>1 DEF TableOK, KeptOf, KeepsDB
      <4>4. \A c \in e \cup T.where : ty.row[c] = r[c] BY <4>1, <4>2, <4>3
      <4> QED BY <4>1, <4>2, <4>4
    <3>3. ASSUME ty.phase \in {"done", "precommit"}, ty.ok = TRUE, KeepsDB
          PROVE  \E s \in ty.ins : \E e \in T.exists \cup {Id} : s.val = u /\ \A c \in e : ty.row[c] = s[c]
      BY <2>1, <3>3 DEF TxOK, TxFound
    <3> QED BY <1>3, <1>9, <1>10, <3>1, <3>2, <3>3 DEF TxFound
  <2> QED BY <2>2, <2>3, <2>4, <2>5, <2>6 DEF TxOK
<1>13. \A u \in TxDB : \A ty \in {txDB'[u]} : TxOK(u, ty)' BY <1>8, <1>11, <1>12
<1>14. \A tz, ty : ApartDB(tz, ty) => ApartDB(tz, ty)' BY <1>9 DEF ApartDB
<1>15. \A ty : ApartDB(tx, ty)' /\ ApartDB(ty, tx)' BY <1>7 DEF ApartDB, IsOpen
<1>16. \A u, v \in TxDB : u # v => \A tz \in {txDB'[u]}, ty \in {txDB'[v]} : ApartDB(tz, ty)'
  BY <1>8, <1>14, <1>15 DEF TableInv
<1>17. (\A r \in View(t) : DOMAIN r = RowCols) /\ \A r, s \in View(t) : Conflict(r, s) => r = s BY <1>1, <1>3, TxFacts
<1>18. collection \in DOMAIN Collections BY DEF TableInv
<1> QED BY <1>3, <1>8, <1>9, <1>13, <1>16, <1>17, <1>18 DEF TableInv

(* What a statement of a transaction leaves alone.                         *)
Statement(t) == InsertEvent(t) \/ attemptInsert(t) \/ attemptUpdate(t) \/ queryExisting(t) \/ writeUpdate(t) \/ writeInsert(t)
    \/ getExisting(t) \/ ReplaceMessage(t) \/ updateFiltered(t) \/ deleteRow(t) \/ abortTx(t)
Between == {"idle", "precommit", "committed", "ended"}
LEMMA FieldsOf ==
    ASSUME NEW old, DOMAIN old = TxFields, NEW t
    PROVE  /\ \A ph : [old EXCEPT !.phase = ph].row = old.row /\ [old EXCEPT !.phase = ph].phase = ph
           /\ Spoiled(old).row = old.row /\ Spoiled(old).phase = "failed"
           /\ Inserted(t, old).row = old.row /\ Inserted(t, old).phase = "done"
           /\ DOMAIN Inserted(t, old) = TxFields
<1>1. \A ph : [old EXCEPT !.phase = ph].row = old.row /\ [old EXCEPT !.phase = ph].phase = ph BY DEF TxFields
<1>2. Spoiled(old).row = old.row /\ Spoiled(old).phase = "failed" BY DEF TxFields, Spoiled
<1>3. PICK rows : rows = old.ins \cup {Stored(Row(t), seqDB + 1, t)} OBVIOUS
<1>4. Inserted(t, old) = [old EXCEPT !.ins = rows, !.phase = "done", !.ok = TRUE] BY <1>3 DEF Inserted
<1>5. Inserted(t, old).row = old.row /\ Inserted(t, old).phase = "done" /\ DOMAIN Inserted(t, old) = TxFields
  BY <1>4 DEF TxFields
<1> QED BY <1>1, <1>2, <1>5
LEMMA UpdatedFields ==
    ASSUME NEW old, DOMAIN old = TxFields, NEW t, NEW columns
    PROVE  /\ Updated(t, old, columns).row = old.row /\ Updated(t, old, columns).phase = "done"
           /\ DOMAIN Updated(t, old, columns) = TxFields
<1>1. PICK ins, del : Updated(t, old, columns) = [old EXCEPT !.ins = ins, !.del = del, !.phase = "done", !.ok = TRUE]
  BY DEF Updated
<1> QED BY <1>1 DEF TxFields
LEMMA RemovedFields ==
    ASSUME NEW t, DOMAIN txDB[t] = TxFields, NEW columns
    PROVE  Removed2(t, columns).row = txDB[t].row /\ DOMAIN Removed2(t, columns) = TxFields
<1>1. PICK old : old = txDB[t] OBVIOUS
<1>2. PICK ins, del : Removed2(t, columns) = [old EXCEPT !.ins = ins, !.del = del] BY <1>1 DEF Removed2
<1> QED BY <1>1, <1>2 DEF TxFields
LEMMA StatementIs ==
    ASSUME TableInv, NEW t \in TxDB, Statement(t)
    PROVE  /\ \E tx : Change(t, tx) /\ tx.row = txDB[t].row /\ tx.phase \notin Between
           /\ txDB[t].phase \notin Between /\ seqDB' \in {seqDB, seqDB + 1}
           /\ UNCHANGED <<collection, storeDB, eventsDB, lockDB, createdDB, notifiedDB>>
<1>1. PICK old : old = txDB[t] OBVIOUS
<1>2. DOMAIN old = TxFields BY <1>1, TxFacts DEF TxOK, TxType
<1>3. txDB[t].phase \notin Between /\ seqDB' \in {seqDB, seqDB + 1}
      /\ UNCHANGED <<collection, storeDB, eventsDB, lockDB, createdDB, notifiedDB>>
  BY DEF Statement, InsertEvent, attemptInsert, attemptUpdate, queryExisting, writeUpdate, writeInsert, getExisting,
         ReplaceMessage, updateFiltered, deleteRow, abortTx, Between
<1> DEFINE Fine(tx) == Change(t, tx) /\ tx.row = old.row /\ tx.phase \notin Between
<1>4. ASSUME Change(t, Spoiled(old)) PROVE \E tx : Fine(tx) BY <1>2, <1>4, FieldsOf DEF Between
<1>5. ASSUME Change(t, Inserted(t, old)) PROVE \E tx : Fine(tx) BY <1>2, <1>5, FieldsOf DEF Between
<1>6. ASSUME NEW ph, ph \notin Between, Change(t, [old EXCEPT !.phase = ph]) PROVE \E tx : Fine(tx)
  <2>1. [old EXCEPT !.phase = ph].row = old.row /\ [old EXCEPT !.phase = ph].phase = ph BY <1>2, FieldsOf
  <2> QED BY <1>6, <2>1
<1>7. ASSUME NEW columns, Change(t, Updated(t, old, columns)) PROVE \E tx : Fine(tx)
  BY <1>2, <1>7, UpdatedFields DEF Between
<1>8. \E tx : Fine(tx)
  <2>1. CASE InsertEvent(t)
    <3>1. PICK tx : tx = [old EXCEPT !.phase = "done", !.event = TRUE] OBVIOUS
    <3>2. tx.row = old.row /\ tx.phase \notin Between BY <1>2, <3>1 DEF TxFields, Between
    <3> QED BY <1>1, <2>1, <3>1, <3>2 DEF InsertEvent
  <2>2. CASE attemptInsert(t)
    <3>1. \/ Change(t, Spoiled(old)) \/ Change(t, Inserted(t, old)) \/ Change(t, [old EXCEPT !.phase = "query"])
          \/ Change(t, [old EXCEPT !.phase = "get"])
      BY <1>1, <2>2 DEF attemptInsert
    <3>2. "query" \notin Between /\ "get" \notin Between BY DEF Between
    <3> QED BY <1>4, <1>5, <1>6, <3>1, <3>2
  <2>3. CASE attemptUpdate(t)
    <3>1. PICK where : where = T.where OBVIOUS
    <3>2. \/ Change(t, Spoiled(old)) \/ Change(t, Updated(t, old, where))
          \/ Change(t, [Updated(t, old, where) EXCEPT !.phase = "query"])
      BY <1>1, <2>3, <3>1 DEF attemptUpdate
    <3>3. ASSUME Change(t, [Updated(t, old, where) EXCEPT !.phase = "query"]) PROVE \E tx : Fine(tx)
      <4>1. PICK up : up = Updated(t, old, where) OBVIOUS
      <4>2. DOMAIN up = TxFields /\ up.row = old.row BY <1>2, <4>1, UpdatedFields
      <4>3. PICK tx : tx = [up EXCEPT !.phase = "query"] OBVIOUS
      <4>4. tx.row = old.row /\ tx.phase \notin Between BY <4>2, <4>3 DEF TxFields, Between
      <4> QED BY <3>3, <4>1, <4>3, <4>4
    <3> QED BY <1>4, <1>7, <3>2, <3>3
  <2>4. CASE queryExisting(t)
    <3>1. PICK found : found = Existing(t) OBVIOUS
    <3>2. PICK tx : tx = [old EXCEPT !.phase = "write", !.exists = found # {}] OBVIOUS
    <3>3. Change(t, Spoiled(old)) \/ Change(t, [old EXCEPT !.phase = "done"]) \/ Change(t, tx)
      BY <1>1, <2>4, <3>1, <3>2 DEF queryExisting
    <3>4. tx.row = old.row /\ tx.phase \notin Between BY <1>2, <3>2 DEF TxFields, Between
    <3>5. "done" \notin Between BY DEF Between
    <3> QED BY <1>4, <1>6, <3>3, <3>4, <3>5
  <2>5. CASE writeUpdate(t)
    <3>1. Change(t, Spoiled(old)) \/ Change(t, Updated(t, old, T.where)) BY <1>1, <2>5 DEF writeUpdate
    <3>2. PICK where : where = T.where OBVIOUS
    <3> QED BY <1>4, <1>7, <3>1, <3>2
  <2>6. CASE writeInsert(t)
    <3>1. Change(t, Spoiled(old)) \/ Change(t, Inserted(t, old)) BY <1>1, <2>6 DEF writeInsert
    <3> QED BY <1>4, <1>5, <3>1
  <2>7. CASE getExisting(t)
    <3>1. Change(t, Spoiled(old)) \/ Change(t, [old EXCEPT !.phase = "done"]) BY <1>1, <2>7 DEF getExisting
    <3>2. "done" \notin Between BY DEF Between
    <3> QED BY <1>4, <1>6, <3>1, <3>2
  <2>8. CASE ReplaceMessage(t)
    <3>1. Change(t, Spoiled(old)) \/ Change(t, Inserted(t, Removed2(t, Id))) BY <1>1, <2>8 DEF ReplaceMessage
    <3>2. ASSUME Change(t, Inserted(t, Removed2(t, Id))) PROVE \E tx : Fine(tx)
      <4>1. PICK out : out = Removed2(t, Id) OBVIOUS
      <4>2. DOMAIN out = TxFields /\ out.row = old.row BY <1>1, <1>2, <4>1, RemovedFields
      <4>3. Inserted(t, out).row = old.row /\ Inserted(t, out).phase = "done" BY <4>2, FieldsOf
      <4> QED BY <3>2, <4>1, <4>3 DEF Between
    <3> QED BY <1>4, <3>1, <3>2
  <2>9. CASE updateFiltered(t)
    <3>1. PICK gone : gone = Matching(t, Id) OBVIOUS
    <3>2. PICK made : made = {[s EXCEPT !.val = t] : s \in gone} OBVIOUS
    <3>3. PICK tx : tx = [old EXCEPT !.ins = (@ \ gone) \cup made, !.del = @ \cup (gone \cap storeDB), !.phase = "done"] OBVIOUS
    <3>4. Change(t, tx) BY <1>1, <2>9, <3>1, <3>2, <3>3 DEF updateFiltered
    <3>5. tx.row = old.row /\ tx.phase \notin Between BY <1>2, <3>3 DEF TxFields, Between
    <3> QED BY <3>4, <3>5
  <2>10. CASE deleteRow(t)
    <3>1. Change(t, Spoiled(old)) \/ Change(t, [Removed2(t, Id) EXCEPT !.phase = "done"]) BY <1>1, <2>10 DEF deleteRow
    <3>2. ASSUME Change(t, [Removed2(t, Id) EXCEPT !.phase = "done"]) PROVE \E tx : Fine(tx)
      <4>1. PICK out : out = Removed2(t, Id) OBVIOUS
      <4>2. DOMAIN out = TxFields /\ out.row = old.row BY <1>1, <1>2, <4>1, RemovedFields
      <4>3. [out EXCEPT !.phase = "done"].row = old.row /\ [out EXCEPT !.phase = "done"].phase = "done" BY <4>2, FieldsOf
      <4> QED BY <3>2, <4>1, <4>3 DEF Between
    <3> QED BY <1>4, <3>1, <3>2
  <2>11. CASE abortTx(t) BY <1>1, <1>4, <2>11 DEF abortTx
  <2> QED BY <2>1, <2>2, <2>3, <2>4, <2>5, <2>6, <2>7, <2>8, <2>9, <2>10, <2>11 DEF Statement
<1> QED BY <1>1, <1>3, <1>8

(* An event that is about to be committed holds the lock of its namespace, *)
(* and its sequence is past those of all the others there; every row the   *)
(* hooks are told of is stored, and every stored row is still to be told.  *)
EventInv ==
    /\ seqDB \in Nat /\ DOMAIN lockDB = {r.ns : r \in RowsDB}
    /\ \A e \in eventsDB : e.seq \in Nat /\ e.seq <= seqDB
    /\ \A t \in TxDB : txDB[t].phase \notin {"idle", "ended", "committed"} => txDB[t].row \in RowsDB
    /\ \A t \in TxDB : txDB[t].phase = "precommit" /\ (txDB[t].event = TRUE) =>
          /\ lockDB[txDB[t].row.ns] = t /\ txDB[t].seq \in Nat /\ txDB[t].seq <= seqDB
          /\ \A e \in eventsDB : e.ns = txDB[t].row.ns => e.seq < txDB[t].seq
NotifyInv ==
    /\ notifiedDB \subseteq createdDB
    /\ \A t \in TxDB : txDB[t].phase = "committed" => \A s \in txDB[t].ins : s.seq \in createdDB
    /\ collection \notin Silent => \A q \in createdDB :
          q \in notifiedDB \/ \E t \in TxDB : txDB[t].phase = "committed" /\ \E s \in txDB[t].ins : s.seq = q
LEMMA EventsInit == ASSUME InitDB PROVE EventInv /\ NotifyInv
<1>1. \A t \in TxDB : txDB[t].phase = "idle" BY IdleIs DEF InitDB
<1> QED BY <1>1 DEF InitDB, EventInv, NotifyInv

(* A step within a transaction, and one that begins or ends it.            *)
LEMMA WithinKeeps ==
    ASSUME TableInv, EventInv, NotifyInv, NEW t \in TxDB, NEW tx, Change(t, tx), tx.phase \notin {"precommit", "committed"},
           tx.phase # "ended" => tx.row \in RowsDB, txDB[t].phase # "committed", seqDB' \in {seqDB, seqDB + 1},
           UNCHANGED <<collection, eventsDB, lockDB, createdDB, notifiedDB>>
    PROVE  EventInv' /\ NotifyInv'
<1>1. txDB'[t] = tx /\ \A u \in TxDB \ {t} : txDB'[u] = txDB[u] BY DEF Change, TableInv
<1>2. seqDB' \in Nat /\ seqDB <= seqDB' BY DEF EventInv
<1>3. EventInv'
  <2>1. seqDB' \in Nat /\ DOMAIN lockDB' = {r.ns : r \in RowsDB} BY <1>2 DEF EventInv
  <2>2. \A e \in eventsDB' : e.seq \in Nat /\ e.seq <= seqDB' BY <1>2 DEF EventInv
  <2>3. \A u \in TxDB : txDB'[u].phase \notin {"idle", "ended", "committed"} => txDB'[u].row \in RowsDB BY <1>1 DEF EventInv
  <2>4. \A u \in TxDB : txDB'[u].phase = "precommit" /\ (txDB'[u].event = TRUE) =>
          /\ lockDB'[txDB'[u].row.ns] = u /\ txDB'[u].seq \in Nat /\ txDB'[u].seq <= seqDB'
          /\ \A e \in eventsDB' : e.ns = txDB'[u].row.ns => e.seq < txDB'[u].seq
    BY <1>1, <1>2 DEF EventInv
  <2> QED BY <2>1, <2>2, <2>3, <2>4 DEF EventInv
<1>4. NotifyInv' BY <1>1 DEF NotifyInv
<1> QED BY <1>3, <1>4
LEMMA PreCommitEvents == ASSUME TableInv, EventInv, NotifyInv, NEW t \in TxDB, PreCommit(t) PROVE EventInv' /\ NotifyInv'
<1>1. PICK old : old = txDB[t] OBVIOUS
<1>2. DOMAIN old = TxFields BY <1>1, TxFacts DEF TxOK, TxType
<1>3. old.phase = "done" /\ old.row \in RowsDB /\ UNCHANGED <<collection, eventsDB, createdDB, notifiedDB>>
  BY <1>1 DEF PreCommit, EventInv
<1>4. \A tx : Change(t, tx) => txDB'[t] = tx /\ \A u \in TxDB \ {t} : txDB'[u] = txDB[u] BY DEF Change, TableInv
<1>5. CASE txDB[t].event
  <2>1. PICK tx : tx = [old EXCEPT !.phase = "precommit", !.seq = seqDB + 1] OBVIOUS
  <2>2. AcquireLockTx(t) /\ Change(t, tx) /\ seqDB' = seqDB + 1 BY <1>1, <1>5, <2>1 DEF PreCommit
  <2>3. tx.phase = "precommit" /\ tx.seq = seqDB + 1 /\ tx.row = old.row BY <1>2, <2>1 DEF TxFields
  <2>4. txDB'[t] = tx /\ \A u \in TxDB \ {t} : txDB'[u] = txDB[u] BY <1>4, <2>2
  <2>5. PICK ns : ns = old.row.ns OBVIOUS
  <2>6. lockDB[ns] = 0 /\ lockDB' = [lockDB EXCEPT ![ns] = t] /\ ns \in DOMAIN lockDB
    BY <1>1, <1>3, <2>2, <2>5 DEF AcquireLockTx, Row, EventInv
  <2>7. seqDB' \in Nat /\ seqDB \in Nat /\ seqDB < seqDB' BY <2>2 DEF EventInv
  <2>8. \A e \in eventsDB' : e.seq \in Nat /\ e.seq <= seqDB' /\ e.seq < tx.seq BY <1>3, <2>2, <2>3, <2>7 DEF EventInv
  <2>9. ASSUME NEW u \in TxDB, txDB'[u].phase = "precommit", txDB'[u].event = TRUE
        PROVE  /\ lockDB'[txDB'[u].row.ns] = u /\ txDB'[u].seq \in Nat /\ txDB'[u].seq <= seqDB'
               /\ \A e \in eventsDB' : e.ns = txDB'[u].row.ns => e.seq < txDB'[u].seq
    <3>1. CASE u = t BY <2>2, <2>3, <2>4, <2>5, <2>6, <2>7, <2>8, <3>1
    <3>2. CASE u # t
      <4>1. PICK ty : ty = txDB[u] OBVIOUS
      <4>2. /\ lockDB[ty.row.ns] = u /\ ty.seq \in Nat /\ ty.seq <= seqDB
            /\ \A e \in eventsDB : e.ns = ty.row.ns => e.seq < ty.seq
        BY <2>4, <2>9, <3>2, <4>1 DEF EventInv
      <4>3. ty.row.ns # ns /\ ty.row.ns \in DOMAIN lockDB
        <5>1. ty.row \in RowsDB BY <2>4, <2>9, <3>2, <4>1 DEF EventInv
        <5> QED BY <2>6, <4>2, <5>1, TxAssumption DEF EventInv
      <4>4. lockDB'[ty.row.ns] = u BY <2>6, <4>2, <4>3
      <4> QED BY <1>3, <2>4, <2>7, <3>2, <4>1, <4>2, <4>4
    <3> QED BY <3>1, <3>2
  <2>10. DOMAIN lockDB' = {r.ns : r \in RowsDB} BY <2>6 DEF EventInv
  <2>11. \A u \in TxDB : txDB'[u].phase \notin {"idle", "ended", "committed"} => txDB'[u].row \in RowsDB
    BY <1>3, <2>3, <2>4 DEF EventInv
  <2>12. NotifyInv' BY <1>1, <1>3, <2>3, <2>4 DEF NotifyInv
  <2> QED BY <2>7, <2>8, <2>9, <2>10, <2>11, <2>12 DEF EventInv
<1>6. CASE ~txDB[t].event
  <2>1. PICK tx : tx = [old EXCEPT !.phase = "precommit"] OBVIOUS
  <2>2. Change(t, tx) /\ UNCHANGED <<lockDB, seqDB>> BY <1>1, <1>6, <2>1 DEF PreCommit
  <2>3. tx.phase = "precommit" /\ tx.event = old.event /\ tx.row = old.row BY <1>2, <2>1 DEF TxFields
  <2>4. txDB'[t] = tx /\ \A u \in TxDB \ {t} : txDB'[u] = txDB[u] BY <1>4, <2>2
  <2>5. EventInv'
    <3>1. txDB'[t].event # TRUE BY <1>1, <1>6, <2>3, <2>4
    <3> QED BY <1>3, <2>2, <2>3, <2>4, <3>1 DEF EventInv
  <2>6. NotifyInv' BY <1>1, <1>3, <2>3, <2>4 DEF NotifyInv
  <2> QED BY <2>5, <2>6
<1> QED BY <1>5, <1>6

(* One of the transactions that wait for one another fails.                *)
LEMMA abortTable == ASSUME TableInv, NEW t \in TxDB, abortTx(t) PROVE TableInv'
<1>1. Open(t) /\ storeDB' = storeDB /\ collection' = collection /\ Change(t, Spoiled(txDB[t])) BY DEF abortTx, Open
<1> QED BY <1>1, SpoiledKeeps

(* The commit and what comes after it.                                     *)
LEMMA CommitEvents == ASSUME TableInv, EventInv, NotifyInv, NEW t \in TxDB, CommitTx(t) PROVE EventInv' /\ NotifyInv'
<1>1. PICK old : old = txDB[t] OBVIOUS
<1>2. DOMAIN old = TxFields BY <1>1, TxFacts DEF TxOK, TxType
<1>3. PICK new : new = NewRows(t) OBVIOUS
<1>4. PICK tx : tx = [old EXCEPT !.phase = "committed", !.ins = new, !.del = {}] OBVIOUS
<1>5. Change(t, tx) /\ old.phase = "precommit" /\ UNCHANGED <<collection, seqDB, notifiedDB>>
      /\ createdDB' = createdDB \cup {s.seq : s \in new}
      /\ lockDB' = [n \in DOMAIN lockDB |-> IF lockDB[n] = t THEN 0 ELSE lockDB[n]]
  BY <1>1, <1>3, <1>4 DEF CommitTx
<1>6. txDB'[t] = tx /\ \A u \in TxDB \ {t} : txDB'[u] = txDB[u] BY <1>5 DEF Change, TableInv
<1>7. tx.phase = "committed" /\ tx.ins = new BY <1>2, <1>4 DEF TxFields
<1>8. NotifyInv'
  <2>1. notifiedDB' \subseteq createdDB' BY <1>5 DEF NotifyInv
  <2>2. \A u \in TxDB : txDB'[u].phase = "committed" => \A s \in txDB'[u].ins : s.seq \in createdDB'
    BY <1>5, <1>6, <1>7 DEF NotifyInv
  <2>3. ASSUME collection' \notin Silent, NEW q \in createdDB'
        PROVE  q \in notifiedDB' \/ \E u \in TxDB : txDB'[u].phase = "committed" /\ \E s \in txDB'[u].ins : s.seq = q
    <3>1. CASE q \in createdDB
      <4>1. q \in notifiedDB \/ \E u \in TxDB : txDB[u].phase = "committed" /\ \E s \in txDB[u].ins : s.seq = q
        BY <1>5, <2>3, <3>1 DEF NotifyInv
      <4>2. \A u \in TxDB : txDB[u].phase = "committed" => u # t BY <1>1, <1>5
      <4> QED BY <1>5, <1>6, <4>1, <4>2
    <3>2. CASE \E s \in new : q = s.seq BY <1>6, <1>7, <3>2
    <3> QED BY <1>5, <2>3, <3>1, <3>2
  <2> QED BY <2>1, <2>2, <2>3 DEF NotifyInv
<1>9. EventInv'
  <2>1. seqDB' \in Nat /\ DOMAIN lockDB' = {r.ns : r \in RowsDB} BY <1>5 DEF EventInv
  <2>2. \A u \in TxDB : txDB'[u].phase \notin {"idle", "ended", "committed"} => txDB'[u].row \in RowsDB
    BY <1>6, <1>7 DEF EventInv
  <2>3. \A e \in eventsDB' : e \in eventsDB \/ (txDB[t].event = TRUE /\ e.ns = old.row.ns /\ e.seq = old.seq)
    <3>1. CASE txDB[t].event BY <1>1, <3>1 DEF CommitTx, Row
    <3>2. CASE ~txDB[t].event BY <3>2 DEF CommitTx
    <3> QED BY <3>1, <3>2
  <2>4. \A e \in eventsDB' : e.seq \in Nat /\ e.seq <= seqDB' BY <1>1, <1>5, <2>3 DEF EventInv
  <2>5. ASSUME NEW u \in TxDB, txDB'[u].phase = "precommit", txDB'[u].event = TRUE
        PROVE  /\ lockDB'[txDB'[u].row.ns] = u /\ txDB'[u].seq \in Nat /\ txDB'[u].seq <= seqDB'
               /\ \A e \in eventsDB' : e.ns = txDB'[u].row.ns => e.seq < txDB'[u].seq
    <3>1. u # t /\ txDB'[u] = txDB[u] BY <1>6, <1>7, <2>5
    <3>2. PICK ty : ty = txDB[u] OBVIOUS
    <3>3. /\ lockDB[ty.row.ns] = u /\ ty.seq \in Nat /\ ty.seq <= seqDB /\ ty.row \in RowsDB
          /\ \A e \in eventsDB : e.ns = ty.row.ns => e.seq < ty.seq
      BY <2>5, <3>1, <3>2 DEF EventInv
    <3>4. ty.row.ns \in DOMAIN lockDB BY <3>3 DEF EventInv
    <3>5. lockDB'[ty.row.ns] = u BY <1>5, <3>1, <3>3, <3>4
    <3>6. txDB[t].event = TRUE => old.row.ns # ty.row.ns BY <1>1, <1>5, <3>1, <3>3 DEF EventInv
    <3> QED BY <1>5, <2>3, <3>1, <3>2, <3>3, <3>5, <3>6
  <2> QED BY <2>1, <2>2, <2>4, <2>5 DEF EventInv
<1> QED BY <1>8, <1>9
LEMMA OverFields == ASSUME NEW t PROVE Over(t).phase = "ended"
BY IdleIs DEF Over, TxFields
LEMMA postCommitEvents == ASSUME TableInv, EventInv, NotifyInv, NEW t \in TxDB, postCommit(t) PROVE EventInv' /\ NotifyInv'
<1>1. PICK tx : tx = Over(t) OBVIOUS
<1>2. tx.phase = "ended" BY <1>1, OverFields
<1>3. Change(t, tx) /\ txDB[t].phase = "committed" /\ UNCHANGED <<collection, seqDB, eventsDB, lockDB, createdDB>>
      /\ notifiedDB' = IF collection \in Silent THEN notifiedDB ELSE notifiedDB \cup {s.seq : s \in txDB[t].ins}
  BY <1>1 DEF postCommit
<1>4. txDB'[t] = tx /\ \A u \in TxDB \ {t} : txDB'[u] = txDB[u] BY <1>3 DEF Change, TableInv
<1>5. EventInv'
  <2>1. \A u \in TxDB : txDB'[u].phase = "precommit" => u # t BY <1>2, <1>4
  <2> QED BY <1>2, <1>3, <1>4, <2>1 DEF EventInv
<1>6. NotifyInv'
  <2>1. notifiedDB' \subseteq createdDB' BY <1>3 DEF NotifyInv
  <2>2. \A u \in TxDB : txDB'[u].phase = "committed" => \A s \in txDB'[u].ins : s.seq \in createdDB'
    BY <1>2, <1>3, <1>4 DEF NotifyInv
  <2>3. ASSUME collection' \notin Silent, NEW q \in createdDB'
        PROVE  q \in notifiedDB' \/ \E u \in TxDB : txDB'[u].phase = "committed" /\ \E s \in txDB'[u].ins : s.seq = q
    <3>1. q \in notifiedDB \/ \E u \in TxDB : txDB[u].phase = "committed" /\ \E s \in txDB[u].ins : s.seq = q
      BY <1>3, <2>3 DEF NotifyInv
    <3>2. notifiedDB \subseteq notifiedDB' /\ \A s \in txDB[t].ins : s.seq \in notifiedDB' BY <1>3, <2>3
    <3> QED BY <1>4, <3>1, <3>2
  <2> QED BY <2>1, <2>2, <2>3 DEF NotifyInv
<1> QED BY <1>5, <1>6

(* The invariant of the tables, step by step.                              *)
StoreInv == TableInv /\ EventInv /\ NotifyInv
LEMMA StoreInit == ASSUME InitDB PROVE StoreInv
BY TableInit, EventsInit DEF StoreInv
LEMMA StatementKeeps == ASSUME StoreInv, NEW t \in TxDB, Statement(t) PROVE StoreInv'
<1>1. TableInv'
  BY InsertEventTable, attemptInsertTable, attemptUpdateTable, queryExistingTable, writeUpdateTable, writeInsertTable,
     getExistingTable, ReplaceTable, updateFilteredTable, deleteRowTable, abortTable DEF Statement, StoreInv
<1>2. TableInv /\ EventInv /\ NotifyInv BY DEF StoreInv
<1>3. PICK tx : Change(t, tx) /\ tx.row = txDB[t].row /\ tx.phase \notin Between BY <1>2, StatementIs
<1>4. txDB[t].phase \notin Between /\ seqDB' \in {seqDB, seqDB + 1}
      /\ UNCHANGED <<collection, eventsDB, lockDB, createdDB, notifiedDB>>
  BY <1>2, StatementIs
<1>5. txDB[t].row \in RowsDB BY <1>2, <1>4 DEF Between, EventInv
<1>6. tx.phase \notin {"precommit", "committed"} /\ tx.row \in RowsDB /\ txDB[t].phase # "committed"
  BY <1>3, <1>4, <1>5 DEF Between
<1>7. EventInv' /\ NotifyInv' BY <1>2, <1>3, <1>4, <1>6, WithinKeeps
<1> QED BY <1>1, <1>7 DEF StoreInv
LEMMA BeginKeeps == ASSUME StoreInv, NEW t \in TxDB, NEW op \in T.ops, NEW r \in RowsDB, BeginOrUseTx(t, op, r) PROVE StoreInv'
<1>1. TableInv /\ EventInv /\ NotifyInv BY DEF StoreInv
<1>2. TableInv' BY <1>1, BeginTable
<1>3. PICK tx : tx = [Idle EXCEPT !.phase = "first", !.op = op, !.row = r] OBVIOUS
<1>4. tx.phase = "first" /\ tx.row = r BY <1>3, IdleIs DEF TxFields
<1>5. Change(t, tx) /\ txDB[t].phase = "idle" /\ UNCHANGED <<collection, seqDB, eventsDB, lockDB, createdDB, notifiedDB>>
  BY <1>3 DEF BeginOrUseTx
<1>6. EventInv' /\ NotifyInv' BY <1>1, <1>4, <1>5, WithinKeeps
<1> QED BY <1>2, <1>6 DEF StoreInv
LEMMA RollbackKeeps == ASSUME StoreInv, NEW t \in TxDB, RollbackTx(t) PROVE StoreInv'
<1>1. TableInv /\ EventInv /\ NotifyInv BY DEF StoreInv
<1>2. PICK tx : tx = Over(t) OBVIOUS
<1>3. tx.phase = "ended" BY <1>2, OverFields
<1>4. Change(t, tx) /\ txDB[t].phase # "committed" /\ storeDB' = storeDB
      /\ UNCHANGED <<collection, seqDB, eventsDB, lockDB, createdDB, notifiedDB>>
  BY <1>2 DEF RollbackTx
<1>5. TableInv' BY <1>1, <1>2, <1>4, OverTable
<1>6. EventInv' /\ NotifyInv' BY <1>1, <1>3, <1>4, WithinKeeps
<1> QED BY <1>5, <1>6 DEF StoreInv
LEMMA StoreKeeps == ASSUME StoreInv, NextDB PROVE StoreInv'
<1>1. TableInv /\ EventInv /\ NotifyInv BY DEF StoreInv
<1>2. PICK t \in TxDB :
    \/ \E op \in T.ops, r \in RowsDB : BeginOrUseTx(t, op, r)
    \/ Statement(t) \/ PreCommit(t) \/ CommitTx(t) \/ postCommit(t) \/ RollbackTx(t)
  BY DEF NextDB, Statement
<1>3. ASSUME NEW op \in T.ops, NEW r \in RowsDB, BeginOrUseTx(t, op, r) PROVE StoreInv' BY <1>3, BeginKeeps
<1>4. CASE Statement(t) BY <1>4, StatementKeeps
<1>5. CASE PreCommit(t) BY <1>1, <1>5, PreCommitTable, PreCommitEvents DEF StoreInv
<1>6. CASE CommitTx(t) BY <1>1, <1>6, CommitTable, CommitEvents DEF StoreInv
<1>7. CASE postCommit(t)
  <2>1. Change(t, Over(t)) /\ storeDB' = storeDB /\ collection' = collection BY <1>7 DEF postCommit
  <2> QED BY <1>1, <1>7, <2>1, OverTable, postCommitEvents DEF StoreInv
<1>8. CASE RollbackTx(t) BY <1>8, RollbackKeeps
<1> QED BY <1>2, <1>3, <1>4, <1>5, <1>6, <1>7, <1>8
LEMMA StoreStutters == ASSUME StoreInv, UNCHANGED varsDB PROVE StoreInv'
<1>1. UNCHANGED <<collection, storeDB, txDB, seqDB, eventsDB, lockDB, createdDB, notifiedDB>> BY DEF varsDB
<1>2. (KeepsDB' <=> KeepsDB) /\ T' = T /\ \A r, s : Conflict(r, s)' <=> Conflict(r, s)
  BY <1>1 DEF KeepsDB, Deleting, T, Conflict
<1>3. ASSUME NEW u, NEW ty, TxOK(u, ty) PROVE TxOK(u, ty)'
  BY <1>1, <1>2, <1>3 DEF TxOK, TxType, TxPhase, TxView, TxKept, TxFound
<1>4. \A tz, ty : ApartDB(tz, ty) => ApartDB(tz, ty)' BY <1>2 DEF ApartDB
<1>5. TableInv' BY <1>1, <1>2, <1>3, <1>4 DEF StoreInv, TableInv
<1>6. EventInv' /\ NotifyInv' BY <1>1 DEF StoreInv, EventInv, NotifyInv
<1> QED BY <1>5, <1>6 DEF StoreInv

(* What the invariant says of a state.                                     *)
LEMMA TablesSafe == ASSUME StoreInv PROVE TablesConsistent
<1>1. TableInv /\ EventInv /\ NotifyInv BY DEF StoreInv
<1>2. collection \in DOMAIN Collections /\ TableOK(collection, T) BY <1>1, TableFacts DEF TableInv
<1>3. NotifiedAreStored
  <2>1. notifiedDB \subseteq createdDB BY <1>1 DEF NotifyInv
  <2>2. ASSUME collection \notin Silent, \A t \in TxDB : txDB[t].phase \in {"idle", "ended"}
        PROVE  createdDB \subseteq notifiedDB
    BY <1>1, <2>2 DEF NotifyInv
  <2> QED BY <2>1, <2>2 DEF NotifiedAreStored
<1>4. UpsertStored
  <2> SUFFICES ASSUME NEW t \in TxDB, txDB[t].phase = "precommit", txDB[t].ok, collection \notin ByName, ~Deleting
               PROVE  \E s \in View(t) : s.val = t /\ \E e \in T.exists \cup {Id} : Agree(Row(t), s, e)
    BY DEF UpsertStored
  <2>1. PICK tx : tx = txDB[t] OBVIOUS
  <2>2. TxOK(t, tx) /\ Row(t) = tx.row /\ View(t) = (storeDB \ tx.del) \cup tx.ins BY <1>1, <2>1, TxFacts
  <2>3. PICK s \in tx.ins, e \in T.exists \cup {Id} : s.val = t /\ \A c \in e : tx.row[c] = s[c]
    BY <2>1, <2>2 DEF TxOK, TxFound, KeepsDB
  <2>4. "net" \notin e BY <1>2, <2>3 DEF TableOK, Id
  <2>5. Agree(Row(t), s, e) BY <2>2, <2>3, <2>4, AgreeIs
  <2> QED BY <2>2, <2>3, <2>5
<1>5. GetsAreUnique
  <2> SUFFICES ASSUME collection # "nonces", NEW g \in T.gets, NEW r \in storeDB, NEW s \in storeDB, Agree(r, s, g)
               PROVE  r = s
    BY DEF GetsAreUnique
  <2>1. PICK u \in T.unique : u \subseteq g BY <1>2 DEF TableOK
  <2>2. Agree(r, s, u) BY <2>1, AgreeIs
  <2>3. Conflict(r, s) BY <2>2 DEF Conflict
  <2> QED BY <1>1, <2>3 DEF TableInv
<1> QED BY <1>3, <1>4, <1>5 DEF TablesConsistent

(* What it says of a step: only a commit changes rows or shows events.     *)
EventStep == \A new \in eventsDB' \ eventsDB, old \in eventsDB : new.ns = old.ns => new.seq > old.seq
HashStep == \A r \in storeDB, s \in storeDB' : collection \in Hashed /\ r.ns = s.ns /\ r.id = s.id => r.hash = s.hash
ApartStep ==
    \A t \in TxDB :
        /\ collection \notin Unscoped \cup Shared
        /\ txDB[t].phase = "precommit" /\ txDB'[t].phase = "committed"
        => {s \in storeDB : s.ns # txDB[t].row.ns} = {s \in storeDB' : s.ns # txDB[t].row.ns}
LEMMA QuietSteps ==
    ASSUME StoreInv, storeDB' = storeDB, eventsDB' = eventsDB
    PROVE  EventStep /\ HashStep /\ ApartStep
<1>1. TableInv BY DEF StoreInv
<1>2. EventStep /\ ApartStep BY DEF EventStep, ApartStep
<1>3. HashStep
  <2> SUFFICES ASSUME NEW r \in storeDB, NEW s \in storeDB, collection \in Hashed, r.ns = s.ns, r.id = s.id PROVE r.hash = s.hash
    BY DEF HashStep
  <2>1. TableOK(collection, T) BY <1>1, TableFacts DEF TableInv
  <2>2. Id \in T.unique BY <2>1 DEF TableOK
  <2>3. "net" \notin Id /\ \A c \in Id : r[c] = s[c]
    <3>1. r["ns"] = s["ns"] /\ r["id"] = s["id"] OBVIOUS
    <3> QED BY <3>1 DEF Id
  <2>4. Agree(r, s, Id) BY <2>3, AgreeIs
  <2>5. r = s BY <1>1, <2>2, <2>4 DEF TableInv, Conflict
  <2> QED BY <2>5
<1> QED BY <1>2, <1>3
LEMMA CommitSteps == ASSUME StoreInv, NEW t \in TxDB, CommitTx(t) PROVE EventStep /\ HashStep /\ ApartStep
<1>1. TableInv /\ EventInv BY DEF StoreInv
<1>2. PICK old : old = txDB[t] OBVIOUS
<1>3. /\ TxOK(t, old) /\ TableOK(collection, T) /\ View(t) = (storeDB \ old.del) \cup old.ins
      /\ DOMAIN old = TxFields
  BY <1>1, <1>2, TxFacts DEF TxOK, TxType
<1>4. old.phase = "precommit" /\ IsOpen(old) /\ storeDB' = (storeDB \ old.del) \cup old.ins
  BY <1>2, <1>3 DEF CommitTx, IsOpen
<1>5. EventStep
  <2>1. CASE txDB[t].event
    <3>1. \A e \in eventsDB' \ eventsDB : e.ns = old.row.ns /\ e.seq = old.seq BY <1>2, <2>1 DEF CommitTx, Row
    <3>2. \A e \in eventsDB : e.ns = old.row.ns => e.seq < old.seq BY <1>1, <1>2, <1>4, <2>1 DEF EventInv
    <3>3. old.seq \in Nat /\ \A e \in eventsDB : e.seq \in Nat BY <1>1, <1>2, <1>4, <2>1 DEF EventInv
    <3> QED BY <3>1, <3>2, <3>3 DEF EventStep
  <2>2. CASE ~txDB[t].event BY <2>2 DEF CommitTx, EventStep
  <2> QED BY <2>1, <2>2
<1>6. HashStep
  <2> SUFFICES ASSUME NEW r \in storeDB, NEW s \in storeDB', collection \in Hashed, r.ns = s.ns, r.id = s.id PROVE r.hash = s.hash
    BY DEF HashStep
  <2>1. "net" \notin Id /\ \A c \in Id : r[c] = s[c]
    <3>1. r["ns"] = s["ns"] /\ r["id"] = s["id"] OBVIOUS
    <3> QED BY <3>1 DEF Id
  <2>2. Conflict(r, s)
    <3>1. Id \in T.unique BY <1>3 DEF TableOK
    <3>2. Agree(r, s, Id) BY <2>1, AgreeIs
    <3> QED BY <3>1, <3>2 DEF Conflict
  <2>3. CASE s \in storeDB BY <1>1, <2>2, <2>3 DEF TableInv
  <2>4. CASE s \in old.ins /\ r \notin old.del BY <1>3, <1>4, <2>2, <2>4 DEF TxOK, TxView
  <2>5. CASE s \in old.ins /\ r \in old.del
    <3>1. r["hash"] = s["hash"] BY <1>3, <1>4, <2>1, <2>5 DEF TxOK, TxKept, Id
    <3> QED BY <3>1
  <2> QED BY <1>4, <2>3, <2>4, <2>5
<1>7. ApartStep
  <2> SUFFICES ASSUME NEW u \in TxDB, collection \notin Unscoped \cup Shared, txDB[u].phase = "precommit",
                      txDB'[u].phase = "committed"
               PROVE  {s \in storeDB : s.ns # txDB[u].row.ns} = {s \in storeDB' : s.ns # txDB[u].row.ns}
    BY DEF ApartStep
  <2>1. u = t
    <3>1. PICK tx : Change(t, tx) BY DEF CommitTx
    <3> QED BY <1>1, <3>1 DEF Change, TableInv
  <2>2. \A r \in old.ins \cup old.del : r["ns"] = old.row["ns"] BY <1>3, <1>4 DEF TxOK, TxKept
  <2>3. \A r \in old.ins \cup old.del : r.ns = old.row.ns BY <2>2
  <2> QED BY <1>2, <1>4, <2>1, <2>3
<1> QED BY <1>5, <1>6, <1>7
LEMMA StoreSteps == ASSUME StoreInv, [NextDB]_varsDB PROVE EventStep /\ HashStep /\ ApartStep
<1>1. CASE UNCHANGED varsDB
  <2>1. storeDB' = storeDB /\ eventsDB' = eventsDB BY <1>1 DEF varsDB
  <2> QED BY <2>1, QuietSteps
<1>2. CASE NextDB
  <2>1. PICK t \in TxDB : (storeDB' = storeDB /\ eventsDB' = eventsDB) \/ CommitTx(t)
    BY <1>2 DEF NextDB, BeginOrUseTx, InsertEvent, attemptInsert, attemptUpdate, queryExisting, writeUpdate, writeInsert,
        getExisting, ReplaceMessage, updateFiltered, deleteRow, abortTx, PreCommit, postCommit, RollbackTx
  <2> QED BY <2>1, QuietSteps, CommitSteps
<1> QED BY <1>1, <1>2

(* The store is a component of the node.                                   *)
LEMMA RecordInits == ASSUME Init PROVE InitDB
BY DEF Init
LEMMA RecordSteps == ASSUME [Next]_varsNode PROVE [NextDB]_varsDB
<1>1. CASE UNCHANGED varsNode BY <1>1 DEF varsNode
<1>2. CASE Next BY <1>2 DEF Next
<1> QED BY <1>1, <1>2

(* TablesConsistent: the listeners of the database hear of stored rows and *)
(* of no others, an upsert that commits has left its row, and a getter by  *)
(* a unique key has one row to return.                                     *)
THEOREM Consistent == Spec => []TablesConsistent
<1>1. Init => StoreInv BY RecordInits, StoreInit
<1>2. StoreInv /\ [Next]_varsNode => StoreInv' BY RecordSteps, StoreKeeps, StoreStutters
<1>3. StoreInv => TablesConsistent BY TablesSafe
<1> QED BY <1>1, <1>2, <1>3, PTL DEF Spec

(* RecordsKept: no step takes an operation that has ended back to Pending, *)
(* or changes its end unless a submission of it returned an error, commits *)
(* an event behind one already seen in its namespace, changes the hash of  *)
(* what is stored under an ID, or touches another namespace's rows.        *)
THEOREM Kept == Spec => RecordsKept
<1>1. Init => StoreInv BY RecordInits, StoreInit
<1>2. StoreInv /\ [Next]_varsNode => StoreInv' BY RecordSteps, StoreKeeps, StoreStutters
<1>3. StoreInv /\ [Next]_varsNode => EventStep /\ HashStep /\ ApartStep BY RecordSteps, StoreSteps
<1>4. Spec => NeverBackToPending /\ FinalKept BY EndKept
<1>5. EventsInOrder <=> [][EventStep]_varsDB BY DEF EventsInOrder, EventStep
<1>6. HashKept <=> [][HashStep]_varsDB BY DEF HashKept, HashStep
<1>7. NamespacesApart <=> [][ApartStep]_varsDB BY DEF NamespacesApart, ApartStep
<1> QED BY <1>1, <1>2, <1>3, <1>4, <1>5, <1>6, <1>7, PTL DEF Spec, RecordsKept

---------------------------------------------------------------------------
(* Tokens *)

(* The tables of every namespace are about what is on the chain, once; the *)
(* events that wait are too; and what the creator has not sent has no      *)
(* message to release and no place on the chain.                           *)
EventsTK == [kind : {"pool", "transfer", "approval"}, id : IdsTK \cup {0}, ns : NsTK \cup {0}, tx : BOOLEAN]
Chained(m, i) == \E p \in DOMAIN m : m[p] = i
TokenType ==
    /\ DOMAIN storedTK = NsTK /\ DOMAIN activeTK = NsTK /\ DOMAIN balanceTK = NsTK
    /\ DOMAIN sentTK = IdsTK /\ DOMAIN msgTK = DOMAIN TransfersTK /\ listenTK \subseteq NsTK
    /\ \A s \in NsTK : storedTK[s] \subseteq IdsTK /\ balanceTK[s] \in [KeysTK -> Int]
    /\ minedTK \in Seq(IdsTK) /\ queueTK \in Seq(EventsTK)
AboutTokens(e) == /\ e.kind = "transfer" => e.id \in DOMAIN TransfersTK
                  /\ e.kind = "approval" => e.id \in DOMAIN ApprovalsTK
ChainInv ==
    /\ \A p, q \in DOMAIN minedTK : minedTK[p] = minedTK[q] => p = q
    /\ \A p \in DOMAIN minedTK : minedTK[p] \in IdsTK /\ sentTK[minedTK[p]] = "mined"
    /\ \A s \in NsTK : \A i \in storedTK[s] : Chained(minedTK, i)
    /\ \A p \in DOMAIN queueTK : queueTK[p].kind # "pool" => Chained(minedTK, queueTK[p].id)
    /\ \A p \in DOMAIN queueTK : AboutTokens(queueTK[p])
MessageInv ==
    /\ \A i \in DOMAIN TransfersTK : msgTK[i] = "staged" => HasMessage(i)
    /\ MessageReleased

(* What waits for a namespace comes after what it has stored, in the order *)
(* of the chain.                                                           *)
Place(m, i) == CHOOSE p \in DOMAIN m : m[p] = i
Ordered(m, i, j) == Place(m, i) <= Place(m, j)
WaitingFor(s, e) == e.kind = "approval" /\ s \in CalledFor(e)
QueueOrdered ==
    \A s \in NsTK : \A p, q \in DOMAIN queueTK :
       p <= q /\ WaitingFor(s, queueTK[p]) /\ WaitingFor(s, queueTK[q]) => Ordered(minedTK, queueTK[p].id, queueTK[q].id)
RowsOrdered ==
    \A s \in NsTK : \A p \in DOMAIN queueTK : WaitingFor(s, queueTK[p]) =>
       \A j \in storedTK[s] \cap DOMAIN ApprovalsTK : Ordered(minedTK, j, queueTK[p].id)
OrderInv == QueueOrdered /\ RowsOrdered /\ LastApprovalActive
TokenInv == TokenType /\ ChainInv /\ MessageInv /\ OrderInv /\ BalancesAddUp

LEMMA TokenInit == ASSUME InitTK PROVE TokenInv
<1> USE DEF InitTK
<1>1. TokenType
  <2>1. \A s \in NsTK : storedTK[s] = {} /\ balanceTK[s] = [k \in KeysTK |-> 0] OBVIOUS
  <2>2. [k \in KeysTK |-> 0] \in [KeysTK -> Int] OBVIOUS
  <2> QED BY <2>1, <2>2 DEF TokenType
<1>2. ChainInv BY DEF ChainInv
<1>3. MessageInv BY CreatorAssumption DEF MessageInv, MessageReleased
<1>4. OrderInv BY DEF OrderInv, QueueOrdered, RowsOrdered, LastApprovalActive
<1>5. BalancesAddUp
  <2> SUFFICES ASSUME NEW s \in NsTK, NEW k \in KeysTK
               PROVE  balanceTK[s][k] = SumOver([i \in DOMAIN TransfersTK |-> Moved([j \in KeysTK |-> 0], TransfersTK[i])[k]],
                                                storedTK[s] \cap DOMAIN TransfersTK)
    BY DEF BalancesAddUp
  <2>1. storedTK[s] \cap DOMAIN TransfersTK = {} /\ balanceTK[s][k] = 0 OBVIOUS
  <2> QED BY <2>1, SumEmpty
<1> QED BY <1>1, <1>2, <1>3, <1>4, <1>5 DEF TokenInv

(* Positions on the chain.                                                 *)
LEMMA PlaceIs ==
    ASSUME NEW m, NEW p \in DOMAIN m, \A q \in DOMAIN m : m[q] = m[p] => q = p
    PROVE  Place(m, m[p]) = p
BY DEF Place
LEMMA LastsIs ==
    LastApprovalActive <=>
      \A s \in NsTK : activeTK[s] = {i \in storedTK[s] \cap DOMAIN ApprovalsTK :
          \A j \in storedTK[s] \cap DOMAIN ApprovalsTK :
             ApprovalsTK[i].subject = ApprovalsTK[j].subject => Place(minedTK, j) <= Place(minedTK, i)}
BY DEF LastApprovalActive, PositionTK, Place

LEMMA AppendIs ==
    ASSUME NEW S, NEW q \in Seq(S), NEW e \in S
    PROVE  /\ Append(q, e) \in Seq(S) /\ Len(Append(q, e)) = Len(q) + 1 /\ DOMAIN Append(q, e) = 1..(Len(q) + 1)
           /\ Append(q, e)[Len(q) + 1] = e /\ \A p \in 1..Len(q) : Append(q, e)[p] = q[p]
<1>1. Append(q, e) \in Seq(S) /\ Len(Append(q, e)) = Len(q) + 1 OBVIOUS
<1>2. Append(q, e)[Len(q) + 1] = e /\ \A p \in 1..Len(q) : Append(q, e)[p] = q[p] OBVIOUS
<1>3. DOMAIN Append(q, e) = 1..(Len(q) + 1) BY <1>1, LenProperties
<1> QED BY <1>1, <1>2, <1>3

(* A step that leaves the rows and the chain alone, and of the events that *)
(* wait takes the first or adds some about pools.                          *)
LEMMA QueueKeeps ==
    ASSUME TokenInv, UNCHANGED <<storedTK, activeTK, balanceTK, minedTK>>, listenTK' \subseteq NsTK,
           NEW d \in {0, 1}, queueTK' \in Seq(EventsTK),
           \A p \in DOMAIN queueTK' : queueTK'[p].kind = "pool" \/ (p + d \in DOMAIN queueTK /\ queueTK'[p] = queueTK[p + d]),
           DOMAIN sentTK' = IdsTK, \A p \in DOMAIN minedTK : sentTK'[minedTK[p]] = "mined",
           DOMAIN msgTK' = DOMAIN TransfersTK, MessageInv'
    PROVE  TokenInv'
<1>1. TokenType' BY DEF TokenInv, TokenType
<1>2. ChainInv' BY DEF TokenInv, ChainInv, AboutTokens
<1>3. ASSUME NEW s, NEW p \in DOMAIN queueTK', WaitingFor(s, queueTK'[p])
      PROVE  p + d \in DOMAIN queueTK /\ queueTK'[p] = queueTK[p + d]
  BY <1>3 DEF WaitingFor
<1>4. \A p \in DOMAIN queueTK' : p \in Int
  <2>1. DOMAIN queueTK' = 1..Len(queueTK') BY LenProperties
  <2> QED BY <2>1
<1>5. QueueOrdered'
  <2>1. ASSUME NEW s \in NsTK, NEW p \in DOMAIN queueTK', NEW q \in DOMAIN queueTK', p <= q,
               WaitingFor(s, queueTK'[p]), WaitingFor(s, queueTK'[q])
        PROVE  Ordered(minedTK', queueTK'[p].id, queueTK'[q].id)
    <3>1. p + d <= q + d BY <1>4, <2>1
    <3>2. queueTK'[p] = queueTK[p + d] /\ queueTK'[q] = queueTK[q + d] /\ p + d \in DOMAIN queueTK /\ q + d \in DOMAIN queueTK
      BY <1>3, <2>1
    <3>3. Ordered(minedTK, queueTK[p + d].id, queueTK[q + d].id) BY <2>1, <3>1, <3>2 DEF TokenInv, OrderInv, QueueOrdered
    <3> QED BY <3>2, <3>3
  <2> QED BY <2>1 DEF QueueOrdered
<1>6. RowsOrdered'
  <2>1. ASSUME NEW s \in NsTK, NEW p \in DOMAIN queueTK', WaitingFor(s, queueTK'[p]), NEW j \in storedTK[s] \cap DOMAIN ApprovalsTK
        PROVE  Ordered(minedTK', j, queueTK'[p].id)
    <3>1. queueTK'[p] = queueTK[p + d] /\ p + d \in DOMAIN queueTK BY <1>3, <2>1
    <3>2. Ordered(minedTK, j, queueTK[p + d].id) BY <2>1, <3>1 DEF TokenInv, OrderInv, RowsOrdered
    <3> QED BY <3>1, <3>2
  <2> QED BY <2>1 DEF RowsOrdered
<1>7. LastApprovalActive' BY DEF TokenInv, OrderInv, LastApprovalActive, PositionTK
<1>8. BalancesAddUp' BY DEF TokenInv, BalancesAddUp, Moved
<1> QED BY <1>1, <1>2, <1>5, <1>6, <1>7, <1>8 DEF TokenInv, OrderInv

(* Pool operations, and the outcome of one transfer's or approval's        *)
(* operation.                                                              *)
LEMMA PoolSteps ==
    ASSUME TokenInv, UNCHANGED <<storedTK, activeTK, balanceTK, minedTK, sentTK, msgTK>>, listenTK' \subseteq NsTK,
           \/ queueTK' = queueTK
           \/ \E s \in NsTK \cup {0}, tx \in BOOLEAN : queueTK' = Append(queueTK, PoolEvent(s, tx))
           \/ queueTK # <<>> /\ queueTK' = Tail(queueTK)
    PROVE  TokenInv'
<1>1. DOMAIN sentTK' = IdsTK /\ DOMAIN msgTK' = DOMAIN TransfersTK /\ queueTK \in Seq(EventsTK)
      /\ (\A p \in DOMAIN minedTK : sentTK'[minedTK[p]] = "mined") BY DEF TokenInv, TokenType, ChainInv
<1>2. MessageInv' BY DEF TokenInv, MessageInv, MessageReleased, HasMessage
<1>0. DOMAIN queueTK = 1..Len(queueTK) /\ Len(queueTK) \in Nat BY <1>1, LenProperties
<1>3. CASE queueTK' = queueTK
  <2>1. \A p \in DOMAIN queueTK' : p + 0 \in DOMAIN queueTK /\ queueTK'[p] = queueTK[p + 0] BY <1>0, <1>3
  <2> QED BY <1>1, <1>2, <1>3, <2>1, QueueKeeps
<1>4. CASE \E s \in NsTK \cup {0}, tx \in BOOLEAN : queueTK' = Append(queueTK, PoolEvent(s, tx))
  <2>1. PICK s \in NsTK \cup {0}, tx \in BOOLEAN : queueTK' = Append(queueTK, PoolEvent(s, tx)) BY <1>4
  <2>2. PoolEvent(s, tx) \in EventsTK /\ PoolEvent(s, tx).kind = "pool" BY DEF PoolEvent, EventsTK
  <2>3. queueTK' \in Seq(EventsTK) /\ DOMAIN queueTK' = 1..(Len(queueTK) + 1) /\ queueTK'[Len(queueTK) + 1] = PoolEvent(s, tx)
        /\ \A p \in 1..Len(queueTK) : queueTK'[p] = queueTK[p]
    BY <1>1, <2>1, <2>2, AppendIs
  <2>4. \A p \in DOMAIN queueTK' : queueTK'[p].kind = "pool" \/ (p + 0 \in DOMAIN queueTK /\ queueTK'[p] = queueTK[p + 0])
    <3> SUFFICES ASSUME NEW p \in DOMAIN queueTK' PROVE queueTK'[p].kind = "pool" \/ (p + 0 \in DOMAIN queueTK /\ queueTK'[p] = queueTK[p + 0])
      OBVIOUS
    <3>0. \A n \in Nat : \A r \in 1..(n + 1) : r = n + 1 \/ r \in 1..n OBVIOUS
    <3>1. p = Len(queueTK) + 1 \/ p \in 1..Len(queueTK) BY <1>0, <2>3, <3>0
    <3>2. CASE p = Len(queueTK) + 1 BY <2>2, <2>3, <3>2
    <3>3. CASE p \in 1..Len(queueTK)
      <4>1. p + 0 = p BY <1>0, <3>3
      <4> QED BY <1>0, <2>3, <3>3, <4>1
    <3> QED BY <3>1, <3>2, <3>3
  <2> QED BY <1>1, <1>2, <2>3, <2>4, QueueKeeps
<1>5. CASE queueTK # <<>> /\ queueTK' = Tail(queueTK)
  <2>1. queueTK' \in Seq(EventsTK) /\ DOMAIN queueTK' = 1..(Len(queueTK) - 1)
        /\ \A p \in 1..(Len(queueTK) - 1) : queueTK'[p] = queueTK[p + 1]
    <3>1. Tail(queueTK) \in Seq(EventsTK) /\ Len(Tail(queueTK)) = Len(queueTK) - 1
          /\ \A p \in 1..Len(Tail(queueTK)) : Tail(queueTK)[p] = queueTK[p + 1]
      BY <1>1, <1>5, HeadTailProperties
    <3>2. DOMAIN Tail(queueTK) = 1..Len(Tail(queueTK)) BY <3>1, LenProperties
    <3> QED BY <1>5, <3>1, <3>2
  <2>2. \A p \in DOMAIN queueTK' : p + 1 \in DOMAIN queueTK /\ queueTK'[p] = queueTK[p + 1]
    <3>1. \A n \in Nat : \A r \in 1..(n - 1) : r + 1 \in 1..n OBVIOUS
    <3> QED BY <1>0, <2>1, <3>1
  <2> QED BY <1>1, <1>2, <2>1, <2>2, QueueKeeps
<1> QED BY <1>3, <1>4, <1>5

LEMMA SendSteps ==
    ASSUME TokenInv, NEW i \in IdsTK, sendInternal(i) \/ RunTokenOperation(i) PROVE TokenInv'
<1>1. UNCHANGED <<storedTK, activeTK, balanceTK, minedTK, listenTK, queueTK>>
  BY DEF sendInternal, RunTokenOperation, rowVarsTK, poolVarsTK
<1>2. sentTK[i] \in {"new", "staged"} /\ DOMAIN sentTK = IdsTK /\ DOMAIN msgTK = DOMAIN TransfersTK /\ queueTK \in Seq(EventsTK)
      /\ listenTK \subseteq NsTK
  BY DEF sendInternal, RunTokenOperation, TokenInv, TokenType
<1>3. DOMAIN sentTK' = IdsTK /\ \A j \in IdsTK : j # i => sentTK'[j] = sentTK[j] BY <1>2 DEF sendInternal, RunTokenOperation
<1>4. \A p \in DOMAIN minedTK : minedTK[p] # i /\ sentTK'[minedTK[p]] = "mined" BY <1>2, <1>3 DEF TokenInv, ChainInv
<1>5. \A s \in NsTK : i \notin storedTK[s] BY <1>4 DEF TokenInv, ChainInv, Chained
<1>6. \/ msgTK' = msgTK
      \/ HasMessage(i) /\ msgTK' = [msgTK EXCEPT ![i] = "staged"] BY DEF sendInternal, RunTokenOperation
<1>7. DOMAIN msgTK' = DOMAIN TransfersTK /\ \A j \in DOMAIN TransfersTK : msgTK'[j] = msgTK[j] \/ (j = i /\ HasMessage(i))
  BY <1>2, <1>6
<1>8. MessageInv'
  BY <1>1, <1>5, <1>7, CreatorAssumption DEF TokenInv, MessageInv, MessageReleased, HasMessage
<1>9. \A p \in DOMAIN queueTK' : p + 0 \in DOMAIN queueTK /\ queueTK'[p] = queueTK[p + 0] BY <1>1, <1>2, LenProperties
<1> QED BY <1>1, <1>2, <1>3, <1>4, <1>7, <1>8, <1>9, QueueKeeps

(* A pool that goes takes its rows along.                                  *)
LEMMA DeleteStep == ASSUME TokenInv, NEW n \in NsTK, DeleteTokenPool(n) PROVE TokenInv'
<1> USE DEF DeleteTokenPool
<1>0. TokenType BY DEF TokenInv
<1>1. UNCHANGED <<minedTK, sentTK, msgTK, queueTK>> /\ listenTK' \subseteq listenTK OBVIOUS
<1>2. \A s \in NsTK : \/ storedTK'[s] = {} /\ activeTK'[s] = {} /\ balanceTK'[s] = [k \in KeysTK |-> 0]
                      \/ storedTK'[s] = storedTK[s] /\ activeTK'[s] = activeTK[s] /\ balanceTK'[s] = balanceTK[s]
  BY <1>0 DEF TokenType
<1>3. DOMAIN storedTK' = NsTK /\ DOMAIN activeTK' = NsTK /\ DOMAIN balanceTK' = NsTK BY <1>0 DEF TokenType
<1> HIDE DEF DeleteTokenPool
<1>4. [k \in KeysTK |-> 0] \in [KeysTK -> Int] OBVIOUS
<1>5. TokenType'
  <2>1. \A s \in NsTK : storedTK'[s] \subseteq IdsTK /\ balanceTK'[s] \in [KeysTK -> Int] BY <1>0, <1>2, <1>4 DEF TokenType
  <2> QED BY <1>0, <1>1, <1>3, <2>1 DEF TokenType
<1>6. \A s \in NsTK : storedTK'[s] \subseteq storedTK[s] BY <1>2
<1>7. ChainInv' BY <1>1, <1>6 DEF TokenInv, ChainInv, AboutTokens
<1>8. MessageInv' BY <1>1, <1>6, CreatorAssumption DEF TokenInv, MessageInv, MessageReleased, HasMessage
<1>9. QueueOrdered' BY <1>1 DEF TokenInv, OrderInv, QueueOrdered
<1>10. RowsOrdered' BY <1>1, <1>6 DEF TokenInv, OrderInv, RowsOrdered
<1>11. LastApprovalActive' BY <1>1, <1>2 DEF TokenInv, OrderInv, LastApprovalActive, PositionTK
<1>12. BalancesAddUp'
  <2> SUFFICES ASSUME NEW s \in NsTK, NEW k \in KeysTK
               PROVE  balanceTK'[s][k] = SumOver([i \in DOMAIN TransfersTK |-> Moved([j \in KeysTK |-> 0], TransfersTK[i])[k]],
                                                 storedTK'[s] \cap DOMAIN TransfersTK)
    BY DEF BalancesAddUp, Moved
  <2>1. CASE storedTK'[s] = {} /\ activeTK'[s] = {} /\ balanceTK'[s] = [j \in KeysTK |-> 0]
    <3>1. storedTK'[s] \cap DOMAIN TransfersTK = {} /\ balanceTK'[s][k] = 0 BY <2>1
    <3> QED BY <3>1, SumEmpty
  <2>2. CASE storedTK'[s] = storedTK[s] /\ balanceTK'[s] = balanceTK[s] BY <2>2 DEF TokenInv, BalancesAddUp
  <2> QED BY <1>2, <2>1, <2>2
<1> QED BY <1>5, <1>7, <1>8, <1>9, <1>10, <1>11, <1>12 DEF TokenInv, OrderInv

(* A transfer or an approval gets the next place on the chain, and waits   *)
(* after all others.                                                       *)
LEMMA MinedQueue ==
    ASSUME TokenType, NEW i \in IdsTK, mine(i)
    PROVE  \E new : /\ new \in Seq(EventsTK) /\ queueTK' = queueTK \o new
                    /\ \A p \in DOMAIN new : new[p].id = i /\ new[p].kind # "pool" /\ AboutTokens(new[p])
<1>1. \A s \in NsTK \cup {0} : Mined(i, s) \in EventsTK /\ Mined(i, s).id = i /\ Mined(i, s).kind # "pool" /\ AboutTokens(Mined(i, s))
  BY DEF Mined, EventsTK, IdsTK, AboutTokens
<1>2. PICK listening \in SetToSeqs(listenTK) :
         queueTK' = queueTK \o (IF olderTK THEN <<Mined(i, 0)>> ELSE [k \in DOMAIN listening |-> Mined(i, listening[k])])
  BY DEF mine
<1>3. CASE olderTK
  <2>1. <<Mined(i, 0)>> \in Seq(EventsTK) /\ \A p \in DOMAIN <<Mined(i, 0)>> : <<Mined(i, 0)>>[p] = Mined(i, 0) BY <1>1
  <2> QED BY <1>1, <1>2, <1>3, <2>1
<1>4. CASE ~olderTK
  <2> DEFINE n == Cardinality(listenTK)
             new == [k \in DOMAIN listening |-> Mined(i, listening[k])]
  <2>1. listenTK \subseteq NsTK BY DEF TokenType
  <2>2. n \in Nat BY <2>1, EventsAssumption, FS_Subset, FS_CardinalityType
  <2>3. listening \in [1..n -> listenTK] BY DEF SetToSeqs
  <2>4. \A k \in 1..n : Mined(i, listening[k]) \in EventsTK BY <1>1, <2>1, <2>3
  <2>5. new \in [1..n -> EventsTK] BY <2>3, <2>4
  <2>6. new \in Seq(EventsTK) BY <2>2, <2>5
  <2>7. \A p \in DOMAIN new : new[p].id = i /\ new[p].kind # "pool" /\ AboutTokens(new[p])
    <3> SUFFICES ASSUME NEW p \in 1..n PROVE new[p].id = i /\ new[p].kind # "pool" /\ AboutTokens(new[p]) BY <2>3
    <3>1. new[p] = Mined(i, listening[p]) /\ listening[p] \in NsTK BY <2>1, <2>3
    <3> QED BY <1>1, <3>1
  <2> QED BY <1>2, <1>4, <2>6, <2>7
<1> QED BY <1>3, <1>4

LEMMA MineStep == ASSUME TokenInv, NEW i \in IdsTK, mine(i) PROVE TokenInv'
<1>0. TokenType BY DEF TokenInv
<1>1. UNCHANGED <<storedTK, activeTK, balanceTK, listenTK, msgTK>> /\ sentTK[i] = "submitted"
      /\ sentTK' = [sentTK EXCEPT ![i] = "mined"] /\ minedTK' = Append(minedTK, i) BY DEF mine, rowVarsTK, poolVarsTK
<1>2. PICK new : /\ new \in Seq(EventsTK) /\ queueTK' = queueTK \o new
                 /\ \A p \in DOMAIN new : new[p].id = i /\ new[p].kind # "pool" /\ AboutTokens(new[p])
  BY <1>0, MinedQueue
<1>3. queueTK \in Seq(EventsTK) /\ minedTK \in Seq(IdsTK) BY <1>0 DEF TokenType
<1>4. PICK n \in Nat : n = Len(queueTK) /\ DOMAIN queueTK = 1..n BY <1>3, LenProperties
<1>5. PICK l \in Nat : l = Len(minedTK) /\ DOMAIN minedTK = 1..l BY <1>3, LenProperties
<1>6. /\ queueTK' \in Seq(EventsTK) /\ \A p \in DOMAIN queueTK : p \in DOMAIN queueTK' /\ queueTK'[p] = queueTK[p]
      /\ \A p \in DOMAIN queueTK' : p \in Int /\ (p \in DOMAIN queueTK \/ (p > n /\ queueTK'[p] \in {new[q] : q \in DOMAIN new}))
  <2>1. PICK m \in Nat : m = Len(new) /\ DOMAIN new = 1..m BY <1>2, LenProperties
  <2>2. queueTK' \in Seq(EventsTK) /\ Len(queueTK') = n + m
        /\ \A p \in 1..(n + m) : queueTK'[p] = IF p <= n THEN queueTK[p] ELSE new[p - n]
    BY <1>2, <1>3, <1>4, <2>1, ConcatProperties
  <2>3. DOMAIN queueTK' = 1..(n + m) BY <2>2, LenProperties
  <2>4. ASSUME NEW p \in DOMAIN queueTK PROVE p \in DOMAIN queueTK' /\ queueTK'[p] = queueTK[p] BY <1>4, <2>1, <2>2, <2>3
  <2>5. ASSUME NEW p \in DOMAIN queueTK'
        PROVE  p \in Int /\ (p \in DOMAIN queueTK \/ (p > n /\ queueTK'[p] \in {new[q] : q \in DOMAIN new}))
    <3>1. CASE p <= n BY <1>4, <2>1, <2>3, <2>5, <3>1
    <3>2. CASE ~(p <= n)
      <4>1. p - n \in DOMAIN new /\ queueTK'[p] = new[p - n] BY <1>4, <2>1, <2>2, <2>3, <2>5, <3>2
      <4> QED BY <2>1, <2>3, <2>5, <3>2, <4>1
    <3> QED BY <3>1, <3>2
  <2> QED BY <2>2, <2>4, <2>5
<1>7. minedTK' \in Seq(IdsTK) /\ DOMAIN minedTK' = 1..(l + 1) /\ minedTK'[l + 1] = i /\ \A p \in 1..l : minedTK'[p] = minedTK[p]
  BY <1>1, <1>3, <1>5, AppendIs
<1>8. \A p \in 1..l : minedTK[p] # i /\ minedTK[p] \in IdsTK BY <1>1, <1>5 DEF TokenInv, ChainInv
<1>9. ~Chained(minedTK, i) BY <1>5, <1>8 DEF Chained
<1>10. \A p, q \in DOMAIN minedTK' : minedTK'[p] = minedTK'[q] => p = q
  <2>1. \A p, q \in 1..l : minedTK[p] = minedTK[q] => p = q BY <1>5 DEF TokenInv, ChainInv
  <2> SUFFICES ASSUME NEW p \in 1..(l + 1), NEW q \in 1..(l + 1), minedTK'[p] = minedTK'[q] PROVE p = q BY <1>7
  <2>2. (p = l + 1 \/ p \in 1..l) /\ (q = l + 1 \/ q \in 1..l) OBVIOUS
  <2> QED BY <1>7, <1>8, <2>1, <2>2
<1>11. \A j : Chained(minedTK, j) => Chained(minedTK', j) /\ Place(minedTK', j) = Place(minedTK, j) /\ Place(minedTK, j) \in 1..l
  <2> SUFFICES ASSUME NEW j, Chained(minedTK, j)
               PROVE  Chained(minedTK', j) /\ Place(minedTK', j) = Place(minedTK, j) /\ Place(minedTK, j) \in 1..l OBVIOUS
  <2>1. PICK p \in 1..l : minedTK[p] = j BY <1>5 DEF Chained
  <2>2. p \in DOMAIN minedTK' /\ minedTK'[p] = j BY <1>7, <2>1
  <2>3. Place(minedTK', j) = p BY <1>10, <2>2, PlaceIs
  <2>4. Place(minedTK, j) = p BY <1>5, <2>1, PlaceIs DEF TokenInv, ChainInv
  <2> QED BY <2>2, <2>3, <2>4 DEF Chained
<1>12. Chained(minedTK', i) /\ Place(minedTK', i) = l + 1
  <2>1. l + 1 \in DOMAIN minedTK' /\ minedTK'[l + 1] = i BY <1>7
  <2> QED BY <1>10, <2>1, PlaceIs DEF Chained
<1>13. TokenType' BY <1>0, <1>1, <1>6, <1>7 DEF TokenType
<1>14. \A p \in DOMAIN queueTK' : queueTK'[p].kind # "pool" /\ p \notin DOMAIN queueTK => queueTK'[p].id = i BY <1>2, <1>6
<1>15. ChainInv'
  <2>1. \A p \in DOMAIN minedTK' : minedTK'[p] \in IdsTK /\ sentTK'[minedTK'[p]] = "mined"
    <3> SUFFICES ASSUME NEW p \in 1..(l + 1) PROVE minedTK'[p] \in IdsTK /\ sentTK'[minedTK'[p]] = "mined" BY <1>7
    <3>1. p = l + 1 \/ p \in 1..l OBVIOUS
    <3>2. sentTK'[i] = "mined" /\ \A j \in IdsTK : j # i => sentTK'[j] = sentTK[j] BY <1>0, <1>1 DEF TokenType
    <3>3. \A q \in 1..l : sentTK[minedTK[q]] = "mined" BY <1>5 DEF TokenInv, ChainInv
    <3> QED BY <1>7, <1>8, <3>1, <3>2, <3>3
  <2>2. \A s \in NsTK : \A j \in storedTK'[s] : Chained(minedTK', j) BY <1>1, <1>11 DEF TokenInv, ChainInv
  <2>3. \A p \in DOMAIN queueTK' : queueTK'[p].kind # "pool" => Chained(minedTK', queueTK'[p].id)
    <3> SUFFICES ASSUME NEW p \in DOMAIN queueTK', queueTK'[p].kind # "pool" PROVE Chained(minedTK', queueTK'[p].id) OBVIOUS
    <3>1. CASE p \in DOMAIN queueTK
      <4>1. queueTK'[p] = queueTK[p] /\ Chained(minedTK, queueTK[p].id) BY <1>6, <3>1 DEF TokenInv, ChainInv
      <4> QED BY <1>11, <4>1
    <3>2. CASE p \notin DOMAIN queueTK BY <1>12, <1>14, <3>2
    <3> QED BY <3>1, <3>2
  <2>4. \A p \in DOMAIN queueTK' : AboutTokens(queueTK'[p]) BY <1>2, <1>6 DEF TokenInv, ChainInv
  <2> QED BY <1>10, <2>1, <2>2, <2>3, <2>4 DEF ChainInv
<1>16. MessageInv' BY <1>1 DEF TokenInv, MessageInv, MessageReleased, HasMessage
<1>17. \A s \in NsTK : \A j \in storedTK[s] : Chained(minedTK, j) BY DEF TokenInv, ChainInv
<1>18. QueueOrdered'
  <2>1. ASSUME NEW s \in NsTK, NEW p \in DOMAIN queueTK', NEW q \in DOMAIN queueTK', p <= q,
               WaitingFor(s, queueTK'[p]), WaitingFor(s, queueTK'[q])
        PROVE  Ordered(minedTK', queueTK'[p].id, queueTK'[q].id)
    <3>1. CASE q \in DOMAIN queueTK
      <4>1. p \in DOMAIN queueTK BY <1>4, <1>6, <2>1, <3>1
      <4>2. queueTK'[p] = queueTK[p] /\ queueTK'[q] = queueTK[q] BY <1>6, <3>1, <4>1
      <4>3. Ordered(minedTK, queueTK[p].id, queueTK[q].id) BY <2>1, <3>1, <4>1, <4>2 DEF TokenInv, OrderInv, QueueOrdered
      <4>4. Chained(minedTK, queueTK[p].id) /\ Chained(minedTK, queueTK[q].id)
        BY <2>1, <3>1, <4>1, <4>2 DEF TokenInv, ChainInv, WaitingFor
      <4> QED BY <1>11, <4>2, <4>3, <4>4 DEF Ordered
    <3>2. CASE q \notin DOMAIN queueTK
      <4>1. queueTK'[q].id = i BY <1>14, <2>1, <3>2 DEF WaitingFor
      <4>2. CASE p \in DOMAIN queueTK
        <5>1. queueTK'[p] = queueTK[p] /\ Chained(minedTK, queueTK[p].id) BY <1>6, <2>1, <4>2 DEF TokenInv, ChainInv, WaitingFor
        <5>2. Place(minedTK', queueTK'[p].id) <= l + 1 BY <1>11, <5>1
        <5> QED BY <1>12, <4>1, <5>2 DEF Ordered
      <4>3. CASE p \notin DOMAIN queueTK
        <5>1. queueTK'[p].id = i BY <1>14, <2>1, <4>3 DEF WaitingFor
        <5> QED BY <1>12, <4>1, <5>1 DEF Ordered
      <4> QED BY <4>2, <4>3
    <3> QED BY <3>1, <3>2
  <2> QED BY <2>1 DEF QueueOrdered
<1>19. RowsOrdered'
  <2>1. ASSUME NEW s \in NsTK, NEW p \in DOMAIN queueTK', WaitingFor(s, queueTK'[p]), NEW j \in storedTK[s] \cap DOMAIN ApprovalsTK
        PROVE  Ordered(minedTK', j, queueTK'[p].id)
    <3>0. Chained(minedTK, j) BY <1>17
    <3>1. CASE p \in DOMAIN queueTK
      <4>1. queueTK'[p] = queueTK[p] /\ Chained(minedTK, queueTK[p].id) BY <1>6, <2>1, <3>1 DEF TokenInv, ChainInv, WaitingFor
      <4>2. Ordered(minedTK, j, queueTK[p].id) BY <2>1, <3>1, <4>1 DEF TokenInv, OrderInv, RowsOrdered
      <4> QED BY <1>11, <3>0, <4>1, <4>2 DEF Ordered
    <3>2. CASE p \notin DOMAIN queueTK
      <4>1. queueTK'[p].id = i BY <1>14, <2>1, <3>2 DEF WaitingFor
      <4>2. Place(minedTK', j) <= l + 1 BY <1>11, <3>0
      <4> QED BY <1>12, <4>1, <4>2 DEF Ordered
    <3> QED BY <3>1, <3>2
  <2> QED BY <1>1, <2>1 DEF RowsOrdered
<1>20. LastApprovalActive'
  <2>1. \A s \in NsTK : \A j \in storedTK[s] : Place(minedTK', j) = Place(minedTK, j) BY <1>11, <1>17
  <2>2. ASSUME NEW s \in NsTK
        PROVE  {a \in storedTK[s] \cap DOMAIN ApprovalsTK : \A j \in storedTK[s] \cap DOMAIN ApprovalsTK :
                   ApprovalsTK[a].subject = ApprovalsTK[j].subject => Place(minedTK, j) <= Place(minedTK, a)}
             = {a \in storedTK[s] \cap DOMAIN ApprovalsTK : \A j \in storedTK[s] \cap DOMAIN ApprovalsTK :
                   ApprovalsTK[a].subject = ApprovalsTK[j].subject => Place(minedTK', j) <= Place(minedTK', a)}
    BY <2>1
  <2>3. LastApprovalActive' <=>
          \A s \in NsTK : activeTK'[s] = {a \in storedTK'[s] \cap DOMAIN ApprovalsTK : \A j \in storedTK'[s] \cap DOMAIN ApprovalsTK :
             ApprovalsTK[a].subject = ApprovalsTK[j].subject => Place(minedTK', j) <= Place(minedTK', a)}
    BY DEF LastApprovalActive, PositionTK, Place
  <2>4. LastApprovalActive BY DEF TokenInv, OrderInv
  <2> QED BY <1>1, <2>2, <2>3, <2>4, LastsIs
<1>21. BalancesAddUp' BY <1>1 DEF TokenInv, BalancesAddUp, Moved
<1> QED BY <1>13, <1>15, <1>16, <1>18, <1>19, <1>20, <1>21 DEF TokenInv, OrderInv

(* Handling the first event leaves the chain and the queue alone.          *)
LEMMA FirstEvent ==
    ASSUME TokenInv, NEW n \in NsTK, Next1(n), queueTK[1].kind # "pool"
    PROVE  /\ 1 \in DOMAIN queueTK /\ n \in CalledFor(queueTK[1]) /\ Chained(minedTK, queueTK[1].id)
           /\ AboutTokens(queueTK[1]) /\ \A p \in DOMAIN queueTK : 1 <= p
<1>1. queueTK \in Seq(EventsTK) /\ queueTK # <<>> /\ n \in CalledFor(queueTK[1]) BY DEF TokenInv, TokenType, Next1
<1>2. DOMAIN queueTK = 1..Len(queueTK) /\ Len(queueTK) \in Nat /\ Len(queueTK) # 0 BY <1>1, LenProperties, EmptySeq
<1>3. 1 \in DOMAIN queueTK BY <1>2
<1> QED BY <1>1, <1>2, <1>3 DEF TokenInv, ChainInv

(* What moving adds to a balance.                                          *)
LEMMA MovedIs ==
    ASSUME NEW b \in [KeysTK -> Int], NEW i \in DOMAIN TransfersTK
    PROVE  /\ Moved(b, TransfersTK[i]) \in [KeysTK -> Int]
           /\ \A k \in KeysTK : /\ Moved([j \in KeysTK |-> 0], TransfersTK[i])[k] \in Int
                                /\ Moved(b, TransfersTK[i])[k] = b[k] + Moved([j \in KeysTK |-> 0], TransfersTK[i])[k]
<1>1. TransfersTK[i].n \in Int BY EventsAssumption
<1>2. \A k \in KeysTK : b[k] - (IF k = TransfersTK[i].from THEN TransfersTK[i].n ELSE 0)
                             + (IF k = TransfersTK[i].to THEN TransfersTK[i].n ELSE 0) \in Int BY <1>1
<1>3. Moved(b, TransfersTK[i]) \in [KeysTK -> Int] BY <1>2 DEF Moved
<1>4. ASSUME NEW k \in KeysTK
      PROVE  /\ Moved([j \in KeysTK |-> 0], TransfersTK[i])[k] \in Int
             /\ Moved(b, TransfersTK[i])[k] = b[k] + Moved([j \in KeysTK |-> 0], TransfersTK[i])[k]
  BY <1>1 DEF Moved
<1> QED BY <1>3, <1>4

LEMMA TransferredStep == ASSUME TokenInv, NEW n \in NsTK, TokensTransferred(n) PROVE TokenInv'
<1>0. TokenType BY DEF TokenInv
<1>1. UNCHANGED <<queueTK, sentTK, minedTK, activeTK, listenTK>> /\ Next1(n) /\ queueTK[1].kind = "transfer"
  BY DEF TokensTransferred
<1>2. PICK i \in DOMAIN TransfersTK : i = queueTK[1].id /\ Chained(minedTK, i) BY <1>1, FirstEvent DEF AboutTokens
<1>3. \/ persistTokenTransfer(n, i) /\ releaseMessage(n, i)
      \/ UNCHANGED <<storedTK, balanceTK, msgTK>>
  BY <1>2 DEF TokensTransferred
<1>4. i \in IdsTK /\ i \notin DOMAIN ApprovalsTK BY EventsAssumption DEF IdsTK
<1>5. /\ DOMAIN storedTK' = NsTK /\ DOMAIN balanceTK' = NsTK
      /\ \A s \in NsTK : \/ storedTK'[s] = storedTK[s] /\ balanceTK'[s] = balanceTK[s]
                         \/ /\ s = n /\ i \notin storedTK[s] /\ storedTK'[s] = storedTK[s] \cup {i}
                            /\ balanceTK'[s] = Moved(balanceTK[s], TransfersTK[i])
  BY <1>0, <1>3 DEF TokenType, persistTokenTransfer
<1>6. DOMAIN msgTK' = DOMAIN TransfersTK BY <1>0, <1>3 DEF TokenType, releaseMessage
<1>7. TokenType'
  <2>1. ASSUME NEW s \in NsTK PROVE storedTK'[s] \subseteq IdsTK /\ balanceTK'[s] \in [KeysTK -> Int]
    <3>1. storedTK[s] \subseteq IdsTK /\ balanceTK[s] \in [KeysTK -> Int] BY <1>0 DEF TokenType
    <3>2. Moved(balanceTK[s], TransfersTK[i]) \in [KeysTK -> Int] BY <3>1, MovedIs
    <3> QED BY <1>4, <1>5, <3>1, <3>2
  <2> QED BY <1>0, <1>1, <1>5, <1>6, <2>1 DEF TokenType
<1>8. \A s \in NsTK : storedTK'[s] \cap DOMAIN ApprovalsTK = storedTK[s] \cap DOMAIN ApprovalsTK BY <1>4, <1>5
<1>9. ChainInv' BY <1>1, <1>2, <1>5 DEF TokenInv, ChainInv, AboutTokens
<1>10. MessageInv'
  <2>1. MessageInv BY DEF TokenInv
  <2>2. CASE UNCHANGED <<storedTK, balanceTK, msgTK>> BY <2>1, <2>2 DEF MessageInv, MessageReleased, HasMessage
  <2>3. CASE persistTokenTransfer(n, i) /\ releaseMessage(n, i)
    <3>1. msgTK' = msgTK \/ (HasMessage(i) /\ msgTK' = [msgTK EXCEPT ![i] = "ready"]) BY <2>3 DEF releaseMessage
    <3>2. n = Creator => msgTK'[i] # "staged" BY <1>0, <2>1, <2>3 DEF releaseMessage, MessageInv, TokenType
    <3>3. \A j \in DOMAIN TransfersTK : msgTK'[j] = "staged" => msgTK[j] = "staged" BY <1>0, <3>1 DEF TokenType
    <3>4. \A j \in DOMAIN TransfersTK : msgTK'[j] = "staged" => HasMessage(j) BY <2>1, <3>3 DEF MessageInv
    <3>5. ASSUME NEW j \in DOMAIN TransfersTK, j \in storedTK'[Creator] PROVE msgTK'[j] # "staged"
      <4>1. j \in storedTK[Creator] \/ (n = Creator /\ j = i) BY <1>5, <3>5, CreatorAssumption
      <4> QED BY <2>1, <3>2, <3>3, <4>1 DEF MessageInv, MessageReleased
    <3> QED BY <3>4, <3>5 DEF MessageInv, MessageReleased, HasMessage
  <2> QED BY <1>3, <2>2, <2>3
<1>11. QueueOrdered' BY <1>1 DEF TokenInv, OrderInv, QueueOrdered
<1>12. RowsOrdered' BY <1>1, <1>8 DEF TokenInv, OrderInv, RowsOrdered
<1>13. LastApprovalActive' BY <1>1, <1>8 DEF TokenInv, OrderInv, LastApprovalActive, PositionTK
<1>14. BalancesAddUp'
  <2> SUFFICES ASSUME NEW s \in NsTK, NEW k \in KeysTK
               PROVE  balanceTK'[s][k] = SumOver([t \in DOMAIN TransfersTK |-> Moved([j \in KeysTK |-> 0], TransfersTK[t])[k]],
                                                 storedTK'[s] \cap DOMAIN TransfersTK)
    BY DEF BalancesAddUp, Moved
  <2> DEFINE f == [t \in DOMAIN TransfersTK |-> Moved([j \in KeysTK |-> 0], TransfersTK[t])[k]]
             S == storedTK[s] \cap DOMAIN TransfersTK
  <2>1. balanceTK[s][k] = SumOver(f, S) /\ balanceTK[s] \in [KeysTK -> Int] BY <1>0 DEF TokenInv, TokenType, BalancesAddUp
  <2>2. CASE storedTK'[s] = storedTK[s] /\ balanceTK'[s] = balanceTK[s] BY <2>1, <2>2
  <2>3. CASE i \notin storedTK[s] /\ storedTK'[s] = storedTK[s] \cup {i} /\ balanceTK'[s] = Moved(balanceTK[s], TransfersTK[i])
    <3>1. IsFiniteSet(S) /\ i \notin S /\ storedTK'[s] \cap DOMAIN TransfersTK = S \cup {i} BY <2>3, EventsAssumption, FS_Subset
    <3>2. \A t \in DOMAIN TransfersTK : f[t] \in Int BY <2>1, MovedIs
    <3>3. Ints(f, S \cup {i}) BY <3>2 DEF Ints
    <3>4. f[i] = Moved([j \in KeysTK |-> 0], TransfersTK[i])[k] OBVIOUS
    <3>5. Moved(balanceTK[s], TransfersTK[i])[k] = balanceTK[s][k] + f[i] BY <2>1, <3>4, MovedIs
    <3> HIDE DEF f, S
    <3>6. SumOver(f, S \cup {i}) = f[i] + SumOver(f, S) BY <3>1, <3>3, SumInsert
    <3>7. f[i] \in Int /\ SumOver(f, S) \in Int BY <2>1, <3>2
    <3>8. balanceTK'[s][k] = SumOver(f, S \cup {i}) BY <2>1, <2>3, <3>5, <3>6, <3>7
    <3> QED BY <3>1, <3>8 DEF f
  <2> QED BY <1>5, <2>2, <2>3
<1> QED BY <1>7, <1>9, <1>10, <1>11, <1>12, <1>13, <1>14 DEF TokenInv, OrderInv

LEMMA ApprovedStep == ASSUME TokenInv, NEW n \in NsTK, TokensApproved(n) PROVE TokenInv'
<1>0. TokenType BY DEF TokenInv
<1>1. UNCHANGED <<queueTK, sentTK, minedTK, msgTK, balanceTK, listenTK>> /\ Next1(n) /\ queueTK[1].kind = "approval"
  BY DEF TokensApproved
<1>2. PICK i \in DOMAIN ApprovalsTK : i = queueTK[1].id /\ Chained(minedTK, i) BY <1>1, FirstEvent DEF AboutTokens
<1>3. \/ persistTokenApproval(n, i) /\ storedTK' = [storedTK EXCEPT ![n] = @ \cup {i}]
      \/ UNCHANGED <<activeTK, storedTK>>
  BY <1>2 DEF TokensApproved
<1>4. i \in IdsTK /\ i \notin DOMAIN TransfersTK BY EventsAssumption DEF IdsTK
<1>5. /\ DOMAIN storedTK' = NsTK /\ DOMAIN activeTK' = NsTK
      /\ \A s \in NsTK : \/ storedTK'[s] = storedTK[s] /\ activeTK'[s] = activeTK[s]
                         \/ /\ s = n /\ i \notin storedTK[s] /\ storedTK'[s] = storedTK[s] \cup {i}
                            /\ activeTK'[s] = {j \in activeTK[s] : ApprovalsTK[j].subject # ApprovalsTK[i].subject} \cup {i}
  <2>1. CASE UNCHANGED <<activeTK, storedTK>> BY <1>0, <2>1 DEF TokenType
  <2>2. CASE persistTokenApproval(n, i) /\ storedTK' = [storedTK EXCEPT ![n] = @ \cup {i}]
    <3>1. CASE i \in storedTK[n]
      <4>1. activeTK' = activeTK BY <2>2, <3>1 DEF persistTokenApproval
      <4>2. DOMAIN storedTK' = NsTK /\ \A s \in NsTK : storedTK'[s] = storedTK[s] BY <1>0, <2>2, <3>1 DEF TokenType
      <4> QED BY <1>0, <4>1, <4>2 DEF TokenType
    <3>2. CASE i \notin storedTK[n]
      <4>1. activeTK' = [activeTK EXCEPT ![n] = {j \in @ : ApprovalsTK[j].subject # ApprovalsTK[i].subject} \cup {i}]
        BY <2>2, <3>2 DEF persistTokenApproval
      <4> QED BY <1>0, <2>2, <3>2, <4>1 DEF TokenType
    <3> QED BY <3>1, <3>2
  <2> QED BY <1>3, <2>1, <2>2
<1>7. TokenType'
  <2>1. \A s \in NsTK : storedTK'[s] \subseteq IdsTK BY <1>0, <1>4, <1>5 DEF TokenType
  <2> QED BY <1>0, <1>1, <1>5, <2>1 DEF TokenType
<1>8. \A s \in NsTK : storedTK'[s] \cap DOMAIN TransfersTK = storedTK[s] \cap DOMAIN TransfersTK BY <1>4, <1>5
<1>9. ChainInv' BY <1>1, <1>2, <1>5 DEF TokenInv, ChainInv, AboutTokens
<1>10. MessageInv' BY <1>1, <1>8, CreatorAssumption DEF TokenInv, MessageInv, MessageReleased, HasMessage
<1>11. QueueOrdered' BY <1>1 DEF TokenInv, OrderInv, QueueOrdered
<1>12. RowsOrdered'
  <2> SUFFICES ASSUME NEW s \in NsTK, NEW p \in DOMAIN queueTK, WaitingFor(s, queueTK[p]),
                      NEW j \in storedTK'[s] \cap DOMAIN ApprovalsTK
               PROVE  Ordered(minedTK, j, queueTK[p].id)
    BY <1>1 DEF RowsOrdered
  <2>1. CASE j \in storedTK[s] BY <2>1 DEF TokenInv, OrderInv, RowsOrdered
  <2>2. CASE s = n /\ j = i
    <3>1. 1 \in DOMAIN queueTK /\ WaitingFor(s, queueTK[1]) /\ 1 <= p BY <1>1, <2>2, FirstEvent DEF WaitingFor
    <3> QED BY <1>2, <2>2, <3>1 DEF TokenInv, OrderInv, QueueOrdered
  <2> QED BY <1>5, <2>1, <2>2
<1>13. LastApprovalActive'
  <2> DEFINE Lasts(s, R) == {a \in R : \A j \in R : ApprovalsTK[a].subject = ApprovalsTK[j].subject => Place(minedTK, j) <= Place(minedTK, a)}
  <2>1. LastApprovalActive' <=> \A s \in NsTK : activeTK'[s] = Lasts(s, storedTK'[s] \cap DOMAIN ApprovalsTK)
    BY <1>1 DEF LastApprovalActive, PositionTK, Place
  <2>2. \A s \in NsTK : activeTK[s] = Lasts(s, storedTK[s] \cap DOMAIN ApprovalsTK) BY LastsIs DEF TokenInv, OrderInv
  <2>3. ASSUME NEW s \in NsTK PROVE activeTK'[s] = Lasts(s, storedTK'[s] \cap DOMAIN ApprovalsTK)
    <3>1. CASE storedTK'[s] = storedTK[s] /\ activeTK'[s] = activeTK[s] BY <2>2, <3>1
    <3>2. CASE s = n /\ i \notin storedTK[s] /\ storedTK'[s] = storedTK[s] \cup {i}
               /\ activeTK'[s] = {j \in activeTK[s] : ApprovalsTK[j].subject # ApprovalsTK[i].subject} \cup {i}
      <4> DEFINE R == storedTK[s] \cap DOMAIN ApprovalsTK
      <4>1. storedTK'[s] \cap DOMAIN ApprovalsTK = R \cup {i} /\ i \notin R BY <3>2
      <4>2. \A j \in R \cup {i} : Chained(minedTK, j) BY <1>2 DEF TokenInv, ChainInv
      <4>3. \A j \in R \cup {i} : Place(minedTK, j) \in Int /\ minedTK[Place(minedTK, j)] = j
        <5> SUFFICES ASSUME NEW j, Chained(minedTK, j) PROVE Place(minedTK, j) \in Int /\ minedTK[Place(minedTK, j)] = j BY <4>2
        <5>1. PICK p \in DOMAIN minedTK : minedTK[p] = j BY DEF Chained
        <5>2. Place(minedTK, j) = p BY <5>1, PlaceIs DEF TokenInv, ChainInv
        <5>3. p \in Int BY <1>0, LenProperties DEF TokenType
        <5> QED BY <5>1, <5>2, <5>3
      <4>4. ASSUME NEW j \in R PROVE Place(minedTK, j) < Place(minedTK, i)
        <5>1. Ordered(minedTK, j, i)
          <6>1. 1 \in DOMAIN queueTK /\ WaitingFor(s, queueTK[1]) BY <1>1, <3>2, FirstEvent DEF WaitingFor
          <6> QED BY <1>2, <6>1 DEF TokenInv, OrderInv, RowsOrdered
        <5>2. Place(minedTK, j) # Place(minedTK, i) BY <4>1, <4>3
        <5> QED BY <4>3, <5>1, <5>2 DEF Ordered
      <4>5. i \in Lasts(s, R \cup {i}) BY <4>3, <4>4
      <4>6. ASSUME NEW a \in R
            PROVE  a \in Lasts(s, R \cup {i}) <=> (a \in Lasts(s, R) /\ ApprovalsTK[a].subject # ApprovalsTK[i].subject)
        <5>1. ~(Place(minedTK, i) <= Place(minedTK, a)) BY <4>3, <4>4
        <5> QED BY <5>1
      <4>7. Lasts(s, R \cup {i}) \subseteq R \cup {i} /\ Lasts(s, R) \subseteq R OBVIOUS
      <4>8. activeTK[s] = Lasts(s, R) BY <2>2
      <4> HIDE DEF R, Lasts
      <4>9. \A a : a \in Lasts(s, R \cup {i}) <=> a \in {j \in activeTK[s] : ApprovalsTK[j].subject # ApprovalsTK[i].subject} \cup {i}
        BY <4>1, <4>5, <4>6, <4>7, <4>8
      <4> QED BY <3>2, <4>1, <4>9
    <3> QED BY <1>5, <3>1, <3>2
  <2> QED BY <2>1, <2>3
<1>14. BalancesAddUp' BY <1>1, <1>8 DEF TokenInv, BalancesAddUp, Moved
<1> QED BY <1>7, <1>9, <1>10, <1>11, <1>12, <1>13, <1>14 DEF TokenInv, OrderInv

(* The steps that only concern the pool.                                   *)
LEMMA OtherTokenSteps ==
    ASSUME TokenInv,
           \/ CreateTokenPool \/ createAnswered \/ activationAnswered \/ ackTK \/ restartTK \/ cacheExpiresTK \/ UNCHANGED varsTK
           \/ \E s \in NsTK : \/ handleTokenPoolBroadcast(s) \/ reconcilePublishedPool(s) \/ ActivateTokenPool(s)
                              \/ retryActivation(s) \/ handleTokenPoolCreate(s) \/ confirmPoolFails(s)
    PROVE  TokenInv'
<1> USE DEF rowVarsTK, poolVarsTK
<1>0. listenTK \subseteq NsTK BY DEF TokenInv, TokenType
<1>1. CASE CreateTokenPool BY <1>0, <1>1, PoolSteps DEF CreateTokenPool
<1>2. CASE createAnswered
  <2>1. UNCHANGED <<storedTK, activeTK, balanceTK, minedTK, sentTK, msgTK, listenTK>>
        /\ (queueTK' = queueTK \/ queueTK' = Append(queueTK, PoolEvent(0, TRUE)))
    BY <1>2 DEF createAnswered
  <2>2. queueTK' = queueTK \/ \E s \in NsTK \cup {0}, tx \in BOOLEAN : queueTK' = Append(queueTK, PoolEvent(s, tx)) BY <2>1
  <2> QED BY <1>0, <2>1, <2>2, PoolSteps
<1>3. CASE activationAnswered BY <1>0, <1>3, PoolSteps DEF activationAnswered
<1>4. CASE ackTK BY <1>0, <1>4, PoolSteps DEF ackTK
<1>5. CASE restartTK BY <1>0, <1>5, PoolSteps DEF restartTK
<1>6. CASE cacheExpiresTK BY <1>0, <1>6, PoolSteps DEF cacheExpiresTK
<1>7. CASE UNCHANGED varsTK BY <1>0, <1>7, PoolSteps DEF varsTK
<1>8. ASSUME NEW s \in NsTK, ActivateTokenPool(s) \/ retryActivation(s) PROVE TokenInv'
  <2>1. UNCHANGED <<storedTK, activeTK, balanceTK, minedTK, sentTK, msgTK>> /\ Activations(s)
    BY <1>8 DEF ActivateTokenPool, retryActivation
  <2>2. listenTK' \subseteq NsTK BY <1>0, <2>1 DEF Activations
  <2>3. PoolData(s) \in NsTK \cup {0} BY DEF PoolData
  <2>4. queueTK' = queueTK \/ queueTK' = Append(queueTK, PoolEvent(PoolData(s), FALSE)) BY <2>1 DEF Activations
  <2>5. queueTK' = queueTK \/ \E n \in NsTK \cup {0}, tx \in BOOLEAN : queueTK' = Append(queueTK, PoolEvent(n, tx)) BY <2>3, <2>4
  <2> QED BY <2>1, <2>2, <2>5, PoolSteps
<1>9. ASSUME NEW s \in NsTK,
             handleTokenPoolBroadcast(s) \/ reconcilePublishedPool(s) \/ handleTokenPoolCreate(s) \/ confirmPoolFails(s)
      PROVE  TokenInv'
  <2>1. UNCHANGED <<storedTK, activeTK, balanceTK, minedTK, sentTK, msgTK, listenTK, queueTK>>
    BY <1>9 DEF handleTokenPoolBroadcast, reconcilePublishedPool, handleTokenPoolCreate, confirmPoolFails
  <2> QED BY <1>0, <2>1, PoolSteps
<1> QED BY <1>1, <1>2, <1>3, <1>4, <1>5, <1>6, <1>7, <1>8, <1>9

LEMMA TokenKeeps == TokenInv /\ [NextTK]_varsTK => TokenInv'
<1> SUFFICES ASSUME TokenInv, [NextTK]_varsTK PROVE TokenInv' OBVIOUS
<1>1. CASE \E s \in NsTK : DeleteTokenPool(s) BY <1>1, DeleteStep
<1>2. CASE \E s \in NsTK : TokensTransferred(s) BY <1>2, TransferredStep
<1>3. CASE \E s \in NsTK : TokensApproved(s) BY <1>3, ApprovedStep
<1>4. CASE \E i \in IdsTK : sendInternal(i) \/ RunTokenOperation(i) BY <1>4, SendSteps
<1>5. CASE \E i \in IdsTK : mine(i) BY <1>5, MineStep
<1>6. CASE \/ CreateTokenPool \/ createAnswered \/ activationAnswered \/ ackTK \/ restartTK \/ cacheExpiresTK \/ UNCHANGED varsTK
           \/ \E s \in NsTK : \/ handleTokenPoolBroadcast(s) \/ reconcilePublishedPool(s) \/ ActivateTokenPool(s)
                              \/ retryActivation(s) \/ handleTokenPoolCreate(s) \/ confirmPoolFails(s)
  BY <1>6, OtherTokenSteps
<1> QED BY <1>1, <1>2, <1>3, <1>4, <1>5, <1>6 DEF NextTK

(* TokensAddUp: the balances of a pool are the sums of the transfers that  *)
(* are stored, each counted once however often it was delivered; of the    *)
(* approvals of a subject the last on the chain is the active one; and no  *)
(* stored transfer keeps its message back.                                 *)
THEOREM AddUp == Spec => []TokensAddUp
<1>1. Init => TokenInv BY TokenInit DEF Init
<1>2. TokenInv /\ [Next]_varsNode => TokenInv'
  <2> SUFFICES ASSUME TokenInv, [Next]_varsNode PROVE TokenInv' OBVIOUS
  <2>1. CASE UNCHANGED varsNode
    <3>1. UNCHANGED varsTK BY <2>1 DEF varsNode
    <3> QED BY <3>1, TokenKeeps
  <2>2. CASE Next
    <3>1. NextTK \/ UNCHANGED varsTK BY <2>2 DEF Next
    <3> QED BY <3>1, TokenKeeps
  <2> QED BY <2>1, <2>2
<1>3. TokenInv => TokensAddUp BY DEF TokenInv, OrderInv, MessageInv, TokensAddUp
<1> QED BY <1>1, <1>2, <1>3, PTL DEF Spec

---------------------------------------------------------------------------
(* Namespaces *)

(* An orchestrator has the fields of Instance.  While it starts and stops  *)
(* it keeps its name, generation, configuration and plugins.               *)
InstFields == {"name", "gen", "conf", "uses", "events", "phase", "live", "running", "ready"}
IsInst(i) == DOMAIN i = InstFields /\ i.gen \in Nat
SameInst(i, j) == j.name = i.name /\ j.gen = i.gen /\ j.conf = i.conf /\ j.uses = i.uses /\ (j.live => i.live)
Serves(sv, i) == i.name \in DOMAIN sv /\ sv[i.name] = i.gen

(* Orchestrators by generation; the newest of a name is served, and only   *)
(* that one lives.                                                         *)
GenInv(is, gen) ==
    /\ gen \in Nat
    /\ \A i \in is : IsInst(i) /\ i.gen <= gen
    /\ \A i, j \in is : i.name = j.name /\ i.gen = j.gen => i = j
ServedInv(is, sv) ==
    /\ \A n \in DOMAIN sv : \E i \in is : i.name = n /\ i.gen = sv[n]
    /\ \A i \in is : i.name \in DOMAIN sv => i.gen <= sv[i.name]
    /\ \A i \in is : i.live /\ i.name # ffsystem => Serves(sv, i)

(* Plugin instances are those of the file, and newer than any stopped one  *)
(* of their name; a served namespace has the configuration of the file.    *)
PluginInv(file, pl, ca, gen) ==
    /\ file \in ConfigFiles /\ DOMAIN pl = DOMAIN file.plugins
    /\ \A p \in DOMAIN pl : /\ pl[p].name = p /\ pl[p].hash = file.plugins[p]
                            /\ pl[p].gen \in Nat /\ pl[p].gen <= gen /\ pl[p] \notin ca
    /\ \A p \in ca : p.gen \in Nat /\ p.gen <= gen
ConfOf(file, pl, i) ==
    /\ i.conf = file.namespaces[i.name]
    /\ ~i.conf.all => i.conf.plugins \subseteq DOMAIN pl /\ i.uses = {pl[p] : p \in i.conf.plugins}
ConfInv(file, pl, sv, is) ==
    /\ DOMAIN sv \ {ffsystem} = DOMAIN file.namespaces
    /\ \A i \in is : Serves(sv, i) /\ i.name # ffsystem => ConfOf(file, pl, i)

(* Who is served is called back, and the last one of a namespace that is   *)
(* gone is not.                                                            *)
Newest(is, i) == i \in is /\ \A j \in is : j.name = i.name => j.gen <= i.gen
HandlerInv(h, sv, is) ==
    /\ \A i \in is : Serves(sv, i) => \A p \in i.uses : [plugin |-> p, ns |-> i.name, gen |-> i.gen] \in h
    /\ \A i \in is, x \in h : Newest(is, i) /\ i.name \notin DOMAIN sv /\ x.ns = i.name => x.plugin \notin i.uses
NamespaceInv ==
    /\ GenInv(instN, genN) /\ ServedInv(instN, servedN) /\ HandlerInv(handlersN, servedN, instN)
    /\ upN => PluginInv(fileN, pluginsN, cancelledN, genN) /\ ConfInv(fileN, pluginsN, servedN, instN)

(* The instance of a name and generation is the one there is.              *)
LEMMA OfIs ==
    ASSUME NamespaceInv, NEW i \in instN PROVE Of(i.name, i.gen) = i
<1>1. \A j \in instN : j.name = i.name /\ j.gen = i.gen <=> j = i BY DEF NamespaceInv, GenInv
<1>2. Of(i.name, i.gen) \in instN /\ Of(i.name, i.gen).name = i.name /\ Of(i.name, i.gen).gen = i.gen BY <1>1 DEF Of
<1> QED BY <1>1, <1>2

LEMMA CurrentIs ==
    ASSUME NamespaceInv, NEW n \in DOMAIN servedN
    PROVE  Current(n) \in instN /\ Current(n).name = n /\ Current(n).gen = servedN[n] /\ Serves(servedN, Current(n))
<1>1. PICK i \in instN : i.name = n /\ i.gen = servedN[n] BY DEF NamespaceInv, ServedInv
<1>2. Of(i.name, i.gen) = i BY OfIs
<1>3. Current(n) = i BY <1>1, <1>2 DEF Current
<1> QED BY <1>1, <1>3 DEF Serves

LEMMA NamespaceFacts == NamespaceInv => NamespacesServed
<1> SUFFICES ASSUME NamespaceInv PROVE NamespacesServed OBVIOUS
<1>1. ServedAsConfigured
  <2> SUFFICES ASSUME upN PROVE ServedAsConfigured BY DEF ServedAsConfigured
  <2>1. DOMAIN servedN \ {ffsystem} = DOMAIN fileN.namespaces BY DEF NamespaceInv, ConfInv
  <2>2. ASSUME NEW n \in Named
        PROVE  /\ Current(n).conf = fileN.namespaces[n]
               /\ \A p \in Current(n).uses : p.hash = fileN.plugins[p.name] /\ p \notin cancelledN
    <3>1. n \in DOMAIN servedN /\ n # ffsystem /\ ~Current(n).conf.all BY DEF Named
    <3>2. Current(n) \in instN /\ Current(n).name = n /\ Serves(servedN, Current(n)) BY <3>1, CurrentIs
    <3>3. ConfOf(fileN, pluginsN, Current(n)) BY <3>1, <3>2 DEF NamespaceInv, ConfInv
    <3>4. ASSUME NEW p \in Current(n).uses PROVE p.hash = fileN.plugins[p.name] /\ p \notin cancelledN
      <4>1. PICK q \in DOMAIN pluginsN : p = pluginsN[q] BY <3>1, <3>3 DEF ConfOf
      <4> QED BY <4>1 DEF NamespaceInv, PluginInv
    <3> QED BY <3>2, <3>3, <3>4 DEF ConfOf
  <2> QED BY <2>1, <2>2 DEF ServedAsConfigured
<1>2. CallbacksFollow
  <2>1. ASSUME NEW n \in DOMAIN servedN, NEW p \in Current(n).uses
        PROVE  [plugin |-> p, ns |-> n, gen |-> servedN[n]] \in handlersN
    <3>1. Current(n) \in instN /\ Current(n).name = n /\ Current(n).gen = servedN[n] /\ Serves(servedN, Current(n)) BY CurrentIs
    <3> QED BY <3>1 DEF NamespaceInv, HandlerInv
  <2>2. ASSUME NEW i \in Removed, NEW h \in handlersN, h.ns = i.name PROVE h.plugin \notin i.uses
    BY <2>2 DEF Removed, NamespaceInv, HandlerInv, Newest
  <2> QED BY <2>1, <2>2 DEF CallbacksFollow
<1>3. OneOrchestrator
  <2> SUFFICES ASSUME NEW i \in instN, NEW j \in instN, i.name = j.name, i.name # ffsystem, i.live, j.live PROVE i = j
    BY DEF OneOrchestrator
  <2>1. Serves(servedN, i) /\ Serves(servedN, j) BY DEF NamespaceInv, ServedInv
  <2> QED BY <2>1 DEF Serves, NamespaceInv, GenInv
<1> QED BY <1>1, <1>2, <1>3 DEF NamespacesServed

(* Instances that only move on.                                            *)
Images(is, js) ==
    /\ \A j \in js : IsInst(j) /\ \E i \in is : SameInst(i, j)
    /\ \A i \in is : \E j \in js : SameInst(i, j)
    /\ \A j, k \in js : j.name = k.name /\ j.gen = k.gen => j = k

LEMMA ImagesNewest ==
    ASSUME NEW is, NEW js, Images(is, js), NEW i \in is, NEW j \in js, SameInst(i, j), Newest(js, j)
    PROVE  Newest(is, i)
<1>1. ASSUME NEW k \in is, k.name = i.name PROVE k.gen <= i.gen
  <2>1. PICK l \in js : SameInst(k, l) BY DEF Images
  <2> QED BY <1>1, <2>1 DEF SameInst, Newest
<1> QED BY <1>1 DEF Newest

LEMMA ImagesKeep ==
    ASSUME NEW is, NEW js, Images(is, js), NEW gen, NEW sv, NEW h, NEW file, NEW pl
    PROVE  /\ GenInv(is, gen) => GenInv(js, gen)
           /\ ServedInv(is, sv) => ServedInv(js, sv)
           /\ HandlerInv(h, sv, is) => HandlerInv(h, sv, js)
           /\ ConfInv(file, pl, sv, is) => ConfInv(file, pl, sv, js)
<1>1. GenInv(is, gen) => GenInv(js, gen) BY DEF Images, GenInv, SameInst
<1>2. ASSUME ServedInv(is, sv) PROVE ServedInv(js, sv)
  <2>1. ASSUME NEW n \in DOMAIN sv PROVE \E j \in js : j.name = n /\ j.gen = sv[n]
    <3>1. PICK i \in is : i.name = n /\ i.gen = sv[n] BY <1>2 DEF ServedInv
    <3>2. PICK j \in js : SameInst(i, j) BY DEF Images
    <3> QED BY <3>1, <3>2 DEF SameInst
  <2>2. ASSUME NEW j \in js PROVE /\ j.name \in DOMAIN sv => j.gen <= sv[j.name]
                                  /\ j.live /\ j.name # ffsystem => Serves(sv, j)
    <3>1. PICK i \in is : SameInst(i, j) BY DEF Images
    <3> QED BY <1>2, <3>1 DEF SameInst, ServedInv, Serves
  <2> QED BY <2>1, <2>2 DEF ServedInv
<1>3. ASSUME HandlerInv(h, sv, is) PROVE HandlerInv(h, sv, js)
  <2>1. ASSUME NEW j \in js, NEW i \in is, SameInst(i, j)
        PROVE  /\ Serves(sv, j) => \A p \in j.uses : [plugin |-> p, ns |-> j.name, gen |-> j.gen] \in h
               /\ \A x \in h : Newest(js, j) /\ j.name \notin DOMAIN sv /\ x.ns = j.name => x.plugin \notin j.uses
    <3>1. j.name = i.name /\ j.gen = i.gen /\ j.uses = i.uses BY <2>1 DEF SameInst
    <3>2. Serves(sv, j) => Serves(sv, i) BY <3>1 DEF Serves
    <3>3. Newest(js, j) => Newest(is, i) BY <2>1, ImagesNewest
    <3>4. Serves(sv, i) => \A p \in i.uses : [plugin |-> p, ns |-> i.name, gen |-> i.gen] \in h BY <1>3 DEF HandlerInv
    <3>5. \A x \in h : Newest(is, i) /\ i.name \notin DOMAIN sv /\ x.ns = i.name => x.plugin \notin i.uses BY <1>3 DEF HandlerInv
    <3> QED BY <3>1, <3>2, <3>3, <3>4, <3>5
  <2>2. \A j \in js : \E i \in is : SameInst(i, j) BY DEF Images
  <2> QED BY <2>1, <2>2 DEF HandlerInv
<1>4. ASSUME ConfInv(file, pl, sv, is) PROVE ConfInv(file, pl, sv, js)
  <2>1. ASSUME NEW j \in js, Serves(sv, j), j.name # ffsystem PROVE ConfOf(file, pl, j)
    <3>1. PICK i \in is : SameInst(i, j) BY DEF Images
    <3>2. Serves(sv, i) /\ i.name # ffsystem BY <2>1, <3>1 DEF SameInst, Serves
    <3>3. ConfOf(file, pl, i) BY <1>4, <3>2 DEF ConfInv
    <3> QED BY <3>1, <3>3 DEF ConfOf, SameInst
  <2> QED BY <1>4, <2>1 DEF ConfInv
<1> QED BY <1>1, <1>2, <1>3, <1>4

LEMMA SetImages ==
    ASSUME NEW is, NEW gen, GenInv(is, gen), NEW i \in is, NEW j, IsInst(j), SameInst(i, j)
    PROVE  Images(is, (is \ {i}) \cup {j})
BY DEF GenInv, Images, SameInst

(* A step of one starter.                                                  *)
LEMMA SetKeeps ==
    ASSUME NamespaceInv, NEW i \in instN, NEW j, IsInst(j), SameInst(i, j), Set(i, j),
           UNCHANGED <<upN, fileN, pluginsN, cancelledN, servedN, handlersN, genN>>
    PROVE  NamespaceInv'
<1>1. Images(instN, instN') BY SetImages DEF NamespaceInv, Set
<1>2. GenInv(instN', genN) /\ ServedInv(instN', servedN) /\ HandlerInv(handlersN, servedN, instN')
  BY <1>1, ImagesKeep DEF NamespaceInv
<1>3. upN => ConfInv(fileN, pluginsN, servedN, instN') BY <1>1, ImagesKeep DEF NamespaceInv
<1> QED BY <1>2, <1>3 DEF NamespaceInv

LEMMA PhaseIs ==
    ASSUME NEW i, IsInst(i), NEW p
    PROVE  /\ IsInst([i EXCEPT !.phase = p]) /\ SameInst(i, [i EXCEPT !.phase = p])
           /\ IsInst([i EXCEPT !.phase = p, !.running = TRUE]) /\ SameInst(i, [i EXCEPT !.phase = p, !.running = TRUE])
           /\ IsInst([i EXCEPT !.phase = p, !.ready = TRUE]) /\ SameInst(i, [i EXCEPT !.phase = p, !.ready = TRUE])
BY DEF IsInst, SameInst, InstFields

(* What setHandlers and Purge leave and add.                               *)
LEMMA RegisteredIn ==
    ASSUME NEW h, NEW is, NEW i \in is, NEW p \in i.uses
    PROVE  [plugin |-> p, ns |-> i.name, gen |-> i.gen] \in RegisterAll(h, is)
BY DEF RegisterAll

LEMMA Stays ==
    ASSUME NEW h, NEW is, NEW x \in h, \A i \in is : x.ns # i.name
    PROVE  x \in RegisterAll(h, is) /\ x \in Purge(h, is)
BY DEF RegisterAll, Purge

LEMMA NotAdded ==
    ASSUME NEW h, NEW is, NEW x \in RegisterAll(h, is), \A i \in is : x.ns # i.name
    PROVE  x \in h
<1>1. ~\E i \in is : \E p \in i.uses : x = [plugin |-> p, ns |-> i.name, gen |-> i.gen] OBVIOUS
<1> QED BY <1>1 DEF RegisterAll, Purge

(* ff_system is served by its newest instance.                             *)
LEMMA SystemKeeps ==
    ASSUME NEW is, NEW gen, NEW sv, NEW h, NEW file, NEW pl, NEW sys, NEW sv2,
           GenInv(is, gen), ServedInv(is, sv), HandlerInv(h, sv, is),
           IsInst(sys), sys.name = ffsystem, sys.gen = gen + 1,
           DOMAIN sv2 = DOMAIN sv \cup {ffsystem}, \A n \in DOMAIN sv2 : sv2[n] = IF n = ffsystem THEN gen + 1 ELSE sv[n]
    PROVE  /\ GenInv(is \cup {sys}, gen + 1) /\ ServedInv(is \cup {sys}, sv2)
           /\ HandlerInv(RegisterAll(h, {sys}), sv2, is \cup {sys})
           /\ ConfInv(file, pl, sv, is) => ConfInv(file, pl, sv2, is \cup {sys})
<1>0. gen \in Nat /\ \A i \in is : i.gen \in Nat /\ i.gen <= gen /\ i.gen # gen + 1 /\ i.gen <= gen + 1 BY DEF GenInv, IsInst
<1>1. GenInv(is \cup {sys}, gen + 1) BY <1>0 DEF GenInv
<1>2. \A i \in is : Serves(sv2, i) <=> i.name # ffsystem /\ Serves(sv, i) BY <1>0 DEF Serves
<1>3. Serves(sv2, sys) BY DEF Serves
<1>4. ServedInv(is \cup {sys}, sv2)
  <2>1. ASSUME NEW n \in DOMAIN sv2 PROVE \E i \in is \cup {sys} : i.name = n /\ i.gen = sv2[n]
    <3>1. CASE n = ffsystem BY <3>1
    <3>2. CASE n # ffsystem BY <3>2 DEF ServedInv
    <3> QED BY <3>1, <3>2
  <2>2. \A i \in is \cup {sys} : i.name \in DOMAIN sv2 => i.gen <= sv2[i.name] BY <1>0 DEF ServedInv
  <2>3. \A i \in is \cup {sys} : i.live /\ i.name # ffsystem => Serves(sv2, i) BY <1>2 DEF ServedInv
  <2> QED BY <2>1, <2>2, <2>3 DEF ServedInv
<1>5. ASSUME NEW i \in is \cup {sys}, Serves(sv2, i), NEW p \in i.uses
      PROVE  [plugin |-> p, ns |-> i.name, gen |-> i.gen] \in RegisterAll(h, {sys})
  <2>1. CASE i = sys BY <2>1, RegisteredIn
  <2>2. CASE i # sys
    <3>1. i \in is /\ i.name # ffsystem /\ Serves(sv, i) BY <1>2, <1>5, <2>2
    <3>2. [plugin |-> p, ns |-> i.name, gen |-> i.gen] \in h BY <3>1 DEF HandlerInv
    <3> QED BY <3>1, <3>2, Stays
  <2> QED BY <2>1, <2>2
<1>6. ASSUME NEW i \in is \cup {sys}, NEW x \in RegisterAll(h, {sys}), Newest(is \cup {sys}, i), i.name \notin DOMAIN sv2, x.ns = i.name
      PROVE  x.plugin \notin i.uses
  <2>1. i.name # ffsystem /\ i \in is /\ i.name \notin DOMAIN sv BY <1>6
  <2>2. Newest(is, i) BY <1>6, <2>1 DEF Newest
  <2>3. x \in h BY <1>6, <2>1, NotAdded
  <2> QED BY <1>6, <2>1, <2>2, <2>3 DEF HandlerInv
<1>7. HandlerInv(RegisterAll(h, {sys}), sv2, is \cup {sys}) BY <1>5, <1>6 DEF HandlerInv
<1>8. ASSUME ConfInv(file, pl, sv, is) PROVE ConfInv(file, pl, sv2, is \cup {sys})
  <2>1. DOMAIN sv2 \ {ffsystem} = DOMAIN file.namespaces BY <1>8 DEF ConfInv
  <2>2. \A i \in is \cup {sys} : Serves(sv2, i) /\ i.name # ffsystem => ConfOf(file, pl, i) BY <1>2, <1>8 DEF ConfInv
  <2> QED BY <2>1, <2>2 DEF ConfInv
<1> QED BY <1>1, <1>4, <1>7, <1>8

LEMMA V1Keeps ==
    ASSUME NamespaceInv, NEW i \in instN, startV1NamespaceIfRequired(i) PROVE NamespaceInv'
<1>1. IsInst(i) BY DEF NamespaceInv, GenInv
<1>2. CASE Set(i, [i EXCEPT !.phase = "start"]) /\ UNCHANGED <<servedN, handlersN, genN>>
  <2>1. IsInst([i EXCEPT !.phase = "start"]) /\ SameInst(i, [i EXCEPT !.phase = "start"]) BY <1>1, PhaseIs
  <2>2. UNCHANGED <<upN, fileN, pluginsN, cancelledN>> BY DEF startV1NamespaceIfRequired
  <2> QED BY <1>2, <2>1, <2>2, SetKeeps
<1>3. CASE Set(i, retryStart(i)) /\ UNCHANGED <<servedN, handlersN, genN>>
  <2>1. IsInst(retryStart(i)) /\ SameInst(i, retryStart(i)) BY <1>1, PhaseIs DEF retryStart
  <2>2. UNCHANGED <<upN, fileN, pluginsN, cancelledN>> BY DEF startV1NamespaceIfRequired
  <2> QED BY <1>3, <2>1, <2>2, SetKeeps
<1> DEFINE j == [i EXCEPT !.phase = "start"]
           sys == [Instance(ffsystem, genN + 1, i.conf, i.uses, i.events)
                     EXCEPT !.phase = "ended", !.running = TRUE, !.ready = TRUE]
           mid == (instN \ {i}) \cup {j}
<1>4. CASE /\ instN' = (instN \ {i}) \cup {j, sys}
           /\ servedN' = [n \in DOMAIN servedN \cup {ffsystem} |-> IF n = ffsystem THEN genN + 1 ELSE servedN[n]]
           /\ handlersN' = RegisterAll(handlersN, {sys}) /\ genN' = genN + 1
  <2>1. IsInst(j) /\ SameInst(i, j) BY <1>1, PhaseIs
  <2>2. genN \in Nat BY DEF NamespaceInv, GenInv
  <2>3. IsInst(sys) /\ sys.name = ffsystem /\ sys.gen = genN + 1 BY <2>2 DEF Instance, IsInst, InstFields
  <2>4. Images(instN, mid) BY <2>1, SetImages DEF NamespaceInv
  <2>5. GenInv(mid, genN) /\ ServedInv(mid, servedN) /\ HandlerInv(handlersN, servedN, mid) BY <2>4, ImagesKeep DEF NamespaceInv
  <2>6. upN => ConfInv(fileN, pluginsN, servedN, mid) BY <2>4, ImagesKeep DEF NamespaceInv
  <2>7. instN' = mid \cup {sys} BY <1>4
  <2> HIDE DEF j, sys, mid
  <2>8. /\ GenInv(instN', genN') /\ ServedInv(instN', servedN') /\ HandlerInv(handlersN', servedN', instN')
        /\ ConfInv(fileN, pluginsN, servedN, mid) => ConfInv(fileN, pluginsN, servedN', instN')
    <3>1. DOMAIN servedN' = DOMAIN servedN \cup {ffsystem} BY <1>4
    <3>2. \A n \in DOMAIN servedN' : servedN'[n] = IF n = ffsystem THEN genN + 1 ELSE servedN[n] BY <1>4
    <3>3. handlersN' = RegisterAll(handlersN, {sys}) /\ genN' = genN + 1 BY <1>4
    <3> QED BY <2>3, <2>5, <2>7, <3>1, <3>2, <3>3, SystemKeeps
  <2>9. UNCHANGED <<upN, fileN, pluginsN, cancelledN>> BY DEF startV1NamespaceIfRequired
  <2>10. upN => PluginInv(fileN, pluginsN, cancelledN, genN')
    BY <1>4, <2>2 DEF NamespaceInv, PluginInv
  <2> QED BY <2>6, <2>8, <2>9, <2>10 DEF NamespaceInv
<1> HIDE DEF mid
<1>5. \/ Set(i, [i EXCEPT !.phase = "start"]) /\ UNCHANGED <<servedN, handlersN, genN>>
      \/ Set(i, retryStart(i)) /\ UNCHANGED <<servedN, handlersN, genN>>
      \/ /\ instN' = (instN \ {i}) \cup {j, sys}
         /\ servedN' = [n \in DOMAIN servedN \cup {ffsystem} |-> IF n = ffsystem THEN genN + 1 ELSE servedN[n]]
         /\ handlersN' = RegisterAll(handlersN, {sys}) /\ genN' = genN + 1
  BY DEF startV1NamespaceIfRequired
<1> QED BY <1>2, <1>3, <1>4, <1>5

(* What loadNamespace returns.                                             *)
LEMMA LoadedIs ==
    ASSUME NEW conf, NEW n \in DOMAIN conf.namespaces, NEW new, NEW known, NEW gen \in Nat,
           ~loadFails(conf, DOMAIN known), DOMAIN new = DOMAIN conf.plugins, NEW i, i = Loaded(n, conf, new, known, gen)
    PROVE  /\ IsInst(i) /\ i.name = n /\ i.gen = gen /\ i.live
           /\ i.conf = conf.namespaces[n]
           /\ ~i.conf.all => i.conf.plugins \subseteq DOMAIN new /\ i.uses = {new[p] : p \in i.conf.plugins}
           /\ \A u \in i.uses : \E p \in DOMAIN new : u = new[p]
<1> DEFINE all == pluginNames(conf.namespaces[n], DOMAIN known)
<1>1. all \subseteq DOMAIN conf.plugins BY DEF loadFails, validateNSPlugins
<1>2. IsInst(i) /\ i.name = n /\ i.gen = gen /\ i.live /\ i.conf = conf.namespaces[n]
  BY DEF Loaded, Instance, IsInst, InstFields
<1>3. i.uses = {new[p] : p \in all} BY DEF Loaded, Instance
<1>4. ~i.conf.all => all = i.conf.plugins BY <1>2 DEF pluginNames
<1> HIDE DEF all
<1> QED BY <1>1, <1>2, <1>3, <1>4

(* Init, and Start after it.                                               *)
LEMMA StartedKeeps ==
    ASSUME NEW conf \in ConfigFiles, NEW gen \in Nat, ~loadFails(conf, DOMAIN conf.plugins),
           NEW sv, DOMAIN sv = DOMAIN conf.namespaces, \A n \in DOMAIN sv : sv[n] = gen,
           NEW s, s = Started(conf, gen)
    PROVE  /\ GenInv(s.all, gen) /\ ServedInv(s.all, sv) /\ HandlerInv(s.handlers, sv, s.all)
           /\ PluginInv(conf, s.plugins, {}, gen) /\ ConfInv(conf, s.plugins, sv, s.all)
<1> DEFINE new == [p \in DOMAIN conf.plugins |-> [name |-> p, gen |-> gen, hash |-> conf.plugins[p]]]
           all == {Loaded(n, conf, new, new, gen) : n \in DOMAIN conf.namespaces}
<1>1. s.plugins = new /\ s.all = all /\ s.handlers = RegisterAll({}, all) BY DEF Started
<1>2. DOMAIN new = DOMAIN conf.plugins OBVIOUS
<1>3. PluginInv(conf, new, {}, gen) BY DEF PluginInv
<1> HIDE DEF new
<1>4. ASSUME NEW n \in DOMAIN conf.namespaces, NEW i, i = Loaded(n, conf, new, new, gen)
      PROVE  IsInst(i) /\ i.name = n /\ i.gen = gen /\ i.live /\ ConfOf(conf, new, i)
  BY <1>2, <1>4, LoadedIs DEF ConfOf
<1>5. \A i \in all : IsInst(i) /\ i.name \in DOMAIN sv /\ i.gen = gen /\ ConfOf(conf, new, i) BY <1>4
<1>6. \A n \in DOMAIN sv : \E i \in all : i.name = n BY <1>4
<1>7. \A i, j \in all : i.name = j.name => i = j BY <1>4
<1> HIDE DEF all
<1>8. \A i \in all : Serves(sv, i) BY <1>5 DEF Serves
<1>9. GenInv(all, gen) BY <1>5, <1>7 DEF GenInv
<1>10. ServedInv(all, sv) BY <1>5, <1>6, <1>8 DEF ServedInv
<1>11. ConfInv(conf, new, sv, all) BY <1>5, FilesAssumption DEF ConfInv
<1>12. HandlerInv(RegisterAll({}, all), sv, all) BY <1>5, RegisteredIn DEF HandlerInv
<1> QED BY <1>1, <1>3, <1>9, <1>10, <1>11, <1>12

(* stopDefunctNamespaces.                                                  *)
LEMMA StopImages ==
    ASSUME NamespaceInv, NEW stop
    PROVE  /\ Images(instN, stopAll(stop))
           /\ \A j \in stopAll(stop) : j.live => \E i \in instN : SameInst(i, j) /\ i.live /\ i \notin stop
<1>1. ASSUME NEW i \in instN, NEW j, j = IF i \in stop THEN stopNamespace(i) ELSE i
      PROVE  IsInst(j) /\ SameInst(i, j) /\ (j.live => i.live /\ i \notin stop)
  BY <1>1 DEF NamespaceInv, GenInv, IsInst, InstFields, SameInst, stopNamespace
<1>2. \A j \in stopAll(stop) : \E i \in instN : j = IF i \in stop THEN stopNamespace(i) ELSE i BY DEF stopAll
<1>3. \A i \in instN : \E j \in stopAll(stop) : j = IF i \in stop THEN stopNamespace(i) ELSE i BY DEF stopAll
<1>4. ASSUME NEW j \in stopAll(stop), NEW k \in stopAll(stop), j.name = k.name, j.gen = k.gen PROVE j = k
  <2>1. PICK i \in instN : j = IF i \in stop THEN stopNamespace(i) ELSE i BY <1>2
  <2>2. PICK l \in instN : k = IF l \in stop THEN stopNamespace(l) ELSE l BY <1>2
  <2>3. i.name = l.name /\ i.gen = l.gen BY <1>1, <1>4, <2>1, <2>2 DEF SameInst
  <2>4. i = l BY <2>3 DEF NamespaceInv, GenInv
  <2> QED BY <2>1, <2>2, <2>4
<1> QED BY <1>1, <1>2, <1>3, <1>4 DEF Images

(* A plugin of the new file whose configuration did not change is the one  *)
(* from before, and is not stopped.                                        *)
LEMMA AvailableIs ==
    ASSUME NamespaceInv, upN, NEW conf \in ConfigFiles, NEW new, new = Available(conf, genN + 1)
    PROVE  /\ PluginInv(conf, new, cancelledN \cup pluginsToStop(new), genN + 1)
           /\ \A p \in DOMAIN new \cap DOMAIN pluginsN : pluginsN[p].hash = new[p].hash => new[p] = pluginsN[p]
<1>1. genN \in Nat /\ PluginInv(fileN, pluginsN, cancelledN, genN) BY DEF NamespaceInv, GenInv
<1>2. DOMAIN new = DOMAIN conf.plugins BY DEF Available
<1>3. ASSUME NEW p \in DOMAIN new
      PROVE  \/ p \in DOMAIN pluginsN /\ new[p] = pluginsN[p] /\ new[p].hash = conf.plugins[p]
             \/ new[p] = [name |-> p, gen |-> genN + 1, hash |-> conf.plugins[p]] /\ (p \in DOMAIN pluginsN => pluginsN[p].hash # conf.plugins[p])
  BY <1>2 DEF Available
<1>4. ASSUME NEW p \in DOMAIN new
      PROVE  /\ new[p].name = p /\ new[p].hash = conf.plugins[p] /\ new[p].gen \in Nat /\ new[p].gen <= genN + 1
             /\ new[p] \notin cancelledN \cup pluginsToStop(new)
  <2>1. CASE p \in DOMAIN pluginsN /\ new[p] = pluginsN[p] /\ new[p].hash = conf.plugins[p]
    <3>1. new[p].name = p /\ new[p].gen \in Nat /\ new[p].gen <= genN + 1 /\ new[p] \notin cancelledN BY <1>1, <2>1 DEF PluginInv
    <3>2. ASSUME NEW q \in DOMAIN pluginsN, q \notin DOMAIN new \/ new[q] # pluginsN[q] PROVE new[p] # pluginsN[q]
      <4>1. CASE p = q BY <2>1, <3>2, <4>1
      <4>2. CASE p # q BY <1>1, <3>1, <4>2 DEF PluginInv
      <4> QED BY <4>1, <4>2
    <3>3. new[p] \notin pluginsToStop(new) BY <3>2 DEF pluginsToStop
    <3> QED BY <2>1, <3>1, <3>3
  <2>2. CASE new[p] = [name |-> p, gen |-> genN + 1, hash |-> conf.plugins[p]]
    <3>1. new[p].name = p /\ new[p].hash = conf.plugins[p] /\ new[p].gen = genN + 1 BY <2>2
    <3>2. \A q \in cancelledN : q.gen \in Nat /\ q.gen <= genN BY <1>1 DEF PluginInv
    <3>3. \A q \in DOMAIN pluginsN : pluginsN[q].gen \in Nat /\ pluginsN[q].gen <= genN BY <1>1 DEF PluginInv
    <3>4. new[p] \notin cancelledN BY <1>1, <3>1, <3>2
    <3>5. new[p] \notin pluginsToStop(new) BY <1>1, <3>1, <3>3 DEF pluginsToStop
    <3> QED BY <1>1, <3>1, <3>4, <3>5
  <2> QED BY <1>3, <2>1, <2>2
<1>5. ASSUME NEW q \in cancelledN \cup pluginsToStop(new) PROVE q.gen \in Nat /\ q.gen <= genN + 1
  <2>1. q \in cancelledN \/ \E r \in DOMAIN pluginsN : q = pluginsN[r] BY DEF pluginsToStop
  <2>2. q.gen \in Nat /\ q.gen <= genN BY <1>1, <2>1 DEF PluginInv
  <2> QED BY <1>1, <2>2
<1>6. PluginInv(conf, new, cancelledN \cup pluginsToStop(new), genN + 1) BY <1>2, <1>4, <1>5 DEF PluginInv
<1> QED BY <1>3, <1>4, <1>6

(* A reload, by what becomes of the instances: js are those from before,   *)
(* st those that start, and a namespace that does not start is kept.       *)
Reloaded(is, js, st, gone, gen, sv, sv2, names) ==
    /\ Images(is, js) /\ ffsystem \notin names
    /\ \A i \in gone : i.name \notin names
    /\ \A i \in is : i.name \in DOMAIN sv \ names /\ Serves(sv, i) => i \in gone
    /\ \A i \in st : IsInst(i) /\ i.gen = gen + 1 /\ i.name \in names /\ i.live /\ sv2[i.name] = gen + 1
    /\ \A i, j \in st : i.name = j.name => i = j
    /\ DOMAIN sv2 = names
    /\ \A n \in names : (\A i \in st : i.name # n) => n \in DOMAIN sv /\ sv2[n] = sv[n]
    /\ \A j \in js : j.live => /\ \A i \in st : i.name # j.name \/ ~Serves(sv, j)
                               /\ j.name \in DOMAIN sv \ names => ~Serves(sv, j)

LEMMA ReloadKeeps ==
    ASSUME NEW is, NEW js, NEW st, NEW gone, NEW gen, NEW sv, NEW sv2, NEW h, NEW names,
           GenInv(is, gen), ServedInv(is, sv), HandlerInv(h, sv, is), Reloaded(is, js, st, gone, gen, sv, sv2, names)
    PROVE  /\ GenInv(js \cup st, gen + 1) /\ ServedInv(js \cup st, sv2)
           /\ HandlerInv(RegisterAll(Purge(h, gone), st), sv2, js \cup st)
           /\ \A j \in js : Serves(sv2, j) => Serves(sv, j) /\ \A i \in st : i.name # j.name
<1> USE DEF Reloaded
<1>1. GenInv(js, gen) /\ ServedInv(js, sv) /\ HandlerInv(h, sv, js) BY ImagesKeep
<1>2. gen \in Nat /\ \A i \in js : i.gen \in Nat /\ i.gen <= gen /\ i.gen # gen + 1 /\ i.gen <= gen + 1 BY <1>1 DEF GenInv, IsInst
<1>3. GenInv(js \cup st, gen + 1) BY <1>1, <1>2 DEF GenInv
<1>4. ASSUME NEW j \in js, Serves(sv2, j) PROVE Serves(sv, j) /\ \A i \in st : i.name # j.name
  <2>1. ASSUME NEW i \in st, i.name = j.name PROVE FALSE BY <1>2, <1>4, <2>1 DEF Serves
  <2> QED BY <1>4, <2>1 DEF Serves
<1>5. ASSUME NEW j \in js, Serves(sv, j), j.name \in names, \A i \in st : i.name # j.name PROVE Serves(sv2, j)
  BY <1>5 DEF Serves
<1>6. \A i \in st : Serves(sv2, i) BY DEF Serves
<1>7. ServedInv(js \cup st, sv2)
  <2>1. ASSUME NEW n \in DOMAIN sv2 PROVE \E i \in js \cup st : i.name = n /\ i.gen = sv2[n]
    <3>1. CASE \E i \in st : i.name = n BY <3>1
    <3>2. CASE \A i \in st : i.name # n
      <4>1. n \in DOMAIN sv /\ sv2[n] = sv[n] BY <3>2
      <4> QED BY <1>1, <4>1 DEF ServedInv
    <3> QED BY <3>1, <3>2
  <2>2. ASSUME NEW j \in js, j.name \in names PROVE j.gen <= sv2[j.name]
    <3>1. CASE \E i \in st : i.name = j.name BY <1>2, <3>1
    <3>2. CASE \A i \in st : i.name # j.name
      <4>1. j.name \in DOMAIN sv /\ sv2[j.name] = sv[j.name] BY <2>2, <3>2
      <4> QED BY <1>1, <4>1 DEF ServedInv
    <3> QED BY <3>1, <3>2
  <2>3. \A i \in st : i.gen <= sv2[i.name] BY <1>2
  <2>4. ASSUME NEW j \in js, j.live, j.name # ffsystem PROVE Serves(sv2, j)
    <3>1. Serves(sv, j) BY <1>1, <2>4 DEF ServedInv
    <3>2. j.name \in names BY <2>4, <3>1 DEF Serves
    <3>3. \A i \in st : i.name # j.name BY <2>4, <3>1
    <3> QED BY <1>5, <3>1, <3>2, <3>3
  <2> QED BY <1>6, <2>1, <2>2, <2>3, <2>4 DEF ServedInv
<1>8. ASSUME NEW i \in js \cup st, Serves(sv2, i), NEW p \in i.uses
      PROVE  [plugin |-> p, ns |-> i.name, gen |-> i.gen] \in RegisterAll(Purge(h, gone), st)
  <2>1. CASE i \in st BY <2>1, RegisteredIn
  <2>2. CASE i \in js
    <3> DEFINE x == [plugin |-> p, ns |-> i.name, gen |-> i.gen]
    <3>1. x \in h /\ x.ns = i.name BY <1>1, <1>4, <1>8, <2>2 DEF HandlerInv
    <3>2. i.name \in names BY <1>8 DEF Serves
    <3> HIDE DEF x
    <3>3. x \in Purge(h, gone) BY <3>1, <3>2, Stays
    <3>4. \A k \in st : x.ns # k.name BY <1>4, <1>8, <2>2, <3>1
    <3>5. x \in RegisterAll(Purge(h, gone), st) BY <3>3, <3>4, Stays
    <3> QED BY <3>5 DEF x
  <2> QED BY <2>1, <2>2
<1>9. ASSUME NEW i \in js \cup st, NEW x \in RegisterAll(Purge(h, gone), st),
             Newest(js \cup st, i), i.name \notin DOMAIN sv2, x.ns = i.name
      PROVE  x.plugin \notin i.uses
  <2>1. i \in js /\ i.name \notin names /\ \A k \in st : k.name # i.name BY <1>9
  <2>2. x \in Purge(h, gone) BY <1>9, <2>1, NotAdded
  <2>3. x \in h /\ \A k \in gone : x.ns = k.name => x.plugin \notin k.uses BY <2>2 DEF Purge
  <2>4. PICK k \in is : SameInst(k, i) BY <2>1 DEF Images
  <2>5. Newest(js, i) BY <1>9, <2>1 DEF Newest
  <2>6. CASE i.name \notin DOMAIN sv BY <1>1, <1>9, <2>1, <2>3, <2>5, <2>6 DEF HandlerInv
  <2>7. CASE i.name \in DOMAIN sv
    <3>1. Newest(is, k) BY <2>1, <2>4, <2>5, ImagesNewest
    <3>2. k.name = i.name /\ k.uses = i.uses BY <2>4 DEF SameInst
    <3>3. PICK l \in is : l.name = k.name /\ l.gen = sv[k.name] BY <2>7, <3>2 DEF ServedInv
    <3>4. l.gen <= k.gen /\ k.gen <= l.gen BY <2>7, <3>1, <3>2, <3>3 DEF Newest, ServedInv
    <3>5. l.gen \in Nat /\ k.gen \in Nat BY DEF GenInv, IsInst
    <3>6. Serves(sv, k) BY <2>7, <3>2, <3>3, <3>4, <3>5 DEF Serves
    <3>7. k \in gone BY <2>1, <2>7, <3>2, <3>6
    <3> QED BY <1>9, <2>3, <3>2, <3>7
  <2> QED BY <2>6, <2>7
<1>10. HandlerInv(RegisterAll(Purge(h, gone), st), sv2, js \cup st) BY <1>8, <1>9 DEF HandlerInv
<1> QED BY <1>3, <1>4, <1>7, <1>10

LEMMA ConfigReloaded ==
    ASSUME NamespaceInv, NEW conf \in ConfigFiles, configReloaded(conf) PROVE NamespaceInv'
<1> DEFINE new == Available(conf, genN + 1)
           loaded == {Loaded(n, conf, new, pluginsN, genN + 1) : n \in DOMAIN conf.namespaces}
           start == toStart(loaded, new)
           names == DOMAIN conf.namespaces
           gone == {i \in instN : i.name \in DOMAIN servedN \ names /\ servedN[i.name] = i.gen}
           stop == gone \cup {i \in instN : \E s \in start : /\ s.name = i.name /\ i.name \in DOMAIN servedN
                                                            /\ servedN[i.name] = i.gen}
           js == stopAll(stop)
<1>1. /\ upN /\ ~loadFails(conf, DOMAIN pluginsN)
      /\ fileN' = conf /\ genN' = genN + 1 /\ pluginsN' = new
      /\ cancelledN' = cancelledN \cup pluginsToStop(new)
      /\ servedN' = [n \in names |-> IF \E s \in start : s.name = n THEN genN + 1 ELSE servedN[n]]
      /\ instN' = js \cup start
      /\ handlersN' = RegisterAll(Purge(handlersN, gone), start)
      /\ upN' = upN
  BY DEF configReloaded
<1>2. genN \in Nat /\ genN + 1 \in Nat BY DEF NamespaceInv, GenInv
<1>3. PluginInv(conf, new, cancelledN \cup pluginsToStop(new), genN + 1) BY <1>1, AvailableIs
<1>4. \A p \in DOMAIN new \cap DOMAIN pluginsN : pluginsN[p].hash = new[p].hash => new[p] = pluginsN[p] BY <1>1, AvailableIs
<1>5. DOMAIN new = DOMAIN conf.plugins BY <1>3 DEF PluginInv
<1> HIDE DEF new
<1>6. ASSUME NEW n \in names, NEW i, i = Loaded(n, conf, new, pluginsN, genN + 1)
      PROVE  /\ IsInst(i) /\ i.name = n /\ i.gen = genN + 1 /\ i.live /\ ConfOf(conf, new, i)
             /\ \A u \in i.uses : \E p \in DOMAIN new : u = new[p]
  BY <1>1, <1>2, <1>5, <1>6, LoadedIs DEF ConfOf
<1>7. \A i \in loaded : /\ IsInst(i) /\ i.name \in names /\ i.gen = genN + 1 /\ i.live /\ ConfOf(conf, new, i)
                        /\ \A u \in i.uses : \E p \in DOMAIN new : u = new[p]
  BY <1>6
<1>8. \A n \in names : \E i \in loaded : i.name = n BY <1>6
<1>9. \A i, j \in loaded : i.name = j.name => i = j BY <1>6
<1> HIDE DEF loaded
<1>10. start \subseteq loaded /\ \A i \in loaded : i \notin start => i.name \in DOMAIN servedN /\ ~changed(i, new) BY DEF toStart
<1> HIDE DEF start
<1>11. Images(instN, js) BY StopImages
<1>12. \A j \in js : j.live => \E i \in instN : SameInst(i, j) /\ i.live /\ i \notin stop BY StopImages
<1> HIDE DEF js
<1>13. ffsystem \notin names BY FilesAssumption
<1>14. ASSUME NEW n \in names, \A i \in start : i.name # n PROVE n \in DOMAIN servedN /\ servedN'[n] = servedN[n]
  <2>1. PICK i \in loaded : i.name = n BY <1>8
  <2> QED BY <1>1, <1>10, <1>14, <2>1
<1>15. ASSUME NEW j \in js, j.live
       PROVE  /\ \A i \in start : i.name # j.name \/ ~Serves(servedN, j)
              /\ j.name \in DOMAIN servedN \ names => ~Serves(servedN, j)
  <2>1. PICK i \in instN : SameInst(i, j) /\ i \notin stop BY <1>12, <1>15
  <2> QED BY <2>1 DEF SameInst, Serves
<1>16. \A i \in instN : i.name \in DOMAIN servedN \ names /\ Serves(servedN, i) => i \in gone BY DEF Serves
<1>17. \A i \in gone : i.name \notin names OBVIOUS
<1> HIDE DEF gone, stop
<1>18. DOMAIN servedN' = names BY <1>1
<1> HIDE DEF names
<1>19. \A i \in start : /\ IsInst(i) /\ i.gen = genN + 1 /\ i.name \in names /\ i.live
                        /\ servedN'[i.name] = genN + 1
  BY <1>1, <1>7, <1>10
<1>20. \A i, j \in start : i.name = j.name => i = j BY <1>9, <1>10
<1>21. Reloaded(instN, js, start, gone, genN, servedN, servedN', names)
  BY <1>11, <1>13, <1>14, <1>15, <1>16, <1>17, <1>18, <1>19, <1>20 DEF Reloaded
<1>22. /\ GenInv(js \cup start, genN + 1) /\ ServedInv(js \cup start, servedN')
       /\ HandlerInv(RegisterAll(Purge(handlersN, gone), start), servedN', js \cup start)
       /\ \A j \in js : Serves(servedN', j) => Serves(servedN, j) /\ \A i \in start : i.name # j.name
  <2>1. GenInv(instN, genN) /\ ServedInv(instN, servedN) /\ HandlerInv(handlersN, servedN, instN) BY DEF NamespaceInv
  <2> QED BY <1>21, <2>1, ReloadKeeps
<1>23. ASSUME NEW j \in js, Serves(servedN', j) PROVE ConfOf(conf, new, j)
  <2>1. j.name \in names BY <1>18, <1>23 DEF Serves
  <2>2. PICK i \in loaded : i.name = j.name BY <1>8, <2>1
  <2>3. i \notin start /\ Serves(servedN, j) BY <1>22, <1>23, <2>2
  <2>4. ~changed(i, new) BY <1>10, <2>3
  <2>5. PICK k \in instN : SameInst(k, j) BY <1>11 DEF Images
  <2>6. k.name = i.name /\ servedN[i.name] = k.gen /\ Serves(servedN, k) BY <2>2, <2>3, <2>5 DEF SameInst, Serves
  <2>7. Of(i.name, servedN[i.name]) = k BY <2>6, OfIs
  <2>8. k.conf.hash = i.conf.hash BY <2>4, <2>7 DEF changed
  <2>9. \A u \in i.uses : u.name \in DOMAIN pluginsN /\ pluginsN[u.name].hash = new[u.name].hash BY <2>4 DEF changed
  <2>10. ConfOf(fileN, pluginsN, k) /\ fileN \in ConfigFiles
    <3>1. k.name # ffsystem BY <1>13, <2>1, <2>2, <2>6
    <3> QED BY <1>1, <2>6, <3>1 DEF NamespaceInv, ConfInv, PluginInv
  <2>11. i.conf = conf.namespaces[i.name] /\ k.conf = fileN.namespaces[i.name] BY <1>7, <2>6, <2>10 DEF ConfOf
  <2>12. i.name \in DOMAIN fileN.namespaces
    <3>1. i.name \in DOMAIN servedN \ {ffsystem} BY <1>13, <2>1, <2>2, <2>3 DEF Serves
    <3> QED BY <1>1, <3>1 DEF NamespaceInv, ConfInv
  <2>13. i.conf = k.conf BY <2>1, <2>2, <2>8, <2>10, <2>11, <2>12, FilesAssumption DEF names
  <2>14. ASSUME ~k.conf.all PROVE k.conf.plugins \subseteq DOMAIN new /\ k.uses = {new[p] : p \in k.conf.plugins}
    <3>1. i.conf.plugins \subseteq DOMAIN new /\ i.uses = {new[p] : p \in i.conf.plugins} BY <1>7, <2>13, <2>14 DEF ConfOf
    <3>2. k.conf.plugins \subseteq DOMAIN pluginsN /\ k.uses = {pluginsN[p] : p \in k.conf.plugins} BY <2>10, <2>14 DEF ConfOf
    <3>3. ASSUME NEW p \in k.conf.plugins PROVE new[p] = pluginsN[p]
      <4>1. p \in DOMAIN new /\ p \in DOMAIN pluginsN /\ new[p] \in i.uses BY <2>13, <3>1, <3>2
      <4>2. new[p].name = p BY <1>3, <4>1 DEF PluginInv
      <4>3. pluginsN[p].hash = new[p].hash BY <2>9, <4>1, <4>2
      <4> QED BY <1>4, <4>1, <4>3
    <3> QED BY <2>13, <3>1, <3>2, <3>3
  <2> QED BY <2>2, <2>5, <2>6, <2>11, <2>13, <2>14 DEF ConfOf, SameInst
<1>24. ConfInv(conf, new, servedN', js \cup start)
  <2>1. \A i \in js \cup start : Serves(servedN', i) => ConfOf(conf, new, i) BY <1>7, <1>10, <1>23
  <2>2. DOMAIN servedN' \ {ffsystem} = DOMAIN conf.namespaces BY <1>13, <1>18 DEF names
  <2> QED BY <2>1, <2>2 DEF ConfInv
<1> QED BY <1>1, <1>3, <1>22, <1>24 DEF NamespaceInv

LEMMA NamespaceInit == (IF part = "namespaces" THEN InitN ELSE DownN) => NamespaceInv
<1>1. ASSUME DownN PROVE NamespaceInv
  BY <1>1 DEF DownN, Empty, NamespaceInv, GenInv, ServedInv, HandlerInv
<1>2. ASSUME InitN PROVE NamespaceInv
  <2>1. PICK conf \in ConfigFiles :
          /\ ~loadFails(conf, DOMAIN conf.plugins)
          /\ upN = TRUE /\ fileN = conf /\ pluginsN = Started(conf, 1).plugins /\ cancelledN = {}
          /\ servedN = [n \in DOMAIN conf.namespaces |-> 1] /\ instN = Started(conf, 1).all
          /\ handlersN = Started(conf, 1).handlers /\ genN = 1
    BY <1>2 DEF InitN
  <2>2. DOMAIN servedN = DOMAIN conf.namespaces /\ \A n \in DOMAIN servedN : servedN[n] = 1 BY <2>1
  <2>3. /\ GenInv(instN, 1) /\ ServedInv(instN, servedN) /\ HandlerInv(handlersN, servedN, instN)
        /\ PluginInv(conf, pluginsN, {}, 1) /\ ConfInv(conf, pluginsN, servedN, instN)
    BY <2>1, <2>2, StartedKeeps
  <2> QED BY <2>1, <2>3 DEF NamespaceInv
<1> QED BY <1>1, <1>2

LEMMA RestartKeeps ==
    ASSUME NamespaceInv, NEW conf \in ConfigFiles, restartN(conf) PROVE NamespaceInv'
<1>1. genN + 1 \in Nat BY DEF NamespaceInv, GenInv
<1>2. /\ ~loadFails(conf, DOMAIN conf.plugins)
      /\ upN' = TRUE /\ fileN' = conf /\ pluginsN' = Started(conf, genN + 1).plugins /\ cancelledN' = {}
      /\ instN' = Started(conf, genN + 1).all /\ handlersN' = Started(conf, genN + 1).handlers /\ genN' = genN + 1
      /\ DOMAIN servedN' = DOMAIN conf.namespaces /\ \A n \in DOMAIN servedN' : servedN'[n] = genN + 1
  BY DEF restartN
<1>3. /\ GenInv(instN', genN + 1) /\ ServedInv(instN', servedN') /\ HandlerInv(handlersN', servedN', instN')
      /\ PluginInv(conf, pluginsN', {}, genN + 1) /\ ConfInv(conf, pluginsN', servedN', instN')
  BY <1>1, <1>2, StartedKeeps
<1> QED BY <1>2, <1>3 DEF NamespaceInv

LEMMA NamespaceKeeps ==
    ASSUME NamespaceInv, NextN \/ UNCHANGED varsN PROVE NamespaceInv'
<1>1. CASE UNCHANGED varsN BY <1>1 DEF varsN, NamespaceInv
<1>2. ASSUME NEW conf \in ConfigFiles, reloadFails(conf) PROVE NamespaceInv'
  <2>1. upN' = FALSE /\ instN' = {} /\ DOMAIN servedN' = {} /\ handlersN' = {} /\ genN' = genN
    BY <1>2 DEF reloadFails, stopTheWorld, Empty
  <2> QED BY <2>1 DEF NamespaceInv, GenInv, ServedInv, HandlerInv
<1>3. ASSUME NEW i \in instN, startFails(i) \/ initNamespace(i) \/ startOrchestrator(i) \/ markStarted(i)
      PROVE  NamespaceInv'
  <2>1. IsInst(i) BY DEF NamespaceInv, GenInv
  <2>2. UNCHANGED <<upN, fileN, pluginsN, cancelledN, servedN, handlersN, genN>>
    BY <1>3 DEF startFails, initNamespace, startOrchestrator, markStarted
  <2>3. PICK j \in {[i EXCEPT !.phase = "v1"], retryStart(i), [i EXCEPT !.phase = "mark", !.running = TRUE],
                    [i EXCEPT !.phase = "ended", !.ready = TRUE]} : Set(i, j)
    BY <1>3 DEF startFails, initNamespace, startOrchestrator, markStarted
  <2>4. IsInst(retryStart(i)) /\ SameInst(i, retryStart(i)) BY <2>1, PhaseIs DEF retryStart
  <2>5. /\ IsInst([i EXCEPT !.phase = "v1"]) /\ SameInst(i, [i EXCEPT !.phase = "v1"])
        /\ IsInst([i EXCEPT !.phase = "mark", !.running = TRUE]) /\ SameInst(i, [i EXCEPT !.phase = "mark", !.running = TRUE])
        /\ IsInst([i EXCEPT !.phase = "ended", !.ready = TRUE]) /\ SameInst(i, [i EXCEPT !.phase = "ended", !.ready = TRUE])
    BY <2>1, PhaseIs
  <2>6. IsInst(j) /\ SameInst(i, j) BY <2>3, <2>4, <2>5
  <2> QED BY <2>2, <2>3, <2>6, SetKeeps
<1>4. CASE NextN
  <2>1. \/ \E conf \in ConfigFiles : configReloaded(conf) \/ reloadFails(conf) \/ restartN(conf)
        \/ \E i \in instN : startFails(i) \/ initNamespace(i) \/ startOrchestrator(i) \/ markStarted(i)
        \/ \E i \in instN : startV1NamespaceIfRequired(i)
    BY <1>4 DEF NextN, StarterStep
  <2> QED BY <1>2, <1>3, <2>1, ConfigReloaded, RestartKeeps, V1Keeps
<1> QED BY <1>1, <1>4

(* Whatever is reloaded, started, stopped or restarted in whatever order,  *)
(* a namespace is served by one orchestrator, with the configuration and   *)
(* the plugins of the file in force, and the plugins call that one.        *)
THEOREM Served == Spec => []NamespacesServed
<1>1. Init => NamespaceInv BY NamespaceInit DEF Init
<1>2. NamespaceInv /\ [Next]_varsNode => NamespaceInv'
  <2> SUFFICES ASSUME NamespaceInv, [Next]_varsNode PROVE NamespaceInv' OBVIOUS
  <2>1. CASE UNCHANGED varsNode
    <3>1. UNCHANGED varsN BY <2>1 DEF varsNode
    <3> QED BY <3>1, NamespaceKeeps
  <2>2. CASE Next
    <3>1. NextN \/ UNCHANGED varsN BY <2>2 DEF Next
    <3> QED BY <3>1, NamespaceKeeps
  <2> QED BY <2>1, <2>2
<1>3. NamespaceInv => NamespacesServed BY NamespaceFacts
<1> QED BY <1>1, <1>2, <1>3, PTL DEF Spec

---------------------------------------------------------------------------
(* Definitions *)

(* A message on the ledger is about a definition of its author and has a   *)
(* network name; a definition that has a row or a message was given its ID.*)
MsgDF == [id : DOMAIN DefsDF, net : NetsDF, loc : {DefsDF[d].loc : d \in DOMAIN DefsDF}]
HowDF == {"no", "confirmed", "conflict", "location"}
TypeDF ==
    /\ sentDF \subseteq MsgDF /\ ledgerDF \in Seq(MsgDF)
    /\ DOMAIN rowsDF = MembersDF /\ DOMAIN doneDF = MembersDF
    /\ \A m \in MembersDF : doneDF[m] \in Seq(HowDF) /\ Len(doneDF[m]) = Len(ledgerDF)
    /\ \A x \in sentDF : x.id \in usedDF
    /\ \A p \in DOMAIN ledgerDF : ledgerDF[p].id \in usedDF

(* A row has no message and is of the member, or was overwritten by an     *)
(* update; or it is what the member confirmed.                             *)
RowOf(m, r) ==
    /\ r.id \in usedDF
    /\ r.msg = 0 => r.net = "" /\ (DefsDF[r.id].author = m \/ r.id \in putDF)
    /\ r.msg # 0 => /\ r.msg \in DOMAIN ledgerDF /\ doneDF[m][r.msg] = "confirmed"
                    /\ r.id = ledgerDF[r.msg].id /\ r.net = ledgerDF[r.msg].net
RowsInvDF ==
    \A m \in MembersDF : /\ \A r \in rowsDF[m] : RowOf(m, r)
                         /\ \A r, s \in rowsDF[m] : r.id = s.id => r = s
KeptDF ==
    \A m \in MembersDF : \A p \in DOMAIN ledgerDF :
        doneDF[m][p] = "confirmed" /\ ledgerDF[p].id \notin putDF => \E r \in rowsDF[m] : r.msg = p

(* The first message with a network name is confirmed, the others are not. *)
FirstDF(p) == \A q \in SameNet(p) : p <= q
DecidedDF ==
    \A m \in MembersDF : \A p \in DOMAIN ledgerDF :
        doneDF[m][p] # "no" /\ ~Excused(p) => doneDF[m][p] = IF FirstDF(p) THEN "confirmed" ELSE "conflict"

(* Messages with one network name are handled in the order of the ledger.  *)
OrderDF ==
    \A m \in MembersDF : \A q \in DOMAIN ledgerDF : \A p \in SameNet(q) :
        p < q /\ doneDF[m][q] # "no" => doneDF[m][p] # "no"

(* A datatype is sent once.                                                *)
OnceDF ==
    kindDF = "datatype" =>
        /\ \A x, y \in sentDF : x.id = y.id => x = y
        /\ \A x \in sentDF : \A p \in DOMAIN ledgerDF : ledgerDF[p].id # x.id
        /\ \A p, q \in DOMAIN ledgerDF : ledgerDF[p].id = ledgerDF[q].id => p = q
        /\ \A m \in MembersDF : \A r \in rowsDF[m] : r.msg # 0
DefinitionInv == TypeDF /\ RowsInvDF /\ KeptDF /\ OrderDF /\ DecidedDF /\ OnceDF

LEMMA NetNamed == ASSUME DefinitionInv, NEW p \in DOMAIN ledgerDF PROVE ledgerDF[p].net # ""
<1>1. ledgerDF[p] \in MsgDF BY DEF DefinitionInv, TypeDF
<1>2. ledgerDF[p].net \in NetsDF BY <1>1 DEF MsgDF
<1> QED BY <1>2, DefinitionsAssumption

LEMMA DefinitionFacts == DefinitionInv => DefinitionsAgreed
<1> SUFFICES ASSUME DefinitionInv PROVE DefinitionsAgreed OBVIOUS
<1>1. DefinitionsAgree BY DEF DefinitionsAgree, DefinitionInv, DecidedDF
<1>2. ConfirmedIsKept
  <2> SUFFICES ASSUME NEW m \in MembersDF, NEW p \in DOMAIN ledgerDF, doneDF[m][p] = "confirmed", ledgerDF[p].id \notin putDF
               PROVE  \E r \in rowsDF[m] : r.msg = p /\ r.net = ledgerDF[p].net /\ r.id = ledgerDF[p].id
    BY DEF ConfirmedIsKept
  <2>1. PICK r \in rowsDF[m] : r.msg = p BY DEF DefinitionInv, KeptDF
  <2>2. RowOf(m, r) BY DEF DefinitionInv, RowsInvDF
  <2>3. p # 0 BY DEF DefinitionInv, TypeDF
  <2> QED BY <2>1, <2>2, <2>3 DEF RowOf
<1> QED BY <1>1, <1>2 DEF DefinitionsAgreed

LEMMA DefinitionInit == InitDF => DefinitionInv
<1> SUFFICES ASSUME InitDF PROVE DefinitionInv OBVIOUS
<1>1. ledgerDF = <<>> /\ DOMAIN ledgerDF = {} /\ Len(ledgerDF) = 0 BY DEF InitDF
<1>2. \A m \in MembersDF : rowsDF[m] = {} /\ doneDF[m] = <<>> BY DEF InitDF
<1>3. TypeDF BY <1>1, <1>2 DEF InitDF, TypeDF
<1> QED BY <1>1, <1>2, <1>3 DEF InitDF, DefinitionInv, RowsInvDF, KeptDF, OrderDF, DecidedDF, OnceDF, SameNet

(* The ledger, what was made of its messages and what was overwritten only *)
(* grow, so that a message once excused stays so.                          *)
GrowsDF ==
    /\ Len(ledgerDF) <= Len(ledgerDF') /\ \A q \in DOMAIN ledgerDF : ledgerDF'[q] = ledgerDF[q]
    /\ putDF \subseteq putDF'
    /\ \A m \in MembersDF : \A q \in DOMAIN ledgerDF : doneDF[m][q] # "no" => doneDF'[m][q] = doneDF[m][q]

LEMMA PlacesDF ==
    ASSUME TypeDF, TypeDF', GrowsDF
    PROVE  /\ DOMAIN ledgerDF \subseteq DOMAIN ledgerDF'
           /\ \A p \in DOMAIN ledgerDF : /\ SameNet(p) \subseteq SameNet(p)' /\ (FirstDF(p) <=> FirstDF(p)')
                                         /\ \A q \in SameNet(p)' : q \in SameNet(p) \/ p <= q
<1>1. /\ DOMAIN ledgerDF = 1..Len(ledgerDF) /\ DOMAIN ledgerDF' = 1..Len(ledgerDF')
      /\ Len(ledgerDF) \in Nat /\ Len(ledgerDF') \in Nat
  BY DEF TypeDF
<1>2. \A q \in DOMAIN ledgerDF' : q \in DOMAIN ledgerDF \/ \A p \in DOMAIN ledgerDF : p <= q
  <2>1. \A k, l \in Nat : \A q \in 1..l : q \in 1..k \/ \A p \in 1..k : p <= q OBVIOUS
  <2> QED BY <1>1, <2>1
<1>3. DOMAIN ledgerDF \subseteq DOMAIN ledgerDF' BY <1>1 DEF GrowsDF
<1>4. ASSUME NEW p \in DOMAIN ledgerDF
      PROVE  /\ SameNet(p) \subseteq SameNet(p)' /\ (FirstDF(p) <=> FirstDF(p)')
             /\ \A q \in SameNet(p)' : q \in SameNet(p) \/ p <= q
  <2>1. SameNet(p) \subseteq SameNet(p)' BY <1>3 DEF SameNet, GrowsDF
  <2>2. \A q \in SameNet(p)' : q \in SameNet(p) \/ p <= q BY <1>2 DEF SameNet, GrowsDF
  <2> QED BY <2>1, <2>2 DEF FirstDF
<1> QED BY <1>3, <1>4

LEMMA ExcusedStays ==
    ASSUME TypeDF, TypeDF', GrowsDF, NEW p \in DOMAIN ledgerDF, Excused(p) PROVE Excused(p)'
<1>1. DOMAIN ledgerDF \subseteq DOMAIN ledgerDF' /\ SameNet(p) \subseteq SameNet(p)' BY PlacesDF
<1>2. \A q \in DOMAIN ledgerDF : ledgerDF'[q] = ledgerDF[q] BY DEF GrowsDF
<1>3. SameNet(p) \subseteq DOMAIN ledgerDF BY DEF SameNet
<1>4. CASE \E q \in DOMAIN ledgerDF \ {p} : ledgerDF[q].id = ledgerDF[p].id BY <1>1, <1>2, <1>4 DEF Excused
<1>5. CASE \E q \in SameNet(p), t \in DOMAIN ledgerDF : q # t /\ ledgerDF[q].id = ledgerDF[t].id
  BY <1>1, <1>2, <1>3, <1>5 DEF Excused
<1>6. CASE \E q \in SameNet(p) : ledgerDF[q].id \in putDF BY <1>1, <1>2, <1>3, <1>6 DEF Excused, GrowsDF
<1>7. CASE \E q \in SameNet(p) : \E m \in MembersDF : doneDF[m][q] = "location"
  <2>1. PICK q \in SameNet(p), m \in MembersDF : doneDF[m][q] = "location" BY <1>7
  <2>2. doneDF'[m][q] = "location" BY <1>3, <2>1 DEF GrowsDF
  <2> QED BY <1>1, <2>1, <2>2 DEF Excused
<1> QED BY <1>4, <1>5, <1>6, <1>7 DEF Excused

(* A step that decides nothing.                                            *)
LEMMA NothingDecided ==
    ASSUME TypeDF, TypeDF', GrowsDF, DecidedDF,
           \A m \in MembersDF : \A p \in DOMAIN ledgerDF' : doneDF'[m][p] # "no" => p \in DOMAIN ledgerDF /\ doneDF[m][p] # "no"
    PROVE  DecidedDF'
<1> SUFFICES ASSUME NEW m \in MembersDF, NEW p \in DOMAIN ledgerDF', doneDF'[m][p] # "no", ~Excused(p)'
             PROVE  doneDF'[m][p] = IF FirstDF(p)' THEN "confirmed" ELSE "conflict"
  BY DEF DecidedDF
<1>1. p \in DOMAIN ledgerDF /\ doneDF[m][p] # "no" OBVIOUS
<1>2. ~Excused(p) /\ (FirstDF(p) <=> FirstDF(p)') /\ doneDF'[m][p] = doneDF[m][p] BY <1>1, ExcusedStays, PlacesDF DEF GrowsDF
<1> QED BY <1>1, <1>2 DEF DecidedDF

(* One row changes.                                                        *)
LEMMA InstallIs ==
    ASSUME TypeDF, NEW m \in MembersDF, NEW row, InstallDF(m, row)
    PROVE  /\ DOMAIN rowsDF' = MembersDF /\ \A k \in MembersDF \ {m} : rowsDF'[k] = rowsDF[k]
           /\ \A r : r \in rowsDF'[m] <=> r = row \/ (r \in rowsDF[m] /\ r.id # row.id)
BY DEF TypeDF, InstallDF

LEMMA RowStays ==
    ASSUME TypeDF, TypeDF', GrowsDF, usedDF \subseteq usedDF', NEW k \in MembersDF, NEW r, RowOf(k, r) PROVE RowOf(k, r)'
<1>1. r.id \in usedDF' BY DEF RowOf
<1>2. r.msg = 0 => r.net = "" /\ (DefsDF[r.id].author = k \/ r.id \in putDF') BY DEF RowOf, GrowsDF
<1>3. ASSUME r.msg # 0
      PROVE  /\ r.msg \in DOMAIN ledgerDF' /\ doneDF'[k][r.msg] = "confirmed"
             /\ r.id = ledgerDF'[r.msg].id /\ r.net = ledgerDF'[r.msg].net
  <2>1. /\ r.msg \in DOMAIN ledgerDF /\ doneDF[k][r.msg] = "confirmed"
        /\ r.id = ledgerDF[r.msg].id /\ r.net = ledgerDF[r.msg].net
    BY <1>3 DEF RowOf
  <2>2. DOMAIN ledgerDF \subseteq DOMAIN ledgerDF' BY PlacesDF
  <2> QED BY <2>1, <2>2 DEF GrowsDF
<1> QED BY <1>1, <1>2, <1>3 DEF RowOf

(* What stays true of rows, and of what they keep, when one row is written *)
(* that is as it should be and takes no confirmed one away.                *)
LEMMA WriteKeeps ==
    ASSUME DefinitionInv, TypeDF', GrowsDF, usedDF \subseteq usedDF', NEW m \in MembersDF, NEW row, InstallDF(m, row),
           RowOf(m, row)', \A r \in rowsDF[m] : r.id = row.id /\ r.msg # 0 => r.id \in putDF',
           \A k \in MembersDF : \A p \in DOMAIN ledgerDF' :
               doneDF'[k][p] = "confirmed" => (p \in DOMAIN ledgerDF /\ doneDF[k][p] = "confirmed") \/ (k = m /\ row.msg = p)
    PROVE  RowsInvDF' /\ KeptDF'
<1>1. /\ DOMAIN rowsDF' = MembersDF /\ \A k \in MembersDF \ {m} : rowsDF'[k] = rowsDF[k]
      /\ \A r : r \in rowsDF'[m] <=> r = row \/ (r \in rowsDF[m] /\ r.id # row.id)
  BY InstallIs DEF DefinitionInv
<1>2. \A k \in MembersDF : \A r : RowOf(k, r) => RowOf(k, r)' BY RowStays DEF DefinitionInv
<1>3. ASSUME NEW k \in MembersDF, NEW r \in rowsDF'[k] PROVE RowOf(k, r)'
  BY <1>1, <1>2, <1>3 DEF DefinitionInv, RowsInvDF
<1>4. ASSUME NEW k \in MembersDF, NEW r \in rowsDF'[k], NEW s \in rowsDF'[k], r.id = s.id PROVE r = s
  BY <1>1, <1>4 DEF DefinitionInv, RowsInvDF
<1>5. ASSUME NEW k \in MembersDF, NEW p \in DOMAIN ledgerDF', doneDF'[k][p] = "confirmed", ledgerDF'[p].id \notin putDF'
      PROVE  \E r \in rowsDF'[k] : r.msg = p
  <2>1. CASE k = m /\ row.msg = p BY <1>1, <2>1
  <2>2. CASE p \in DOMAIN ledgerDF /\ doneDF[k][p] = "confirmed"
    <3>1. ledgerDF[p].id \notin putDF /\ ledgerDF[p].id \notin putDF' /\ p # 0 BY <1>5, <2>2 DEF GrowsDF, DefinitionInv, TypeDF
    <3>2. PICK r \in rowsDF[k] : r.msg = p BY <2>2, <3>1 DEF DefinitionInv, KeptDF
    <3>3. r.id = ledgerDF[p].id BY <3>1, <3>2 DEF DefinitionInv, RowsInvDF, RowOf
    <3>4. r \in rowsDF'[k] BY <1>1, <3>1, <3>2, <3>3
    <3> QED BY <3>2, <3>4
  <2> QED BY <1>5, <2>1, <2>2
<1> QED BY <1>3, <1>4, <1>5 DEF RowsInvDF, KeptDF

LEMMA DropKeeps ==
    ASSUME DefinitionInv, TypeDF', GrowsDF, usedDF \subseteq usedDF',
           \A k \in MembersDF : rowsDF'[k] \subseteq rowsDF[k] /\ \A r \in rowsDF[k] : r \notin rowsDF'[k] => r.msg = 0,
           \A k \in MembersDF : \A p \in DOMAIN ledgerDF' :
               doneDF'[k][p] = "confirmed" => p \in DOMAIN ledgerDF /\ doneDF[k][p] = "confirmed"
    PROVE  RowsInvDF' /\ KeptDF'
<1>1. \A k \in MembersDF : \A r : RowOf(k, r) => RowOf(k, r)' BY RowStays DEF DefinitionInv
<1>2. RowsInvDF' BY <1>1 DEF DefinitionInv, RowsInvDF
<1>3. ASSUME NEW k \in MembersDF, NEW p \in DOMAIN ledgerDF', doneDF'[k][p] = "confirmed", ledgerDF'[p].id \notin putDF'
      PROVE  \E r \in rowsDF'[k] : r.msg = p
  <2>1. p \in DOMAIN ledgerDF /\ doneDF[k][p] = "confirmed" BY <1>3
  <2>2. ledgerDF[p].id \notin putDF /\ p # 0 BY <1>3, <2>1 DEF GrowsDF, DefinitionInv, TypeDF
  <2>3. PICK r \in rowsDF[k] : r.msg = p BY <2>1, <2>2 DEF DefinitionInv, KeptDF
  <2> QED BY <2>2, <2>3
<1> QED BY <1>2, <1>3 DEF KeptDF

(* What a handler makes of a message: the row it writes is the message's,  *)
(* and takes no published one away; the first with a network name is       *)
(* confirmed.                                                              *)
Handles(m, p, res) ==
    /\ p \in DOMAIN ledgerDF /\ doneDF[m][p] = "no" /\ InTopicOrder(m, p)
    /\ res \in IF kindDF = "datatype" THEN firstDatatype(m, p) ELSE persistDefinition(m, p)
WrittenBy(m, p, row) ==
    /\ row.id = ledgerDF[p].id /\ row.net = ledgerDF[p].net /\ row.msg = p
    /\ \A r \in rowsDF[m] : r.id = row.id => r.msg = 0

(* A row of the same definition that is published is of another message.   *)
LEMMA OtherMessage ==
    ASSUME DefinitionInv, NEW m \in MembersDF, NEW p \in DOMAIN ledgerDF, doneDF[m][p] = "no",
           NEW r \in rowsDF[m], r.id = ledgerDF[p].id, r.msg # 0
    PROVE  Excused(p) /\ r.msg # p /\ kindDF # "datatype"
<1>1. RowOf(m, r) BY DEF DefinitionInv, RowsInvDF
<1>2. r.msg \in DOMAIN ledgerDF /\ doneDF[m][r.msg] = "confirmed" /\ ledgerDF[r.msg].id = ledgerDF[p].id BY <1>1 DEF RowOf
<1>3. r.msg # p BY <1>2
<1>4. Excused(p) BY <1>2, <1>3 DEF Excused
<1> QED BY <1>2, <1>3, <1>4 DEF DefinitionInv, OnceDF

(* Of InsertOrGet: for some name that is tried, a row in the way or none.  *)
LEMMA NameTried ==
    ASSUME DefinitionInv, NEW m \in MembersDF, NEW p, NEW res, Handles(m, p, res), kindDF # "datatype"
    PROVE  \E name, row :
             /\ row = RowDF(ledgerDF[p].id, name, ledgerDF[p].net, p)
             /\ \/ res.how = "location" /\ res.rows = {}
                \/ res.how = "confirmed" /\ res.rows = {row} /\ ClashesDF(m, row) = {}
                \/ \E r \in ClashesDF(m, row) :
                      \/ r.id = row.id /\ res \in reconcilePublished(m, p, r)
                      \/ r.id # row.id /\ r.name # row.name /\ res.how = "conflict" /\ res.rows = {}
<1>1. res \in persistDefinition(m, p) BY DEF Handles
<1>2. PICK i : res \in attemptName(m, p, i) BY <1>1 DEF persistDefinition
<1> DEFINE row == NamedDF(p, i)
<1>3. row = RowDF(ledgerDF[p].id, <<ledgerDF[p].net, i>>, ledgerDF[p].net, p) BY DEF NamedDF
<1>4. row.id = ledgerDF[p].id BY <1>3 DEF RowDF
<1> HIDE DEF row
<1>5. CASE WrongLocation(m, row.name, row.loc)
  <2>1. res = Result("location", {}) BY <1>2, <1>5 DEF attemptName, row
  <2> QED BY <1>3, <2>1 DEF Result
<1>6. CASE ~WrongLocation(m, row.name, row.loc) /\ ClashesDF(m, row) = {}
  <2>1. res = Result("confirmed", {row}) BY <1>2, <1>6 DEF attemptName, row
  <2> QED BY <1>3, <1>6, <2>1 DEF Result
<1>7. CASE ~WrongLocation(m, row.name, row.loc) /\ ClashesDF(m, row) # {}
  <2>1. PICK r \in ClashesDF(m, row) :
          res \in IF r.id = row.id THEN reconcilePublished(m, p, r)
                  ELSE IF r.name = row.name THEN {} ELSE {Result("conflict", {})}
    BY <1>2, <1>7 DEF attemptName, row
  <2>2. CASE r.id = row.id BY <1>3, <2>1, <2>2
  <2>3. CASE r.id # row.id
    <3>1. r.name # row.name /\ res = Result("conflict", {}) BY <2>1, <2>3
    <3>2. res.how = "conflict" /\ res.rows = {} BY <3>1 DEF Result
    <3> QED BY <1>3, <2>3, <3>1, <3>2
  <2> QED BY <2>2, <2>3
<1> QED BY <1>5, <1>6, <1>7

(* A row of the same definition: confirmed if it is the member's own and   *)
(* nothing else has the network name.                                      *)
LEMMA ReconcileIs ==
    ASSUME DefinitionInv, NEW m \in MembersDF, NEW p \in DOMAIN ledgerDF, doneDF[m][p] = "no",
           NEW r \in rowsDF[m], r.id = ledgerDF[p].id, NEW res \in reconcilePublished(m, p, r)
    PROVE  \/ /\ res.how = "confirmed" /\ r.msg = 0
              /\ \E row : /\ res.rows = {row} /\ WrittenBy(m, p, row)
                          /\ \A s \in rowsDF[m] : s.net = ledgerDF[p].net => s.id = ledgerDF[p].id
           \/ res.how = "conflict" /\ res.rows = {} /\ Excused(p)
<1>1. RowOf(m, r) BY DEF DefinitionInv, RowsInvDF
<1>2. r.msg # p BY OtherMessage DEF DefinitionInv, TypeDF
<1>3. CASE r.msg = 0 /\ DefsDF[r.id].author = m
  <2> DEFINE row == [NamedDF(p, 0) EXCEPT !.name = r.name]
  <2>1. UpsertFits(m, row) /\ res = Result("confirmed", {row}) BY <1>2, <1>3 DEF reconcilePublished
  <2>2. row.id = ledgerDF[p].id /\ row.net = ledgerDF[p].net /\ row.msg = p BY DEF NamedDF, RowDF
  <2> HIDE DEF row
  <2>3. \A s \in rowsDF[m] : s.id = row.id => s.msg = 0 BY <1>3, <2>2 DEF DefinitionInv, RowsInvDF
  <2>4. ledgerDF[p].net # "" BY NetNamed
  <2>5. \A s \in rowsDF[m] : s.net = ledgerDF[p].net => s.id = ledgerDF[p].id BY <2>1, <2>2, <2>4 DEF UpsertFits, ClashesDF
  <2> QED BY <1>3, <2>1, <2>2, <2>3, <2>5 DEF Result, WrittenBy
<1>4. CASE ~(r.msg = 0 /\ DefsDF[r.id].author = m)
  <2>1. res = Result("conflict", {}) BY <1>2, <1>4 DEF reconcilePublished
  <2>2. CASE r.msg # 0 BY <2>1, <2>2, OtherMessage DEF Result
  <2>3. CASE r.msg = 0
    <3>1. ledgerDF[p].id \in putDF BY <1>1, <1>4, <2>3 DEF RowOf
    <3>2. p \in SameNet(p) BY DEF SameNet
    <3> QED BY <2>1, <3>1, <3>2 DEF Result, Excused
  <2> QED BY <2>2, <2>3
<1> QED BY <1>3, <1>4

(* Who is excused depends on the network name alone.                       *)
LEMMA ExcusedSame ==
    ASSUME NEW p \in DOMAIN ledgerDF, NEW q \in SameNet(p), ~Excused(p)
    PROVE  /\ ~Excused(q) /\ SameNet(q) = SameNet(p) /\ ledgerDF[q].id \notin putDF
           /\ q # p => ledgerDF[q].id # ledgerDF[p].id
<1>1. SameNet(q) = SameNet(p) /\ q \in DOMAIN ledgerDF /\ p \in SameNet(p) BY DEF SameNet
<1>2. ~\E t \in DOMAIN ledgerDF \ {q} : ledgerDF[t].id = ledgerDF[q].id BY DEF Excused
<1> QED BY <1>1, <1>2 DEF Excused

(* The first message finds no row with its network name, another one the   *)
(* row of the first.                                                       *)
LEMMA FirstFinds ==
    ASSUME DefinitionInv, NEW m \in MembersDF, NEW p \in DOMAIN ledgerDF, doneDF[m][p] = "no", InTopicOrder(m, p), ~Excused(p)
    PROVE  /\ FirstDF(p) => \A r \in rowsDF[m] : r.net # ledgerDF[p].net
           /\ ~FirstDF(p) => \E r \in rowsDF[m] : r.net = ledgerDF[p].net /\ r.id # ledgerDF[p].id
<1>0. ledgerDF[p].net # "" BY NetNamed
<1>1. DOMAIN ledgerDF \subseteq Nat /\ 0 \notin DOMAIN ledgerDF BY DEF DefinitionInv, TypeDF
<1>2. ASSUME FirstDF(p), NEW r \in rowsDF[m], r.net = ledgerDF[p].net PROVE FALSE
  <2>1. RowOf(m, r) BY DEF DefinitionInv, RowsInvDF
  <2>2. r.msg \in DOMAIN ledgerDF /\ doneDF[m][r.msg] = "confirmed" /\ ledgerDF[r.msg].net = ledgerDF[p].net
    BY <1>0, <1>2, <2>1 DEF RowOf
  <2>3. r.msg \in SameNet(p) /\ p \in SameNet(r.msg) BY <2>2 DEF SameNet
  <2>4. r.msg # p /\ p <= r.msg BY <1>2, <2>2, <2>3 DEF FirstDF
  <2>5. p < r.msg BY <1>1, <2>2, <2>4
  <2> QED BY <2>2, <2>3, <2>5 DEF DefinitionInv, OrderDF
<1>3. ASSUME ~FirstDF(p) PROVE \E r \in rowsDF[m] : r.net = ledgerDF[p].net /\ r.id # ledgerDF[p].id
  <2>1. p \in SameNet(p) /\ SameNet(p) \subseteq Nat BY <1>1 DEF SameNet
  <2>2. PICK q \in SameNet(p) : \A k \in SameNet(p) : ~(k < q)
    <3>1. IsWellFoundedOn(OpToRel(<, Nat), Nat) BY NatLessThanWellFounded
    <3>2. PICK q \in SameNet(p) : \A k \in SameNet(p) : ~(<<k, q>> \in OpToRel(<, Nat)) BY <2>1, <3>1, WFMin
    <3>3. \A k \in SameNet(p) : k < q => <<k, q>> \in OpToRel(<, Nat) BY <2>1 DEF OpToRel
    <3> QED BY <3>2, <3>3
  <2>3. \A k \in SameNet(p) : q <= k BY <2>1, <2>2
  <2>4. ~Excused(q) /\ SameNet(q) = SameNet(p) /\ ledgerDF[q].id \notin putDF BY ExcusedSame
  <2>5. FirstDF(q) /\ q # p BY <1>3, <2>3, <2>4 DEF FirstDF
  <2>6. q \in 1..(p - 1) /\ q \in DOMAIN ledgerDF /\ ledgerDF[q].net = ledgerDF[p].net /\ ledgerDF[q].id # ledgerDF[p].id
    <3>1. q <= p /\ q # p /\ q \in Nat /\ p \in Nat BY <2>1, <2>3, <2>5
    <3>2. q \in DOMAIN ledgerDF /\ ledgerDF[q].net = ledgerDF[p].net BY DEF SameNet
    <3>3. q # 0 BY <1>1, <3>2
    <3> QED BY <2>5, <3>1, <3>2, <3>3, ExcusedSame
  <2>7. doneDF[m][q] # "no" BY <2>6 DEF InTopicOrder
  <2>8. doneDF[m][q] = "confirmed" BY <2>4, <2>5, <2>6, <2>7 DEF DefinitionInv, DecidedDF
  <2>9. PICK r \in rowsDF[m] : r.msg = q BY <2>4, <2>6, <2>8 DEF DefinitionInv, KeptDF
  <2>10. RowOf(m, r) /\ r.msg # 0 BY <1>1, <2>6, <2>9 DEF DefinitionInv, RowsInvDF
  <2>11. r.net = ledgerDF[q].net /\ r.id = ledgerDF[q].id BY <2>9, <2>10 DEF RowOf
  <2> QED BY <2>6, <2>11
<1> QED BY <1>2, <1>3

LEMMA HandledIs ==
    ASSUME DefinitionInv, NEW m \in MembersDF, NEW p, NEW res, Handles(m, p, res)
    PROVE  /\ res.how \in {"confirmed", "conflict", "location"}
           /\ \A row \in res.rows : WrittenBy(m, p, row)
           /\ res.how = "confirmed" <=> res.rows # {}
           /\ ~Excused(p) /\ res.how # "location" => res.how = IF FirstDF(p) THEN "confirmed" ELSE "conflict"
<1>1. p \in DOMAIN ledgerDF /\ doneDF[m][p] = "no" /\ InTopicOrder(m, p) BY DEF Handles
<1>2. ledgerDF[p].net # "" BY <1>1, NetNamed
<1>3. CASE kindDF = "datatype"
  <2>1. res \in firstDatatype(m, p) BY <1>3 DEF Handles
  <2>2. CASE \E r \in rowsDF[m] : r.net = ledgerDF[p].net
    <3>1. res.how = "conflict" /\ res.rows = {} BY <2>1, <2>2 DEF firstDatatype, Result
    <3>2. ~Excused(p) => ~FirstDF(p) BY <1>1, <2>2, FirstFinds
    <3> QED BY <3>1, <3>2
  <2>3. CASE ~\E r \in rowsDF[m] : r.net = ledgerDF[p].net
    <3>1. res.how = "confirmed" /\ res.rows = {NamedDF(p, 0)} BY <2>1, <2>3 DEF firstDatatype, Result
    <3>2. ~Excused(p) => FirstDF(p) BY <1>1, <2>3, FirstFinds
    <3>3. NamedDF(p, 0).id = ledgerDF[p].id /\ NamedDF(p, 0).net = ledgerDF[p].net /\ NamedDF(p, 0).msg = p BY DEF NamedDF, RowDF
    <3>4. \A r \in rowsDF[m] : r.id = ledgerDF[p].id => r.msg = 0 BY <1>1, <1>3, OtherMessage
    <3>5. WrittenBy(m, p, NamedDF(p, 0)) BY <3>3, <3>4 DEF WrittenBy
    <3> QED BY <3>1, <3>2, <3>5
  <2> QED BY <2>2, <2>3
<1>4. CASE kindDF # "datatype"
  <2>1. PICK name, row :
             /\ row = RowDF(ledgerDF[p].id, name, ledgerDF[p].net, p)
             /\ \/ res.how = "location" /\ res.rows = {}
                \/ res.how = "confirmed" /\ res.rows = {row} /\ ClashesDF(m, row) = {}
                \/ \E r \in ClashesDF(m, row) :
                      \/ r.id = row.id /\ res \in reconcilePublished(m, p, r)
                      \/ r.id # row.id /\ r.name # row.name /\ res.how = "conflict" /\ res.rows = {}
    BY <1>4, NameTried
  <2>2. row.id = ledgerDF[p].id /\ row.net = ledgerDF[p].net /\ row.msg = p BY <2>1 DEF RowDF
  <2>3. CASE res.how = "location" /\ res.rows = {} BY <2>3
  <2>4. CASE res.how = "confirmed" /\ res.rows = {row} /\ ClashesDF(m, row) = {}
    <3>1. \A r \in rowsDF[m] : r.id # row.id /\ r.net # row.net BY <1>2, <2>2, <2>4 DEF ClashesDF
    <3>2. WrittenBy(m, p, row) BY <2>2, <3>1 DEF WrittenBy
    <3>3. ~Excused(p) => FirstDF(p) BY <1>1, <2>2, <3>1, FirstFinds
    <3> QED BY <2>4, <3>2, <3>3
  <2>5. ASSUME NEW r \in ClashesDF(m, row), r.id = row.id, res \in reconcilePublished(m, p, r)
        PROVE  /\ res.how \in {"confirmed", "conflict"} /\ \A s \in res.rows : WrittenBy(m, p, s)
               /\ res.how = "confirmed" <=> res.rows # {}
               /\ ~Excused(p) => res.how = IF FirstDF(p) THEN "confirmed" ELSE "conflict"
    <3>1. r \in rowsDF[m] /\ r.id = ledgerDF[p].id BY <2>2, <2>5 DEF ClashesDF
    <3>2. \/ /\ res.how = "confirmed" /\ r.msg = 0
             /\ \E s : /\ res.rows = {s} /\ WrittenBy(m, p, s)
                       /\ \A t \in rowsDF[m] : t.net = ledgerDF[p].net => t.id = ledgerDF[p].id
          \/ res.how = "conflict" /\ res.rows = {} /\ Excused(p)
      BY <1>1, <2>5, <3>1, ReconcileIs
    <3>3. (\A t \in rowsDF[m] : t.net = ledgerDF[p].net => t.id = ledgerDF[p].id) /\ ~Excused(p) => FirstDF(p) BY <1>1, FirstFinds
    <3> QED BY <3>2, <3>3
  <2>6. ASSUME NEW r \in ClashesDF(m, row), r.id # row.id, r.name # row.name PROVE ~Excused(p) => ~FirstDF(p)
    <3>1. r \in rowsDF[m] /\ r.net = ledgerDF[p].net BY <2>2, <2>6 DEF ClashesDF
    <3> QED BY <1>1, <3>1, FirstFinds
  <2> QED BY <2>1, <2>3, <2>4, <2>5, <2>6
<1> QED BY <1>3, <1>4

LEMMA HandleKeeps ==
    ASSUME DefinitionInv, NEW m \in MembersDF, NEW p \in DOMAIN ledgerDF, handleDefinition(m, p) PROVE DefinitionInv'
<1>1. PICK res : /\ Handles(m, p, res)
                 /\ doneDF' = [doneDF EXCEPT ![m][p] = res.how]
                 /\ IF res.rows = {} THEN UNCHANGED rowsDF ELSE \E row \in res.rows : InstallDF(m, row)
  BY DEF handleDefinition, Handles
<1>2. UNCHANGED <<kindDF, usedDF, sentDF, ledgerDF, putDF>> BY DEF handleDefinition
<1>3. /\ res.how \in {"confirmed", "conflict", "location"}
      /\ \A row \in res.rows : WrittenBy(m, p, row)
      /\ res.how = "confirmed" <=> res.rows # {}
      /\ ~Excused(p) /\ res.how # "location" => res.how = IF FirstDF(p) THEN "confirmed" ELSE "conflict"
  BY <1>1, HandledIs
<1>4. doneDF[m][p] = "no" /\ InTopicOrder(m, p) BY <1>1 DEF Handles
<1>5. TypeDF BY DEF DefinitionInv
<1>6. DOMAIN ledgerDF = 1..Len(ledgerDF) /\ Len(ledgerDF) \in Nat /\ p \in Nat /\ p # 0 BY <1>5 DEF TypeDF
<1>7. /\ DOMAIN doneDF' = MembersDF /\ \A k \in MembersDF \ {m} : doneDF'[k] = doneDF[k]
      /\ doneDF'[m] = [doneDF[m] EXCEPT ![p] = res.how]
  BY <1>1, <1>5 DEF TypeDF
<1>8. doneDF[m] \in Seq(HowDF) /\ Len(doneDF[m]) = Len(ledgerDF) /\ DOMAIN doneDF[m] = DOMAIN ledgerDF BY <1>5 DEF TypeDF
<1>9. doneDF'[m] \in Seq(HowDF) /\ Len(doneDF'[m]) = Len(doneDF[m])
  <2>1. res.how \in HowDF BY <1>3 DEF HowDF
  <2>2. p \in 1..Len(doneDF[m]) BY <1>6, <1>8
  <2> QED BY <1>7, <1>8, <2>1, <2>2, ExceptSeq
<1>10. doneDF'[m][p] = res.how /\ \A q \in DOMAIN ledgerDF : q # p => doneDF'[m][q] = doneDF[m][q] BY <1>7, <1>8
<1>11. DOMAIN rowsDF' = MembersDF
  <2>1. CASE res.rows = {} BY <1>1, <1>5, <2>1 DEF TypeDF
  <2>2. CASE res.rows # {} BY <1>1, <1>5, <2>2, InstallIs
  <2> QED BY <2>1, <2>2
<1>12. TypeDF'
  <2>1. \A k \in MembersDF : doneDF'[k] \in Seq(HowDF) /\ Len(doneDF'[k]) = Len(ledgerDF) BY <1>5, <1>7, <1>8, <1>9 DEF TypeDF
  <2> QED BY <1>2, <1>5, <1>7, <1>11, <2>1 DEF TypeDF
<1>13. GrowsDF
  <2>1. \A k \in MembersDF : \A q \in DOMAIN ledgerDF : doneDF[k][q] # "no" => doneDF'[k][q] = doneDF[k][q] BY <1>4, <1>7, <1>10
  <2> QED BY <1>2, <1>6, <2>1 DEF GrowsDF
<1>14. \A k \in MembersDF : \A q \in DOMAIN ledgerDF : (k = m /\ q = p) \/ doneDF'[k][q] = doneDF[k][q] BY <1>7, <1>10
<1>15. RowsInvDF' /\ KeptDF'
  <2>1. CASE res.rows = {}
    <3>1. rowsDF' = rowsDF /\ res.how # "confirmed" BY <1>1, <1>3, <2>1
    <3>2. \A k \in MembersDF : \A q \in DOMAIN ledgerDF' : doneDF'[k][q] = "confirmed" => q \in DOMAIN ledgerDF /\ doneDF[k][q] = "confirmed"
      BY <1>2, <1>10, <1>14, <3>1
    <3> QED BY <1>2, <1>12, <1>13, <3>1, <3>2, DropKeeps
  <2>2. CASE res.rows # {}
    <3>1. PICK row \in res.rows : InstallDF(m, row) BY <1>1, <2>2
    <3>2. res.how = "confirmed" /\ WrittenBy(m, p, row) BY <1>3, <2>2
    <3>3. RowOf(m, row)' BY <1>2, <1>5, <1>6, <1>10, <3>2 DEF RowOf, WrittenBy, TypeDF
    <3>4. \A r \in rowsDF[m] : r.id = row.id /\ r.msg # 0 => r.id \in putDF' BY <3>2 DEF WrittenBy
    <3>5. \A k \in MembersDF : \A q \in DOMAIN ledgerDF' :
            doneDF'[k][q] = "confirmed" => (q \in DOMAIN ledgerDF /\ doneDF[k][q] = "confirmed") \/ (k = m /\ row.msg = q)
      BY <1>2, <1>14, <3>2 DEF WrittenBy
    <3> QED BY <1>2, <1>12, <1>13, <3>1, <3>3, <3>4, <3>5, WriteKeeps
  <2> QED BY <2>1, <2>2
<1>16. OrderDF'
  <2> SUFFICES ASSUME NEW k \in MembersDF, NEW q \in DOMAIN ledgerDF, NEW r \in SameNet(q), r < q, doneDF'[k][q] # "no"
               PROVE  doneDF'[k][r] # "no"
    BY <1>2 DEF OrderDF, SameNet
  <2>1. r \in DOMAIN ledgerDF /\ ledgerDF[r].net = ledgerDF[q].net BY DEF SameNet
  <2>2. doneDF[k][r] # "no" => doneDF'[k][r] # "no" BY <1>13, <2>1 DEF GrowsDF
  <2>3. CASE k = m /\ q = p
    <3>1. r \in 1..(p - 1)
      <4>1. \A a, n \in Nat : \A b \in 1..n : b < a => b \in 1..(a - 1) OBVIOUS
      <4> QED BY <1>6, <2>1, <2>3, <4>1
    <3> QED BY <1>4, <2>1, <2>2, <2>3, <3>1 DEF InTopicOrder
  <2>4. CASE doneDF'[k][q] = doneDF[k][q] BY <2>2, <2>4 DEF DefinitionInv, OrderDF
  <2> QED BY <1>14, <2>3, <2>4
<1>17. DecidedDF'
  <2> SUFFICES ASSUME NEW k \in MembersDF, NEW q \in DOMAIN ledgerDF, doneDF'[k][q] # "no", ~Excused(q)'
               PROVE  doneDF'[k][q] = IF FirstDF(q)' THEN "confirmed" ELSE "conflict"
    BY <1>2 DEF DecidedDF
  <2>1. ~Excused(q) /\ (FirstDF(q) <=> FirstDF(q)') BY <1>5, <1>12, <1>13, ExcusedStays, PlacesDF
  <2>2. CASE doneDF'[k][q] = doneDF[k][q] BY <2>1, <2>2 DEF DefinitionInv, DecidedDF
  <2>3. CASE k = m /\ q = p
    <3>1. p \in SameNet(p)' BY <1>2 DEF SameNet
    <3>2. res.how # "location" BY <1>10, <2>3, <3>1 DEF Excused
    <3> QED BY <1>3, <1>10, <2>1, <2>3, <3>2
  <2> QED BY <1>14, <2>2, <2>3
<1>18. OnceDF'
  <2>1. ASSUME kindDF = "datatype", NEW k \in MembersDF, NEW r \in rowsDF'[k] PROVE r.msg # 0
    <3>1. r \in rowsDF[k] \/ r \in res.rows
      <4>1. CASE res.rows = {} BY <1>1, <4>1
      <4>2. CASE res.rows # {} BY <1>1, <1>5, <4>2, InstallIs
      <4> QED BY <4>1, <4>2
    <3> QED BY <1>3, <1>6, <2>1, <3>1 DEF DefinitionInv, OnceDF, WrittenBy
  <2> QED BY <1>2, <2>1 DEF DefinitionInv, OnceDF
<1> QED BY <1>12, <1>15, <1>16, <1>17, <1>18 DEF DefinitionInv

(* What a member does on its own.                                          *)
LEMMA LocalDF ==
    ASSUME DefinitionInv, UNCHANGED <<kindDF, ledgerDF, doneDF>>, TypeDF', putDF \subseteq putDF'
    PROVE  /\ GrowsDF /\ OrderDF' /\ DecidedDF'
           /\ \A k \in MembersDF : \A q \in DOMAIN ledgerDF' :
                 doneDF'[k][q] = "confirmed" => q \in DOMAIN ledgerDF /\ doneDF[k][q] = "confirmed"
<1>1. Len(ledgerDF) \in Nat BY DEF DefinitionInv, TypeDF
<1>2. GrowsDF BY <1>1 DEF GrowsDF
<1>3. OrderDF' BY DEF DefinitionInv, OrderDF, SameNet
<1>4. DecidedDF' BY <1>2, NothingDecided DEF DefinitionInv
<1> QED BY <1>2, <1>3, <1>4

LEMMA WriteLocal ==
    ASSUME DefinitionInv, NEW m \in MembersDF, NEW d \in DOMAIN DefsDF,
           defineLocally(m, d) \/ updateAPI(m, d)
    PROVE  DefinitionInv'
<1>1. PICK name : InstallDF(m, RowDF(d, name, "", 0)) BY DEF defineLocally, updateAPI
<1> DEFINE row == RowDF(d, name, "", 0)
<1>2. row.id = d /\ row.net = "" /\ row.msg = 0 BY DEF RowDF
<1>3. InstallDF(m, row) BY <1>1
<1> HIDE DEF row
<1>4. UNCHANGED <<kindDF, sentDF, ledgerDF, doneDF>> /\ kindDF # "datatype" BY DEF defineLocally, updateAPI
<1>5. usedDF \subseteq usedDF' /\ putDF \subseteq putDF' BY DEF defineLocally, updateAPI
<1>6. DOMAIN rowsDF' = MembersDF BY <1>3, InstallIs DEF DefinitionInv
<1>7. TypeDF' BY <1>4, <1>5, <1>6 DEF DefinitionInv, TypeDF
<1>8. /\ GrowsDF /\ OrderDF' /\ DecidedDF'
      /\ \A k \in MembersDF : \A q \in DOMAIN ledgerDF' :
            doneDF'[k][q] = "confirmed" => q \in DOMAIN ledgerDF /\ doneDF[k][q] = "confirmed"
  BY <1>4, <1>5, <1>7, LocalDF
<1>9. d \in usedDF' /\ (DefsDF[d].author = m \/ d \in putDF') /\ \A r \in rowsDF[m] : r.id = d /\ r.msg # 0 => r.id \in putDF'
  <2>1. CASE defineLocally(m, d)
    <3>1. d \notin usedDF /\ d \in usedDF' /\ DefsDF[d].author = m BY <2>1 DEF defineLocally
    <3> QED BY <3>1 DEF DefinitionInv, RowsInvDF, RowOf
  <2>2. CASE updateAPI(m, d)
    <3>1. PICK r \in rowsDF[m] : r.id = d /\ putDF' = IF r.msg # 0 THEN putDF \cup {d} ELSE putDF BY <2>2 DEF updateAPI, RowsWith
    <3>2. RowOf(m, r) /\ \A s \in rowsDF[m] : s.id = d => s = r BY <3>1 DEF DefinitionInv, RowsInvDF
    <3> QED BY <1>5, <3>1, <3>2 DEF RowOf
  <2> QED BY <2>1, <2>2
<1>10. RowOf(m, row)' BY <1>2, <1>9 DEF RowOf
<1>11. RowsInvDF' /\ KeptDF' BY <1>2, <1>3, <1>5, <1>7, <1>8, <1>9, <1>10, WriteKeeps
<1>12. OnceDF' BY <1>4 DEF OnceDF
<1> QED BY <1>7, <1>8, <1>11, <1>12 DEF DefinitionInv

LEMMA DeleteKeeps ==
    ASSUME DefinitionInv, NEW m \in MembersDF, NEW d \in DOMAIN DefsDF, deleteDefinition(m, d) PROVE DefinitionInv'
<1>1. UNCHANGED <<kindDF, usedDF, sentDF, ledgerDF, doneDF, putDF>> BY DEF deleteDefinition
<1>2. /\ DOMAIN rowsDF' = MembersDF /\ \A k \in MembersDF : rowsDF'[k] \subseteq rowsDF[k]
      /\ \A k \in MembersDF : \A r \in rowsDF[k] : r \notin rowsDF'[k] => k = m /\ r.id = d
  BY DEF deleteDefinition, DefinitionInv, TypeDF, RowsWith
<1>3. \A r \in rowsDF[m] : r.id = d => r.msg = 0 BY DEF deleteDefinition, RowsWith, DefinitionInv, RowsInvDF
<1>4. TypeDF' BY <1>1, <1>2 DEF DefinitionInv, TypeDF
<1>5. /\ GrowsDF /\ OrderDF' /\ DecidedDF'
      /\ \A k \in MembersDF : \A q \in DOMAIN ledgerDF' :
            doneDF'[k][q] = "confirmed" => q \in DOMAIN ledgerDF /\ doneDF[k][q] = "confirmed"
  BY <1>1, <1>4, LocalDF
<1>6. RowsInvDF' /\ KeptDF' BY <1>1, <1>2, <1>3, <1>4, <1>5, DropKeeps
<1>7. OnceDF' BY <1>1, <1>2 DEF DefinitionInv, OnceDF
<1> QED BY <1>4, <1>5, <1>6, <1>7 DEF DefinitionInv

LEMMA SendKeeps ==
    ASSUME DefinitionInv, NEW m \in MembersDF, NEW d \in DOMAIN DefsDF, NEW n \in NetsDF,
           definePublished(m, d, n) \/ publishDefinition(m, d, n)
    PROVE  DefinitionInv'
<1> DEFINE x == [id |-> d, net |-> n, loc |-> DefsDF[d].loc]
<1>1. sentDF' = sentDF \cup {x} /\ usedDF' = usedDF \cup {d} /\ UNCHANGED <<kindDF, rowsDF, ledgerDF, doneDF, putDF>>
  BY DEF definePublished, publishDefinition, sendsDefinition
<1>2. x \in MsgDF /\ x.id = d BY DEF MsgDF
<1> HIDE DEF x
<1>3. TypeDF' BY <1>1, <1>2 DEF DefinitionInv, TypeDF
<1>4. /\ GrowsDF /\ OrderDF' /\ DecidedDF'
      /\ \A k \in MembersDF : \A q \in DOMAIN ledgerDF' :
            doneDF'[k][q] = "confirmed" => q \in DOMAIN ledgerDF /\ doneDF[k][q] = "confirmed"
  BY <1>1, <1>3, LocalDF
<1>5. RowsInvDF' /\ KeptDF' BY <1>1, <1>3, <1>4, DropKeeps
<1>6. kindDF = "datatype" => d \notin usedDF
  BY DEF definePublished, publishDefinition, RowsWith, DefinitionInv, OnceDF
<1>7. OnceDF' BY <1>1, <1>2, <1>6 DEF DefinitionInv, TypeDF, OnceDF
<1> QED BY <1>3, <1>4, <1>5, <1>7 DEF DefinitionInv

LEMMA PinKeeps ==
    ASSUME DefinitionInv, NEW x \in sentDF, pinDefinition(x) PROVE DefinitionInv'
<1> DEFINE l == Len(ledgerDF)
<1>1. /\ sentDF' = sentDF \ {x} /\ ledgerDF' = Append(ledgerDF, x)
      /\ \A m \in MembersDF : doneDF'[m] = Append(doneDF[m], "no")
      /\ DOMAIN doneDF' = MembersDF /\ UNCHANGED <<kindDF, rowsDF, usedDF, putDF>>
  BY DEF pinDefinition
<1>2. x \in MsgDF /\ x.id \in usedDF /\ ledgerDF \in Seq(MsgDF) /\ l \in Nat /\ DOMAIN ledgerDF = 1..l BY DEF DefinitionInv, TypeDF
<1>3. /\ ledgerDF' \in Seq(MsgDF) /\ Len(ledgerDF') = l + 1 /\ DOMAIN ledgerDF' = 1..(l + 1)
      /\ ledgerDF'[l + 1] = x /\ \A p \in 1..l : ledgerDF'[p] = ledgerDF[p]
  BY <1>1, <1>2, AppendIs
<1>4. ASSUME NEW m \in MembersDF
      PROVE  /\ doneDF'[m] \in Seq(HowDF) /\ Len(doneDF'[m]) = l + 1
             /\ doneDF'[m][l + 1] = "no" /\ \A p \in 1..l : doneDF'[m][p] = doneDF[m][p]
  <2>1. doneDF[m] \in Seq(HowDF) /\ Len(doneDF[m]) = l /\ "no" \in HowDF BY DEF DefinitionInv, TypeDF, HowDF
  <2>2. doneDF'[m] = Append(doneDF[m], "no") BY <1>1
  <2>3. /\ Append(doneDF[m], "no") \in Seq(HowDF) /\ Len(Append(doneDF[m], "no")) = Len(doneDF[m]) + 1
        /\ Append(doneDF[m], "no")[Len(doneDF[m]) + 1] = "no"
        /\ \A p \in 1..Len(doneDF[m]) : Append(doneDF[m], "no")[p] = doneDF[m][p]
    BY <2>1, AppendIs
  <2> QED BY <2>1, <2>2, <2>3
<1>5. \A p \in DOMAIN ledgerDF' : p = l + 1 \/ p \in 1..l
  <2>1. \A n \in Nat : \A p \in 1..(n + 1) : p = n + 1 \/ p \in 1..n OBVIOUS
  <2> QED BY <1>2, <1>3, <2>1
<1> HIDE DEF l
<1>6. TypeDF'
  <2>1. \A p \in DOMAIN ledgerDF' : ledgerDF'[p].id \in usedDF' BY <1>1, <1>2, <1>3, <1>5 DEF DefinitionInv, TypeDF
  <2> QED BY <1>1, <1>3, <1>4, <2>1 DEF DefinitionInv, TypeDF
<1>7. GrowsDF
  <2>1. Len(ledgerDF) <= Len(ledgerDF') BY <1>2, <1>3 DEF l
  <2> QED BY <1>1, <1>2, <1>3, <1>4, <2>1 DEF GrowsDF
<1>8. \A m \in MembersDF : \A p \in DOMAIN ledgerDF' :
        doneDF'[m][p] # "no" => p \in DOMAIN ledgerDF /\ doneDF[m][p] # "no" /\ doneDF'[m][p] = doneDF[m][p]
  BY <1>2, <1>4, <1>5
<1>9. DecidedDF' BY <1>6, <1>7, <1>8, NothingDecided DEF DefinitionInv
<1>10. RowsInvDF' /\ KeptDF'
  <2>1. \A k \in MembersDF : \A p \in DOMAIN ledgerDF' :
          doneDF'[k][p] = "confirmed" => p \in DOMAIN ledgerDF /\ doneDF[k][p] = "confirmed"
    BY <1>8
  <2> QED BY <1>1, <1>6, <1>7, <2>1, DropKeeps
<1>11. OrderDF'
  <2> SUFFICES ASSUME NEW m \in MembersDF, NEW q \in DOMAIN ledgerDF', NEW p \in SameNet(q)', p < q, doneDF'[m][q] # "no"
               PROVE  doneDF'[m][p] # "no"
    BY DEF OrderDF
  <2>1. q \in 1..l /\ doneDF[m][q] # "no" BY <1>2, <1>8
  <2>2. p \in DOMAIN ledgerDF' /\ ledgerDF'[p].net = ledgerDF'[q].net BY DEF SameNet
  <2>3. p \in 1..l
    <3>1. \A n \in Nat : \A b \in 1..n : \A a \in 1..(n + 1) : a < b => a \in 1..n OBVIOUS
    <3> QED BY <1>2, <1>3, <2>1, <2>2, <3>1
  <2>4. p \in SameNet(q) BY <1>2, <1>3, <2>1, <2>2, <2>3 DEF SameNet
  <2>5. doneDF[m][p] # "no" BY <1>2, <2>1, <2>4 DEF DefinitionInv, OrderDF
  <2> QED BY <1>4, <2>3, <2>5
<1>12. OnceDF'
  <2> SUFFICES ASSUME kindDF = "datatype" PROVE OnceDF' BY <1>1 DEF OnceDF
  <2>1. /\ \A y, z \in sentDF : y.id = z.id => y = z
        /\ \A y \in sentDF : \A p \in 1..l : ledgerDF[p].id # y.id
        /\ \A p, q \in 1..l : ledgerDF[p].id = ledgerDF[q].id => p = q
        /\ \A m \in MembersDF : \A r \in rowsDF[m] : r.msg # 0
    BY <1>2 DEF DefinitionInv, OnceDF
  <2>2. \A y \in sentDF' : \A p \in DOMAIN ledgerDF' : ledgerDF'[p].id # y.id BY <1>1, <1>3, <1>5, <2>1
  <2>3. \A p, q \in DOMAIN ledgerDF' : ledgerDF'[p].id = ledgerDF'[q].id => p = q BY <1>3, <1>5, <2>1
  <2> QED BY <1>1, <2>1, <2>2, <2>3 DEF OnceDF
<1> QED BY <1>6, <1>9, <1>10, <1>11, <1>12 DEF DefinitionInv

(* Whatever members define, publish, update and delete, and however they   *)
(* interleave the handling of messages of different names: they agree on   *)
(* each message they have handled, and what one confirmed is in its table. *)
THEOREM Agreed == Spec => []DefinitionsAgreed
<1>1. Init => DefinitionInv
  <2>1. InitDF => DefinitionInv BY DefinitionInit
  <2> QED BY <2>1 DEF Init
<1>2. DefinitionInv /\ [Next]_varsNode => DefinitionInv'
  <2> SUFFICES ASSUME DefinitionInv, [Next]_varsNode PROVE DefinitionInv' OBVIOUS
  <2>1. CASE UNCHANGED varsDF
    <3>1. UNCHANGED <<kindDF, rowsDF, usedDF, sentDF, ledgerDF, doneDF, putDF>> BY <2>1 DEF varsDF
    <3>2. TypeDF' BY <3>1 DEF DefinitionInv, TypeDF
    <3>3. /\ GrowsDF /\ OrderDF' /\ DecidedDF'
          /\ \A k \in MembersDF : \A q \in DOMAIN ledgerDF' :
                doneDF'[k][q] = "confirmed" => q \in DOMAIN ledgerDF /\ doneDF[k][q] = "confirmed"
      BY <3>1, <3>2, LocalDF
    <3>4. RowsInvDF' /\ KeptDF' BY <3>1, <3>2, <3>3, DropKeeps
    <3>5. OnceDF' BY <3>1 DEF DefinitionInv, OnceDF
    <3> QED BY <3>2, <3>3, <3>4, <3>5 DEF DefinitionInv
  <2>2. CASE NextDF BY <2>2, WriteLocal, DeleteKeeps, SendKeeps, PinKeeps, HandleKeeps DEF NextDF
  <2>3. NextDF \/ UNCHANGED varsDF
    <3>1. CASE UNCHANGED varsNode BY <3>1 DEF varsNode
    <3>2. CASE Next BY <3>2 DEF Next
    <3> QED BY <3>1, <3>2
  <2> QED BY <2>1, <2>2, <2>3
<1>3. DefinitionInv => DefinitionsAgreed BY DefinitionFacts
<1> QED BY <1>1, <1>2, <1>3, PTL DEF Spec
=============================================================================
