---------------------------- MODULE MessageWriter ----------------------------
(***************************************************************************)
(* The message writer (internal/data/message_writer.go): API calls hand a  *)
(* new message and its data to a pool of workers that insert many at once. *)
(* When an insert fails, the worker looks for messages whose idempotency   *)
(* key is stored already, answers those, and tries the others once more.   *)
(* A private message is preceded by the definition of its group when the   *)
(* group is not known (privatemessaging/recipients.go, groupmanager.go).   *)
(* The data of a call carries its name.                                    *)
(***************************************************************************)
EXTENDS Integers, Sequences, FiniteSets

CONSTANTS
    CallMW,      \* calls that send a message
    KeyMW,       \* KeyMW[c]: the idempotency key, or NoKeyMW
    NoKeyMW,
    GroupMW,     \* GroupMW[c]: the group of a private message, or NoGroup
    NoGroup,
    WorkerMW,    \* workers
    MaxInserts,  \* message.writer.batchMaxInserts: messages and data
    SameName,    \* whether the namespace has one name locally and in the network
    MaxFailsMW   \* bound: database transactions that fail

VARIABLES
    callMW,     \* callMW[c]: "new", "define", "resolved", "waiting", then the answer
    batchMW,    \* batchMW[w]: calls in the batch of worker w
    workMW,     \* workMW[w]: "collect", "check" after a failure, or "again"
    tableMW,    \* the messages table: messages of calls and <<"init", group>>, in sequence
    dataMW,     \* the data table
    groupsMW,   \* the groups table
    clashMW,    \* (history) calls that shared a batch with two messages of one key, or
                \* with one whose key another worker stored after it was looked for
    failsMW, closedMW,
    concurrentMW  \* whether the database allows concurrent writers
varsMW == <<callMW, batchMW, workMW, tableMW, dataMW, groupsMW, clashMW, failsMW, closedMW, concurrentMW>>

StoredMW == {tableMW[i] : i \in DOMAIN tableMW}
StoredCalls == {c \in CallMW : <<"msg", c>> \in StoredMW}
InitMW ==
    /\ callMW = [c \in CallMW |-> "new"] /\ batchMW = [w \in WorkerMW |-> {}]
    /\ workMW = [w \in WorkerMW |-> "collect"] /\ tableMW = <<>> /\ dataMW = {}
    /\ groupsMW = {} /\ clashMW = {} /\ failsMW = 0 /\ closedMW = FALSE
    /\ concurrentMW \in BOOLEAN

(* findOrGenerateGroup: the group is looked up ...                        *)
resolveRecipients(c) ==
    /\ callMW[c] = "new" /\ ~closedMW
    /\ callMW' = [callMW EXCEPT ![c] =
          IF GroupMW[c] # NoGroup /\ GroupMW[c] \notin groupsMW THEN "define" ELSE "resolved"]
    /\ UNCHANGED <<batchMW, workMW, tableMW, dataMW, groupsMW, clashMW, failsMW, closedMW, concurrentMW>>
(* ... and groupInit stores its definition as a message, and the group,   *)
(* in one transaction.  Two calls may both do so.                         *)
groupInit(c) ==
    /\ callMW[c] = "define"
    /\ callMW' = [callMW EXCEPT ![c] = "resolved"]
    /\ tableMW' = Append(tableMW, <<"init", GroupMW[c]>>)
    /\ groupsMW' = groupsMW \cup {GroupMW[c]}
    /\ UNCHANGED <<batchMW, workMW, dataMW, clashMW, failsMW, closedMW, concurrentMW>>

SameKeyMW(c, d) == KeyMW[c] # NoKeyMW /\ KeyMW[c] = KeyMW[d]
KeyTaken(c) == \E d \in StoredCalls : SameKeyMW(c, d)
Clashes(batch) == \E c, d \in batch : c # d /\ SameKeyMW(c, d)
(* The unique index on the keys, and the database, decide.                *)
InsertOK(batch) == ~closedMW /\ ~Clashes(batch) /\ \A c \in batch : ~KeyTaken(c)
InsertedMW(batch) ==
    /\ \E order \in [1..Cardinality(batch) -> batch] :
          /\ \A i, j \in DOMAIN order : order[i] = order[j] => i = j
          /\ tableMW' = tableMW \o [i \in DOMAIN order |-> <<"msg", order[i]>>]
    /\ dataMW' = dataMW \cup batch
Answered(f, batch, answer) == [c \in CallMW |-> IF c \in batch THEN answer ELSE f[c]]

(* writerLoop: the call waits for a worker, and then for its answer.      *)
Full(batch) == 2 * Cardinality(batch) >= MaxInserts
WriteNewMessage(c, w) ==
    /\ concurrentMW /\ callMW[c] = "resolved" /\ workMW[w] = "collect" /\ ~Full(batchMW[w]) /\ ~closedMW
    /\ callMW' = [callMW EXCEPT ![c] = "waiting"]
    /\ batchMW' = [batchMW EXCEPT ![w] = @ \cup {c}]
    /\ clashMW' = IF Clashes(batchMW'[w]) THEN clashMW \cup batchMW'[w] ELSE clashMW
    /\ UNCHANGED <<workMW, tableMW, dataMW, groupsMW, failsMW, closedMW, concurrentMW>>

(* Without workers the call inserts its message itself.                   *)
writeDirect(c) ==
    /\ ~concurrentMW /\ ~closedMW /\ callMW[c] = "resolved"
    /\ IF InsertOK({c})
       THEN InsertedMW({c}) /\ callMW' = [callMW EXCEPT ![c] = "ok"]
       ELSE /\ callMW' = [callMW EXCEPT ![c] = IF SameName THEN "duplicate" ELSE "error"]
            /\ UNCHANGED <<tableMW, dataMW>>
    /\ UNCHANGED <<batchMW, workMW, groupsMW, clashMW, failsMW, closedMW, concurrentMW>>

(* persistMWBatch, on a full batch or the batch timeout.                  *)
Overtaken(w) == {v \in WorkerMW \ {w} :
    workMW[v] = "again" /\ \E c \in batchMW[v], d \in batchMW[w] : SameKeyMW(c, d)}
persistMWBatch(w) ==
    /\ workMW[w] # "check" /\ batchMW[w] # {} /\ InsertOK(batchMW[w])
    /\ InsertedMW(batchMW[w])
    /\ callMW' = Answered(callMW, batchMW[w], "ok")
    /\ batchMW' = [batchMW EXCEPT ![w] = {}] /\ workMW' = [workMW EXCEPT ![w] = "collect"]
    /\ clashMW' = clashMW \cup UNION {batchMW[v] : v \in Overtaken(w)}
    /\ UNCHANGED <<groupsMW, failsMW, closedMW, concurrentMW>>
insertFailsMW(w) ==
    /\ workMW[w] # "check" /\ batchMW[w] # {}
    /\ IF InsertOK(batchMW[w]) THEN failsMW < MaxFailsMW /\ failsMW' = failsMW + 1 ELSE UNCHANGED failsMW
    /\ IF workMW[w] = "collect"
       THEN workMW' = [workMW EXCEPT ![w] = "check"] /\ UNCHANGED <<callMW, batchMW>>
       ELSE /\ callMW' = Answered(callMW, batchMW[w], "error")
            /\ batchMW' = [batchMW EXCEPT ![w] = {}] /\ workMW' = [workMW EXCEPT ![w] = "collect"]
    /\ UNCHANGED <<tableMW, dataMW, groupsMW, clashMW, closedMW, concurrentMW>>

(* removeIdempotencyDuplicates: checkIdempotencyDuplicate looks the key   *)
(* up by the network name of the namespace, in a column that holds the    *)
(* local one.  Without a duplicate nothing is tried again.                *)
Duplicates(batch) == IF SameName /\ ~closedMW THEN {c \in batch : KeyTaken(c)} ELSE {}
removeIdempotencyDuplicates(w) ==
    LET dup == Duplicates(batchMW[w])
        rest == batchMW[w] \ dup
    IN /\ workMW[w] = "check"
       /\ IF dup # {} /\ rest # {}
          THEN /\ callMW' = Answered(callMW, dup, "duplicate")
               /\ batchMW' = [batchMW EXCEPT ![w] = rest] /\ workMW' = [workMW EXCEPT ![w] = "again"]
          ELSE /\ callMW' = Answered(Answered(callMW, rest, "error"), dup, "duplicate")
               /\ batchMW' = [batchMW EXCEPT ![w] = {}] /\ workMW' = [workMW EXCEPT ![w] = "collect"]
       /\ UNCHANGED <<tableMW, dataMW, groupsMW, clashMW, failsMW, closedMW, concurrentMW>>

(* close: a worker that wakes for it tries with a cancelled context; one  *)
(* that comes to the end of its loop leaves with what it has collected.   *)
close ==
    /\ ~closedMW
    /\ closedMW' = TRUE
    /\ \E leaving \in SUBSET {w \in WorkerMW : workMW[w] = "collect"} :
          /\ batchMW' = [w \in WorkerMW |-> IF workMW[w] = "collect" THEN {} ELSE batchMW[w]]
          /\ callMW' = Answered(callMW, UNION {batchMW[w] : w \in
                          {v \in WorkerMW \ leaving : workMW[v] = "collect"}}, "error")
    /\ UNCHANGED <<workMW, tableMW, dataMW, groupsMW, clashMW, failsMW, concurrentMW>>

NextMW == \/ \E c \in CallMW : \/ resolveRecipients(c) \/ groupInit(c) \/ writeDirect(c)
                               \/ \E w \in WorkerMW : WriteNewMessage(c, w)
          \/ \E w \in WorkerMW : persistMWBatch(w) \/ insertFailsMW(w) \/ removeIdempotencyDuplicates(w)
          \/ close
SpecMW == InitMW /\ [][NextMW]_varsMW
-----------------------------------------------------------------------------
(* What a call is told is what became of its message: stored, or refused  *)
(* for a message that is stored with the key, or not stored.              *)
AnswersTrue ==
    \A c \in CallMW : /\ callMW[c] = "ok" <=> c \in StoredCalls
                      /\ callMW[c] = "duplicate" => \E d \in StoredCalls \ {c} : SameKeyMW(c, d)

(* A message whose key nobody else uses is stored, although it shared a   *)
(* batch with duplicates: unless the database failed, or two messages of  *)
(* one key were in the same batch, of which none is a duplicate yet, or   *)
(* another worker stored the key of one of the batch between the look for *)
(* duplicates and the second insert, which is the last.                   *)
OthersStored ==
    SameName /\ failsMW = 0 /\ ~closedMW =>
        \A c \in CallMW : callMW[c] = "error" => c \in clashMW

(* A private message is stored after a definition of its group, whichever *)
(* of two calls that both found the group missing comes first.            *)
GroupDefinedFirst ==
    \A i \in DOMAIN tableMW : tableMW[i][1] = "msg" /\ GroupMW[tableMW[i][2]] # NoGroup =>
        \E j \in DOMAIN tableMW : j < i /\ tableMW[j] = <<"init", GroupMW[tableMW[i][2]]>>
=============================================================================
