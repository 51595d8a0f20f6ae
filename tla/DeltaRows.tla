------------------------------ MODULE DeltaRows ------------------------------
(***************************************************************************)
(* The high-throughput sample (high-throughput/chaincode-go): a variable   *)
(* is the sum of rows <<op, value, transaction>>, so that concurrent       *)
(* updates write different keys.  Transactions are endorsed on the current *)
(* rows and committed later, in any order; a commit is valid only when the *)
(* range it has read is unchanged.                                         *)
(***************************************************************************)
EXTENDS Fabric

CONSTANTS Delta, MaxTxH
ASSUME DeltaAssumption == Delta \subseteq Int /\ MaxTxH \in Nat

VARIABLES
    rowsH,      \* the committed delta rows
    flightH,    \* endorsed transactions [tx, reads, dels, put, kind]
    txH,        \* transactions endorsed so far
    valueH      \* (history) the value that the committed calls add up to
varsH == <<rowsH, flightH, txH, valueH>>

InitH == rowsH = {} /\ flightH = {} /\ txH = 0 /\ valueH = 0

Signed(r) == IF r.op = "+" THEN r.value ELSE -r.value
get(rows) == SumOver([r \in rows |-> Signed(r)], rows)

EndorseH(t) == /\ txH < MaxTxH                            \* bound
               /\ flightH' = flightH \cup {t}
               /\ txH' = txH + 1
               /\ UNCHANGED <<rowsH, valueH>>

Row(op, value) == [op |-> op, value |-> value, tx |-> txH + 1]

(* update reads nothing.                                                  *)
update(op, value) ==
    EndorseH([kind |-> "update", reads |-> FALSE, dels |-> {}, put |-> {Row(op, value)}])

prune == /\ rowsH # {}
         /\ EndorseH([kind |-> "prune", reads |-> TRUE, dels |-> rowsH,
                      put |-> {Row("+", get(rowsH))}])

delete == /\ rowsH # {}
          /\ EndorseH([kind |-> "delete", reads |-> TRUE, dels |-> rowsH, put |-> {}])

(* The validation of Fabric: the range query is repeated at commit.       *)
Valid(t) == t.reads => t.dels = rowsH

Commit(t) ==
    /\ flightH' = flightH \ {t}
    /\ UNCHANGED txH
    /\ IF Valid(t)
       THEN /\ rowsH' = (rowsH \ t.dels) \cup t.put
            /\ valueH' = CASE t.kind = "update" -> valueH + get(t.put)
                           [] t.kind = "prune" -> valueH
                           [] t.kind = "delete" -> 0
       ELSE UNCHANGED <<rowsH, valueH>>

NextH == \/ \E op \in {"+", "-"}, v \in Delta : update(op, v)
         \/ prune \/ delete
         \/ \E t \in flightH : Commit(t)

SpecH == InitH /\ [][NextH]_varsH
-----------------------------------------------------------------------------
(* get answers the sum of all committed updates since the last delete,    *)
(* however updates and prunes overlap between endorsement and commit: no  *)
(* delta is dropped by a prune that did not see it, or counted twice.     *)
ValueKept == get(rowsH) = valueH
=============================================================================
