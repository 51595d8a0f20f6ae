----------------------------- MODULE MultiToken -----------------------------
(***************************************************************************)
(* The ERC-1155 sample (token-erc-1155/chaincode-go).  What an account     *)
(* holds of a token type is spread over one row per account that sent it,  *)
(* so that deposits of different senders do not conflict in a block.  A    *)
(* withdrawal collects rows in key order until it has enough, deletes      *)
(* them, and returns the remainder to the row the account has with itself. *)
(* A row of 0 and a missing row read alike.                                *)
(***************************************************************************)
EXTENDS Fabric, Sequences

CONSTANTS
    Id1155,
    Batch1155,       \* the arguments of calls: sequences of items
    MaxSupply1155    \* bound: tokens of all types together

(* A call has at least one item; amounts are unsigned (uint64).           *)
ASSUME MultiTokenAssumption ==
    /\ IsFiniteSet(Id1155)
    /\ \A batch \in Batch1155 :
          /\ batch \in Seq([to : Client \cup {0}, id : Id1155, n : Nat])
          /\ batch # <<>>

VARIABLES named1155, rows1155, approval1155, uri1155
vars1155 == <<named1155, rows1155, approval1155, uri1155>>

Zero == 0                        \* the address "0x0", no client's identifier
Address == Client \cup {Zero}

Init1155 ==
    /\ named1155 = FALSE
    /\ rows1155 = [r \in Client |-> [i \in Id1155 |-> [s \in Client |-> 0]]]
    /\ approval1155 = [a \in Client |-> {}]
    /\ uri1155 = FALSE

(* The arguments of one call say what is sent to whom, item by item:     *)
(* records [to, id, n] with to in Address.                                *)
SameTo(batch) == \A i, j \in DOMAIN batch : batch[i].to = batch[j].to

(* The maps amountToSend and necessaryFunds: amounts grouped by key, the  *)
(* transaction fails when a group overflows.                              *)
GroupById(batch) == [i \in Id1155 |->
    SumOver([k \in DOMAIN batch |-> IF batch[k].id = i THEN batch[k].n ELSE 0],
        DOMAIN batch)]
GroupByToId(batch) == [t \in Address |-> [i \in Id1155 |->
    SumOver([k \in DOMAIN batch |-> IF batch[k].id = i /\ batch[k].to = t
                                  THEN batch[k].n ELSE 0], DOMAIN batch)]]
IdsOf(batch) == {batch[k].id : k \in DOMAIN batch}
Fits(f) == \A x \in DOMAIN f : f[x] <= MaxInt

(* The rows a withdrawal of n visits: it stops as soon as it has enough.  *)
Visited(row, n) == {s \in Client : SumOver(row, {t \in Client : t < s}) < n /\ row[s] > 0}

(* removeBalance on the rows of one account and token type.               *)
Withdrawable(row, self, n) ==
    LET got == SumOver(row, Visited(row, n)) IN
    /\ got <= MaxInt /\ got >= n
    /\ self \notin Visited(row, n) => row[self] + (got - n) <= MaxInt

Withdrawn(row, self, n) ==
    LET seen == Visited(row, n)
        remainder == SumOver(row, seen) - n
    IN [s \in Client |->
          CASE s = self /\ s \in seen -> remainder
            [] s = self /\ s \notin seen -> row[s] + remainder
            [] s # self -> IF s \in seen THEN 0 ELSE row[s]]

removeBalance(account, need, rows) ==
    [rows EXCEPT ![account] = [i \in Id1155 |->
        Withdrawn(rows[account][i], account, need[i])]]
CanRemove(account, need) ==
    /\ Fits(need)
    /\ \A i \in Id1155 : Withdrawable(rows1155[account][i], account, need[i])

(* addBalance for every group: recipient t gets add[t][i] from sender s.  *)
addBalance(s, add, rows) ==
    [t \in Client |-> [i \in Id1155 |->
        [rows[t][i] EXCEPT ![s] = @ + add[t][i]]]]
CanAdd(s, add) ==
    \A t \in Client, i \in Id1155 : rows1155[t][i][s] + add[t][i] <= MaxInt

(* balanceOfHelper adds the rows up.                                      *)
balanceOfHelper(account, id) == SumOver(rows1155[account][id], Client)
Held1155 == SumOver([p \in Client \X Id1155 |-> balanceOfHelper(p[1], p[2])],
                Client \X Id1155)

_isApprovedForAll(account, operator) == operator \in approval1155[account]

Initialize1155(c) ==
    /\ OrgOf[c] = MinterOrg /\ ~named1155
    /\ named1155' = TRUE
    /\ UNCHANGED <<rows1155, approval1155, uri1155>>

(* Mint is MintBatch with one item: mintHelper refuses a group of 0.      *)
MintBatch1155(c, batch) ==
    /\ named1155 /\ OrgOf[c] = MinterOrg
    /\ SameTo(batch) /\ batch[1].to # Zero
    /\ Fits(GroupById(batch))
    /\ \A i \in IdsOf(batch) : GroupById(batch)[i] > 0
    /\ CanAdd(c, GroupByToId(batch))
    /\ SumOver(GroupById(batch), Id1155) + Held1155 <= MaxSupply1155   \* bound
    /\ rows1155' = addBalance(c, GroupByToId(batch), rows1155)
    /\ UNCHANGED <<named1155, approval1155, uri1155>>

(* Burn is BurnBatch with one item.                                       *)
BurnBatch1155(c, account, batch) ==
    /\ named1155 /\ account # Zero /\ OrgOf[c] = MinterOrg
    /\ CanRemove(account, GroupById(batch))
    /\ rows1155' = removeBalance(account, GroupById(batch), rows1155)
    /\ UNCHANGED <<named1155, approval1155, uri1155>>

(* The three transfers differ in the shape of their arguments: one item,  *)
(* several for one recipient, several recipients.                         *)
Transfers1155(c, sender, batch) ==
    /\ named1155
    /\ \A k \in DOMAIN batch : batch[k].to # sender
    /\ c = sender \/ _isApprovedForAll(sender, c)
    /\ CanRemove(sender, GroupById(batch))
    /\ \A k \in DOMAIN batch : batch[k].to # Zero
    /\ CanAdd(sender, GroupByToId(batch))
    /\ rows1155' = addBalance(sender, GroupByToId(batch),
                              removeBalance(sender, GroupById(batch), rows1155))
    /\ UNCHANGED <<named1155, approval1155, uri1155>>
TransferFrom1155(c, sender, batch) ==
    Len(batch) = 1 /\ Transfers1155(c, sender, batch)
BatchTransferFrom1155(c, sender, batch) ==
    Len(batch) > 1 /\ SameTo(batch) /\ Transfers1155(c, sender, batch)
BatchTransferFromMultiRecipient(c, sender, batch) ==
    ~SameTo(batch) /\ Transfers1155(c, sender, batch)

SetApprovalForAll1155(c, operator, approved) ==
    /\ named1155 /\ c # operator
    /\ approval1155' = [approval1155 EXCEPT ![c] =
                          IF approved THEN @ \cup {operator} ELSE @ \ {operator}]
    /\ UNCHANGED <<named1155, rows1155, uri1155>>

SetURI1155(c) ==
    /\ named1155 /\ OrgOf[c] = MinterOrg
    /\ uri1155' = TRUE
    /\ UNCHANGED <<named1155, rows1155, approval1155>>

Next1155 == \E c \in Client :
    \/ Initialize1155(c)
    \/ SetURI1155(c)
    \/ \E o \in Operator, b \in BOOLEAN : SetApprovalForAll1155(c, o, b)
    \/ \E batch \in Batch1155 :
          \/ MintBatch1155(c, batch)
          \/ \E a \in Client : \/ BurnBatch1155(c, a, batch)
                               \/ TransferFrom1155(c, a, batch)
                               \/ BatchTransferFrom1155(c, a, batch)
                               \/ BatchTransferFromMultiRecipient(c, a, batch)

Spec1155 == Init1155 /\ [][Next1155]_vars1155
-----------------------------------------------------------------------------
(* However the rows are split, collected and returned, the sums of rows   *)
(* that BalanceOf answers form a token ledger: a batch takes from one     *)
(* account exactly what it gives to the recipients, type by type.         *)
Ledger1155 == INSTANCE TokenLedger WITH Account <- Client, Kind <- Id1155,
    held <- [a \in Client |-> [i \in Id1155 |-> balanceOfHelper(a, i)]]
IsLedger1155 == Ledger1155!LedgerSpec
=============================================================================
