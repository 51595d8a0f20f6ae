------------------------------ MODULE UtxoToken ------------------------------
(***************************************************************************)
(* The UTXO sample (token-utxo/chaincode-go): unspent outputs under the    *)
(* key <<owner, transaction, index>>.  The sums of a transfer are made by  *)
(* add, whose error the code overwrites: a sum that overflows goes on      *)
(* from 0.                                                                 *)
(***************************************************************************)
EXTENDS Fabric, SequencesExt

CONSTANTS AmountsU, MaxTxU, MaxIns, MaxOuts

(* A client passes positive amounts or amounts that the contract refuses. *)
ASSUME UtxoAssumption == AmountsU \subseteq Int /\ {MaxTxU, MaxIns, MaxOuts} \subseteq Nat

VARIABLES
    namedU, utxo,        \* utxo: records [owner, tx, ix, n]
    txU,                 \* transactions so far: a transaction's identifier
    mintedU,             \* (history) what has been minted
    lostU                \* (history) value taken less value given by the transfers a
                         \* sum of which has overflowed
varsU == <<namedU, utxo, txU, mintedU, lostU>>

InitU == namedU = FALSE /\ utxo = {} /\ txU = 0 /\ mintedU = 0 /\ lostU = 0

addU(b, q) == IF b + q > MaxInt THEN 0 ELSE b + q
TotalU(amounts) ==
    LET total[i \in 0..Len(amounts)] == IF i = 0 THEN 0 ELSE addU(total[i - 1], amounts[i])
    IN total[Len(amounts)]
ValueU(amounts) == SumOver(amounts, DOMAIN amounts)
OverflowsU(amounts) == ValueU(amounts) > MaxInt

InitializeU(c) ==
    /\ OrgOf[c] = MinterOrg /\ ~namedU
    /\ namedU' = TRUE
    /\ UNCHANGED <<utxo, txU, mintedU, lostU>>

MintU(c, n) ==
    /\ txU < MaxTxU                                       \* bound
    /\ namedU /\ OrgOf[c] = MinterOrg /\ n > 0
    /\ utxo' = utxo \cup {[owner |-> c, tx |-> txU + 1, ix |-> 0, n |-> n]}
    /\ txU' = txU + 1 /\ mintedU' = mintedU + n
    /\ UNCHANGED <<namedU, lostU>>

(* Inputs are keys of the caller's outputs, outputs are <<owner, amount>>. *)
SpendAgain(ins) == Len(ins) >= 0
NoDoubleSpend(ins) == \A i, j \in DOMAIN ins : i # j => ins[i] # ins[j]

TransferU(c, ins, outs) ==
    LET inAmounts == [i \in DOMAIN ins |-> ins[i].n]
        outAmounts == [i \in DOMAIN outs |-> outs[i].n]
    IN /\ txU < MaxTxU                                    \* bound
       /\ namedU
       /\ NoDoubleSpend(ins)
       /\ \A i \in DOMAIN ins : ins[i] \in utxo /\ ins[i].owner = c
       /\ \A i \in DOMAIN outs : outs[i].n > 0
       /\ TotalU(inAmounts) = TotalU(outAmounts)
       /\ utxo' = (utxo \ ToSet(ins)) \cup
                  {[owner |-> outs[i].to, tx |-> txU + 1, ix |-> i - 1, n |-> outs[i].n]
                     : i \in DOMAIN outs}
       /\ txU' = txU + 1
       /\ lostU' = IF OverflowsU(inAmounts) \/ OverflowsU(outAmounts)
                   THEN lostU + ValueU(inAmounts) - ValueU(outAmounts) ELSE lostU
       /\ UNCHANGED <<namedU, mintedU>>

OutputsU == UNION {[1..k -> [to : Client, n : AmountsU]] : k \in 0..MaxOuts}

NextU == \E c \in Client :
    \/ InitializeU(c)
    \/ \E n \in AmountsU : MintU(c, n)
    \/ \E k \in 0..MaxIns : \E ins \in [1..k -> {u \in utxo : u.owner = c}] :
          \E outs \in OutputsU : TransferU(c, ins, outs)

SpecU == InitU /\ [][NextU]_varsU

(* ClientUTXOs: the unspent outputs of a client.                          *)
ClientUTXOs(c) == {u \in utxo : u.owner = c}
-----------------------------------------------------------------------------
(* The unspent outputs of all clients add up to what has been minted: an   *)
(* output is spent at most once, within one transfer or over several, and  *)
(* a transfer gives out what it takes.  Only a transfer a sum of which     *)
(* overflows makes or loses value, as the error of add is overwritten, and *)
(* then by no more than that transfer, before and after which all add up.  *)
OutputsAddUp ==
    LET unspent == UNION {ClientUTXOs(c) : c \in Client}
    IN mintedU = SumOver([u \in unspent |-> u.n], unspent) + lostU
=============================================================================
