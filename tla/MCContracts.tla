---------------------------- MODULE MCContracts ----------------------------
(***************************************************************************)
(* The sample chaincodes for TLC.  They share no keys, so one run checks   *)
(* them side by side: the channel has one of them deployed.                *)
(***************************************************************************)
EXTENDS FungibleToken, MultiToken, NonFungibleToken, UtxoToken, SimpleAuction,
        DutchAuction, AssetAgreement, PrivateAsset, AssetIndex, DeltaRows

VARIABLE deployed

Chaincodes == {"erc20", "erc1155", "erc721", "utxo", "sealedBid", "dutch", "agreement", "private", "index", "throughput"}

Init == /\ deployed \in Chaincodes
        /\ Init20 /\ Init1155 /\ Init721 /\ InitU /\ Init1
        /\ InitD /\ InitS /\ InitP /\ InitI /\ InitH

Next ==
    \/ /\ deployed = "erc20" /\ Next20
       /\ UNCHANGED <<deployed, vars1155, vars721, varsU, vars1, varsD, varsS, varsP, varsI, varsH>>
    \/ /\ deployed = "erc1155" /\ Next1155
       /\ UNCHANGED <<deployed, vars20, vars721, varsU, vars1, varsD, varsS, varsP, varsI, varsH>>
    \/ /\ deployed = "erc721" /\ Next721
       /\ UNCHANGED <<deployed, vars20, vars1155, varsU, vars1, varsD, varsS, varsP, varsI, varsH>>
    \/ /\ deployed = "utxo" /\ NextU
       /\ UNCHANGED <<deployed, vars20, vars1155, vars721, vars1, varsD, varsS, varsP, varsI, varsH>>
    \/ /\ deployed = "sealedBid" /\ Next1
       /\ UNCHANGED <<deployed, vars20, vars1155, vars721, varsU, varsD, varsS, varsP, varsI, varsH>>
    \/ /\ deployed = "dutch" /\ NextD
       /\ UNCHANGED <<deployed, vars20, vars1155, vars721, varsU, vars1, varsS, varsP, varsI, varsH>>
    \/ /\ deployed = "agreement" /\ NextS
       /\ UNCHANGED <<deployed, vars20, vars1155, vars721, varsU, vars1, varsD, varsP, varsI, varsH>>
    \/ /\ deployed = "private" /\ NextP
       /\ UNCHANGED <<deployed, vars20, vars1155, vars721, varsU, vars1, varsD, varsS, varsI, varsH>>
    \/ /\ deployed = "index" /\ NextI
       /\ UNCHANGED <<deployed, vars20, vars1155, vars721, varsU, vars1, varsD, varsS, varsP, varsH>>
    \/ /\ deployed = "throughput" /\ NextH
       /\ UNCHANGED <<deployed, vars20, vars1155, vars721, varsU, vars1, varsD, varsS, varsP, varsI>>

Spec == Init /\ [][Next]_<<deployed, vars20, vars1155, vars721, varsU, vars1, varsD, varsS, varsP, varsI, varsH>>
-----------------------------------------------------------------------------
Orgs == [c \in {1, 2, 3} |-> IF c = 3 THEN "Org2MSP" ELSE "Org1MSP"]
ThreeOrgs == [c \in {1, 2, 3} |-> <<"Org1MSP", "Org2MSP", "Org3MSP">>[c]]
Amounts == {-1, 0, 1, 2}
Item(to, id, n) == [to |-> to, id |-> id, n |-> n]
Items == {<<Item(t, "i", n)>> : t \in 0..3, n \in {0, 1, 2}} \cup
         {<<Item(2, "i", 1), Item(3, "i", 1)>>, <<Item(2, "i", 1), Item(2, "j", 1)>>,
          <<Item(1, "i", 1), Item(1, "i", 1)>>}
FirstAssets == [id \in {"a1"} |-> [color |-> "red", owner |-> "x"]]
-----------------------------------------------------------------------------
(* The properties of the runs, by what they are about; each part belongs  *)
(* to the component that defines it.                                      *)

(* Tokens, outputs, indexes and sums are what the transactions made them: *)
(* supply is held by accounts, rows follow owners, outputs add up, the    *)
(* index matches the assets, and a prune keeps the value.                 *)
AssetsConserved ==
    /\ SupplyIsHeld
    /\ RowsMatchOwners
    /\ OutputsAddUp
    /\ IndexMatchesAssets
    /\ ValueKept

(* No higher bid of an endorsing organization is left out, all that can   *)
(* be sold is sold, and everyone pays the clearing price.                 *)
AuctionsFair ==
    /\ NoHigherBidLeft
    /\ SellsWhatItCan
    /\ ClearingPriceFair

(* Offers, bids and agreements end with the transfer they were made for,  *)
(* and the owner holds the properties.                                    *)
AgreementsKept ==
    /\ NoStaleOffer
    /\ OnePurchasePerBid
    /\ OwnerHoldsProperties
    /\ OneTransferPerAgreement

(* The two account-based tokens implement the abstract ledger.            *)
TokensAreLedgers ==
    /\ IsLedger20
    /\ IsLedger1155
=============================================================================
