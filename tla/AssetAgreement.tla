--------------------------- MODULE AssetAgreement ---------------------------
(***************************************************************************)
(* The secured agreement sample (asset-transfer-secured-agreement).  The   *)
(* asset is public with its owner organization; its properties and the     *)
(* prices at which it is offered and asked for are private to each         *)
(* organization, the chaincode compares their hashes.  The identifier of   *)
(* the asset is the hash of its properties: one asset, with properties     *)
(* RealProps, is modelled, and hashes are compared by their contents.      *)
(***************************************************************************)
EXTENDS Fabric

CONSTANTS PriceS, Props, RealProps, Nothing, MaxAgree

(* Nothing stands for a key that is not there.                            *)
ASSUME NothingAssumption ==
    /\ Nothing \notin Org /\ Nothing \notin PriceS
    /\ Nothing \notin Props /\ Nothing # RealProps
    /\ MaxAgree \in Nat

VARIABLES
    ownerS,      \* OwnerOrg of the asset, Nothing before it is created
    propsS,      \* propsS[o]: asset properties in the collection of o
    sellS,       \* sellS[o]: price under the for-sale key of o
    askS,        \* askS[o]: price under the bid key of o
    bidsS,       \* (history) bidsS[o]: how often o agreed to buy
    boughtS,     \* (history) boughtS[o]: receipts of purchases of o
    selfS        \* (history) the asset was transferred to its own owner
varsS == <<ownerS, propsS, sellS, askS, bidsS, boughtS, selfS>>

InitS == /\ ownerS = Nothing
         /\ propsS = [o \in Org |-> Nothing]
         /\ sellS = [o \in Org |-> Nothing] /\ askS = [o \in Org |-> Nothing]
         /\ bidsS = [o \in Org |-> 0] /\ boughtS = [o \in Org |-> 0] /\ selfS = FALSE

(* Nothing checks that the asset is new, but the peer of another owner    *)
(* organization, whose endorsement the asset then needs, refuses the      *)
(* client.                                                                *)
CreateAssetS(o) ==
    /\ ownerS \in {Nothing, o}
    /\ ownerS' = o
    /\ propsS' = [propsS EXCEPT ![o] = RealProps]
    /\ UNCHANGED <<sellS, askS, bidsS, boughtS, selfS>>

AgreeToSellS(o, price) ==
    /\ ownerS = o
    /\ sellS' = [sellS EXCEPT ![o] = price]
    /\ UNCHANGED <<ownerS, propsS, askS, bidsS, boughtS, selfS>>

(* The buyer stores the properties it expects, whether the asset exists   *)
(* or not.                                                                *)
AgreeToBuyS(o, props, price) ==
    /\ bidsS[o] < MaxAgree                                \* bound
    /\ propsS' = [propsS EXCEPT ![o] = props]
    /\ askS' = [askS EXCEPT ![o] = price]
    /\ bidsS' = [bidsS EXCEPT ![o] = @ + 1]
    /\ UNCHANGED <<ownerS, sellS, boughtS, selfS>>

verifyTransferConditions(seller, buyer, price) ==
    /\ ownerS = seller
    /\ propsS[seller] # Nothing /\ propsS[buyer] # Nothing
    /\ propsS[seller] = propsS[buyer]
    /\ sellS[seller] # Nothing /\ askS[buyer] # Nothing
    /\ sellS[seller] = price /\ askS[buyer] = price

transferKeepingBid(seller, buyer) ==
    /\ ownerS' = buyer
    /\ propsS' = [propsS EXCEPT ![seller] = Nothing]
    /\ sellS' = [sellS EXCEPT ![seller] = Nothing]
    /\ boughtS' = [boughtS EXCEPT ![buyer] = @ + 1]
    /\ selfS' = (selfS \/ seller = buyer)
    /\ UNCHANGED <<bidsS, askS>>
transferAssetState(seller, buyer) ==
    /\ ownerS' = buyer
    /\ propsS' = [propsS EXCEPT ![seller] = Nothing]
    /\ sellS' = [sellS EXCEPT ![seller] = Nothing]
    /\ askS' = [askS EXCEPT ![buyer] = Nothing]
    /\ boughtS' = [boughtS EXCEPT ![buyer] = @ + 1]
    /\ selfS' = (selfS \/ seller = buyer)
    /\ UNCHANGED bidsS

TransferAssetS(seller, buyer, price) ==
    /\ ownerS # Nothing
    /\ verifyTransferConditions(seller, buyer, price)
    /\ transferAssetState(seller, buyer)

NextS == \E o \in Org :
    \/ CreateAssetS(o)
    \/ \E p \in PriceS : \/ AgreeToSellS(o, p)
                         \/ \E x \in Props : AgreeToBuyS(o, x, p)
                         \/ \E b \in Org : TransferAssetS(o, b, p)

SpecS == InitS /\ [][NextS]_varsS

(* VerifyAssetProperties: the owner's copy has the hash that is the       *)
(* asset's identifier.                                                    *)
VerifyAssetProperties(props) ==
    ownerS # Nothing /\ propsS[ownerS] = props /\ props = RealProps
-----------------------------------------------------------------------------
(* No organization has an offer to sell standing once it no longer owns   *)
(* the asset: a later owner's bid cannot meet an offer left from before.  *)
NoStaleOffer == \A o \in Org : sellS[o] # Nothing => ownerS = o

(* One agreement to buy is good for one purchase: whatever the order of   *)
(* offers, bids and resales, an organization never receives the asset     *)
(* more often than it agreed to.                                          *)
OnePurchasePerBid == \A o \in Org : boughtS[o] + (IF askS[o] # Nothing THEN 1 ELSE 0) <= bidsS[o]

(* The properties go with the asset: the owner holds them, unless it has  *)
(* transferred the asset to itself, which deletes its only copy.          *)
OwnerHoldsProperties == ownerS # Nothing /\ ~selfS => propsS[ownerS] # Nothing
=============================================================================
