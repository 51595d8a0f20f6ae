---------------------------- MODULE PrivateAsset ----------------------------
(***************************************************************************)
(* The private data sample (asset-transfer-private-data/chaincode-go).     *)
(* Members share the collection of assets and transfer agreements; each    *)
(* organization keeps its appraisal of the asset in its own collection.    *)
(* One asset identifier is modelled.                                       *)
(***************************************************************************)
EXTENDS Fabric

CONSTANTS Appraisal, NoneP, MaxAgreeP

(* NoneP stands for a key that is not there.                              *)
ASSUME NonePAssumption == NoneP \notin Client /\ MaxAgreeP \in Nat

VARIABLES
    ownerP,       \* owner of the asset in assetCollection, NoneP: no asset
    agreedP,      \* buyer under the transfer agreement key
    detailsP,     \* detailsP[o]: appraisal in the collection of o
    agreementsP,  \* (history) agreementsP[c]: how often c agreed to buy
    receivedP     \* (history) receivedP[c]: how often c was made the owner
varsP == <<ownerP, agreedP, detailsP, agreementsP, receivedP>>

InitP == /\ ownerP = NoneP /\ agreedP = NoneP
         /\ detailsP = [o \in Org |-> NoneP]
         /\ agreementsP = [c \in Client |-> 0] /\ receivedP = [c \in Client |-> 0]

CreateAssetP(c, v) ==
    /\ v > 0 /\ ownerP = NoneP
    /\ ownerP' = c
    /\ detailsP' = [detailsP EXCEPT ![OrgOf[c]] = v]
    /\ UNCHANGED <<agreedP, agreementsP, receivedP>>

(* The agreement of another buyer is overwritten.                         *)
AgreeToTransfer(c, v) ==
    /\ agreementsP[c] < MaxAgreeP                         \* bound
    /\ v > 0 /\ ownerP # NoneP
    /\ detailsP' = [detailsP EXCEPT ![OrgOf[c]] = v]
    /\ agreedP' = c
    /\ agreementsP' = [agreementsP EXCEPT ![c] = @ + 1]
    /\ UNCHANGED <<ownerP, receivedP>>

(* verifyAgreement compares the appraisals of the caller's organization   *)
(* and of the one the caller names.                                       *)
verifyAgreement(c, buyerOrg) ==
    /\ c = ownerP
    /\ detailsP[OrgOf[c]] # NoneP /\ detailsP[buyerOrg] # NoneP
    /\ detailsP[OrgOf[c]] = detailsP[buyerOrg]

(* Without an agreement the read of its buyer fails.                      *)
TransferAssetP(c, buyerOrg) ==
    /\ ownerP # NoneP
    /\ verifyAgreement(c, buyerOrg)
    /\ agreedP # NoneP
    /\ ownerP' = agreedP
    /\ detailsP' = [detailsP EXCEPT ![OrgOf[c]] = NoneP]
    /\ agreedP' = NoneP
    /\ receivedP' = [receivedP EXCEPT ![agreedP] = @ + 1]
    /\ UNCHANGED agreementsP

(* DeleteAsset asks for an appraisal in the caller's collection, not for  *)
(* the owner; PurgeAsset asks for nothing.  Both leave the agreement.     *)
DeleteAssetP(c) ==
    /\ ownerP # NoneP /\ detailsP[OrgOf[c]] # NoneP
    /\ ownerP' = NoneP
    /\ detailsP' = [detailsP EXCEPT ![OrgOf[c]] = NoneP]
    /\ UNCHANGED <<agreedP, agreementsP, receivedP>>

PurgeAssetP(c) ==
    /\ ownerP' = NoneP
    /\ detailsP' = [detailsP EXCEPT ![OrgOf[c]] = NoneP]
    /\ UNCHANGED <<agreedP, agreementsP, receivedP>>

DeleteTranferAgreement(c) ==
    /\ agreedP # NoneP
    /\ detailsP' = [detailsP EXCEPT ![OrgOf[c]] = NoneP]
    /\ agreedP' = NoneP
    /\ UNCHANGED <<ownerP, agreementsP, receivedP>>

NextP == \E c \in Client :
    \/ \E v \in Appraisal : CreateAssetP(c, v) \/ AgreeToTransfer(c, v)
    \/ \E o \in Org : TransferAssetP(c, o)
    \/ DeleteAssetP(c) \/ PurgeAssetP(c) \/ DeleteTranferAgreement(c)

SpecP == InitP /\ [][NextP]_varsP
-----------------------------------------------------------------------------
(* A client is made the owner at most once per agreement of its own, also *)
(* when agreements overwrite each other, outlive the asset and meet an    *)
(* asset created again under the same identifier.                         *)
OneTransferPerAgreement ==
    \A c \in Client : receivedP[c] + (IF agreedP = c THEN 1 ELSE 0) <= agreementsP[c]
=============================================================================
