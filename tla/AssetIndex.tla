----------------------------- MODULE AssetIndex -----------------------------
(***************************************************************************)
(* The ledger queries sample (asset-transfer-ledger-queries): assets by    *)
(* identifier, and an index of composite keys <<color, identifier>> that   *)
(* TransferAssetByColor walks.                                             *)
(***************************************************************************)
EXTENDS Fabric

CONSTANTS AssetId, Color, Owner, InitialAsset   \* InitialAsset: id -> [color, owner]

(* The assets that InitLedger lists are assets like any other.            *)
ASSUME InitialAssetAssumption ==
    /\ DOMAIN InitialAsset \subseteq AssetId
    /\ \A id \in DOMAIN InitialAsset : InitialAsset[id] \in [color : Color, owner : Owner]

VARIABLES assetI, indexI
varsI == <<assetI, indexI>>

InitI == assetI = <<>> /\ indexI = {}

AssetExistsI(id) == id \in DOMAIN assetI
PutI(f, id, a) == [x \in DOMAIN f \cup {id} |-> IF x = id THEN a ELSE f[x]]

CreateAssetI(id, color, owner) ==
    /\ ~AssetExistsI(id)
    /\ assetI' = PutI(assetI, id, [color |-> color, owner |-> owner])
    /\ indexI' = indexI \cup {<<color, id>>}

(* InitLedger is a CreateAsset for each of a list of assets: one that     *)
(* exists already makes the whole transaction fail.                       *)
InitLedgerI ==
    /\ \A id \in DOMAIN InitialAsset : ~AssetExistsI(id)
    /\ assetI' = [x \in DOMAIN assetI \cup DOMAIN InitialAsset |->
                    IF x \in DOMAIN InitialAsset THEN InitialAsset[x] ELSE assetI[x]]
    /\ indexI' = indexI \cup {<<InitialAsset[id].color, id>> : id \in DOMAIN InitialAsset}

DeleteAssetI(id) ==
    /\ AssetExistsI(id)
    /\ assetI' = [x \in DOMAIN assetI \ {id} |-> assetI[x]]
    /\ indexI' = indexI \ {<<assetI[id].color, id>>}

TransferAssetI(id, owner) ==
    /\ AssetExistsI(id)
    /\ assetI' = [assetI EXCEPT ![id].owner = owner]
    /\ UNCHANGED indexI

(* An index row whose asset cannot be read fails the transaction.         *)
TransferAssetByColor(color, owner) ==
    LET listed == {id \in AssetId : <<color, id>> \in indexI} IN
    /\ \A id \in listed : AssetExistsI(id)
    /\ assetI' = [x \in DOMAIN assetI |->
                    IF x \in listed THEN [assetI[x] EXCEPT !.owner = owner] ELSE assetI[x]]
    /\ UNCHANGED indexI

NextI == \/ InitLedgerI
         \/ \E id \in AssetId : \/ DeleteAssetI(id)
                                \/ \E o \in Owner : \/ TransferAssetI(id, o)
                                                    \/ \E k \in Color : CreateAssetI(id, k, o)
         \/ \E k \in Color, o \in Owner : TransferAssetByColor(k, o)

SpecI == InitI /\ [][NextI]_varsI

(* The queries by owner select among all assets.                          *)
QueryAssetsByOwner(owner) == {id \in DOMAIN assetI : assetI[id].owner = owner}
-----------------------------------------------------------------------------
(* The index lists every asset under its colour and nothing else, after   *)
(* any creations, deletions and creations again in another colour.        *)
IndexMatchesAssets == indexI = {<<assetI[id].color, id>> : id \in DOMAIN assetI}
=============================================================================
