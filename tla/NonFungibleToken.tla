-------------------------- MODULE NonFungibleToken --------------------------
(***************************************************************************)
(* The ERC-721 sample (token-erc-721/chaincode-go): one record per token   *)
(* with its owner and its approved client, and one empty row per owner and *)
(* token from which BalanceOf counts.                                      *)
(***************************************************************************)
EXTENDS Fabric

CONSTANT TokenId, NoClient
VARIABLES named721, nft721, rows721, operators721
vars721 == <<named721, nft721, rows721, operators721>>

Init721 == /\ named721 = FALSE
           /\ nft721 = <<>>           \* the tokens that exist
           /\ rows721 = {}            \* <<owner, token>>, the balance keys
           /\ operators721 = {}       \* <<owner, operator>>

_nftExists(t) == t \in DOMAIN nft721
IsApprovedForAll721(owner, operator) == <<owner, operator>> \in operators721

Put721(t, nft) == [x \in DOMAIN nft721 \cup {t} |-> IF x = t THEN nft ELSE nft721[x]]

Initialize721(c) ==
    /\ OrgOf[c] = MinterOrg /\ ~named721
    /\ named721' = TRUE
    /\ UNCHANGED <<nft721, rows721, operators721>>

MintWithTokenURI(c, t) ==
    /\ named721 /\ OrgOf[c] = MinterOrg
    /\ ~_nftExists(t)
    /\ nft721' = Put721(t, [owner |-> c, approved |-> NoClient])
    /\ rows721' = rows721 \cup {<<c, t>>}
    /\ UNCHANGED <<named721, operators721>>

Approve721(c, operator, t) ==
    /\ named721 /\ _nftExists(t)
    /\ nft721[t].owner = c \/ IsApprovedForAll721(nft721[t].owner, c)
    /\ nft721' = Put721(t, [nft721[t] EXCEPT !.approved = operator])
    /\ UNCHANGED <<named721, rows721, operators721>>

SetApprovalForAll721(c, operator, approved) ==
    /\ named721
    /\ operators721' = IF approved THEN operators721 \cup {<<c, operator>>}
                                   ELSE operators721 \ {<<c, operator>>}
    /\ UNCHANGED <<named721, nft721, rows721>>

(* The row of the old owner is deleted before that of the new one is put. *)
TransferFrom721(c, from, to, t) ==
    /\ named721 /\ _nftExists(t)
    /\ \/ nft721[t].owner = c
       \/ nft721[t].approved = c
       \/ IsApprovedForAll721(nft721[t].owner, c)
    /\ nft721[t].owner = from
    /\ nft721' = Put721(t, [owner |-> to, approved |-> NoClient])
    /\ rows721' = (rows721 \ {<<from, t>>}) \cup {<<to, t>>}
    /\ UNCHANGED <<named721, operators721>>

Burn721(c, t) ==
    /\ named721 /\ _nftExists(t)
    /\ nft721[t].owner = c
    /\ nft721' = [x \in DOMAIN nft721 \ {t} |-> nft721[x]]
    /\ rows721' = rows721 \ {<<c, t>>}
    /\ UNCHANGED <<named721, operators721>>

Next721 == \E c \in Client :
    \/ Initialize721(c)
    \/ \E o \in Operator, b \in BOOLEAN : SetApprovalForAll721(c, o, b)
    \/ \E t \in TokenId :
          \/ MintWithTokenURI(c, t)
          \/ Burn721(c, t)
          \/ \E o \in Operator : Approve721(c, o, t)
          \/ \E from, to \in Client : TransferFrom721(c, from, to, t)

Spec721 == Init721 /\ [][Next721]_vars721

(* The queries count rows, respectively read the record.                  *)
BalanceOf721(owner) == Cardinality({r \in rows721 : r[1] = owner})
OwnerOf721(t) == nft721[t].owner
TotalSupply721 == Cardinality(DOMAIN nft721)
-----------------------------------------------------------------------------
(* The two places that say who owns a token agree: a token that exists    *)
(* has the row of its owner and no other, and a burned one has none, so   *)
(* that a token minted again after a burn starts without old rows.        *)
RowsMatchOwners ==
    rows721 = {<<OwnerOf721(t), t>> : t \in DOMAIN nft721}
=============================================================================
