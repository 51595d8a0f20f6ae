------------------------------- MODULE Fabric -------------------------------
(***************************************************************************)
(* What the sample chaincodes of fabric-samples share: the clients that    *)
(* submit transactions, the organization of each, and the width of Go's    *)
(* integers.  A transaction that the peers validate takes effect as one    *)
(* step (Fabric invalidates a transaction whose reads have changed), so    *)
(* each chaincode function is one action; a function that returns an error *)
(* writes nothing and is no step.                                          *)
(***************************************************************************)
EXTENDS FiniteSets, Sums

CONSTANTS
    Client,     \* the identities GetID returns, ordered as their keys sort
    OrgOf,      \* OrgOf[c]: the organization GetMSPID returns for client c
    MinterOrg,  \* "Org1MSP", the organization that may mint
    Operator,   \* bound: the clients that others give approvals or allowances
    MaxInt      \* the largest value of the integer type

(* A finite set of identities in an order, and a Go integer type.         *)
ASSUME FabricAssumption ==
    /\ Client \subseteq Nat \ {0} /\ IsFiniteSet(Client)
    /\ MaxInt \in Nat

Org == {OrgOf[c] : c \in Client}
=============================================================================
