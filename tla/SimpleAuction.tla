--------------------------- MODULE SimpleAuction ---------------------------
(***************************************************************************)
(* The sealed-bid auction sample (auction-simple/chaincode-go).  A bid is  *)
(* kept in the private collection of the bidder's organization, the        *)
(* auction holds its hash and, once revealed, its content.  A write to the *)
(* auction must be endorsed by every organization of its state-based       *)
(* policy, and each of their peers runs the function with the private data *)
(* that it can see.  One auction identifier is modelled.                   *)
(***************************************************************************)
EXTENDS Fabric, Sequences

CONSTANTS Price, MaxBid, MaxCreate, NoBidder
ASSUME Price1Assumption == Price \subseteq Int

VARIABLES
    status1,        \* of the auction: "none" before it is created
    seller1, policy1, winner1, price1,
    private1,       \* PrivateBids: the keys of submitted bids
    revealed1,      \* RevealedBids: the keys of revealed bids
    bid1,           \* private data: bid1[key] = [org, price, bidder]
    created1        \* bound: how often the auction was created
vars1 == <<status1, seller1, policy1, winner1, price1, private1, revealed1, bid1, created1>>

Init1 == /\ status1 = "none" /\ seller1 = NoBidder /\ policy1 = {}
         /\ winner1 = NoBidder /\ price1 = 0
         /\ private1 = {} /\ revealed1 = {} /\ bid1 = <<>> /\ created1 = 0

(* CreateAuction does not look whether the auction exists: it puts a new  *)
(* one, with the seller's organization as its only endorser.              *)
CreateAuction1(c) ==
    /\ created1 < MaxCreate                               \* bound
    /\ status1' = "open" /\ seller1' = c /\ policy1' = {OrgOf[c]}
    /\ winner1' = NoBidder /\ price1' = 0
    /\ private1' = {} /\ revealed1' = {}
    /\ created1' = created1 + 1
    /\ UNCHANGED bid1

(* The transaction identifier is the key of the bid.                      *)
Bid1(c, price, bidder) ==
    /\ Len(bid1) < MaxBid                                 \* bound
    /\ bid1' = Append(bid1, [org |-> OrgOf[c], price |-> price, bidder |-> bidder])
    /\ UNCHANGED <<status1, seller1, policy1, winner1, price1, private1, revealed1, created1>>

SubmitBid1(c, key) ==
    /\ status1 = "open"
    /\ bid1[key].org = OrgOf[c]
    /\ private1' = private1 \cup {key}
    /\ policy1' = policy1 \cup {OrgOf[c]}
    /\ UNCHANGED <<status1, seller1, winner1, price1, revealed1, bid1, created1>>

RevealBid1(c, key) ==
    /\ bid1[key].org = OrgOf[c]
    /\ status1 = "closed"
    /\ key \in private1
    /\ bid1[key].bidder = c
    /\ revealed1' = revealed1 \cup {key}
    /\ UNCHANGED <<status1, seller1, policy1, winner1, price1, private1, bid1, created1>>

CloseAuction1(c) ==
    /\ status1 = "open" /\ seller1 = c
    /\ status1' = "closed"
    /\ UNCHANGED <<seller1, policy1, winner1, price1, private1, revealed1, bid1, created1>>

(* checkForHigherBid on a peer of organization o: it reads the bids of    *)
(* its own organization that were not revealed.                           *)
checkForHigherBid1(o, price) ==
    \A key \in private1 \ revealed1 : bid1[key].org = o => bid1[key].price <= price

(* Equal prices are told apart by the order in which a map is iterated.   *)
EndAuction1(c) ==
    /\ status1 = "closed" /\ seller1 = c
    /\ revealed1 # {}
    /\ LET best == Max({bid1[key].price : key \in revealed1}) IN
       /\ \/ best > 0 /\ price1' = best
             /\ \E key \in revealed1 : bid1[key].price = best /\ winner1' = bid1[key].bidder
          \/ best <= 0 /\ UNCHANGED <<price1, winner1>>
       /\ \A o \in policy1 : checkForHigherBid1(o, price1')
    /\ status1' = "ended"
    /\ UNCHANGED <<seller1, policy1, private1, revealed1, bid1, created1>>

Next1 == \E c \in Client :
    \/ CreateAuction1(c) \/ CloseAuction1(c) \/ EndAuction1(c)
    \/ \E p \in Price, b \in Client : Bid1(c, p, b)
    \/ \E key \in DOMAIN bid1 : SubmitBid1(c, key) \/ RevealBid1(c, key)

Spec1 == Init1 /\ [][Next1]_vars1
-----------------------------------------------------------------------------
(* An auction ends at a price no submitted bid exceeds, revealed or not:  *)
(* the endorsement of every bidder's organization, gathered bid by bid,   *)
(* stands in for the private data the seller cannot see.                  *)
NoHigherBidLeft ==
    status1 = "ended" => \A key \in private1 : bid1[key].price <= price1
=============================================================================
