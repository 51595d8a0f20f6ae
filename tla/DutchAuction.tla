---------------------------- MODULE DutchAuction ----------------------------
(***************************************************************************)
(* The uniform-price auction sample (auction-dutch/chaincode-go and its    *)
(* -auditor variant, which the peer of the auditor runs).  Several units   *)
(* are sold; all winners pay the price of the last winner.  A write to the *)
(* auction is endorsed by all organizations that take part or, when the    *)
(* seller asked for an auditor, by the auditor and one of them.            *)
(***************************************************************************)
EXTENDS Fabric, SequencesExt

CONSTANTS PriceD, QuantityD, MaxBidD, NoSeller

(* Prices may be below 0.  Quantities are numbers of units: the sample    *)
(* does not refuse a negative one, the model does not pass one.           *)
(* No organization is called as the auditor's is here.                    *)
ASSUME PriceDAssumption ==
    PriceD \subseteq Int /\ QuantityD \subseteq Nat /\ "auditor" \notin Org

VARIABLES
    statusD, sellerD, quantityD, auditorD,
    orgsD,          \* Orgs, from which the endorsement policy is made
    winnersD,       \* Winners: a sequence of [key, buyer, quantity]
    clearingD,      \* Price
    privateD, revealedD,
    bidD            \* private data: bidD[key] = [org, price, quantity, buyer]
varsD == <<statusD, sellerD, quantityD, auditorD, orgsD, winnersD, clearingD,
           privateD, revealedD, bidD>>

InitD == /\ statusD = "none" /\ sellerD = NoSeller /\ quantityD = 0 /\ auditorD = FALSE
         /\ orgsD = {} /\ winnersD = <<>> /\ clearingD = 0
         /\ privateD = {} /\ revealedD = {} /\ bidD = <<>>

(* setAssetStateBasedEndorsement: the sets of organizations whose peers   *)
(* endorse a write; "auditor" stands for Org3MSP.                         *)
Endorsers == {orgsD} \cup (IF auditorD THEN {{"auditor", o} : o \in orgsD} ELSE {})

CreateAuctionD(c, q, audited) ==
    /\ statusD = "none"                                   \* bound: one auction
    /\ statusD' = "open" /\ sellerD' = c /\ quantityD' = q
    /\ auditorD' = audited /\ orgsD' = {OrgOf[c]}
    /\ UNCHANGED <<winnersD, clearingD, privateD, revealedD, bidD>>

BidD(c, p, q, buyer) ==
    /\ Len(bidD) < MaxBidD                                \* bound
    /\ bidD' = Append(bidD, [org |-> OrgOf[c], price |-> p, quantity |-> q, buyer |-> buyer])
    /\ UNCHANGED <<statusD, sellerD, quantityD, auditorD, orgsD, winnersD, clearingD,
                   privateD, revealedD>>

SubmitUnlisted(c, key) ==
    /\ statusD = "open" /\ bidD[key].org = OrgOf[c]
    /\ privateD' = privateD \cup {key}
    /\ UNCHANGED <<statusD, sellerD, quantityD, auditorD, orgsD, winnersD, clearingD, revealedD, bidD>>
SubmitBidD(c, key) ==
    /\ statusD = "open" /\ bidD[key].org = OrgOf[c]
    /\ privateD' = privateD \cup {key}
    /\ orgsD' = orgsD \cup {OrgOf[c]}
    /\ UNCHANGED <<statusD, sellerD, quantityD, auditorD, winnersD, clearingD, revealedD, bidD>>

RevealBidD(c, key) ==
    /\ bidD[key].org = OrgOf[c] /\ statusD = "closed"
    /\ key \in privateD /\ bidD[key].buyer = c
    /\ revealedD' = revealedD \cup {key}
    /\ UNCHANGED <<statusD, sellerD, quantityD, auditorD, orgsD, winnersD, clearingD,
                   privateD, bidD>>

CloseAuctionD(c) ==
    /\ statusD = "open" /\ sellerD = c
    /\ statusD' = "closed"
    /\ UNCHANGED <<sellerD, quantityD, auditorD, orgsD, winnersD, clearingD, privateD,
                   revealedD, bidD>>

(* The bids by falling price, at one price by rising quantity.            *)
SortedBids(s) ==
    \A i, j \in DOMAIN s : i < j =>
       \/ bidD[s[i]].price > bidD[s[j]].price
       \/ bidD[s[i]].price = bidD[s[j]].price /\ bidD[s[i]].quantity <= bidD[s[j]].quantity

(* Units left for the i-th bid, and the winners: bids are served in order *)
(* while units remain, the last one with what is left.                    *)
Remaining(s, i) == quantityD - SumOver([j \in DOMAIN s |-> bidD[s[j]].quantity], 1..(i - 1))
WinnersOf(s) ==
    LET served == {i \in DOMAIN s : Remaining(s, i) > 0}
    IN [i \in served |-> [key |-> s[i], buyer |-> bidD[s[i]].buyer,
                          quantity |-> Min({bidD[s[i]].quantity, Remaining(s, i)})]]

checkForHigherBidD(o, price) ==
    \A key \in privateD \ revealedD : bidD[key].org = o => bidD[key].price <= price

(* The auditor's peer sees no private bid, and takes no transaction of a  *)
(* client whose organization does not take part.                          *)
AuditorAccepts(c) == OrgOf[c] \in orgsD

EndAuctionD(c) ==
    /\ statusD = "closed" /\ sellerD = c /\ revealedD # {}
    /\ \E s \in SetToSeqs(revealedD) :
          /\ SortedBids(s)
          /\ winnersD' = WinnersOf(s)
          /\ clearingD' = IF WinnersOf(s) = <<>> THEN 0
                          ELSE bidD[s[Len(WinnersOf(s))]].price
    /\ \E e \in Endorsers : \A o \in e : IF o = "auditor" THEN AuditorAccepts(c)
                                         ELSE checkForHigherBidD(o, clearingD')
    /\ statusD' = "ended"
    /\ UNCHANGED <<sellerD, quantityD, auditorD, orgsD, privateD, revealedD, bidD>>

NextD == \E c \in Client :
    \/ \E q \in QuantityD, b \in BOOLEAN : CreateAuctionD(c, q, b)
    \/ CloseAuctionD(c) \/ EndAuctionD(c)
    \/ \E p \in PriceD, q \in QuantityD, b \in Client : BidD(c, p, q, b)
    \/ \E key \in DOMAIN bidD : SubmitBidD(c, key) \/ RevealBidD(c, key)

SpecD == InitD /\ [][NextD]_varsD
-----------------------------------------------------------------------------
Sold == SumOver([i \in DOMAIN winnersD |-> winnersD[i].quantity], DOMAIN winnersD)

(* The auction sells what is asked for and no more than there is: the     *)
(* winners get the smaller of the units on offer and the units revealed.  *)
SellsWhatItCan ==
    statusD = "ended" =>
       Sold = Min({quantityD, SumOver([k \in revealedD |-> bidD[k].quantity], revealedD)})

(* Without an auditor no submitted bid above the clearing price is left   *)
(* out: an organization that takes part has seen all of its own bids.     *)
ClearingPriceFair ==
    statusD = "ended" /\ ~auditorD /\ quantityD > 0 =>
       \A key \in privateD : \/ bidD[key].price <= clearingD
                             \/ \E i \in DOMAIN winnersD : winnersD[i].key = key
=============================================================================
