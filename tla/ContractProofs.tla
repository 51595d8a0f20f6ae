--------------------------- MODULE ContractProofs ---------------------------
(***************************************************************************)
(* Proofs about the sample chaincodes: offers and agreements end with the  *)
(* transfer they were made for, tokens, outputs, indexes and sums are kept *)
(* by every transaction, the account-based tokens implement the abstract   *)
(* ledger, and auctions end fairly.  All for any number of clients, amounts*)
(* and widths of the integers.                                             *)
(***************************************************************************)
EXTENDS MCContracts, SumTheorems

(* The variables of all chaincodes; a step of the channel is a step of one *)
(* of them and leaves the others alone.                                    *)
allVars == <<deployed, vars20, vars1155, vars721, varsU, vars1, varsD, varsS, varsP, varsI, varsH>>

(* A step of the channel is for each chaincode a step of it or none.       *)
LEMMA OneChaincode ==
    [Next]_allVars => /\ [Next20]_vars20 /\ [Next1155]_vars1155 /\ [Next721]_vars721
                      /\ [NextU]_varsU /\ [Next1]_vars1 /\ [NextD]_varsD
                      /\ [NextS]_varsS /\ [NextP]_varsP /\ [NextI]_varsI /\ [NextH]_varsH
<1>1. ASSUME Next
      PROVE  /\ [Next20]_vars20 /\ [Next1155]_vars1155 /\ [Next721]_vars721
             /\ [NextU]_varsU /\ [Next1]_vars1 /\ [NextD]_varsD
             /\ [NextS]_varsS /\ [NextP]_varsP /\ [NextI]_varsI /\ [NextH]_varsH
      BY <1>1 DEF Next
<1>2. ASSUME UNCHANGED allVars
      PROVE  /\ [Next20]_vars20 /\ [Next1155]_vars1155 /\ [Next721]_vars721
             /\ [NextU]_varsU /\ [Next1]_vars1 /\ [NextD]_varsD
             /\ [NextS]_varsS /\ [NextP]_varsP /\ [NextI]_varsI /\ [NextH]_varsH
      BY <1>2 DEF allVars
<1> QED BY <1>1, <1>2

-----------------------------------------------------------------------------
(* The secured agreement.                                                  *)

TypeS == /\ ownerS \in Org \cup {Nothing}
         /\ propsS \in [Org -> Props \cup {RealProps, Nothing}]
         /\ sellS \in [Org -> PriceS \cup {Nothing}]
         /\ askS \in [Org -> PriceS \cup {Nothing}]
         /\ bidsS \in [Org -> Nat] /\ boughtS \in [Org -> Nat]
         /\ selfS \in BOOLEAN

InvS == TypeS /\ NoStaleOffer /\ OnePurchasePerBid /\ OwnerHoldsProperties

(* No agreement stands and nothing was bought before the first one.        *)
LEMMA InitKeepsS == InitS => InvS
<1> SUFFICES ASSUME InitS PROVE InvS OBVIOUS
<1>1. TypeS BY DEF InitS, TypeS
<1>2. NoStaleOffer BY DEF InitS, NoStaleOffer
<1>3. OnePurchasePerBid BY DEF InitS, OnePurchasePerBid
<1>4. OwnerHoldsProperties BY DEF InitS, OwnerHoldsProperties
<1> QED BY <1>1, <1>2, <1>3, <1>4 DEF InvS

(* The transfer takes the offer and the bid it was made for.               *)
LEMMA TransferKeepsS ==
    ASSUME InvS, NEW o \in Org, NEW b \in Org, NEW p \in PriceS, TransferAssetS(o, b, p)
    PROVE  InvS'
<1> USE NothingAssumption
<1>1. ownerS = o /\ ownerS' = b /\ propsS[b] # Nothing /\ askS[b] # Nothing
      BY DEF TransferAssetS, verifyTransferConditions, transferAssetState
<1>2. /\ propsS' = [propsS EXCEPT ![o] = Nothing] /\ sellS' = [sellS EXCEPT ![o] = Nothing]
      /\ askS' = [askS EXCEPT ![b] = Nothing] /\ boughtS' = [boughtS EXCEPT ![b] = @ + 1]
      /\ bidsS' = bidsS /\ selfS' = (selfS \/ o = b)
      BY DEF TransferAssetS, transferAssetState
<1>3. TypeS' BY <1>1, <1>2 DEF InvS, TypeS
<1>4. NoStaleOffer' BY <1>1, <1>2 DEF InvS, TypeS, NoStaleOffer
<1>5. OnePurchasePerBid'
  <2> SUFFICES ASSUME NEW x \in Org
               PROVE  boughtS'[x] + (IF askS'[x] # Nothing THEN 1 ELSE 0) <= bidsS'[x]
      BY DEF OnePurchasePerBid
  <2>1. boughtS[x] + (IF askS[x] # Nothing THEN 1 ELSE 0) <= bidsS[x] BY DEF InvS, OnePurchasePerBid
  <2>2. boughtS[x] \in Nat /\ bidsS[x] \in Nat BY DEF InvS, TypeS
  <2>3. CASE x = b
    <3>1. boughtS'[x] = boughtS[x] + 1 /\ askS'[x] = Nothing BY <1>2, <2>3 DEF InvS, TypeS
    <3> QED BY <1>1, <1>2, <2>1, <2>2, <2>3, <3>1
  <2>4. CASE x # b
    <3>1. boughtS'[x] = boughtS[x] /\ askS'[x] = askS[x] BY <1>2, <2>4 DEF InvS, TypeS
    <3> QED BY <1>2, <2>1, <3>1
  <2> QED BY <2>3, <2>4
<1>6. OwnerHoldsProperties' BY <1>1, <1>2 DEF InvS, TypeS, OwnerHoldsProperties
<1> QED BY <1>3, <1>4, <1>5, <1>6 DEF InvS

(* Every step of the secured agreement keeps its invariant.                *)
LEMMA StepKeepsS == InvS /\ [NextS]_varsS => InvS'
<1> SUFFICES ASSUME InvS, [NextS]_varsS PROVE InvS' OBVIOUS
<1> USE NothingAssumption
<1>1. ASSUME UNCHANGED varsS PROVE InvS'
      BY <1>1 DEF InvS, TypeS, NoStaleOffer, OnePurchasePerBid, OwnerHoldsProperties, varsS
<1>2. ASSUME NEW o \in Org, CreateAssetS(o) PROVE InvS'
  <2>1. ownerS \in {Nothing, o} /\ ownerS' = o /\ propsS' = [propsS EXCEPT ![o] = RealProps]
        /\ UNCHANGED <<sellS, askS, bidsS, boughtS, selfS>> BY <1>2 DEF CreateAssetS
  <2>2. TypeS' BY <2>1 DEF InvS, TypeS
  <2>3. NoStaleOffer' BY <2>1 DEF InvS, NoStaleOffer
  <2>4. OnePurchasePerBid' BY <2>1 DEF InvS, OnePurchasePerBid
  <2>5. OwnerHoldsProperties' BY <2>1 DEF InvS, TypeS, OwnerHoldsProperties
  <2> QED BY <2>2, <2>3, <2>4, <2>5 DEF InvS
<1>3. ASSUME NEW o \in Org, NEW p \in PriceS, AgreeToSellS(o, p) PROVE InvS'
  <2>1. ownerS = o /\ sellS' = [sellS EXCEPT ![o] = p]
        /\ UNCHANGED <<ownerS, propsS, askS, bidsS, boughtS, selfS>> BY <1>3 DEF AgreeToSellS
  <2>2. TypeS' BY <2>1 DEF InvS, TypeS
  <2>3. NoStaleOffer' BY <2>1 DEF InvS, TypeS, NoStaleOffer
  <2>4. OnePurchasePerBid' BY <2>1 DEF InvS, OnePurchasePerBid
  <2>5. OwnerHoldsProperties' BY <2>1 DEF InvS, OwnerHoldsProperties
  <2> QED BY <2>2, <2>3, <2>4, <2>5 DEF InvS
<1>4. ASSUME NEW o \in Org, NEW p \in PriceS, NEW x \in Props, AgreeToBuyS(o, x, p) PROVE InvS'
  <2>1. propsS' = [propsS EXCEPT ![o] = x] /\ askS' = [askS EXCEPT ![o] = p]
        /\ bidsS' = [bidsS EXCEPT ![o] = @ + 1] /\ UNCHANGED <<ownerS, sellS, boughtS, selfS>>
        BY <1>4 DEF AgreeToBuyS
  <2>2. TypeS' BY <2>1 DEF InvS, TypeS
  <2>3. NoStaleOffer' BY <2>1 DEF InvS, NoStaleOffer
  <2>4. OnePurchasePerBid'
    <3> SUFFICES ASSUME NEW y \in Org
                 PROVE  boughtS'[y] + (IF askS'[y] # Nothing THEN 1 ELSE 0) <= bidsS'[y]
        BY DEF OnePurchasePerBid
    <3>1. boughtS[y] + (IF askS[y] # Nothing THEN 1 ELSE 0) <= bidsS[y] BY DEF InvS, OnePurchasePerBid
    <3>2. boughtS[y] \in Nat /\ bidsS[y] \in Nat BY DEF InvS, TypeS
    <3>3. bidsS'[y] = IF y = o THEN bidsS[y] + 1 ELSE bidsS[y] BY <2>1 DEF InvS, TypeS
    <3>4. y # o => askS'[y] = askS[y] BY <2>1 DEF InvS, TypeS
    <3> QED BY <2>1, <3>1, <3>2, <3>3, <3>4
  <2>5. OwnerHoldsProperties' BY <2>1 DEF InvS, TypeS, OwnerHoldsProperties
  <2> QED BY <2>2, <2>3, <2>4, <2>5 DEF InvS
<1>5. ASSUME NEW o \in Org, NEW p \in PriceS, NEW b \in Org, TransferAssetS(o, b, p) PROVE InvS'
      BY <1>5, TransferKeepsS
<1> QED BY <1>1, <1>2, <1>3, <1>4, <1>5 DEF NextS

-----------------------------------------------------------------------------
(* The private asset.                                                      *)

TypeP == /\ ownerP \in Client \cup {NoneP} /\ agreedP \in Client \cup {NoneP}
         /\ agreementsP \in [Client -> Nat] /\ receivedP \in [Client -> Nat]

InvP == TypeP /\ OneTransferPerAgreement

(* Every step of the private asset keeps its invariant: an agreement is    *)
(* taken by the transfer, dropped, or left standing.                       *)
LEMMA StepKeepsP == InvP /\ [NextP]_varsP => InvP'
<1> SUFFICES ASSUME InvP, [NextP]_varsP PROVE InvP' OBVIOUS
<1> USE NonePAssumption
<1>1. ASSUME UNCHANGED <<agreementsP, receivedP>>, agreedP' \in {agreedP, NoneP},
             ownerP' \in Client \cup {NoneP}
      PROVE  InvP'
  <2>1. TypeP' BY <1>1 DEF InvP, TypeP
  <2>2. ASSUME NEW c \in Client
        PROVE  receivedP'[c] + (IF agreedP' = c THEN 1 ELSE 0) <= agreementsP'[c]
    <3>1. receivedP[c] + (IF agreedP = c THEN 1 ELSE 0) <= agreementsP[c]
          BY DEF InvP, OneTransferPerAgreement
    <3>2. receivedP[c] \in Nat /\ agreementsP[c] \in Nat BY DEF InvP, TypeP
    <3> QED BY <1>1, <3>1, <3>2
  <2> QED BY <2>1, <2>2 DEF InvP, OneTransferPerAgreement
<1>2. ASSUME NEW c \in Client, NEW v \in Appraisal, CreateAssetP(c, v) PROVE InvP'
      BY <1>1, <1>2 DEF CreateAssetP
<1>3. ASSUME NEW c \in Client, NEW v \in Appraisal, AgreeToTransfer(c, v) PROVE InvP'
  <2>1. agreedP' = c /\ agreementsP' = [agreementsP EXCEPT ![c] = @ + 1]
        /\ UNCHANGED <<ownerP, receivedP>> BY <1>3 DEF AgreeToTransfer
  <2>2. TypeP' BY <2>1 DEF InvP, TypeP
  <2>3. ASSUME NEW d \in Client
        PROVE  receivedP'[d] + (IF agreedP' = d THEN 1 ELSE 0) <= agreementsP'[d]
    <3>1. receivedP[d] + (IF agreedP = d THEN 1 ELSE 0) <= agreementsP[d]
          BY DEF InvP, OneTransferPerAgreement
    <3>2. receivedP[d] \in Nat /\ agreementsP[d] \in Nat BY DEF InvP, TypeP
    <3>3. agreementsP'[d] = IF d = c THEN agreementsP[d] + 1 ELSE agreementsP[d]
          BY <2>1 DEF InvP, TypeP
    <3> QED BY <2>1, <3>1, <3>2, <3>3
  <2> QED BY <2>2, <2>3 DEF InvP, OneTransferPerAgreement
<1>4. ASSUME NEW c \in Client, NEW o \in Org, TransferAssetP(c, o) PROVE InvP'
  <2>1. agreedP # NoneP /\ ownerP' = agreedP /\ agreedP' = NoneP
        /\ receivedP' = [receivedP EXCEPT ![agreedP] = @ + 1] /\ agreementsP' = agreementsP
        BY <1>4 DEF TransferAssetP
  <2>2. agreedP \in Client BY <2>1 DEF InvP, TypeP
  <2>3. TypeP' BY <2>1, <2>2 DEF InvP, TypeP
  <2>4. ASSUME NEW d \in Client
        PROVE  receivedP'[d] + (IF agreedP' = d THEN 1 ELSE 0) <= agreementsP'[d]
    <3>1. receivedP[d] + (IF agreedP = d THEN 1 ELSE 0) <= agreementsP[d]
          BY DEF InvP, OneTransferPerAgreement
    <3>2. receivedP[d] \in Nat /\ agreementsP[d] \in Nat BY DEF InvP, TypeP
    <3>3. receivedP'[d] = IF d = agreedP THEN receivedP[d] + 1 ELSE receivedP[d]
          BY <2>1 DEF InvP, TypeP
    <3> QED BY <2>1, <3>1, <3>2, <3>3
  <2> QED BY <2>3, <2>4 DEF InvP, OneTransferPerAgreement
<1>5. ASSUME NEW c \in Client, DeleteAssetP(c) PROVE InvP'
      BY <1>1, <1>5 DEF DeleteAssetP
<1>6. ASSUME NEW c \in Client, PurgeAssetP(c) PROVE InvP'
      BY <1>1, <1>6 DEF PurgeAssetP
<1>7. ASSUME NEW c \in Client, DeleteTranferAgreement(c) PROVE InvP'
      BY <1>1, <1>7 DEF DeleteTranferAgreement, InvP, TypeP
<1>8. ASSUME UNCHANGED varsP PROVE InvP'
      BY <1>1, <1>8 DEF varsP, InvP, TypeP
<1> QED BY <1>2, <1>3, <1>4, <1>5, <1>6, <1>7, <1>8 DEF NextP

(* Offers, bids and agreements end with the transfer they were made for,   *)
(* and the owner holds the properties: TransferAsset of both samples       *)
(* deletes what it was given, whatever was agreed before.                  *)
THEOREM Agreements == Spec => []AgreementsKept
<1>1. Init => InvS /\ InvP
  <2>1. InitP => TypeP BY DEF InitP, TypeP
  <2>2. InitP => OneTransferPerAgreement BY NonePAssumption DEF InitP, OneTransferPerAgreement
  <2> QED BY <2>1, <2>2, InitKeepsS DEF Init, InvP
<1>2. InvS /\ InvP /\ [Next]_allVars => InvS' /\ InvP'
      BY OneChaincode, StepKeepsS, StepKeepsP
<1>3. InvS /\ InvP => AgreementsKept BY DEF InvS, InvP, AgreementsKept
<1> QED BY <1>1, <1>2, <1>3, PTL DEF Spec, allVars

-----------------------------------------------------------------------------
(* The fungible token.                                                     *)

Type20 == /\ named20 \in BOOLEAN
          /\ balance20 \in [Client -> Nat]
          /\ supply20 \in Nat

Inv20 == Type20 /\ SupplyIsHeld

held20 == [c \in Client |-> [k \in {1} |-> balance20[c]]]

(* What all accounts hold, for the supply and for the ledger.              *)
LEMMA Held20 ==
    ASSUME NEW b, b \in [Client -> Nat]
    PROVE  SumOver([c \in Client |-> b[c]], Client) = SumOver(b, Client)
<1>1. \A c \in Client : [x \in Client |-> b[x]][c] = b[c] OBVIOUS
<1> QED BY <1>1, SumSame, FabricAssumption

(* The ledger's total is the sum of the balances.                          *)
LEMMA TotalHeld20 ==
    ASSUME NEW b, b \in [Client -> Nat], NEW h, h = [c \in Client |-> [k \in {1} |-> b[c]]]
    PROVE  Ledger20!Total(h, 1) = SumOver(b, Client)
<1> DEFINE g == [a \in Client |-> h[a][1]]
<1>1. \A c \in Client : g[c] = b[c] OBVIOUS
<1>2. SumOver(g, Client) = SumOver(b, Client)
  <2> HIDE DEF g
  <2> QED BY <1>1, SumSame, FabricAssumption
<1>3. Ledger20!SumOver(g, Client) = SumOver(g, Client)
  <2> HIDE DEF g
  <2> QED BY DEF Ledger20!SumOver, Ledger20!MapThenSumSet, Ledger20!MapThenFoldSet,
                 SumOver, MapThenSumSet, MapThenFoldSet
<1> QED BY <1>2, <1>3 DEF Ledger20!Total

(* The supply in terms of the balances.                                    *)
LEMMA Supply20 == ASSUME Type20 PROVE SupplyIsHeld <=> supply20 = SumOver(balance20, Client)
<1>1. SumOver([c \in Client |-> balance20[c]], Client) = SumOver(balance20, Client)
      BY Held20 DEF Type20
<1> QED BY <1>1 DEF SupplyIsHeld, TotalSupply20, BalanceOf20

(* A transfer moves an amount between two accounts.                        *)
LEMMA Transfer20Moves ==
    ASSUME Inv20, NEW from \in Client, NEW to \in Client, NEW n \in Amounts20,
           transferHelper(from, to, n), UNCHANGED <<named20, supply20>>
    PROVE  Inv20' /\ Ledger20!Move(from)
<1> USE FabricAssumption, Amounts20Assumption
<1>1. from # to /\ n > 0 /\ n <= balance20[from] /\ n \in Int
      BY DEF transferHelper, Subs20
<1>2. balance20' = [balance20 EXCEPT ![from] = balance20[from] - n, ![to] = balance20[to] + n]
      BY DEF transferHelper
<1>3. balance20 \in [Client -> Nat] BY DEF Inv20, Type20
<1>4. /\ balance20'[from] = balance20[from] - n /\ balance20'[to] = balance20[to] + n
      /\ \A c \in Client \ {from, to} : balance20'[c] = balance20[c] BY <1>1, <1>2, <1>3
<1>5. balance20' \in [Client -> Nat] BY <1>1, <1>2, <1>3
<1>6. Ints(balance20, Client) BY <1>3 DEF Ints
<1>7. SumOver(balance20', Client) = SumOver(balance20, Client)
  <2>1. PICK g : g = balance20' OBVIOUS
  <2>2. PICK f : f = balance20 OBVIOUS
  <2>3. Ints(g, Client) BY <1>5, <2>1 DEF Ints
  <2>4. MovesFromTo(from, to, n, f, g, Client) BY <1>1, <1>4, <1>6, <2>1, <2>2, <2>3 DEF MovesFromTo
  <2>5. SumOver(g, Client) = SumOver(f, Client) BY <2>4, SumMove
  <2> QED BY <2>1, <2>2, <2>5
<1>8. Inv20'
  <2>1. Type20' BY <1>5 DEF Inv20, Type20
  <2>2. SumOver([c \in Client |-> balance20'[c]], Client) = SumOver(balance20', Client) BY <1>5, Held20
  <2>3. supply20 = SumOver(balance20, Client) BY Supply20 DEF Inv20
  <2> QED BY <2>1, <2>2, <2>3, <1>7 DEF Inv20, SupplyIsHeld, TotalSupply20, BalanceOf20
<1>9. Ledger20!Move(from)
  <2>1. balance20'[from] \in 0..balance20[from]
        /\ \A b \in Client \ {from} : balance20'[b] >= balance20[b]
    <3>1. balance20[from] \in Nat /\ \A c \in Client : balance20[c] \in Nat BY <1>3
    <3> QED BY <1>1, <1>4, <3>1
  <2>2. Ledger20!Total(held20', 1) = Ledger20!Total(held20, 1)
    <3>1. Ledger20!Total(held20, 1) = SumOver(balance20, Client) BY <1>3, TotalHeld20 DEF held20
    <3>2. Ledger20!Total(held20', 1) = SumOver(balance20', Client) BY <1>5, TotalHeld20 DEF held20
    <3> QED BY <3>1, <3>2, <1>7
  <2> QED BY <2>1, <2>2 DEF Ledger20!Move, held20
<1> QED BY <1>8, <1>9

(* A mint or a burn changes the supply and one account by as much.         *)
LEMMA Change20 ==
    ASSUME Inv20, NEW c \in Client, NEW d \in Int, balance20[c] + d >= 0, supply20 + d >= 0,
           balance20' = [balance20 EXCEPT ![c] = @ + d], supply20' = supply20 + d, UNCHANGED named20
    PROVE  Inv20' /\ Ledger20!OnlyChanges(c)
<1> USE FabricAssumption
<1>1. balance20 \in [Client -> Nat] /\ supply20 \in Nat BY DEF Inv20, Type20
<1>2. balance20'[c] = balance20[c] + d /\ \A b \in Client \ {c} : balance20'[b] = balance20[b] BY <1>1
<1>3. balance20' \in [Client -> Nat] BY <1>1
<1>4. Ints(balance20, Client) /\ Ints(balance20', Client) BY <1>1, <1>3 DEF Ints
<1>5. SumOver(balance20', Client) = SumOver(balance20, Client) - balance20[c] + balance20'[c]
      /\ SumOver(balance20, Client) \in Int
  <2>1. PICK g : g = balance20' OBVIOUS
  <2>2. PICK f : f = balance20 OBVIOUS
  <2>3. ChangesAt(c, f, g, Client) BY <1>2, <1>4, <2>1, <2>2 DEF ChangesAt
  <2>4. SumOver(g, Client) = SumOver(f, Client) - f[c] + g[c] /\ SumOver(f, Client) \in Int
        BY <2>3, SumChange
  <2> QED BY <2>1, <2>2, <2>4
<1>6. Inv20'
  <2>1. Type20' BY <1>1, <1>3 DEF Inv20, Type20
  <2>2. SumOver([x \in Client |-> balance20'[x]], Client) = SumOver(balance20', Client) BY <1>3, Held20
  <2>3. supply20 = SumOver(balance20, Client) BY Supply20 DEF Inv20
  <2>4. balance20[c] \in Nat BY <1>1
  <2>5. supply20' = SumOver(balance20', Client) BY <1>2, <1>5, <2>3, <2>4
  <2> QED BY <2>1, <2>2, <2>5 DEF Inv20, SupplyIsHeld, TotalSupply20, BalanceOf20
<1>7. Ledger20!OnlyChanges(c) BY <1>2 DEF Ledger20!OnlyChanges
<1> QED BY <1>6, <1>7

(* Every step of the fungible token keeps the supply and is one of the     *)
(* ledger.                                                                 *)
LEMMA Step20 == Inv20 /\ [Next20]_vars20 => Inv20' /\ [Ledger20!LedgerNext]_held20
<1> SUFFICES ASSUME Inv20, [Next20]_vars20 PROVE Inv20' /\ [Ledger20!LedgerNext]_held20 OBVIOUS
<1> USE FabricAssumption, Amounts20Assumption
<1>0. balance20 \in [Client -> Nat] /\ supply20 \in Nat BY DEF Inv20, Type20
<1>1. ASSUME UNCHANGED <<balance20, supply20>>, named20' \in BOOLEAN
      PROVE  Inv20' /\ UNCHANGED held20
      BY <1>1 DEF Inv20, Type20, SupplyIsHeld, TotalSupply20, BalanceOf20, held20
<1>2. ASSUME NEW c \in Client, Initialize20(c) PROVE Inv20' /\ [Ledger20!LedgerNext]_held20
      BY <1>1, <1>2 DEF Initialize20
<1>3. ASSUME NEW c \in Client, NEW n \in Amounts20, Mint20(c, n)
      PROVE  Inv20' /\ [Ledger20!LedgerNext]_held20
  <2>1. n > 0 /\ n \in Int /\ balance20' = [balance20 EXCEPT ![c] = @ + n] /\ supply20' = supply20 + n
        /\ UNCHANGED named20 BY <1>3 DEF Mint20
  <2>2. balance20[c] + n >= 0 /\ supply20 + n >= 0 BY <1>0, <2>1
  <2>3. Inv20' /\ Ledger20!OnlyChanges(c) BY <2>1, <2>2, Change20
  <2>4. balance20'[c] >= balance20[c] BY <1>0, <2>1
  <2>5. Ledger20!Issue(c) BY <2>3, <2>4 DEF Ledger20!Issue
  <2> QED BY <2>3, <2>5 DEF Ledger20!LedgerNext
<1>4. ASSUME NEW c \in Client, NEW n \in Amounts20, Burn20(c, n)
      PROVE  Inv20' /\ [Ledger20!LedgerNext]_held20
  <2>1. n > 0 /\ n \in Int /\ balance20' = [balance20 EXCEPT ![c] = @ - n] /\ supply20' = supply20 - n
        /\ UNCHANGED named20 /\ n <= balance20[c] /\ n <= supply20 BY <1>4 DEF Burn20, Subs20
  <2>2. balance20[c] + (-n) >= 0 /\ supply20 + (-n) >= 0 /\ -n \in Int BY <1>0, <2>1
  <2>3. balance20' = [balance20 EXCEPT ![c] = @ + (-n)] /\ supply20' = supply20 + (-n) BY <1>0, <2>1
  <2>4. Inv20' /\ Ledger20!OnlyChanges(c) BY <2>1, <2>2, <2>3, Change20
  <2>5. balance20'[c] \in 0..balance20[c] BY <1>0, <2>1
  <2>6. Ledger20!Retire(c) BY <2>4, <2>5 DEF Ledger20!Retire
  <2> QED BY <2>4, <2>6 DEF Ledger20!LedgerNext
<1>5. ASSUME NEW c \in Client, NEW to \in Client, NEW n \in Amounts20, Transfer20(c, to, n)
      PROVE  Inv20' /\ [Ledger20!LedgerNext]_held20
  <2>1. transferHelper(c, to, n) /\ UNCHANGED <<named20, supply20>> BY <1>5 DEF Transfer20
  <2> QED BY <2>1, Transfer20Moves DEF Ledger20!LedgerNext
<1>6. ASSUME NEW c \in Client, NEW from \in Client, NEW to \in Client, NEW n \in Amounts20,
             TransferFrom20(c, from, to, n)
      PROVE  Inv20' /\ [Ledger20!LedgerNext]_held20
  <2>1. transferHelper(from, to, n) /\ UNCHANGED <<named20, supply20>> BY <1>6 DEF TransferFrom20
  <2> QED BY <2>1, Transfer20Moves DEF Ledger20!LedgerNext
<1>7. ASSUME NEW c \in Client, NEW s \in Operator, NEW n \in Amounts20, Approve20(c, s, n)
      PROVE  Inv20' /\ [Ledger20!LedgerNext]_held20
      BY <1>1, <1>7 DEF Approve20, Inv20, Type20
<1>8. ASSUME UNCHANGED vars20 PROVE Inv20' /\ [Ledger20!LedgerNext]_held20
      BY <1>1, <1>8 DEF vars20, Inv20, Type20
<1> QED BY <1>2, <1>3, <1>4, <1>5, <1>6, <1>7, <1>8 DEF Next20

(* Nothing is held before the first mint.                                  *)
LEMMA InitKeeps20 == Init20 => Inv20 /\ Ledger20!LedgerInit
<1> SUFFICES ASSUME Init20 PROVE Inv20 /\ Ledger20!LedgerInit OBVIOUS
<1>1. Type20 BY DEF Init20, Type20
<1>2. \A c \in Client : balance20[c] = 0 BY DEF Init20
<1>3. SumOver(balance20, Client) = 0 BY <1>2, SumZero, FabricAssumption
<1>4. SupplyIsHeld BY <1>1, <1>3, Supply20 DEF Init20
<1>5. Ledger20!LedgerInit BY <1>2 DEF Ledger20!LedgerInit
<1> QED BY <1>1, <1>4, <1>5 DEF Inv20

-----------------------------------------------------------------------------
(* The multi-token: the rows of an account and a token type are split,     *)
(* collected and returned, their sum is what the ledger holds.             *)

Rows1155 == [Client -> [Id1155 -> [Client -> Nat]]]
Type1155 == rows1155 \in Rows1155

(* What a call brings to each account.                                     *)
Adds1155(add) == \A t \in Client : \A i \in Id1155 : add[t][i] \in Nat

held1155 == [a \in Client |-> [i \in Id1155 |-> balanceOfHelper(a, i)]]

(* Amounts grouped by token type, and by recipient and token type.         *)
LEMMA Grouped ==
    ASSUME NEW batch \in Batch1155
    PROVE  /\ GroupById(batch) \in [Id1155 -> Nat]
           /\ Adds1155(GroupByToId(batch))
           /\ IsFiniteSet(DOMAIN batch) /\ 1 \in DOMAIN batch
           /\ \A k \in DOMAIN batch : batch[k].n \in Nat /\ batch[k].id \in Id1155 /\ batch[k].to \in Address
<1>1. PICK I : /\ I = [to : Client \cup {0}, id : Id1155, n : Nat]
               /\ batch \in Seq(I) /\ batch # <<>> BY MultiTokenAssumption
<1>2. Len(batch) \in Nat /\ DOMAIN batch = 1..Len(batch) /\ \A k \in DOMAIN batch : batch[k] \in I
  <2>1. batch \in Seq(I) BY <1>1
  <2>2. Len(batch) \in Nat BY <2>1
  <2>3. DOMAIN batch = 1..Len(batch) BY <2>1
  <2>4. \A k \in DOMAIN batch : batch[k] \in I BY <2>1
  <2> QED BY <2>2, <2>3, <2>4
<1>3. IsFiniteSet(DOMAIN batch)
  <2>1. PICK l \in Nat : DOMAIN batch = 1..l BY <1>2
  <2>2. IsFiniteSet(1..l) BY FS_Interval
  <2> QED BY <2>1, <2>2
<1>4. 1 \in DOMAIN batch
  <2>1. Len(batch) # 0 BY <1>1
  <2> QED BY <1>2, <2>1
<1>5. \A k \in DOMAIN batch : batch[k].n \in Nat /\ batch[k].id \in Id1155 /\ batch[k].to \in Address
  <2> TAKE k \in DOMAIN batch
  <2>1. batch[k] \in I BY <1>2
  <2>2. batch[k] \in [to : Client \cup {0}, id : Id1155, n : Nat] BY <1>1, <2>1
  <2> QED BY <2>2 DEF Address, Zero
<1>6. GroupById(batch) \in [Id1155 -> Nat]
  <2>1. ASSUME NEW i \in Id1155 PROVE GroupById(batch)[i] \in Nat
    <3>1. PICK f : f = [k \in DOMAIN batch |-> IF batch[k].id = i THEN batch[k].n ELSE 0] OBVIOUS
    <3>2. \A k \in DOMAIN batch : f[k] \in Nat BY <1>5, <3>1
    <3>3. SumOver(f, DOMAIN batch) \in Nat BY <1>3, <3>2, SumNat
    <3> QED BY <3>1, <3>3 DEF GroupById
  <2>2. GroupById(batch) = [i \in Id1155 |-> GroupById(batch)[i]] BY DEF GroupById
  <2> QED BY <2>1, <2>2
<1>7. Adds1155(GroupByToId(batch))
  <2> SUFFICES ASSUME NEW t \in Client, NEW i \in Id1155 PROVE GroupByToId(batch)[t][i] \in Nat BY DEF Adds1155
  <2>1. PICK f : f = [k \in DOMAIN batch |-> IF batch[k].id = i /\ batch[k].to = t THEN batch[k].n ELSE 0] OBVIOUS
  <2>2. \A k \in DOMAIN batch : f[k] \in Nat BY <1>5, <2>1
  <2>3. SumOver(f, DOMAIN batch) \in Nat BY <1>3, <2>2, SumNat
  <2> QED BY <2>1, <2>3 DEF GroupByToId, Address
<1> QED BY <1>3, <1>4, <1>5, <1>6, <1>7

(* Who is no recipient gets nothing.                                       *)
LEMMA GetsNothing ==
    ASSUME NEW batch \in Batch1155, NEW t \in Client, \A k \in DOMAIN batch : batch[k].to # t, NEW i \in Id1155
    PROVE  GroupByToId(batch)[t][i] = 0
<1>1. PICK f : f = [k \in DOMAIN batch |-> IF batch[k].id = i /\ batch[k].to = t THEN batch[k].n ELSE 0] OBVIOUS
<1>2. \A k \in DOMAIN batch : f[k] = 0 BY <1>1
<1>3. IsFiniteSet(DOMAIN batch) BY Grouped
<1>4. SumOver(f, DOMAIN batch) = 0 BY <1>2, <1>3, SumZero
<1> QED BY <1>1, <1>4 DEF GroupByToId, Address

(* The recipients get together what the call needs.                        *)
LEMMA GroupsAddUp ==
    ASSUME NEW batch \in Batch1155, \A k \in DOMAIN batch : batch[k].to # Zero, NEW i \in Id1155
    PROVE  SumOver([t \in Client |-> GroupByToId(batch)[t][i]], Client) = GroupById(batch)[i]
<1> USE FabricAssumption
<1>1. PICK D : D = DOMAIN batch OBVIOUS
<1>2. IsFiniteSet(D) /\ \A k \in D : batch[k].n \in Nat /\ batch[k].to \in Client BY <1>1, Grouped DEF Address
<1>3. PICK f : f = [t \in Client |-> [k \in D |->
                       IF batch[k].id = i /\ batch[k].to = t THEN batch[k].n ELSE 0]] OBVIOUS
<1>4. \A t \in Client : \A k \in D :
          f[t][k] = IF batch[k].id = i /\ batch[k].to = t THEN batch[k].n ELSE 0 BY <1>3
<1>5. \A t \in Client : \A k \in D : f[t][k] \in Int BY <1>2, <1>4
<1>6. SumOver([t \in Client |-> SumOver([k \in D |-> f[t][k]], D)], Client)
      = SumOver([k \in D |-> SumOver([t \in Client |-> f[t][k]], Client)], D) BY <1>2, <1>5, SumSwap
<1>7. \A t \in Client : GroupByToId(batch)[t][i] = SumOver([k \in D |-> f[t][k]], D)
  <2> TAKE t \in Client
  <2>1. [k \in D |-> f[t][k]] = [k \in D |-> IF batch[k].id = i /\ batch[k].to = t THEN batch[k].n ELSE 0] BY <1>4
  <2> QED BY <1>1, <2>1 DEF GroupByToId, Address
<1>8. [t \in Client |-> GroupByToId(batch)[t][i]] = [t \in Client |-> SumOver([k \in D |-> f[t][k]], D)] BY <1>7
<1>9. ASSUME NEW k \in D
      PROVE  SumOver([t \in Client |-> f[t][k]], Client) = IF batch[k].id = i THEN batch[k].n ELSE 0
  <2>1. PICK g : g = [t \in Client |-> f[t][k]] OBVIOUS
  <2>2. g[batch[k].to] = IF batch[k].id = i THEN batch[k].n ELSE 0 BY <1>2, <1>4, <2>1
  <2>3. \A t \in Client \ {batch[k].to} : g[t] = 0 BY <1>4, <2>1
  <2>4. batch[k].to \in Client /\ g[batch[k].to] \in Int BY <1>2, <2>2
  <2>5. SumOver(g, Client) = g[batch[k].to] BY <2>3, <2>4, SumOne
  <2> QED BY <2>1, <2>2, <2>5
<1>10. [k \in D |-> SumOver([t \in Client |-> f[t][k]], Client)]
       = [k \in D |-> IF batch[k].id = i THEN batch[k].n ELSE 0] BY <1>9
<1>11. GroupById(batch)[i] = SumOver([k \in D |-> IF batch[k].id = i THEN batch[k].n ELSE 0], D)
       BY <1>1 DEF GroupById
<1> QED BY <1>6, <1>8, <1>10, <1>11

(* A withdrawal takes what it is asked for, and never more than there is.  *)
LEMMA WithdrawnSum ==
    ASSUME NEW row \in [Client -> Nat], NEW self \in Client, NEW n \in Nat, Withdrawable(row, self, n)
    PROVE  /\ Withdrawn(row, self, n) \in [Client -> Nat]
           /\ SumOver(Withdrawn(row, self, n), Client) = SumOver(row, Client) - n
<1> USE FabricAssumption
<1>1. PICK seen : seen = Visited(row, n) OBVIOUS
<1>2. PICK rest : rest = Client \ seen OBVIOUS
<1>3. /\ seen \subseteq Client /\ rest \subseteq Client /\ seen \cap rest = {} /\ seen \cup rest = Client
      BY <1>1, <1>2 DEF Visited
<1>4. IsFiniteSet(seen) /\ IsFiniteSet(rest) BY <1>3, FS_Subset
<1>5. PICK got : got = SumOver(row, seen) OBVIOUS
<1>6. got \in Nat
  <2>1. \A x \in seen : row[x] \in Nat BY <1>3
  <2> QED BY <1>4, <1>5, <2>1, SumNat
<1>7. got - n \in Nat BY <1>1, <1>5, <1>6 DEF Withdrawable
<1>8. PICK g : g = Withdrawn(row, self, n) OBVIOUS
<1>9. g = [s \in Client |-> CASE s = self /\ s \in seen -> got - n
                              [] s = self /\ s \notin seen -> row[s] + (got - n)
                              [] s # self -> IF s \in seen THEN 0 ELSE row[s]]
      BY <1>1, <1>5, <1>8 DEF Withdrawn
<1>10. /\ self \in seen => g[self] = got - n
       /\ self \notin seen => g[self] = row[self] + (got - n)
       /\ \A s \in seen \ {self} : g[s] = 0
       /\ \A s \in rest \ {self} : g[s] = row[s] BY <1>3, <1>9
<1>11. g \in [Client -> Nat]
  <2>1. ASSUME NEW s \in Client PROVE g[s] \in Nat BY <1>3, <1>7, <1>10
  <2>2. g = [s \in Client |-> g[s]] BY <1>9
  <2> QED BY <2>1, <2>2
<1>12. Ints(row, Client) /\ Ints(g, Client) BY <1>11 DEF Ints
<1>13. /\ Ints(row, seen) /\ Ints(g, seen) /\ Ints(row, rest) /\ Ints(g, rest)
       /\ Ints(row, seen \cup rest) /\ Ints(g, seen \cup rest) BY <1>3, <1>12 DEF Ints
<1>14. /\ SumOver(row, Client) = got + SumOver(row, rest)
       /\ SumOver(g, Client) = SumOver(g, seen) + SumOver(g, rest)
  <2>1. SumOver(row, seen \cup rest) = SumOver(row, seen) + SumOver(row, rest) BY <1>3, <1>4, <1>13, SumUnion
  <2>2. SumOver(g, seen \cup rest) = SumOver(g, seen) + SumOver(g, rest) BY <1>3, <1>4, <1>13, SumUnion
  <2> QED BY <1>3, <1>5, <2>1, <2>2
<1>15. SumOver(row, rest) \in Int BY <1>4, <1>13, SumInt
<1>16. CASE self \in seen
  <2>1. SumOver(g, seen) = got - n
    <3>1. g[self] = got - n /\ g[self] \in Int BY <1>7, <1>10, <1>16
    <3>2. \A s \in seen \ {self} : g[s] = 0 BY <1>10
    <3>3. SumOver(g, seen) = g[self] BY <1>4, <1>16, <3>1, <3>2, SumOne
    <3> QED BY <3>1, <3>3
  <2>2. \A s \in rest : g[s] = row[s] BY <1>3, <1>10, <1>16
  <2>3. SumOver(g, rest) = SumOver(row, rest) BY <1>4, <2>2, SumSame
  <2>4. SumOver(g, Client) = SumOver(row, Client) - n BY <1>6, <1>14, <1>15, <2>1, <2>3
  <2> QED BY <1>8, <1>11, <2>4
<1>17. CASE self \notin seen
  <2>1. \A s \in seen : g[s] = 0 BY <1>10, <1>17
  <2>2. SumOver(g, seen) = 0 BY <1>4, <2>1, SumZero
  <2>3. ChangesAt(self, row, g, rest) BY <1>3, <1>4, <1>10, <1>13, <1>17 DEF ChangesAt
  <2>4. SumOver(g, rest) = SumOver(row, rest) - row[self] + g[self] BY <2>3, SumChange
  <2>5. g[self] = row[self] + (got - n) /\ row[self] \in Nat BY <1>10, <1>17
  <2>6. SumOver(g, Client) = SumOver(row, Client) - n BY <1>6, <1>14, <1>15, <2>2, <2>4, <2>5
  <2> QED BY <1>8, <1>11, <2>6
<1> QED BY <1>16, <1>17

(* A deposit adds what it brings to the row of its sender.                 *)
LEMMA AddHeld ==
    ASSUME NEW rows \in Rows1155, NEW s \in Client, NEW add, Adds1155(add)
    PROVE  /\ addBalance(s, add, rows) \in Rows1155
           /\ \A t \in Client : \A i \in Id1155 :
                 SumOver(addBalance(s, add, rows)[t][i], Client) = SumOver(rows[t][i], Client) + add[t][i]
<1> USE FabricAssumption
<1>1. PICK new : new = addBalance(s, add, rows) OBVIOUS
<1>2. new = [t \in Client |-> [i \in Id1155 |-> [rows[t][i] EXCEPT ![s] = @ + add[t][i]]]]
      BY <1>1 DEF addBalance
<1>3. ASSUME NEW t \in Client, NEW i \in Id1155
      PROVE  new[t][i] \in [Client -> Nat]
             /\ SumOver(new[t][i], Client) = SumOver(rows[t][i], Client) + add[t][i]
  <2>1. PICK f : f = rows[t][i] OBVIOUS
  <2>2. PICK g : g = new[t][i] OBVIOUS
  <2>3. f \in [Client -> Nat] BY <2>1 DEF Rows1155
  <2>4. add[t][i] \in Nat BY DEF Adds1155
  <2>5. g = [f EXCEPT ![s] = f[s] + add[t][i]] BY <1>2, <2>1, <2>2
  <2>6. g \in [Client -> Nat] /\ g[s] = f[s] + add[t][i] /\ f[s] \in Nat
        /\ \A x \in Client \ {s} : g[x] = f[x] BY <2>3, <2>4, <2>5
  <2>7. Ints(f, Client) /\ Ints(g, Client) BY <2>3, <2>6 DEF Ints
  <2>8. ChangesAt(s, f, g, Client) BY <2>6, <2>7 DEF ChangesAt
  <2>9. SumOver(g, Client) = SumOver(f, Client) - f[s] + g[s] /\ SumOver(f, Client) \in Int BY <2>8, SumChange
  <2>10. SumOver(g, Client) = SumOver(f, Client) + add[t][i] BY <2>4, <2>6, <2>9
  <2> QED BY <2>1, <2>2, <2>6, <2>10
<1>4. new \in Rows1155
  <2>1. new = [t \in Client |-> [i \in Id1155 |-> new[t][i]]] BY <1>2
  <2> QED BY <1>3, <2>1 DEF Rows1155
<1> QED BY <1>1, <1>3, <1>4

(* A withdrawal touches one account.                                       *)
LEMMA RemoveHeld ==
    ASSUME NEW rows \in Rows1155, NEW account \in Client, NEW need \in [Id1155 -> Nat],
           \A i \in Id1155 : Withdrawable(rows[account][i], account, need[i])
    PROVE  /\ removeBalance(account, need, rows) \in Rows1155
           /\ \A t \in Client : \A i \in Id1155 :
                 SumOver(removeBalance(account, need, rows)[t][i], Client)
                 = SumOver(rows[t][i], Client) - (IF t = account THEN need[i] ELSE 0)
<1> USE FabricAssumption
<1>1. PICK new : new = removeBalance(account, need, rows) OBVIOUS
<1>2. new = [rows EXCEPT ![account] = [i \in Id1155 |-> Withdrawn(rows[account][i], account, need[i])]]
      BY <1>1 DEF removeBalance
<1>3. ASSUME NEW t \in Client, NEW i \in Id1155
      PROVE  new[t][i] \in [Client -> Nat]
             /\ SumOver(new[t][i], Client) = SumOver(rows[t][i], Client) - (IF t = account THEN need[i] ELSE 0)
  <2>1. rows[t][i] \in [Client -> Nat] /\ need[i] \in Nat BY DEF Rows1155
  <2>2. CASE t = account
    <3>1. new[t][i] = Withdrawn(rows[t][i], t, need[i]) BY <1>2, <2>2 DEF Rows1155
    <3>2. Withdrawable(rows[t][i], t, need[i]) BY <2>2
    <3> QED BY <2>1, <2>2, <3>1, <3>2, WithdrawnSum
  <2>3. CASE t # account
    <3>1. new[t][i] = rows[t][i] BY <1>2, <2>3 DEF Rows1155
    <3>2. \A x \in Client : rows[t][i][x] \in Int BY <2>1
    <3>3. SumOver(rows[t][i], Client) \in Int BY <3>2, SumInt DEF Ints
    <3> QED BY <2>1, <2>3, <3>1, <3>3
  <2> QED BY <2>2, <2>3
<1>4. new \in Rows1155
  <2>1. DOMAIN new = Client /\ \A t \in Client : DOMAIN new[t] = Id1155 /\ new[t] = [i \in Id1155 |-> new[t][i]]
        BY <1>2 DEF Rows1155
  <2>2. \A t \in Client : new[t] \in [Id1155 -> [Client -> Nat]] BY <1>3, <2>1
  <2>3. new = [t \in Client |-> new[t]] BY <1>2 DEF Rows1155
  <2> QED BY <2>2, <2>3 DEF Rows1155
<1> QED BY <1>1, <1>3, <1>4

(* What the accounts hold.                                                 *)
LEMMA Holds1155 == ASSUME Type1155
                   PROVE  \A t \in Client : \A i \in Id1155 :
                             held1155[t][i] = SumOver(rows1155[t][i], Client) /\ held1155[t][i] \in Nat
<1> SUFFICES ASSUME NEW t \in Client, NEW i \in Id1155
             PROVE  held1155[t][i] = SumOver(rows1155[t][i], Client) /\ held1155[t][i] \in Nat OBVIOUS
<1>1. held1155[t][i] = SumOver(rows1155[t][i], Client) BY DEF held1155, balanceOfHelper
<1>2. \A x \in Client : rows1155[t][i][x] \in Nat BY DEF Type1155, Rows1155
<1>3. SumOver(rows1155[t][i], Client) \in Nat BY <1>2, SumNat, FabricAssumption
<1> QED BY <1>1, <1>3

(* So do they after a step.                                                *)
LEMMA Holds1155Next ==
    ASSUME Type1155'
    PROVE  \A t \in Client : \A i \in Id1155 :
              held1155'[t][i] = SumOver(rows1155'[t][i], Client) /\ held1155'[t][i] \in Nat
<1> SUFFICES ASSUME NEW t \in Client, NEW i \in Id1155
             PROVE  held1155'[t][i] = SumOver(rows1155'[t][i], Client) /\ held1155'[t][i] \in Nat OBVIOUS
<1>1. held1155'[t][i] = SumOver(rows1155'[t][i], Client) BY DEF held1155, balanceOfHelper
<1>2. PICK r : r = rows1155' OBVIOUS
<1>3. \A x \in Client : r[t][i][x] \in Nat BY <1>2 DEF Type1155, Rows1155
<1>4. SumOver(r[t][i], Client) \in Nat BY <1>3, SumNat, FabricAssumption
<1> QED BY <1>1, <1>2, <1>4

(* The ledger's total.                                                     *)
LEMMA Total1155 ==
    ASSUME NEW h, NEW i \in Id1155, NEW g, \A t \in Client : g[t] = h[t][i]
    PROVE  Ledger1155!Total(h, i) = SumOver(g, Client)
<1> DEFINE b == [a \in Client |-> h[a][i]]
<1>1. \A c \in Client : b[c] = g[c] OBVIOUS
<1>2. SumOver(b, Client) = SumOver(g, Client)
  <2> HIDE DEF b
  <2> QED BY <1>1, SumSame, FabricAssumption
<1>3. Ledger1155!SumOver(b, Client) = SumOver(b, Client)
  <2> HIDE DEF b
  <2> QED BY DEF Ledger1155!SumOver, Ledger1155!MapThenSumSet, Ledger1155!MapThenFoldSet,
                 SumOver, MapThenSumSet, MapThenFoldSet
<1> QED BY <1>2, <1>3 DEF Ledger1155!Total

(* A step that leaves the rows alone.                                      *)
LEMMA SameRows1155 ==
    ASSUME Type1155, UNCHANGED rows1155 PROVE Type1155' /\ UNCHANGED held1155
BY DEF Type1155, held1155, balanceOfHelper

(* A mint issues tokens to its one recipient.                              *)
LEMMA MintIssues ==
    ASSUME Type1155, NEW c \in Client, NEW batch \in Batch1155, MintBatch1155(c, batch)
    PROVE  Type1155' /\ \E a \in Client : Ledger1155!Issue(a)
<1>1. PICK add : add = GroupByToId(batch) OBVIOUS
<1>2. Adds1155(add) BY <1>1, Grouped
<1>3. rows1155' = addBalance(c, add, rows1155) BY <1>1 DEF MintBatch1155
<1>4. Type1155' /\ \A t \in Client : \A i \in Id1155 :
          SumOver(rows1155'[t][i], Client) = SumOver(rows1155[t][i], Client) + add[t][i]
      BY <1>2, <1>3, AddHeld DEF Type1155
<1>5. PICK a \in Client : \A k \in DOMAIN batch : batch[k].to = a
  <2>1. 1 \in DOMAIN batch /\ batch[1].to \in Address /\ batch[1].to # Zero BY Grouped DEF MintBatch1155
  <2>2. \A k \in DOMAIN batch : batch[k].to = batch[1].to BY <2>1 DEF MintBatch1155, SameTo
  <2> QED BY <2>1, <2>2 DEF Address
<1>6. \A t \in Client \ {a} : \A i \in Id1155 : add[t][i] = 0 BY <1>1, <1>5, GetsNothing
<1>7. \A t \in Client : \A i \in Id1155 :
          /\ held1155'[t][i] = held1155[t][i] + add[t][i]
          /\ held1155'[t][i] \in Nat /\ held1155[t][i] \in Nat
  <2> TAKE t \in Client
  <2> TAKE i \in Id1155
  <2>1. held1155[t][i] = SumOver(rows1155[t][i], Client) /\ held1155[t][i] \in Nat BY Holds1155
  <2>2. held1155'[t][i] = SumOver(rows1155'[t][i], Client) /\ held1155'[t][i] \in Nat BY <1>4, Holds1155Next
  <2> QED BY <1>4, <2>1, <2>2
<1>8. Ledger1155!OnlyChanges(a)
  <2> SUFFICES ASSUME NEW b \in Client \ {a} PROVE held1155'[b] = held1155[b]
      BY DEF Ledger1155!OnlyChanges, held1155
  <2>1. \A i \in Id1155 : held1155'[b][i] = held1155[b][i] BY <1>6, <1>7
  <2>2. held1155'[b] = [i \in Id1155 |-> held1155'[b][i]] /\ held1155[b] = [i \in Id1155 |-> held1155[b][i]]
        BY DEF held1155
  <2> QED BY <2>1, <2>2
<1>9. \A i \in Id1155 : held1155'[a][i] >= held1155[a][i] BY <1>2, <1>7 DEF Adds1155
<1>10. Ledger1155!Issue(a) BY <1>8, <1>9 DEF Ledger1155!Issue, held1155
<1> QED BY <1>4, <1>10

(* A burn retires tokens of one account.                                   *)
LEMMA BurnRetires ==
    ASSUME Type1155, NEW c \in Client, NEW a \in Client, NEW batch \in Batch1155, BurnBatch1155(c, a, batch)
    PROVE  Type1155' /\ Ledger1155!Retire(a)
<1>1. PICK need : need = GroupById(batch) OBVIOUS
<1>2. need \in [Id1155 -> Nat] BY <1>1, Grouped
<1>3. rows1155' = removeBalance(a, need, rows1155) /\ CanRemove(a, need) BY <1>1 DEF BurnBatch1155
<1>4. \A i \in Id1155 : Withdrawable(rows1155[a][i], a, need[i]) BY <1>3 DEF CanRemove
<1>5. Type1155' /\ \A t \in Client : \A i \in Id1155 :
          SumOver(rows1155'[t][i], Client)
          = SumOver(rows1155[t][i], Client) - (IF t = a THEN need[i] ELSE 0)
      BY <1>2, <1>3, <1>4, RemoveHeld DEF Type1155
<1>6. \A t \in Client : \A i \in Id1155 :
          /\ held1155'[t][i] = held1155[t][i] - (IF t = a THEN need[i] ELSE 0)
          /\ held1155'[t][i] \in Nat /\ held1155[t][i] \in Nat
  <2> TAKE t \in Client
  <2> TAKE i \in Id1155
  <2>1. held1155[t][i] = SumOver(rows1155[t][i], Client) /\ held1155[t][i] \in Nat BY Holds1155
  <2>2. held1155'[t][i] = SumOver(rows1155'[t][i], Client) /\ held1155'[t][i] \in Nat BY <1>5, Holds1155Next
  <2> QED BY <1>5, <2>1, <2>2
<1>7. Ledger1155!OnlyChanges(a)
  <2> SUFFICES ASSUME NEW b \in Client \ {a} PROVE held1155'[b] = held1155[b]
      BY DEF Ledger1155!OnlyChanges, held1155
  <2>1. \A i \in Id1155 : held1155'[b][i] = held1155[b][i] BY <1>6
  <2>2. held1155'[b] = [i \in Id1155 |-> held1155'[b][i]] /\ held1155[b] = [i \in Id1155 |-> held1155[b][i]]
        BY DEF held1155
  <2> QED BY <2>1, <2>2
<1>8. \A i \in Id1155 : held1155'[a][i] \in 0..held1155[a][i]
  <2> TAKE i \in Id1155
  <2>1. need[i] \in Nat BY <1>2
  <2>2. held1155'[a][i] = held1155[a][i] - need[i] /\ held1155'[a][i] \in Nat /\ held1155[a][i] \in Nat BY <1>6
  <2> QED BY <2>1, <2>2
<1>9. Ledger1155!Retire(a) BY <1>7, <1>8 DEF Ledger1155!Retire, held1155
<1> QED BY <1>5, <1>9

(* A transfer moves tokens out of one account.                             *)
LEMMA TransferMoves1155 ==
    ASSUME Type1155, NEW c \in Client, NEW a \in Client, NEW batch \in Batch1155, Transfers1155(c, a, batch)
    PROVE  Type1155' /\ Ledger1155!Move(a)
<1> USE FabricAssumption
<1>1. PICK need : need = GroupById(batch) OBVIOUS
<1>2. PICK add : add = GroupByToId(batch) OBVIOUS
<1>3. need \in [Id1155 -> Nat] /\ Adds1155(add) BY <1>1, <1>2, Grouped
<1>4. PICK mid : mid = removeBalance(a, need, rows1155) OBVIOUS
<1>5. rows1155' = addBalance(a, add, mid) /\ CanRemove(a, need) BY <1>1, <1>2, <1>4 DEF Transfers1155
<1>6. \A i \in Id1155 : Withdrawable(rows1155[a][i], a, need[i]) BY <1>5 DEF CanRemove
<1>7. mid \in Rows1155 /\ \A t \in Client : \A i \in Id1155 :
          SumOver(mid[t][i], Client) = SumOver(rows1155[t][i], Client) - (IF t = a THEN need[i] ELSE 0)
      BY <1>3, <1>4, <1>6, RemoveHeld DEF Type1155
<1>8. Type1155' /\ \A t \in Client : \A i \in Id1155 :
          SumOver(rows1155'[t][i], Client) = SumOver(mid[t][i], Client) + add[t][i]
      BY <1>3, <1>5, <1>7, AddHeld DEF Type1155
<1>9. \A i \in Id1155 : add[a][i] = 0 BY <1>2, GetsNothing DEF Transfers1155
<1>10. \A t \in Client : \A i \in Id1155 :
          /\ held1155'[t][i] = held1155[t][i] - (IF t = a THEN need[i] ELSE 0) + add[t][i]
          /\ held1155'[t][i] \in Nat /\ held1155[t][i] \in Nat /\ need[i] \in Nat /\ add[t][i] \in Nat
  <2> TAKE t \in Client
  <2> TAKE i \in Id1155
  <2>1. held1155[t][i] = SumOver(rows1155[t][i], Client) /\ held1155[t][i] \in Nat BY Holds1155
  <2>2. held1155'[t][i] = SumOver(rows1155'[t][i], Client) /\ held1155'[t][i] \in Nat BY <1>8, Holds1155Next
  <2>3. need[i] \in Nat /\ add[t][i] \in Nat BY <1>3 DEF Adds1155
  <2> QED BY <1>7, <1>8, <2>1, <2>2, <2>3
<1>11. ASSUME NEW i \in Id1155
       PROVE  /\ held1155'[a][i] \in 0..held1155[a][i]
              /\ \A b \in Client \ {a} : held1155'[b][i] >= held1155[b][i]
              /\ Ledger1155!Total(held1155', i) = Ledger1155!Total(held1155, i)
  <2>1. held1155'[a][i] \in 0..held1155[a][i]
    <3>1. held1155'[a][i] = held1155[a][i] - need[i] + 0 /\ held1155'[a][i] \in Nat
          /\ held1155[a][i] \in Nat /\ need[i] \in Nat BY <1>9, <1>10
    <3> QED BY <3>1
  <2>2. ASSUME NEW b \in Client \ {a} PROVE held1155'[b][i] >= held1155[b][i]
    <3>1. held1155'[b][i] = held1155[b][i] - 0 + add[b][i]
          /\ held1155[b][i] \in Nat /\ add[b][i] \in Nat BY <1>10
    <3> QED BY <3>1
  <2>3. PICK f : f = [t \in Client |-> held1155[t][i]] OBVIOUS
  <2>4. PICK m : m = [t \in Client |-> held1155[t][i] - (IF t = a THEN need[i] ELSE 0)] OBVIOUS
  <2>5. PICK d : d = [t \in Client |-> add[t][i]] OBVIOUS
  <2>6. PICK g : g = [t \in Client |-> held1155'[t][i]] OBVIOUS
  <2>7. Ints(f, Client) /\ Ints(m, Client) /\ Ints(d, Client) BY <1>10, <2>3, <2>4, <2>5 DEF Ints
  <2>8. \A t \in Client : g[t] = m[t] + d[t] BY <1>10, <2>4, <2>5, <2>6
  <2>9. SumOver(g, Client) = SumOver(m, Client) + SumOver(d, Client) BY <2>7, <2>8, SumPlus
  <2>10. SumOver(d, Client) = need[i]
    <3>1. \A k \in DOMAIN batch : batch[k].to # Zero BY DEF Transfers1155
    <3>2. SumOver([t \in Client |-> GroupByToId(batch)[t][i]], Client) = GroupById(batch)[i] BY <3>1, GroupsAddUp
    <3> QED BY <1>1, <1>2, <2>5, <3>2
  <2>11. ChangesAt(a, f, m, Client)
    <3>1. \A t \in Client \ {a} : m[t] = f[t] BY <1>10, <2>3, <2>4
    <3> QED BY <2>7, <3>1 DEF ChangesAt
  <2>12. SumOver(m, Client) = SumOver(f, Client) - f[a] + m[a] /\ SumOver(f, Client) \in Int BY <2>11, SumChange
  <2>13. f[a] \in Int /\ m[a] = f[a] - need[i] /\ need[i] \in Int BY <1>10, <2>3, <2>4
  <2>14. SumOver(g, Client) = SumOver(f, Client) BY <2>9, <2>10, <2>12, <2>13
  <2>15. Ledger1155!Total(held1155, i) = SumOver(f, Client) BY <2>3, Total1155
  <2>16. Ledger1155!Total(held1155', i) = SumOver(g, Client)
    <3>1. PICK h : h = held1155' OBVIOUS
    <3>2. \A t \in Client : g[t] = h[t][i] BY <2>6, <3>1
    <3>3. Ledger1155!Total(h, i) = SumOver(g, Client) BY <3>2, Total1155
    <3> QED BY <3>1, <3>3
  <2> QED BY <2>1, <2>2, <2>14, <2>15, <2>16
<1>12. Ledger1155!Move(a) BY <1>11 DEF Ledger1155!Move, held1155
<1> QED BY <1>8, <1>12

(* Every step of the multi-token is one of the ledger.                     *)
LEMMA Step1155 == Type1155 /\ [Next1155]_vars1155 => Type1155' /\ [Ledger1155!LedgerNext]_held1155
<1> SUFFICES ASSUME Type1155, [Next1155]_vars1155 PROVE Type1155' /\ [Ledger1155!LedgerNext]_held1155 OBVIOUS
<1>1. ASSUME UNCHANGED rows1155 PROVE Type1155' /\ [Ledger1155!LedgerNext]_held1155
      BY <1>1, SameRows1155
<1>2. ASSUME NEW c \in Client, Initialize1155(c) PROVE Type1155' /\ [Ledger1155!LedgerNext]_held1155
      BY <1>1, <1>2 DEF Initialize1155
<1>3. ASSUME NEW c \in Client, SetURI1155(c) PROVE Type1155' /\ [Ledger1155!LedgerNext]_held1155
      BY <1>1, <1>3 DEF SetURI1155
<1>4. ASSUME NEW c \in Client, NEW o \in Operator, NEW b \in BOOLEAN, SetApprovalForAll1155(c, o, b)
      PROVE  Type1155' /\ [Ledger1155!LedgerNext]_held1155
      BY <1>1, <1>4 DEF SetApprovalForAll1155
<1>5. ASSUME NEW c \in Client, NEW batch \in Batch1155, MintBatch1155(c, batch)
      PROVE  Type1155' /\ [Ledger1155!LedgerNext]_held1155
      BY <1>5, MintIssues DEF Ledger1155!LedgerNext
<1>6. ASSUME NEW c \in Client, NEW batch \in Batch1155, NEW a \in Client, BurnBatch1155(c, a, batch)
      PROVE  Type1155' /\ [Ledger1155!LedgerNext]_held1155
      BY <1>6, BurnRetires DEF Ledger1155!LedgerNext
<1>7. ASSUME NEW c \in Client, NEW batch \in Batch1155, NEW a \in Client, Transfers1155(c, a, batch)
      PROVE  Type1155' /\ [Ledger1155!LedgerNext]_held1155
      BY <1>7, TransferMoves1155 DEF Ledger1155!LedgerNext
<1>8. ASSUME UNCHANGED vars1155 PROVE Type1155' /\ [Ledger1155!LedgerNext]_held1155
      BY <1>1, <1>8 DEF vars1155
<1> QED BY <1>2, <1>3, <1>4, <1>5, <1>6, <1>7, <1>8
        DEF Next1155, TransferFrom1155, BatchTransferFrom1155, BatchTransferFromMultiRecipient

(* No row holds anything before the first mint.                            *)
LEMMA InitKeeps1155 == Init1155 => Type1155 /\ Ledger1155!LedgerInit
<1> SUFFICES ASSUME Init1155 PROVE Type1155 /\ Ledger1155!LedgerInit OBVIOUS
<1>1. Type1155 BY DEF Init1155, Type1155, Rows1155
<1>2. \A t \in Client : \A i \in Id1155 : held1155[t][i] = 0
  <2> TAKE t \in Client
  <2> TAKE i \in Id1155
  <2>1. \A x \in Client : rows1155[t][i][x] = 0 BY DEF Init1155
  <2>2. SumOver(rows1155[t][i], Client) = 0 BY <2>1, SumZero, FabricAssumption
  <2> QED BY <1>1, <2>2, Holds1155
<1>3. held1155 = [a \in Client |-> [i \in Id1155 |-> 0]]
  <2>1. \A t \in Client : held1155[t] = [i \in Id1155 |-> 0]
    <3> TAKE t \in Client
    <3>1. held1155[t] = [i \in Id1155 |-> held1155[t][i]] BY DEF held1155
    <3> QED BY <1>2, <3>1
  <2>2. held1155 = [a \in Client |-> held1155[a]] BY DEF held1155
  <2> QED BY <2>1, <2>2
<1> QED BY <1>1, <1>3 DEF Ledger1155!LedgerInit, held1155

(* The fungible token and the multi-token implement the abstract ledger:   *)
(* whatever rows they keep, a transaction issues tokens to one account,    *)
(* retires tokens of one, or moves them without changing how many there    *)
(* are.                                                                    *)
THEOREM Ledgers == Spec => TokensAreLedgers
<1>1. Init => (Inv20 /\ Ledger20!LedgerInit) /\ (Type1155 /\ Ledger1155!LedgerInit)
      BY InitKeeps20, InitKeeps1155 DEF Init
<1>2. Inv20 /\ Type1155 /\ [Next]_allVars
      => Inv20' /\ Type1155' /\ [Ledger20!LedgerNext]_held20 /\ [Ledger1155!LedgerNext]_held1155
      BY OneChaincode, Step20, Step1155
<1>3. IsLedger20 <=> Ledger20!LedgerInit /\ [][Ledger20!LedgerNext]_held20
      BY DEF IsLedger20, Ledger20!LedgerSpec, held20
<1>4. IsLedger1155 <=> Ledger1155!LedgerInit /\ [][Ledger1155!LedgerNext]_held1155
      BY DEF IsLedger1155, Ledger1155!LedgerSpec, held1155
<1> QED BY <1>1, <1>2, <1>3, <1>4, PTL DEF Spec, allVars, TokensAreLedgers

-----------------------------------------------------------------------------
(* The non-fungible token and the asset index: rows that repeat a field of *)
(* a record.                                                               *)

Type721 == \A t \in DOMAIN nft721 : nft721[t] \in [owner : Client, approved : Operator \cup {NoClient}]
TypeI == \A id \in DOMAIN assetI : assetI[id] \in [color : Color, owner : Owner]

Inv721 == Type721 /\ RowsMatchOwners
InvI == TypeI /\ IndexMatchesAssets

(* No token, no row.                                                       *)
LEMMA InitKeeps721 == Init721 => Inv721
<1> SUFFICES ASSUME Init721 PROVE Inv721 OBVIOUS
<1>1. DOMAIN nft721 = {} /\ rows721 = {} BY DEF Init721
<1> QED BY <1>1 DEF Inv721, Type721, RowsMatchOwners

(* Every step writes the record and the row of its owner together.         *)
LEMMA Step721 == Inv721 /\ [Next721]_vars721 => Inv721'
<1> SUFFICES ASSUME Inv721, [Next721]_vars721 PROVE Inv721' OBVIOUS
<1>0. rows721 = {<<nft721[t].owner, t>> : t \in DOMAIN nft721} BY DEF Inv721, RowsMatchOwners, OwnerOf721
<1>1. ASSUME UNCHANGED <<nft721, rows721>> PROVE Inv721'
      BY <1>1 DEF Inv721, Type721, RowsMatchOwners, OwnerOf721
<1>2. ASSUME NEW c \in Client, NEW t \in TokenId, MintWithTokenURI(c, t) PROVE Inv721'
  <2>1. t \notin DOMAIN nft721 /\ rows721' = rows721 \cup {<<c, t>>} BY <1>2 DEF MintWithTokenURI, _nftExists
  <2>2. DOMAIN nft721' = DOMAIN nft721 \cup {t} /\ nft721'[t] = [owner |-> c, approved |-> NoClient]
        /\ (\A x \in DOMAIN nft721 : nft721'[x] = nft721[x])
        BY <1>2, <2>1 DEF MintWithTokenURI, Put721
  <2> QED BY <1>0, <2>1, <2>2 DEF Inv721, Type721, RowsMatchOwners, OwnerOf721
<1>3. ASSUME NEW c \in Client, NEW o \in Operator, NEW t \in TokenId, Approve721(c, o, t)
      PROVE  Inv721'
  <2>1. t \in DOMAIN nft721 /\ rows721' = rows721 BY <1>3 DEF Approve721, _nftExists
  <2>2. DOMAIN nft721' = DOMAIN nft721 /\ nft721'[t] = [nft721[t] EXCEPT !.approved = o]
        /\ \A x \in DOMAIN nft721 \ {t} : nft721'[x] = nft721[x] BY <1>3, <2>1 DEF Approve721, Put721
  <2>3. nft721[t] \in [owner : Client, approved : Operator \cup {NoClient}] BY <2>1 DEF Inv721, Type721
  <2>4. nft721'[t].owner = nft721[t].owner
        /\ nft721'[t] \in [owner : Client, approved : Operator \cup {NoClient}] BY <2>2, <2>3
  <2>5. Type721' BY <2>2, <2>4 DEF Inv721, Type721
  <2>6. RowsMatchOwners' BY <1>0, <2>1, <2>2, <2>4 DEF RowsMatchOwners, OwnerOf721
  <2> QED BY <2>5, <2>6 DEF Inv721
<1>4. ASSUME NEW c \in Client, NEW from \in Client, NEW to \in Client, NEW t \in TokenId,
             TransferFrom721(c, from, to, t)
      PROVE  Inv721'
  <2>1. t \in DOMAIN nft721 /\ nft721[t].owner = from /\ rows721' = (rows721 \ {<<from, t>>}) \cup {<<to, t>>}
        BY <1>4 DEF TransferFrom721, _nftExists
  <2>2. DOMAIN nft721' = DOMAIN nft721 /\ nft721'[t] = [owner |-> to, approved |-> NoClient]
        /\ \A x \in DOMAIN nft721 \ {t} : nft721'[x] = nft721[x]
        BY <1>4, <2>1 DEF TransferFrom721, Put721
  <2> QED BY <1>0, <2>1, <2>2 DEF Inv721, Type721, RowsMatchOwners, OwnerOf721
<1>5. ASSUME NEW c \in Client, NEW t \in TokenId, Burn721(c, t) PROVE Inv721'
  <2>1. t \in DOMAIN nft721 /\ nft721[t].owner = c /\ rows721' = rows721 \ {<<c, t>>}
        BY <1>5 DEF Burn721, _nftExists
  <2>2. DOMAIN nft721' = DOMAIN nft721 \ {t} /\ \A x \in DOMAIN nft721 \ {t} : nft721'[x] = nft721[x]
        BY <1>5 DEF Burn721
  <2> QED BY <1>0, <2>1, <2>2 DEF Inv721, Type721, RowsMatchOwners, OwnerOf721
<1>6. ASSUME NEW c \in Client, Initialize721(c) PROVE Inv721' BY <1>1, <1>6 DEF Initialize721
<1>7. ASSUME NEW c \in Client, NEW o \in Operator, NEW b \in BOOLEAN, SetApprovalForAll721(c, o, b)
      PROVE  Inv721' BY <1>1, <1>7 DEF SetApprovalForAll721
<1>8. ASSUME UNCHANGED vars721 PROVE Inv721' BY <1>1, <1>8 DEF vars721
<1> QED BY <1>2, <1>3, <1>4, <1>5, <1>6, <1>7, <1>8 DEF Next721

(* No asset, no row.                                                       *)
LEMMA InitKeepsI == InitI => InvI
<1> SUFFICES ASSUME InitI PROVE InvI OBVIOUS
<1>1. DOMAIN assetI = {} /\ indexI = {} BY DEF InitI
<1> QED BY <1>1 DEF InvI, TypeI, IndexMatchesAssets

(* An asset is created, deleted and created again with its row; transfers  *)
(* leave its colour.                                                       *)
LEMMA StepI == InvI /\ [NextI]_varsI => InvI'
<1> SUFFICES ASSUME InvI, [NextI]_varsI PROVE InvI' OBVIOUS
<1>0. indexI = {<<assetI[id].color, id>> : id \in DOMAIN assetI} BY DEF InvI, IndexMatchesAssets
<1>1. ASSUME indexI' = indexI, DOMAIN assetI' = DOMAIN assetI,
             \A id \in DOMAIN assetI : /\ assetI'[id].color = assetI[id].color
                                       /\ assetI'[id] \in [color : Color, owner : Owner]
      PROVE  InvI' BY <1>0, <1>1 DEF InvI, TypeI, IndexMatchesAssets
<1>2. ASSUME InitLedgerI PROVE InvI'
  <2>1. \A id \in DOMAIN InitialAsset : id \notin DOMAIN assetI BY <1>2 DEF InitLedgerI, AssetExistsI
  <2>2. DOMAIN assetI' = DOMAIN assetI \cup DOMAIN InitialAsset
        /\ (\A id \in DOMAIN InitialAsset : assetI'[id] = InitialAsset[id])
        /\ \A id \in DOMAIN assetI : assetI'[id] = assetI[id] BY <1>2, <2>1 DEF InitLedgerI
  <2>3. indexI' = indexI \cup {<<InitialAsset[id].color, id>> : id \in DOMAIN InitialAsset}
        BY <1>2 DEF InitLedgerI
  <2> QED BY <1>0, <2>2, <2>3, InitialAssetAssumption DEF InvI, TypeI, IndexMatchesAssets
<1>3. ASSUME NEW id \in AssetId, NEW k \in Color, NEW o \in Owner, CreateAssetI(id, k, o)
      PROVE  InvI'
  <2>1. id \notin DOMAIN assetI /\ indexI' = indexI \cup {<<k, id>>} BY <1>3 DEF CreateAssetI, AssetExistsI
  <2>2. DOMAIN assetI' = DOMAIN assetI \cup {id} /\ assetI'[id] = [color |-> k, owner |-> o]
        /\ \A x \in DOMAIN assetI : assetI'[x] = assetI[x] BY <1>3, <2>1 DEF CreateAssetI, PutI
  <2> QED BY <1>0, <2>1, <2>2 DEF InvI, TypeI, IndexMatchesAssets
<1>4. ASSUME NEW id \in AssetId, DeleteAssetI(id) PROVE InvI'
  <2>1. id \in DOMAIN assetI /\ indexI' = indexI \ {<<assetI[id].color, id>>}
        BY <1>4 DEF DeleteAssetI, AssetExistsI
  <2>2. DOMAIN assetI' = DOMAIN assetI \ {id} /\ \A x \in DOMAIN assetI \ {id} : assetI'[x] = assetI[x]
        BY <1>4 DEF DeleteAssetI
  <2> QED BY <1>0, <2>1, <2>2 DEF InvI, TypeI, IndexMatchesAssets
<1>5. ASSUME NEW id \in AssetId, NEW o \in Owner, TransferAssetI(id, o) PROVE InvI'
  <2>1. assetI' = [assetI EXCEPT ![id] = [assetI[id] EXCEPT !.owner = o]] /\ indexI' = indexI
        BY <1>5 DEF TransferAssetI
  <2>2. \A x \in DOMAIN assetI : x # id => assetI'[x] = assetI[x] BY <2>1
  <2>3. id \in DOMAIN assetI /\ assetI[id] \in [color : Color, owner : Owner]
        BY <1>5 DEF TransferAssetI, AssetExistsI, InvI, TypeI
  <2>4. assetI'[id] = [assetI[id] EXCEPT !.owner = o] BY <2>1, <2>3
  <2>5. assetI'[id].color = assetI[id].color /\ assetI'[id] \in [color : Color, owner : Owner]
        BY <2>3, <2>4
  <2>6. DOMAIN assetI' = DOMAIN assetI BY <2>1
  <2> QED BY <1>1, <2>1, <2>2, <2>5, <2>6 DEF InvI, TypeI
<1>6. ASSUME NEW k \in Color, NEW o \in Owner, TransferAssetByColor(k, o) PROVE InvI'
  <2> DEFINE listed == {id \in AssetId : <<k, id>> \in indexI}
  <2>1. assetI' = [x \in DOMAIN assetI |->
                     IF x \in listed THEN [assetI[x] EXCEPT !.owner = o] ELSE assetI[x]]
        /\ indexI' = indexI BY <1>6 DEF TransferAssetByColor
  <2>2. DOMAIN assetI' = DOMAIN assetI BY <2>1
  <2>3. ASSUME NEW x \in DOMAIN assetI
        PROVE  /\ assetI'[x].color = assetI[x].color
               /\ assetI'[x] \in [color : Color, owner : Owner]
    <3>1. assetI[x] \in [color : Color, owner : Owner] BY DEF InvI, TypeI
    <3>2. assetI'[x] = assetI[x] \/ assetI'[x] = [assetI[x] EXCEPT !.owner = o] BY <2>1
    <3> QED BY <3>1, <3>2
  <2> QED BY <1>1, <2>1, <2>2, <2>3
<1>7. ASSUME UNCHANGED varsI PROVE InvI' BY <1>1, <1>7 DEF varsI, InvI, TypeI
<1> QED BY <1>2, <1>3, <1>4, <1>5, <1>6, <1>7 DEF NextI

-----------------------------------------------------------------------------
(* The delta rows.                                                         *)

DeltaRow == [op : {"+", "-"}, value : Int, tx : Nat]

(* What an endorsed transaction carries until it is committed.             *)
Endorsed(t) ==
    \/ /\ t.kind = "update" /\ t.reads = FALSE /\ t.dels = {}
       /\ \E r \in DeltaRow : t.put = {r} /\ r.tx <= txH
    \/ /\ t.kind = "prune" /\ t.reads = TRUE
       /\ \E r \in DeltaRow : t.put = {r} /\ r.tx <= txH /\ Signed(r) = get(t.dels)
    \/ t.kind = "delete" /\ t.reads = TRUE /\ t.put = {}

TypeH == /\ txH \in Nat /\ valueH \in Int
         /\ IsFiniteSet(rowsH) /\ \A r \in rowsH : r \in DeltaRow /\ r.tx <= txH
         /\ \A t \in flightH : Endorsed(t)

InvH == /\ TypeH
        /\ \A t \in flightH : t.put \cap rowsH = {}
        /\ \A t, u \in flightH : t # u => t.put \cap u.put = {}
        /\ ValueKept

(* get of no row, of one more row, and of a row alone.                     *)
LEMMA GetAdds ==
    /\ get({}) = 0
    /\ \A rows : IsFiniteSet(rows) /\ rows \subseteq DeltaRow => get(rows) \in Int
    /\ \A rows : \A r \in DeltaRow :
          IsFiniteSet(rows) /\ rows \subseteq DeltaRow /\ r \notin rows
          => get(rows \cup {r}) = get(rows) + Signed(r)
    /\ \A r \in DeltaRow : get({r}) = Signed(r) /\ Signed(r) \in Int
<1> DEFINE f(rows) == [r \in rows |-> Signed(r)]
<1>0. \A r \in DeltaRow : Signed(r) \in Int BY DEF Signed, DeltaRow
<1>1. get({}) = 0 BY SumEmpty DEF get
<1>2. ASSUME NEW rows, IsFiniteSet(rows), rows \subseteq DeltaRow PROVE get(rows) \in Int
  <2>1. Ints(f(rows), rows) BY <1>0, <1>2 DEF Ints
  <2> QED BY <1>2, <2>1, SumInt DEF get
<1>3. ASSUME NEW rows, NEW r \in DeltaRow, IsFiniteSet(rows), rows \subseteq DeltaRow, r \notin rows
      PROVE  get(rows \cup {r}) = get(rows) + Signed(r)
  <2> DEFINE g == f(rows \cup {r})
             h == f(rows)
  <2>1. Ints(g, rows \cup {r}) /\ g[r] = Signed(r) /\ \A x \in rows : g[x] = h[x] BY <1>0, <1>3 DEF Ints
  <2>2. get(rows \cup {r}) = SumOver(g, rows \cup {r}) /\ get(rows) = SumOver(h, rows) BY DEF get
  <2> HIDE DEF g, h
  <2>3. SumOver(g, rows \cup {r}) = g[r] + SumOver(g, rows) BY <1>3, <2>1, SumInsert
  <2>4. SumOver(g, rows) = SumOver(h, rows) BY <1>3, <2>1, SumSame
  <2>5. get(rows) \in Int /\ Signed(r) \in Int BY <1>0, <1>2, <1>3
  <2> QED BY <2>1, <2>2, <2>3, <2>4, <2>5
<1>4. ASSUME NEW r \in DeltaRow PROVE get({r}) = Signed(r)
  <2>1. {} \cup {r} = {r} /\ IsFiniteSet({}) BY FS_EmptySet
  <2>2. get({} \cup {r}) = get({}) + Signed(r) BY <1>3, <2>1
  <2> QED BY <1>0, <1>1, <2>1, <2>2
<1> QED BY <1>0, <1>1, <1>2, <1>3, <1>4

(* The endorsement of one more transaction: its row is new.                *)
LEMMA EndorseKeepsH ==
    ASSUME InvH, NEW t, EndorseH(t), NEW n, n = txH + 1, t.put = {} \/ \E r \in DeltaRow : t.put = {r} /\ r.tx = n,
           Endorsed(t)'
    PROVE  InvH'
<1>1. txH' = txH + 1 /\ flightH' = flightH \cup {t} /\ rowsH' = rowsH /\ valueH' = valueH BY DEF EndorseH
<1>2. txH \in Nat BY DEF InvH, TypeH
<1>3. \A u \in flightH : Endorsed(u)' BY <1>1, <1>2 DEF InvH, TypeH, Endorsed, DeltaRow
<1>4. \A r \in rowsH : r \in DeltaRow /\ r.tx <= txH' BY <1>1, <1>2 DEF InvH, TypeH, DeltaRow
<1>5. \A r \in t.put : r.tx = txH + 1 OBVIOUS
<1>6. \A u \in flightH : \A r \in u.put : r.tx # txH + 1
  <2> TAKE u \in flightH
  <2>1. u.put = {} \/ \E r \in DeltaRow : u.put = {r} /\ r.tx <= txH BY DEF InvH, TypeH, Endorsed
  <2> QED BY <1>2, <2>1
<1>7. \A r \in rowsH : r.tx # txH + 1 BY <1>2 DEF InvH, TypeH
<1>8. TypeH' BY <1>1, <1>2, <1>3, <1>4 DEF InvH, TypeH
<1>9. \A u \in flightH' : u.put \cap rowsH' = {} BY <1>1, <1>5, <1>7 DEF InvH
<1>10. \A u, v \in flightH' : u # v => u.put \cap v.put = {} BY <1>1, <1>5, <1>6 DEF InvH
<1>11. ValueKept' BY <1>1 DEF InvH, ValueKept
<1> QED BY <1>8, <1>9, <1>10, <1>11 DEF InvH

(* The commit of a valid transaction.                                      *)
LEMMA CommitKeepsH == ASSUME InvH, NEW t \in flightH, Commit(t) PROVE InvH'
<1>1. txH' = txH /\ flightH' = flightH \ {t} BY DEF Commit
<1>2. ASSUME ~Valid(t) PROVE InvH'
  <2>1. rowsH' = rowsH /\ valueH' = valueH BY <1>2 DEF Commit
  <2> QED BY <1>1, <2>1 DEF InvH, TypeH, Endorsed, ValueKept
<1>3. ASSUME Valid(t) PROVE InvH'
  <2>1. rowsH' = (rowsH \ t.dels) \cup t.put
        /\ valueH' = CASE t.kind = "update" -> valueH + get(t.put)
                       [] t.kind = "prune" -> valueH
                       [] t.kind = "delete" -> 0 BY <1>3 DEF Commit
  <2>2. \A u \in flightH' : u.put \cap rowsH' = {} BY <1>1, <2>1 DEF InvH
  <2>3. \A u, v \in flightH' : u # v => u.put \cap v.put = {} BY <1>1 DEF InvH
  <2>4. \A u \in flightH' : Endorsed(u)' BY <1>1 DEF InvH, TypeH, Endorsed
  <2>5. IsFiniteSet(rowsH) /\ rowsH \subseteq DeltaRow /\ valueH \in Int /\ get(rowsH) = valueH
        BY DEF InvH, TypeH, ValueKept
  <2>6. SUFFICES /\ \A r \in t.put : r \in DeltaRow /\ r.tx <= txH
                 /\ IsFiniteSet(rowsH') /\ valueH' \in Int /\ get(rowsH') = valueH'
    <3>1. \A r \in rowsH' : r \in DeltaRow /\ r.tx <= txH' BY <1>1, <2>1, <2>6 DEF InvH, TypeH
    <3>2. TypeH' BY <1>1, <2>4, <2>6, <3>1 DEF InvH, TypeH
    <3>3. ValueKept' BY <2>6 DEF ValueKept
    <3> QED BY <2>2, <2>3, <3>2, <3>3 DEF InvH
  <2>7. Endorsed(t) BY DEF InvH, TypeH
  <2>8. CASE t.kind = "update"
    <3>1. t.dels = {} BY <2>7, <2>8 DEF Endorsed
    <3>2. PICK r \in DeltaRow : t.put = {r} /\ r.tx <= txH BY <2>7, <2>8 DEF Endorsed
    <3>3. r \notin rowsH /\ rowsH' = rowsH \cup {r} BY <2>1, <3>1, <3>2 DEF InvH
    <3>4. valueH' = valueH + get(t.put) BY <2>1, <2>8
    <3>5. get({r}) = Signed(r) /\ Signed(r) \in Int BY GetAdds
    <3>6. get(rowsH \cup {r}) = get(rowsH) + Signed(r) BY <2>5, <3>3, GetAdds
    <3>7. IsFiniteSet(rowsH \cup {r}) BY <2>5, <3>3, FS_AddElement
    <3> QED BY <2>5, <3>2, <3>3, <3>4, <3>5, <3>6, <3>7
  <2>9. CASE t.kind = "prune"
    <3>1. t.dels = rowsH BY <1>3, <2>7, <2>9 DEF Endorsed, Valid
    <3>2. PICK r \in DeltaRow : t.put = {r} /\ r.tx <= txH /\ Signed(r) = get(t.dels)
          BY <2>7, <2>9 DEF Endorsed
    <3>3. rowsH' = {r} /\ valueH' = valueH BY <2>1, <2>9, <3>1, <3>2
    <3>4. get({r}) = Signed(r) BY GetAdds
    <3>5. IsFiniteSet({r}) BY FS_Singleton
    <3> QED BY <2>5, <3>1, <3>2, <3>3, <3>4, <3>5
  <2>10. CASE t.kind = "delete"
    <3>1. t.dels = rowsH /\ t.put = {} BY <1>3, <2>7, <2>10 DEF Endorsed, Valid
    <3>2. rowsH' = {} /\ valueH' = 0 BY <2>1, <2>10, <3>1
    <3> QED BY <3>1, <3>2, GetAdds, FS_EmptySet
  <2> QED BY <2>7, <2>8, <2>9, <2>10 DEF Endorsed
<1> QED BY <1>2, <1>3

(* Every step of the delta rows keeps their value.                         *)
LEMMA StepH == InvH /\ [NextH]_varsH => InvH'
<1> SUFFICES ASSUME InvH, [NextH]_varsH PROVE InvH' OBVIOUS
<1>0. txH \in Nat /\ IsFiniteSet(rowsH) /\ rowsH \subseteq DeltaRow BY DEF InvH, TypeH
<1>1. ASSUME NEW op \in {"+", "-"}, NEW v \in Delta, update(op, v) PROVE InvH'
  <2>1. PICK r : r = Row(op, v) OBVIOUS
  <2>2. PICK t : t = [kind |-> "update", reads |-> FALSE, dels |-> {}, put |-> {r}] OBVIOUS
  <2>3. r \in DeltaRow /\ r.tx = txH + 1 BY <1>0, <2>1, DeltaAssumption DEF Row, DeltaRow
  <2>4. EndorseH(t) BY <1>1, <2>1, <2>2 DEF update
  <2>5. txH' = txH + 1 BY <2>4 DEF EndorseH
  <2>6. Endorsed(t)' BY <1>0, <2>2, <2>3, <2>5 DEF Endorsed
  <2>7. t.put = {r} BY <2>2
  <2> QED BY <2>3, <2>4, <2>6, <2>7, EndorseKeepsH
<1>2. ASSUME prune PROVE InvH'
  <2>1. PICK r : r = Row("+", get(rowsH)) OBVIOUS
  <2>2. PICK t : t = [kind |-> "prune", reads |-> TRUE, dels |-> rowsH, put |-> {r}] OBVIOUS
  <2>3. get(rowsH) \in Int BY <1>0, GetAdds
  <2>4. r \in DeltaRow /\ r.tx = txH + 1 /\ Signed(r) = get(rowsH)
        BY <1>0, <2>1, <2>3 DEF Row, DeltaRow, Signed
  <2>5. EndorseH(t) BY <1>2, <2>1, <2>2 DEF prune
  <2>6. txH' = txH + 1 BY <2>5 DEF EndorseH
  <2>7. PICK d : d = rowsH OBVIOUS
  <2>8. t.dels = d /\ Signed(r) = get(d) /\ t.put = {r} /\ t.kind = "prune" /\ t.reads = TRUE
        BY <2>2, <2>4, <2>7
  <2>9. Endorsed(t)' BY <1>0, <2>4, <2>6, <2>8 DEF Endorsed
  <2> QED BY <2>4, <2>5, <2>8, <2>9, EndorseKeepsH
<1>3. ASSUME delete PROVE InvH'
  <2>1. PICK t : t = [kind |-> "delete", reads |-> TRUE, dels |-> rowsH, put |-> {}] OBVIOUS
  <2>2. EndorseH(t) BY <1>3, <2>1 DEF delete
  <2>3. t.put = {} /\ t.kind = "delete" /\ t.reads = TRUE BY <2>1
  <2>4. Endorsed(t)' BY <2>3 DEF Endorsed
  <2>5. PICK n : n = txH + 1 OBVIOUS
  <2> QED BY <2>2, <2>3, <2>4, <2>5, EndorseKeepsH
<1>4. ASSUME NEW t \in flightH, Commit(t) PROVE InvH' BY <1>4, CommitKeepsH
<1>5. ASSUME UNCHANGED varsH PROVE InvH'
      BY <1>5 DEF varsH, InvH, TypeH, Endorsed, ValueKept
<1> QED BY <1>1, <1>2, <1>3, <1>4, <1>5 DEF NextH

(* No row, no value.                                                       *)
LEMMA InitKeepsH == InitH => InvH
<1> SUFFICES ASSUME InitH PROVE InvH OBVIOUS
<1>1. rowsH = {} /\ flightH = {} /\ txH = 0 /\ valueH = 0 BY DEF InitH
<1>2. TypeH BY <1>1, FS_EmptySet DEF TypeH
<1>3. ValueKept BY <1>1, GetAdds DEF ValueKept
<1> QED BY <1>1, <1>2, <1>3 DEF InvH

-----------------------------------------------------------------------------
(* The unspent outputs.                                                    *)

Output == [owner : Client, tx : Nat, ix : Nat, n : Nat]
Amount(outputs) == SumOver([u \in outputs |-> u.n], outputs)

TypeU == /\ txU \in Nat /\ mintedU \in Int /\ lostU \in Int
         /\ IsFiniteSet(utxo) /\ \A u \in utxo : u \in Output /\ u.tx <= txU

InvU == TypeU /\ mintedU = Amount(utxo) + lostU

(* The running total over the first n amounts.                             *)
Totals(a, n, g) == g = [i \in 0..n |-> IF i = 0 THEN 0 ELSE addU(g[i - 1], a[i])]

(* The loop has a total at every point.                                    *)
LEMMA TotalsExist == ASSUME NEW a, NEW n \in Nat PROVE \E g : Totals(a, n, g)
<1> DEFINE G == {k \in Nat : \E g : Totals(a, k, g)}
<1>1. 0 \in G
  <2>1. PICK g : g = [i \in 0..0 |-> 0] OBVIOUS
  <2>2. Totals(a, 0, g) BY <2>1 DEF Totals
  <2> QED BY <2>2
<1>2. ASSUME NEW k \in Nat, k \in G PROVE k + 1 \in G
  <2>1. PICK g : Totals(a, k, g) BY <1>2
  <2> DEFINE h == [i \in 0..(k + 1) |-> IF i = k + 1 THEN addU(g[k], a[k + 1]) ELSE g[i]]
  <2>2. h = [i \in 0..(k + 1) |-> IF i = 0 THEN 0 ELSE addU(h[i - 1], a[i])]
    <3> DEFINE e == [i \in 0..(k + 1) |-> IF i = 0 THEN 0 ELSE addU(h[i - 1], a[i])]
    <3>1. ASSUME NEW i \in 0..(k + 1) PROVE h[i] = e[i]
      <4>1. CASE i = 0 BY <4>1, <2>1 DEF Totals
      <4>2. CASE i = k + 1
        <5>1. i # 0 /\ i - 1 = k /\ k \in 0..(k + 1) /\ k # k + 1 BY <4>2
        <5>2. h[i] = addU(g[k], a[k + 1]) /\ h[k] = g[k] BY <4>2, <5>1
        <5>3. e[i] = addU(h[k], a[k + 1]) BY <4>2, <5>1
        <5> QED BY <5>2, <5>3
      <4>3. CASE i # 0 /\ i # k + 1
        <5>1. i \in 0..k /\ i - 1 \in 0..k /\ i - 1 # k + 1 /\ i - 1 \in 0..(k + 1) BY <4>3
        <5>2. h[i] = g[i] /\ h[i - 1] = g[i - 1] BY <4>3, <5>1
        <5>3. g[i] = addU(g[i - 1], a[i]) BY <2>1, <4>3, <5>1 DEF Totals
        <5>4. e[i] = addU(h[i - 1], a[i]) BY <4>3
        <5> QED BY <5>2, <5>3, <5>4
      <4> QED BY <4>1, <4>2, <4>3
    <3>2. h = e
      <4>1. DOMAIN h = 0..(k + 1) /\ DOMAIN e = 0..(k + 1) OBVIOUS
      <4>2. h = [i \in DOMAIN h |-> h[i]] /\ e = [i \in DOMAIN e |-> e[i]] OBVIOUS
      <4> HIDE DEF h, e
      <4> QED BY <3>1, <4>1, <4>2
    <3> QED BY <3>2
  <2>3. Totals(a, k + 1, h) BY <2>2 DEF Totals
  <2> QED BY <2>3
<1>3. Nat \subseteq G
  <2> HIDE DEF G
  <2> QED BY <1>1, <1>2, NatSetInduction
<1> QED BY <1>3

(* Where the sum fits, so does every sum on the way: the loop computes it. *)
LEMMA TotalIsSum ==
    ASSUME NEW m \in Nat, NEW a \in [1..m -> Nat], ~OverflowsU(a)
    PROVE  TotalU(a) = SumOver(a, 1..m)
<1>1. Len(a) = m /\ DOMAIN a = 1..m
  <2>1. a \in Seq(Nat) BY DEF Seq
  <2> QED BY <2>1
<1> DEFINE t == CHOOSE g : Totals(a, m, g)
<1>2. TotalU(a) = t[m] BY <1>1 DEF TotalU, Totals
<1>3. Totals(a, m, t) BY TotalsExist
<1>4. SumOver(a, 1..m) <= MaxInt /\ SumOver(a, 1..m) \in Nat
  <2>1. IsFiniteSet(1..m) BY FS_Interval
  <2>2. \A i \in 1..m : a[i] \in Nat OBVIOUS
  <2>3. SumOver(a, 1..m) \in Nat BY <2>1, <2>2, SumNat
  <2> QED BY <1>1, <2>3, FabricAssumption DEF OverflowsU, ValueU
<1> HIDE DEF t
<1> DEFINE S(k) == SumOver(a, 1..k)
           G == {k \in Nat : k <= m => S(k) \in Nat /\ S(k) <= S(m) /\ t[k] = S(k)}
<1>5. \A k \in Nat : k <= m => S(k) \in Nat /\ S(k) <= S(m) BY SumPrefix
<1>6. 0 \in G
  <2>1. 1..0 = {} OBVIOUS
  <2>2. S(0) = 0 BY <2>1, SumEmpty
  <2>3. t[0] = 0 BY <1>3 DEF Totals
  <2> QED BY <1>5, <2>2, <2>3
<1>7. ASSUME NEW k \in Nat, k \in G PROVE k + 1 \in G
  <2> SUFFICES ASSUME k + 1 <= m PROVE S(k + 1) \in Nat /\ S(k + 1) <= S(m) /\ t[k + 1] = S(k + 1) OBVIOUS
  <2>1. S(k + 1) \in Nat /\ S(k + 1) <= S(m) BY <1>5
  <2>2. t[k] = S(k) /\ S(k) \in Nat BY <1>7
  <2>3. t[k + 1] = addU(t[k], a[k + 1]) BY <1>3 DEF Totals
  <2>4. \A i \in 1..(k + 1) : a[i] \in Int OBVIOUS
  <2>5. S(k + 1) = S(k) + a[k + 1] BY <2>4, SumUpTo
  <2>6. a[k + 1] \in Nat OBVIOUS
  <2>7. S(m) <= MaxInt /\ S(m) \in Nat BY <1>4
  <2> HIDE DEF S, G
  <2>8. t[k + 1] = S(k + 1)
    <3>1. addU(t[k], a[k + 1]) = IF t[k] + a[k + 1] > MaxInt THEN 0 ELSE t[k] + a[k + 1] BY DEF addU
    <3> QED BY <2>1, <2>2, <2>3, <2>5, <2>6, <2>7, <3>1, FabricAssumption
  <2> QED BY <2>1, <2>8
<1>8. Nat \subseteq G
  <2> HIDE DEF G
  <2> QED BY <1>6, <1>7, NatSetInduction
<1>9. m \in G BY <1>8
<1> QED BY <1>2, <1>9

(* What a transfer spends and puts, as one step of the set of outputs.     *)
LEMMA TransferKeepsU ==
    ASSUME InvU, NEW c \in Client, NEW k \in Nat, NEW ins \in [1..k -> {u \in utxo : u.owner = c}],
           NEW m \in Nat, NEW outs \in [1..m -> [to : Client, n : AmountsU]], TransferU(c, ins, outs)
    PROVE  InvU'
<1> USE UtxoAssumption
<1>0. /\ txU \in Nat /\ mintedU \in Int /\ lostU \in Int
      /\ IsFiniteSet(utxo) /\ \A u \in utxo : u \in Output /\ u.tx <= txU BY DEF InvU, TypeU
<1>1. PICK a : a = [i \in 1..k |-> ins[i].n] OBVIOUS
<1>2. PICK b : b = [i \in 1..m |-> outs[i].n] OBVIOUS
<1>3. PICK p : p = [i \in 1..m |-> [owner |-> outs[i].to, tx |-> txU + 1, ix |-> i - 1, n |-> outs[i].n]]
      OBVIOUS
<1>4. PICK spent : spent = {ins[i] : i \in 1..k} OBVIOUS
<1>5. PICK put : put = {p[i] : i \in 1..m} OBVIOUS
<1>6. DOMAIN ins = 1..k /\ DOMAIN outs = 1..m OBVIOUS
<1>7. /\ NoDoubleSpend(ins)
      /\ \A i \in 1..m : outs[i].n > 0
      /\ TotalU(a) = TotalU(b)
      /\ txU' = txU + 1 /\ mintedU' = mintedU /\ lostU' = (IF OverflowsU(a) \/ OverflowsU(b) THEN lostU + ValueU(a) - ValueU(b) ELSE lostU)
      BY <1>1, <1>2, <1>6 DEF TransferU
<1>8. utxo' = (utxo \ spent) \cup put
  <2>1. ToSet(ins) = spent BY <1>4, <1>6 DEF ToSet
  <2>2. {[owner |-> outs[i].to, tx |-> txU + 1, ix |-> i - 1, n |-> outs[i].n] : i \in DOMAIN outs} = put
        BY <1>3, <1>5, <1>6
  <2> QED BY <2>1, <2>2 DEF TransferU
<1>9. \A i \in 1..m : outs[i].to \in Client /\ outs[i].n \in Nat
  <2> TAKE i \in 1..m
  <2>1. outs[i].to \in Client /\ outs[i].n \in AmountsU OBVIOUS
  <2>2. outs[i].n > 0 BY <1>7
  <2>3. outs[i].n \in Int BY <2>1
  <2> QED BY <2>1, <2>2, <2>3
<1>10. \A i \in 1..m : p[i] \in Output /\ p[i].tx = txU + 1 /\ p[i].ix = i - 1 /\ p[i].n = outs[i].n
       BY <1>0, <1>3, <1>9 DEF Output
<1>11. \A i, j \in 1..m : p[i] = p[j] => i = j BY <1>10
<1>12. \A i, j \in 1..k : ins[i] = ins[j] => i = j BY <1>6, <1>7 DEF NoDoubleSpend
<1>13. PICK f : f = [u \in utxo \cup put |-> u.n] OBVIOUS
<1>14. Ints(f, utxo \cup put) BY <1>0, <1>5, <1>10, <1>13 DEF Ints, Output
<1>15. IsFiniteSet(put) /\ SumOver(f, put) = SumOver(b, 1..m)
  <2>1. IsFiniteSet(1..m) BY FS_Interval
  <2>2. \A i \in 1..m : f[p[i]] \in Int /\ b[i] = f[p[i]] BY <1>2, <1>5, <1>9, <1>10, <1>13
  <2>3. Places(p, f, b, 1..m) BY <2>1, <2>2, <1>11 DEF Places
  <2>4. IsFiniteSet({p[i] : i \in 1..m}) /\ SumOver(f, {p[i] : i \in 1..m}) = SumOver(b, 1..m)
        BY <2>3, SumPlaces
  <2> QED BY <1>5, <2>4
<1>16. spent \subseteq utxo /\ IsFiniteSet(spent) /\ SumOver(f, spent) = SumOver(a, 1..k)
  <2>1. IsFiniteSet(1..k) BY FS_Interval
  <2>2. \A i \in 1..k : ins[i] \in utxo BY <1>6
  <2>3. \A i \in 1..k : f[ins[i]] \in Int /\ a[i] = f[ins[i]] BY <1>0, <1>1, <1>13, <2>2 DEF Output
  <2>4. Places(ins, f, a, 1..k) BY <2>1, <2>3, <1>12 DEF Places
  <2>5. IsFiniteSet({ins[i] : i \in 1..k}) /\ SumOver(f, {ins[i] : i \in 1..k}) = SumOver(a, 1..k)
        BY <2>4, SumPlaces
  <2> QED BY <1>4, <2>2, <2>5
<1>17. put \cap utxo = {}
  <2>1. \A u \in utxo : u.tx # txU + 1 BY <1>0
  <2> QED BY <1>5, <1>10, <2>1
<1>18. IsFiniteSet(utxo \ spent) BY <1>0, FS_Difference
<1>s. lostU' \in Int /\ lostU' = lostU + SumOver(a, 1..k) - SumOver(b, 1..m)
  <2>1. a \in [1..k -> Nat] /\ b \in [1..m -> Nat] BY <1>0, <1>1, <1>2, <1>9 DEF Output
  <2>2. ValueU(a) = SumOver(a, 1..k) /\ ValueU(b) = SumOver(b, 1..m) BY <2>1 DEF ValueU
  <2>3. SumOver(a, 1..k) \in Int /\ SumOver(b, 1..m) \in Int
    <3>1. IsFiniteSet(1..k) /\ IsFiniteSet(1..m) BY FS_Interval
    <3>2. Ints(a, 1..k) /\ Ints(b, 1..m) BY <2>1 DEF Ints
    <3> QED BY <3>1, <3>2, SumInt
  <2>4. ~OverflowsU(a) /\ ~OverflowsU(b) => SumOver(a, 1..k) = SumOver(b, 1..m)
        BY <1>7, <2>1, TotalIsSum
  <2> QED BY <1>0, <1>7, <2>2, <2>3, <2>4
<1>19. TypeU'
  <2>1. IsFiniteSet(utxo') BY <1>8, <1>15, <1>18, FS_Union
  <2>2. \A u \in utxo' : u \in Output /\ u.tx <= txU' BY <1>0, <1>5, <1>7, <1>8, <1>10 DEF Output
  <2> QED BY <1>0, <1>7, <1>s, <2>1, <2>2 DEF TypeU
<1>20. mintedU' = Amount(utxo') + lostU'
  <2>4. SumOver(f, utxo) = SumOver(f, utxo \ spent) + SumOver(f, spent)
    <3>1. utxo = (utxo \ spent) \cup spent /\ (utxo \ spent) \cap spent = {} BY <1>16
    <3>2. Ints(f, (utxo \ spent) \cup spent) BY <1>14, <3>1 DEF Ints
    <3>3. SumOver(f, (utxo \ spent) \cup spent) = SumOver(f, utxo \ spent) + SumOver(f, spent)
          BY <1>16, <1>18, <3>1, <3>2, SumUnion
    <3> QED BY <3>1, <3>3
  <2>5. SumOver(f, utxo') = SumOver(f, utxo \ spent) + SumOver(f, put)
    <3>1. (utxo \ spent) \cap put = {} BY <1>17
    <3>2. Ints(f, (utxo \ spent) \cup put) BY <1>14 DEF Ints
    <3>3. SumOver(f, (utxo \ spent) \cup put) = SumOver(f, utxo \ spent) + SumOver(f, put)
          BY <1>15, <1>18, <3>1, <3>2, SumUnion
    <3> QED BY <1>8, <3>3
  <2>6. Amount(utxo) = SumOver(f, utxo)
    <3>1. \A u \in utxo : f[u] = [x \in utxo |-> x.n][u] BY <1>13
    <3> QED BY <1>0, <3>1, SumSame DEF Amount
  <2>7. Amount(utxo') = SumOver(f, utxo')
    <3>1. PICK after : after = utxo' OBVIOUS
    <3>2. \A u \in after : f[u] = [x \in after |-> x.n][u] BY <1>8, <1>13, <3>1
    <3>3. IsFiniteSet(after) BY <1>19, <3>1 DEF TypeU
    <3>4. SumOver(f, after) = SumOver([x \in after |-> x.n], after) BY <3>2, <3>3, SumSame
    <3> QED BY <3>1, <3>4 DEF Amount
  <2>8. mintedU = Amount(utxo) + lostU BY DEF InvU
  <2>9. SumOver(f, utxo \ spent) \in Int /\ SumOver(f, spent) \in Int /\ SumOver(f, put) \in Int
    <3>1. Ints(f, utxo \ spent) /\ Ints(f, spent) /\ Ints(f, put) BY <1>14, <1>16 DEF Ints
    <3> QED BY <1>15, <1>16, <1>18, <3>1, SumInt
  <2>10. mintedU' = mintedU /\ lostU \in Int BY <1>0, <1>7
  <2> HIDE DEF Amount, Ints
  <2> QED BY <1>15, <1>16, <1>s, <2>4, <2>5, <2>6, <2>7, <2>8, <2>9, <2>10
<1> QED BY <1>19, <1>20 DEF InvU

(* A mint puts one output more.                                            *)
LEMMA MintKeepsU == ASSUME InvU, NEW c \in Client, NEW n \in AmountsU, MintU(c, n) PROVE InvU'
<1> USE UtxoAssumption
<1>0. /\ txU \in Nat /\ mintedU \in Int /\ lostU \in Int
      /\ IsFiniteSet(utxo) /\ \A u \in utxo : u \in Output /\ u.tx <= txU BY DEF InvU, TypeU
<1>1. PICK o : o = [owner |-> c, tx |-> txU + 1, ix |-> 0, n |-> n] OBVIOUS
<1>2. n \in Nat /\ utxo' = utxo \cup {o} /\ txU' = txU + 1 /\ mintedU' = mintedU + n /\ lostU' = lostU
      BY <1>1 DEF MintU
<1>3. o \in Output /\ o.tx = txU + 1 /\ o.n = n BY <1>0, <1>1, <1>2 DEF Output
<1>4. o \notin utxo BY <1>0, <1>3
<1>5. TypeU'
  <2>1. IsFiniteSet(utxo') BY <1>0, <1>2, FS_AddElement
  <2>2. \A u \in utxo' : u \in Output /\ u.tx <= txU' BY <1>0, <1>2, <1>3 DEF Output
  <2> QED BY <1>0, <1>2, <2>1, <2>2 DEF TypeU
<1>6. mintedU' = Amount(utxo') + lostU'
  <2>1. PICK before : before = utxo OBVIOUS
  <2>2. PICK f : f = [u \in before |-> u.n] OBVIOUS
  <2>3. PICK g : g = [u \in before \cup {o} |-> u.n] OBVIOUS
  <2>4. Ints(g, before \cup {o}) /\ g[o] = n /\ \A u \in before : g[u] = f[u]
        BY <1>0, <1>2, <1>3, <2>1, <2>2, <2>3 DEF Ints, Output
  <2>5. SumOver(g, before \cup {o}) = g[o] + SumOver(g, before) BY <1>0, <1>4, <2>1, <2>4, SumInsert
  <2>6. SumOver(g, before) = SumOver(f, before) BY <1>0, <2>1, <2>4, SumSame
  <2>7. Amount(utxo) = SumOver(f, before) /\ Amount(utxo') = SumOver(g, before \cup {o})
        BY <1>2, <2>1, <2>2, <2>3 DEF Amount
  <2>8. mintedU = Amount(utxo) + lostU BY DEF InvU
  <2>9. SumOver(f, before) \in Int
    <3>1. Ints(g, before) BY <2>4 DEF Ints
    <3> QED BY <1>0, <2>1, <2>6, <3>1, SumInt
  <2> QED BY <1>0, <1>2, <2>4, <2>5, <2>6, <2>7, <2>8, <2>9
<1> QED BY <1>5, <1>6 DEF InvU

(* Every step keeps what the unspent outputs add up to.                    *)
LEMMA StepU == InvU /\ [NextU]_varsU => InvU'
<1> SUFFICES ASSUME InvU, [NextU]_varsU PROVE InvU' OBVIOUS
<1> USE UtxoAssumption
<1>1. ASSUME UNCHANGED <<utxo, txU, mintedU, lostU>> PROVE InvU' BY <1>1 DEF InvU, TypeU, Amount
<1>2. ASSUME NEW c \in Client, InitializeU(c) PROVE InvU' BY <1>1, <1>2 DEF InitializeU
<1>3. ASSUME NEW c \in Client, NEW n \in AmountsU, MintU(c, n) PROVE InvU' BY <1>3, MintKeepsU
<1>4. ASSUME NEW c \in Client, NEW k \in 0..MaxIns, NEW ins \in [1..k -> {u \in utxo : u.owner = c}],
             NEW outs \in OutputsU, TransferU(c, ins, outs)
      PROVE  InvU'
  <2>1. k \in Nat OBVIOUS
  <2>2. PICK m \in 0..MaxOuts : outs \in [1..m -> [to : Client, n : AmountsU]] BY DEF OutputsU
  <2>3. m \in Nat OBVIOUS
  <2> QED BY <1>4, <2>1, <2>2, <2>3, TransferKeepsU
<1>5. ASSUME UNCHANGED varsU PROVE InvU' BY <1>1, <1>5 DEF varsU
<1> QED BY <1>2, <1>3, <1>4, <1>5 DEF NextU

(* No output, nothing minted.                                              *)
LEMMA InitKeepsU == InitU => InvU
<1> SUFFICES ASSUME InitU PROVE InvU OBVIOUS
<1>1. utxo = {} /\ txU = 0 /\ mintedU = 0 /\ lostU = 0 BY DEF InitU
<1>2. Amount({}) = 0 BY SumEmpty DEF Amount
<1>3. IsFiniteSet({}) BY FS_EmptySet
<1>4. TypeU
  <2>1. txU \in Nat /\ mintedU \in Int BY <1>1
  <2>2. lostU \in Int BY <1>1
  <2>3. IsFiniteSet(utxo) BY <1>1, <1>3
  <2>4. \A u \in utxo : u \in Output /\ u.tx <= txU BY <1>1
  <2> QED BY <2>1, <2>2, <2>3, <2>4 DEF TypeU
<1>5. Amount(utxo) = 0 BY <1>1, <1>2
<1> QED BY <1>1, <1>4, <1>5 DEF InvU

(* All unspent outputs belong to a client.                                 *)
LEMMA OutputsOfClients == InvU => OutputsAddUp
<1> SUFFICES ASSUME InvU PROVE OutputsAddUp OBVIOUS
<1>1. UNION {ClientUTXOs(c) : c \in Client} = utxo BY DEF InvU, TypeU, ClientUTXOs, Output
<1> QED BY <1>1 DEF InvU, OutputsAddUp, Amount

-----------------------------------------------------------------------------
(* Tokens, outputs, indexes and sums are what the transactions made them:  *)
(* no order of mints, burns, transfers, updates and prunes loses or makes  *)
(* value, and rows that repeat a field of a record follow it.              *)
THEOREM Conserved == Spec => []AssetsConserved
<1> DEFINE Inv == Inv20 /\ Inv721 /\ InvU /\ InvI /\ InvH
<1>1. Init => Inv BY InitKeeps20, InitKeeps721, InitKeepsU, InitKeepsI, InitKeepsH DEF Init
<1>2. Inv /\ [Next]_allVars => Inv' BY OneChaincode, Step20, Step721, StepU, StepI, StepH
<1>3. Inv => AssetsConserved
      BY OutputsOfClients DEF Inv20, Inv721, InvI, InvH, AssetsConserved
<1> QED BY <1>1, <1>2, <1>3, PTL DEF Spec, allVars

-----------------------------------------------------------------------------
(* The sealed-bid auction.                                                 *)

Bid1Record == [org : Org, price : Price, bidder : Client]

Type1 == /\ bid1 \in Seq(Bid1Record)
         /\ private1 \subseteq DOMAIN bid1 /\ revealed1 \subseteq private1
         /\ price1 \in Int

(* Who has submitted a bid endorses; the price is 0 before the end.        *)
Inv1 == /\ Type1
        /\ \A key \in private1 : bid1[key].org \in policy1
        /\ status1 # "ended" => price1 = 0
        /\ NoHigherBidLeft

(* The end of the auction: the best revealed price, and none of the        *)
(* endorsing peers knows of a better one.                                  *)
LEMMA EndKeeps1 == ASSUME Inv1, NEW c \in Client, EndAuction1(c) PROVE Inv1'
<1> USE Price1Assumption
<1>0. bid1 \in Seq(Bid1Record) /\ private1 \subseteq DOMAIN bid1 /\ revealed1 \subseteq private1
      BY DEF Inv1, Type1
<1>1. UNCHANGED <<policy1, private1, revealed1, bid1>> /\ status1' = "ended" /\ price1 = 0 /\ revealed1 # {}
      BY DEF EndAuction1, Inv1
<1>2. PICK P : P = {bid1[key].price : key \in revealed1} OBVIOUS
<1>3. \A key \in private1 : bid1[key].price \in Int
  <2> TAKE key \in private1
  <2>1. key \in DOMAIN bid1 BY <1>0
  <2>2. bid1[key] \in Bid1Record BY <1>0, <2>1
  <2>3. bid1[key].price \in Price BY <2>2 DEF Bid1Record
  <2> QED BY <2>3
<1>4. P \subseteq Int /\ P # {} BY <1>0, <1>1, <1>2, <1>3
<1>5. IsFiniteSet(P)
  <2>0. PICK n \in Nat : DOMAIN bid1 = 1..n BY <1>0
  <2>1. revealed1 \subseteq 1..n BY <1>0, <2>0
  <2>2. IsFiniteSet(1..n) BY FS_Interval
  <2>3. IsFiniteSet(revealed1) BY <2>1, <2>2, FS_Subset
  <2>4. PICK g : g = [key \in revealed1 |-> bid1[key].price] OBVIOUS
  <2>5. g \in Surjection(revealed1, P) BY <1>2, <2>4 DEF Surjection
  <2> QED BY <2>3, <2>5, FS_Surjection
<1>6. Max(P) \in Int /\ \A key \in revealed1 : bid1[key].price <= Max(P)
  <2>1. Max(P) \in P /\ \A y \in P : Max(P) >= y BY <1>4, <1>5, MaxIsGreatest
  <2>2. \A key \in revealed1 : bid1[key].price \in P BY <1>2
  <2> QED BY <1>4, <2>1, <2>2
<1>7. \/ Max(P) > 0 /\ price1' = Max(P)
      \/ Max(P) <= 0 /\ price1' = price1 BY <1>2 DEF EndAuction1
<1>8. price1' \in Int /\ \A key \in revealed1 : bid1[key].price <= price1'
      BY <1>0, <1>1, <1>3, <1>6, <1>7
<1>9. ASSUME NEW key \in private1 PROVE bid1[key].price <= price1'
  <2>1. CASE key \in revealed1 BY <1>8, <2>1
  <2>2. CASE key \notin revealed1
    <3>1. bid1[key].org \in policy1 BY DEF Inv1
    <3>2. checkForHigherBid1(bid1[key].org, price1') BY <3>1 DEF EndAuction1
    <3> QED BY <2>2, <3>2 DEF checkForHigherBid1
  <2> QED BY <2>1, <2>2
<1>10. Type1' BY <1>0, <1>1, <1>8 DEF Type1
<1>11. NoHigherBidLeft' BY <1>1, <1>9 DEF NoHigherBidLeft
<1>12. \A key \in private1' : bid1'[key].org \in policy1' BY <1>1 DEF Inv1
<1> QED BY <1>1, <1>10, <1>11, <1>12 DEF Inv1

(* Every step of the sealed-bid auction keeps its invariant.               *)
LEMMA Step1 == Inv1 /\ [Next1]_vars1 => Inv1'
<1> SUFFICES ASSUME Inv1, [Next1]_vars1 PROVE Inv1' OBVIOUS
<1> USE Price1Assumption
<1>0. bid1 \in Seq(Bid1Record) /\ private1 \subseteq DOMAIN bid1 /\ revealed1 \subseteq private1 /\ price1 \in Int
      BY DEF Inv1, Type1
<1>1. ASSUME NEW c \in Client, CreateAuction1(c) PROVE Inv1'
  <2>1. status1' = "open" /\ price1' = 0 /\ private1' = {} /\ revealed1' = {} /\ bid1' = bid1
        BY <1>1 DEF CreateAuction1
  <2> QED BY <1>0, <2>1 DEF Inv1, Type1, NoHigherBidLeft
<1>2. ASSUME NEW c \in Client, NEW p \in Price, NEW b \in Client, Bid1(c, p, b) PROVE Inv1'
  <2>1. PICK r : r = [org |-> OrgOf[c], price |-> p, bidder |-> b] OBVIOUS
  <2>2. r \in Bid1Record BY <2>1 DEF Bid1Record, Org
  <2>3. bid1' = Append(bid1, r) /\ UNCHANGED <<status1, policy1, price1, private1, revealed1>>
        BY <1>2, <2>1 DEF Bid1
  <2>4. bid1' \in Seq(Bid1Record) /\ DOMAIN bid1 \subseteq DOMAIN bid1'
        /\ \A key \in DOMAIN bid1 : bid1'[key] = bid1[key] BY <1>0, <2>2, <2>3
  <2>5. \A key \in private1 : bid1'[key] = bid1[key] BY <1>0, <2>4
  <2>6. Type1' BY <1>0, <2>3, <2>4 DEF Type1
  <2>7. NoHigherBidLeft' BY <2>3, <2>5 DEF Inv1, NoHigherBidLeft
  <2>8. \A key \in private1' : bid1'[key].org \in policy1' BY <2>3, <2>5 DEF Inv1
  <2>9. status1' # "ended" => price1' = 0 BY <2>3 DEF Inv1
  <2> QED BY <2>6, <2>7, <2>8, <2>9 DEF Inv1
<1>3. ASSUME NEW c \in Client, NEW key \in DOMAIN bid1, SubmitBid1(c, key) PROVE Inv1'
  <2>1. status1 = "open" /\ bid1[key].org = OrgOf[c] /\ private1' = private1 \cup {key}
        /\ policy1' = policy1 \cup {OrgOf[c]} /\ UNCHANGED <<status1, price1, revealed1, bid1>>
        BY <1>3 DEF SubmitBid1
  <2> QED BY <1>0, <2>1 DEF Inv1, Type1, NoHigherBidLeft
<1>4. ASSUME NEW c \in Client, NEW key \in DOMAIN bid1, RevealBid1(c, key) PROVE Inv1'
  <2>1. key \in private1 /\ revealed1' = revealed1 \cup {key}
        /\ UNCHANGED <<status1, policy1, price1, private1, bid1>> BY <1>4 DEF RevealBid1
  <2> QED BY <1>0, <2>1 DEF Inv1, Type1, NoHigherBidLeft
<1>5. ASSUME NEW c \in Client, CloseAuction1(c) PROVE Inv1'
  <2>1. status1 = "open" /\ status1' = "closed" /\ UNCHANGED <<policy1, price1, private1, revealed1, bid1>>
        BY <1>5 DEF CloseAuction1
  <2> QED BY <1>0, <2>1 DEF Inv1, Type1, NoHigherBidLeft
<1>6. ASSUME NEW c \in Client, EndAuction1(c) PROVE Inv1' BY <1>6, EndKeeps1
<1>7. ASSUME UNCHANGED vars1 PROVE Inv1' BY <1>7 DEF vars1, Inv1, Type1, NoHigherBidLeft
<1> QED BY <1>1, <1>2, <1>3, <1>4, <1>5, <1>6, <1>7 DEF Next1

(* No bid, no price.                                                       *)
LEMMA InitKeeps1 == Init1 => Inv1
<1> SUFFICES ASSUME Init1 PROVE Inv1 OBVIOUS
<1>1. bid1 = <<>> /\ private1 = {} /\ revealed1 = {} /\ price1 = 0 /\ status1 = "none" BY DEF Init1
<1>2. Type1 BY <1>1 DEF Type1
<1> QED BY <1>1, <1>2 DEF Inv1, NoHigherBidLeft

-----------------------------------------------------------------------------
(* The uniform-price auction.                                              *)

BidRecordD == [org : Org, price : PriceD, quantity : QuantityD, buyer : Client]

TypeD == /\ bidD \in Seq(BidRecordD)
         /\ privateD \subseteq DOMAIN bidD /\ revealedD \subseteq privateD
         /\ quantityD \in Nat /\ orgsD \subseteq Org

(* The organizations of all submitted bids take part.                      *)
InvD == /\ TypeD
        /\ \A key \in privateD : bidD[key].org \in orgsD
        /\ statusD = "none" => privateD = {}
        /\ SellsWhatItCan
        /\ ClearingPriceFair

(* A sequence of the revealed bids has each of them once.                  *)
LEMMA EachBidOnce ==
    ASSUME NEW R, IsFiniteSet(R), NEW s \in SetToSeqs(R)
    PROVE  \E n \in Nat : /\ s \in [1..n -> R]
                          /\ \A i, j \in 1..n : s[i] = s[j] => i = j
                          /\ {s[i] : i \in 1..n} = R
<1>1. PICK n : n = Cardinality(R) OBVIOUS
<1>2. n \in Nat BY <1>1, FS_CardinalityType
<1>3. s \in [1..n -> R] /\ \A i, j \in 1..n : i # j => s[i] # s[j] BY <1>1 DEF SetToSeqs
<1>4. s \in Injection(1..n, R) BY <1>3 DEF Injection, IsInjective
<1>5. Cardinality(1..n) = n
  <2>1. Cardinality(1..n) = IF 1 > n THEN 0 ELSE n - 1 + 1 BY <1>2, FS_Interval
  <2> QED BY <1>2, <2>1
<1>6. s \in Surjection(1..n, R) BY <1>1, <1>4, <1>5, FS_Injection
<1>7. {s[i] : i \in 1..n} = R BY <1>3, <1>6 DEF Surjection
<1> QED BY <1>2, <1>3, <1>7

(* The bids in a sequence of n that find something left of Q, when they    *)
(* ask for q[1], q[2], ...                                                 *)
Served(q, n, Q) == {i \in 1..n : Q - SumOver(q, 1..(i - 1)) > 0}
Asked(q, n, Q) == n \in Nat /\ Q \in Nat /\ \A i \in 1..n : q[i] \in Nat

(* The bids that are served are the first ones.                            *)
LEMMA ServedFirst ==
    ASSUME NEW n, NEW Q, NEW q, Asked(q, n, Q)
    PROVE  \E m \in Nat : m <= n /\ Served(q, n, Q) = 1..m
<1> USE DEF Asked, Served
<1> SUFFICES \E m \in 0..n : {i \in 1..n : Q - SumOver(q, 1..(i - 1)) > 0} = 1..m OBVIOUS
<1>0. n \in Nat /\ Q \in Nat /\ \A i \in 1..n : q[i] \in Nat OBVIOUS
<1> DEFINE S(k) == SumOver(q, 1..k)
           served == {i \in 1..n : Q - S(i - 1) > 0}
<1>1. \A i \in 1..n : \A j \in 1..n : i <= j => S(i - 1) \in Nat /\ S(j - 1) \in Nat /\ S(i - 1) <= S(j - 1)
  <2> SUFFICES ASSUME NEW i \in 1..n, NEW j \in 1..n, i <= j
               PROVE  S(i - 1) \in Nat /\ S(j - 1) \in Nat /\ S(i - 1) <= S(j - 1) OBVIOUS
  <2>1. i - 1 \in Nat /\ j - 1 \in Nat /\ i - 1 <= j - 1 /\ \A x \in 1..(j - 1) : q[x] \in Nat OBVIOUS
  <2> QED BY <2>1, SumPrefix
<1> HIDE DEF S
<1>2. CASE served = {}
  <2>1. 1..0 = {} /\ 0 \in 0..n OBVIOUS
  <2> QED BY <1>2, <2>1 DEF S
<1>3. CASE served # {}
  <2>1. IsFiniteSet(served)
    <3>1. IsFiniteSet(1..n) /\ served \subseteq 1..n BY FS_Interval
    <3> QED BY <3>1, FS_Subset
  <2>2. served \subseteq Int OBVIOUS
  <2>3. Max(served) \in served /\ \A y \in served : Max(served) >= y
    <3> HIDE DEF served
    <3> QED BY <1>3, <2>1, <2>2, MaxIsGreatest
  <2>4. PICK m \in 1..n : m = Max(served) BY <2>3
  <2>5. \A i \in 1..m : i \in served BY <1>1, <2>3, <2>4
  <2>6. served = 1..m BY <2>3, <2>4, <2>5
  <2>7. m \in 0..n OBVIOUS
  <2> QED BY <2>6, <2>7 DEF S
<1> QED BY <1>2, <1>3 DEF S

(* What the first m bids get of Q.                                         *)
Gets(w, q, m, Q) == \A i \in 1..m : w[i] = Min({q[i], Q - SumOver(q, 1..(i - 1))})

(* What the first bids get: what they ask for, up to what there is.        *)
LEMMA ServedGet ==
    ASSUME NEW n, NEW Q, NEW q, Asked(q, n, Q),
           NEW m, m \in Nat, m <= n, Served(q, n, Q) = 1..m,
           NEW w, Gets(w, q, m, Q)
    PROVE  SumOver(w, 1..m) = Min({Q, SumOver(q, 1..n)})
<1> USE DEF Asked, Served, Gets
<1>0. n \in Nat /\ Q \in Nat /\ (\A i \in 1..n : q[i] \in Nat) /\ m \in 0..n
      /\ {i \in 1..n : Q - SumOver(q, 1..(i - 1)) > 0} = 1..m
      /\ \A i \in 1..m : w[i] = Min({q[i], Q - SumOver(q, 1..(i - 1))}) OBVIOUS
<1> DEFINE S(k) == SumOver(q, 1..k)
           T(k) == SumOver(w, 1..k)
           Least(a, b) == IF a <= b THEN a ELSE b
           G == {k \in Nat : k <= m => T(k) = Least(Q, S(k))}
<1>1. \A k \in 0..n : S(k) \in Nat /\ S(n) \in Nat /\ S(k) <= S(n) BY SumPrefix
<1>2. \A i \in 1..m : S(i - 1) < Q
  <2> TAKE i \in 1..m
  <2>1. i \in {j \in 1..n : Q - S(j - 1) > 0} OBVIOUS
  <2>2. i - 1 \in 0..n /\ Q - S(i - 1) > 0 BY <2>1
  <2>3. S(i - 1) \in Nat BY <1>1, <2>2
  <2> HIDE DEF S
  <2> QED BY <2>2, <2>3
<1>3. \A i \in 1..m : w[i] = Least(q[i], Q - S(i - 1)) /\ w[i] \in Int
  <2> TAKE i \in 1..m
  <2>1. S(i - 1) \in Nat BY <1>1
  <2>2. w[i] = Min({q[i], Q - S(i - 1)}) OBVIOUS
  <2>3. q[i] \in Int OBVIOUS
  <2> HIDE DEF S
  <2>4. Q - S(i - 1) \in Int BY <2>1
  <2> QED BY <2>2, <2>3, <2>4, MinOfTwo
<1>4. 0 \in G
  <2>1. 1..0 = {} OBVIOUS
  <2>2. S(0) = 0 /\ T(0) = 0 BY <2>1, SumEmpty
  <2> HIDE DEF S, T
  <2> QED BY <2>2
<1>5. ASSUME NEW k \in Nat, k \in G PROVE k + 1 \in G
  <2> SUFFICES ASSUME k + 1 <= m PROVE T(k + 1) = Least(Q, S(k + 1)) OBVIOUS
  <2>1. T(k) = Least(Q, S(k)) BY <1>5
  <2>2. k + 1 \in 1..m /\ (k + 1) - 1 = k /\ k \in 0..n /\ k + 1 \in 0..n OBVIOUS
  <2>3. S(k) < Q /\ w[k + 1] = Least(q[k + 1], Q - S(k)) BY <1>2, <1>3, <2>2
  <2>4. \A i \in 1..(k + 1) : q[i] \in Int OBVIOUS
  <2>5. S(k + 1) = S(k) + q[k + 1] BY <2>4, SumUpTo
  <2>6. \A i \in 1..(k + 1) : w[i] \in Int BY <1>3
  <2>7. T(k + 1) = T(k) + w[k + 1] BY <2>6, SumUpTo
  <2>8. q[k + 1] \in Nat /\ S(k) \in Nat BY <1>1, <2>2
  <2> HIDE DEF S, T, G
  <2>9. T(k) = S(k) BY <2>1, <2>3, <2>8
  <2>10. CASE q[k + 1] <= Q - S(k)
    <3>1. w[k + 1] = q[k + 1] BY <2>3, <2>10
    <3>2. T(k + 1) = S(k + 1) BY <2>5, <2>7, <2>9, <3>1
    <3>3. S(k + 1) <= Q BY <2>5, <2>8, <2>10
    <3>4. S(k + 1) \in Int BY <2>5, <2>8
    <3> QED BY <3>2, <3>3, <3>4
  <2>11. CASE ~(q[k + 1] <= Q - S(k))
    <3>1. w[k + 1] = Q - S(k) BY <2>3, <2>11
    <3>2. T(k + 1) = Q BY <2>7, <2>8, <2>9, <3>1
    <3>3. Q <= S(k + 1) BY <2>5, <2>8, <2>11
    <3> QED BY <3>2, <3>3
  <2> QED BY <2>10, <2>11
<1>6. Nat \subseteq G
  <2> HIDE DEF G
  <2> QED BY <1>4, <1>5, NatSetInduction
<1>7. T(m) = Least(Q, S(m)) BY <1>6
<1>8. Least(Q, S(m)) = Least(Q, S(n))
  <2>1. CASE m = n BY <2>1
  <2>2. CASE m # n
    <3>1. m + 1 \in 1..n /\ m + 1 \notin 1..m /\ (m + 1) - 1 = m BY <2>2
    <3>2. ~(Q - S(m) > 0) BY <3>1
    <3>3. S(m) \in Nat /\ S(n) \in Nat /\ S(m) <= S(n) BY <1>1
    <3> HIDE DEF S
    <3> QED BY <3>2, <3>3
  <2> QED BY <2>1, <2>2
<1>9. Min({Q, S(n)}) = Least(Q, S(n))
  <2>1. S(n) \in Int BY <1>1
  <2> HIDE DEF S
  <2> QED BY <2>1, MinOfTwo
<1> QED BY <1>7, <1>8, <1>9

(* The winners in the order in which they are served: m of them, who get   *)
(* what can be sold; one less than m means that nothing is left.           *)
ServedAs(s, n, m) ==
    /\ DOMAIN s = 1..n /\ {s[i] : i \in 1..n} = revealedD
    /\ DOMAIN WinnersOf(s) = 1..m /\ Len(WinnersOf(s)) = m
    /\ \A i \in 1..m : WinnersOf(s)[i].key = s[i]
    /\ quantityD > 0 /\ n > 0 => m > 0
    /\ SumOver([i \in 1..m |-> WinnersOf(s)[i].quantity], 1..m)
       = Min({quantityD, SumOver([k \in revealedD |-> bidD[k].quantity], revealedD)})

(* However the revealed bids are sorted, their winners are served so.      *)
LEMMA WinnersServed ==
    ASSUME TypeD, NEW s \in SetToSeqs(revealedD)
    PROVE  \E n \in Nat : \E m \in 0..n : ServedAs(s, n, m)
<1> USE PriceDAssumption
<1>0. bidD \in Seq(BidRecordD) /\ revealedD \subseteq DOMAIN bidD /\ quantityD \in Nat BY DEF TypeD
<1>1. IsFiniteSet(revealedD)
  <2>1. PICK l \in Nat : DOMAIN bidD = 1..l BY <1>0
  <2>2. IsFiniteSet(1..l) BY FS_Interval
  <2> QED BY <1>0, <2>1, <2>2, FS_Subset
<1>2. PICK n \in Nat : /\ s \in [1..n -> revealedD]
                       /\ \A i, j \in 1..n : s[i] = s[j] => i = j
                       /\ {s[i] : i \in 1..n} = revealedD BY <1>1, EachBidOnce
<1>3. PICK q : q = [j \in 1..n |-> bidD[s[j]].quantity] OBVIOUS
<1>4. \A k \in revealedD : bidD[k].quantity \in Nat
  <2> TAKE k \in revealedD
  <2>1. bidD[k] \in BidRecordD BY <1>0
  <2>2. bidD[k].quantity \in QuantityD BY <2>1 DEF BidRecordD
  <2> QED BY <2>2
<1>5. \A i \in 1..n : q[i] \in Nat BY <1>2, <1>3, <1>4
<1>a. Asked(q, n, quantityD) BY <1>0, <1>5 DEF Asked
<1>b. PICK m \in Nat : m <= n /\ Served(q, n, quantityD) = 1..m BY <1>a, ServedFirst
<1>6. m \in 0..n /\ {i \in 1..n : quantityD - SumOver(q, 1..(i - 1)) > 0} = 1..m BY <1>b DEF Served
<1>7. DOMAIN s = 1..n BY <1>2
<1>8. \A i \in 1..n : Remaining(s, i) = quantityD - SumOver(q, 1..(i - 1)) BY <1>3, <1>7 DEF Remaining
<1>9. {i \in DOMAIN s : Remaining(s, i) > 0} = 1..m BY <1>6, <1>7, <1>8
<1>10. PICK W : W = WinnersOf(s) OBVIOUS
<1>11. W = [i \in 1..m |-> [key |-> s[i], buyer |-> bidD[s[i]].buyer,
                            quantity |-> Min({bidD[s[i]].quantity, Remaining(s, i)})]]
       BY <1>9, <1>10 DEF WinnersOf
<1>12. DOMAIN W = 1..m /\ (\A i \in 1..m : W[i].key = s[i])
       /\ \A i \in 1..m : W[i].quantity = Min({bidD[s[i]].quantity, Remaining(s, i)}) BY <1>11
<1>13. Len(W) = m
  <2>1. PICK X : X = {W[i] : i \in 1..m} OBVIOUS
  <2>2. W \in [1..m -> X] BY <1>11, <2>1
  <2>3. W \in Seq(X) BY <2>2 DEF Seq
  <2> QED BY <1>12, <2>3
<1>14. PICK w : w = [i \in 1..m |-> W[i].quantity] OBVIOUS
<1>15. \A i \in 1..m : w[i] = Min({q[i], quantityD - SumOver(q, 1..(i - 1))})
  <2> TAKE i \in 1..m
  <2>1. i \in 1..n BY <1>6
  <2>2. w[i] = W[i].quantity /\ q[i] = bidD[s[i]].quantity BY <1>3, <1>14, <2>1
  <2>3. W[i].quantity = Min({bidD[s[i]].quantity, Remaining(s, i)}) BY <1>12
  <2>4. Remaining(s, i) = quantityD - SumOver(q, 1..(i - 1)) BY <1>8, <2>1
  <2> QED BY <2>2, <2>3, <2>4
<1>c. Gets(w, q, m, quantityD) BY <1>15 DEF Gets
<1>16. SumOver(w, 1..m) = Min({quantityD, SumOver(q, 1..n)}) BY <1>a, <1>b, <1>c, ServedGet
<1>17. SumOver(q, 1..n) = SumOver([k \in revealedD |-> bidD[k].quantity], revealedD)
  <2>1. PICK f : f = [k \in revealedD |-> bidD[k].quantity] OBVIOUS
  <2>2. IsFiniteSet(1..n) BY FS_Interval
  <2>3. \A i \in 1..n : f[s[i]] \in Int /\ q[i] = f[s[i]] BY <1>2, <1>3, <1>4, <2>1
  <2>4. Places(s, f, q, 1..n) BY <1>2, <2>2, <2>3 DEF Places
  <2>5. SumOver(f, {s[i] : i \in 1..n}) = SumOver(q, 1..n) BY <2>4, SumPlaces
  <2> QED BY <1>2, <2>1, <2>5
<1>18. ASSUME quantityD > 0, n > 0 PROVE m > 0
  <2>1. 1..(1 - 1) = {} /\ 1 \in 1..n BY <1>18
  <2>2. SumOver(q, 1..(1 - 1)) = 0 BY <2>1, SumEmpty
  <2>3. quantityD - SumOver(q, 1..(1 - 1)) > 0 BY <1>0, <1>18, <2>2
  <2>4. 1 \in {i \in 1..n : quantityD - SumOver(q, 1..(i - 1)) > 0} BY <2>1, <2>3
  <2>5. 1 \in 1..m BY <1>6, <2>4
  <2>6. 1 <= m BY <2>5
  <2> QED BY <1>b, <2>6
<1>19. SumOver([i \in 1..m |-> W[i].quantity], 1..m)
       = Min({quantityD, SumOver([k \in revealedD |-> bidD[k].quantity], revealedD)})
       BY <1>14, <1>16, <1>17
<1>20. ServedAs(s, n, m)
  <2>1. DOMAIN s = 1..n /\ {s[i] : i \in 1..n} = revealedD BY <1>2, <1>7
  <2>2. DOMAIN W = 1..m /\ Len(W) = m /\ \A i \in 1..m : W[i].key = s[i] BY <1>12, <1>13
  <2>3. quantityD > 0 /\ n > 0 => m > 0 BY <1>18
  <2> QED BY <1>10, <1>19, <2>1, <2>2, <2>3 DEF ServedAs
<1> QED BY <1>6, <1>20

(* The end of the auction.                                                 *)
LEMMA EndKeepsD == ASSUME InvD, NEW c \in Client, EndAuctionD(c) PROVE InvD'
<1> USE PriceDAssumption
<1>0. TypeD /\ statusD' = "ended" /\ revealedD # {}
      /\ UNCHANGED <<quantityD, auditorD, orgsD, privateD, revealedD, bidD>> BY DEF InvD, EndAuctionD
<1>1. PICK s \in SetToSeqs(revealedD) :
          /\ SortedBids(s)
          /\ winnersD' = WinnersOf(s)
          /\ clearingD' = IF WinnersOf(s) = <<>> THEN 0 ELSE bidD[s[Len(WinnersOf(s))]].price
      BY DEF EndAuctionD
<1>a. PICK n \in Nat : \E m \in 0..n : ServedAs(s, n, m) BY <1>0, WinnersServed
<1>b. PICK m \in 0..n : ServedAs(s, n, m) BY <1>a
<1>2. /\ DOMAIN s = 1..n /\ {s[i] : i \in 1..n} = revealedD
      /\ DOMAIN WinnersOf(s) = 1..m /\ Len(WinnersOf(s)) = m
      /\ \A i \in 1..m : WinnersOf(s)[i].key = s[i]
      /\ quantityD > 0 /\ n > 0 => m > 0
      /\ SumOver([i \in 1..m |-> WinnersOf(s)[i].quantity], 1..m)
         = Min({quantityD, SumOver([k \in revealedD |-> bidD[k].quantity], revealedD)})
      BY <1>b DEF ServedAs
<1>3. PICK W : W = WinnersOf(s) OBVIOUS
<1>4. winnersD' = W /\ DOMAIN W = 1..m /\ Len(W) = m /\ \A i \in 1..m : W[i].key = s[i] BY <1>1, <1>2, <1>3
<1>5. SellsWhatItCan'
  <2>1. Sold' = SumOver([i \in 1..m |-> W[i].quantity], 1..m) BY <1>4 DEF Sold
  <2> QED BY <1>0, <1>2, <1>3, <2>1 DEF SellsWhatItCan
<1>6. ASSUME ~auditorD, quantityD > 0, NEW key \in privateD
      PROVE  bidD[key].price <= clearingD' \/ \E i \in 1..m : W[i].key = key
  <2>1. \A k \in privateD : bidD[k].price \in Int
    <3> TAKE k \in privateD
    <3>1. bidD[k] \in BidRecordD BY <1>0 DEF TypeD
    <3>2. bidD[k].price \in PriceD BY <3>1 DEF BidRecordD
    <3> QED BY <3>2
  <2>2. CASE key \notin revealedD
    <3>1. bidD[key].org \in orgsD /\ bidD[key].org # "auditor" BY DEF InvD, TypeD
    <3>2. \A o \in orgsD : IF o = "auditor" THEN AuditorAccepts(c) ELSE checkForHigherBidD(o, clearingD')
          BY <1>6 DEF EndAuctionD, Endorsers
    <3>3. checkForHigherBidD(bidD[key].org, clearingD') BY <3>1, <3>2
    <3> QED BY <2>2, <3>3 DEF checkForHigherBidD
  <2>3. CASE key \in revealedD
    <3>1. PICK j \in 1..n : s[j] = key BY <1>2, <2>3
    <3>2. m > 0 /\ m \in 1..n
      <4>1. n > 0 BY <3>1
      <4> QED BY <1>2, <1>6, <4>1
    <3>3. W # <<>> BY <1>4, <3>2
    <3>4. clearingD' = bidD[s[m]].price BY <1>1, <1>2, <1>3, <3>3
    <3>5. CASE j \in 1..m BY <1>4, <3>1, <3>5
    <3>6. CASE j \notin 1..m
      <4>1. m < j BY <3>2, <3>6
      <4>2. bidD[s[m]].price > bidD[s[j]].price \/ bidD[s[m]].price = bidD[s[j]].price
            BY <1>1, <1>2, <3>2, <4>1 DEF SortedBids
      <4>3. s[m] \in privateD /\ s[j] \in privateD BY <1>0, <1>2, <3>2 DEF TypeD
      <4> QED BY <2>1, <3>1, <3>4, <4>2, <4>3
    <3> QED BY <3>5, <3>6
  <2> QED BY <2>2, <2>3
<1>7. ClearingPriceFair' BY <1>0, <1>4, <1>6 DEF ClearingPriceFair
<1>8. TypeD' BY <1>0 DEF TypeD
<1>9. \A key \in privateD' : bidD'[key].org \in orgsD' BY <1>0 DEF InvD
<1> QED BY <1>0, <1>5, <1>7, <1>8, <1>9 DEF InvD

(* Every step of the uniform-price auction keeps its invariant.            *)
LEMMA StepD == InvD /\ [NextD]_varsD => InvD'
<1> SUFFICES ASSUME InvD, [NextD]_varsD PROVE InvD' OBVIOUS
<1> USE PriceDAssumption
<1>0. bidD \in Seq(BidRecordD) /\ privateD \subseteq DOMAIN bidD /\ revealedD \subseteq privateD
      /\ quantityD \in Nat /\ orgsD \subseteq Org BY DEF InvD, TypeD
<1>1. ASSUME statusD' \notin {"none", "ended"}, TypeD', \A key \in privateD' : bidD'[key].org \in orgsD'
      PROVE  InvD' BY <1>1 DEF InvD, SellsWhatItCan, ClearingPriceFair
<1>2. ASSUME NEW c \in Client, NEW q \in QuantityD, NEW b \in BOOLEAN, CreateAuctionD(c, q, b) PROVE InvD'
  <2>1. statusD' = "open" /\ quantityD' = q /\ orgsD' = {OrgOf[c]} /\ UNCHANGED <<privateD, revealedD, bidD>>
        /\ statusD = "none" BY <1>2 DEF CreateAuctionD
  <2>2. TypeD' BY <1>0, <2>1 DEF TypeD, Org
  <2>3. privateD' = {} BY <2>1 DEF InvD
  <2> QED BY <1>1, <2>1, <2>2, <2>3
<1>3. ASSUME NEW c \in Client, NEW p \in PriceD, NEW q \in QuantityD, NEW b \in Client, BidD(c, p, q, b)
      PROVE  InvD'
  <2>1. PICK r : r = [org |-> OrgOf[c], price |-> p, quantity |-> q, buyer |-> b] OBVIOUS
  <2>2. r \in BidRecordD BY <2>1 DEF BidRecordD, Org
  <2>3. bidD' = Append(bidD, r)
        /\ UNCHANGED <<statusD, quantityD, auditorD, orgsD, winnersD, clearingD, privateD, revealedD>>
        BY <1>3, <2>1 DEF BidD
  <2>4. bidD' \in Seq(BidRecordD) /\ DOMAIN bidD \subseteq DOMAIN bidD'
        /\ \A key \in DOMAIN bidD : bidD'[key] = bidD[key] BY <1>0, <2>2, <2>3
  <2>5. \A key \in privateD : bidD'[key] = bidD[key] BY <1>0, <2>4
  <2>6. TypeD' BY <1>0, <2>3, <2>4 DEF TypeD
  <2>7. \A key \in privateD' : bidD'[key].org \in orgsD' BY <2>3, <2>5 DEF InvD
  <2>8. SellsWhatItCan'
    <3>1. [k \in revealedD |-> bidD'[k].quantity] = [k \in revealedD |-> bidD[k].quantity] BY <1>0, <2>5
    <3>2. Sold' = Sold BY <2>3 DEF Sold
    <3>3. [k \in revealedD' |-> bidD'[k].quantity] = [k \in revealedD |-> bidD[k].quantity] BY <2>3, <3>1
    <3> QED BY <2>3, <3>2, <3>3 DEF InvD, SellsWhatItCan
  <2>9. ClearingPriceFair' BY <2>3, <2>5 DEF InvD, ClearingPriceFair
  <2> QED BY <2>3, <2>6, <2>7, <2>8, <2>9 DEF InvD
<1>4. ASSUME NEW c \in Client, NEW key \in DOMAIN bidD, SubmitBidD(c, key) PROVE InvD'
  <2>1. statusD = "open" /\ bidD[key].org = OrgOf[c] /\ privateD' = privateD \cup {key}
        /\ orgsD' = orgsD \cup {OrgOf[c]} /\ UNCHANGED <<statusD, quantityD, revealedD, bidD>>
        BY <1>4 DEF SubmitBidD
  <2>2. TypeD' BY <1>0, <2>1 DEF TypeD, Org
  <2>3. \A k \in privateD' : bidD'[k].org \in orgsD' BY <2>1 DEF InvD
  <2> QED BY <1>1, <2>1, <2>2, <2>3
<1>5. ASSUME NEW c \in Client, NEW key \in DOMAIN bidD, RevealBidD(c, key) PROVE InvD'
  <2>1. statusD = "closed" /\ key \in privateD /\ revealedD' = revealedD \cup {key}
        /\ UNCHANGED <<statusD, quantityD, orgsD, privateD, bidD>> BY <1>5 DEF RevealBidD
  <2>2. TypeD' BY <1>0, <2>1 DEF TypeD
  <2>3. \A k \in privateD' : bidD'[k].org \in orgsD' BY <2>1 DEF InvD
  <2> QED BY <1>1, <2>1, <2>2, <2>3
<1>6. ASSUME NEW c \in Client, CloseAuctionD(c) PROVE InvD'
  <2>1. statusD' = "closed" /\ UNCHANGED <<quantityD, orgsD, privateD, revealedD, bidD>>
        BY <1>6 DEF CloseAuctionD
  <2>2. TypeD' BY <1>0, <2>1 DEF TypeD
  <2>3. \A k \in privateD' : bidD'[k].org \in orgsD' BY <2>1 DEF InvD
  <2> QED BY <1>1, <2>1, <2>2, <2>3
<1>7. ASSUME NEW c \in Client, EndAuctionD(c) PROVE InvD' BY <1>7, EndKeepsD
<1>8. ASSUME UNCHANGED varsD PROVE InvD'
      BY <1>8 DEF varsD, InvD, TypeD, SellsWhatItCan, ClearingPriceFair, Sold
<1> QED BY <1>2, <1>3, <1>4, <1>5, <1>6, <1>7, <1>8 DEF NextD

(* No bid has been submitted.                                              *)
LEMMA InitKeepsD == InitD => InvD
<1> SUFFICES ASSUME InitD PROVE InvD OBVIOUS
<1>1. bidD = <<>> /\ privateD = {} /\ revealedD = {} /\ quantityD = 0 /\ orgsD = {} /\ statusD = "none"
      BY DEF InitD
<1>2. TypeD BY <1>1 DEF TypeD
<1> QED BY <1>1, <1>2 DEF InvD, SellsWhatItCan, ClearingPriceFair

(* No higher bid of an endorsing organization is left out, what can be     *)
(* sold is sold, and no one who bid more than the winners' price is passed *)
(* over: EndAuction of both samples, for any number of bids.               *)
THEOREM Auctions == Spec => []AuctionsFair
<1>1. Init => Inv1 /\ InvD BY InitKeeps1, InitKeepsD DEF Init
<1>2. Inv1 /\ InvD /\ [Next]_allVars => Inv1' /\ InvD' BY OneChaincode, Step1, StepD
<1>3. Inv1 /\ InvD => AuctionsFair BY DEF Inv1, InvD, AuctionsFair
<1> QED BY <1>1, <1>2, <1>3, PTL DEF Spec, allVars

=============================================================================
