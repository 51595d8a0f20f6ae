--------------------------- MODULE FungibleToken ---------------------------
(***************************************************************************)
(* The ERC-20 sample (token-erc-20/chaincode-go): balances under the       *)
(* client's identifier, one key for the total supply, one key per          *)
(* allowance.  A missing key reads as 0.                                   *)
(***************************************************************************)
EXTENDS Fabric

CONSTANT Amounts20       \* amounts a client passes, from -1 up
ASSUME Amounts20Assumption == Amounts20 \subseteq Int

VARIABLES
    named20,             \* nameKey is set: the contract is initialized
    balance20,           \* balance20[c]
    supply20,            \* totalSupplyKey
    allowance20          \* allowance20[owner][spender]

vars20 == <<named20, balance20, supply20, allowance20>>

Init20 == /\ named20 = FALSE
          /\ balance20 = [c \in Client |-> 0]
          /\ supply20 = 0
          /\ allowance20 = [o \in Client |-> [s \in Client |-> 0]]

(* add and sub: an addition that overflows, a subtraction of an amount    *)
(* that is not positive or not covered, end the transaction.              *)
Adds20(b, q) == b + q \in 0..MaxInt
Subs20(b, q) == q > 0 /\ q <= b

Initialize20(c) ==
    /\ OrgOf[c] = MinterOrg
    /\ ~named20
    /\ named20' = TRUE
    /\ UNCHANGED <<balance20, supply20, allowance20>>

Mint20(c, amount) ==
    /\ named20 /\ OrgOf[c] = MinterOrg /\ amount > 0
    /\ Adds20(balance20[c], amount)
    /\ Adds20(supply20, amount)
    /\ balance20' = [balance20 EXCEPT ![c] = @ + amount]
    /\ supply20' = supply20 + amount
    /\ UNCHANGED <<named20, allowance20>>

Burn20(c, amount) ==
    /\ named20 /\ OrgOf[c] = MinterOrg /\ amount > 0
    /\ Subs20(balance20[c], amount)
    /\ Subs20(supply20, amount)
    /\ balance20' = [balance20 EXCEPT ![c] = @ - amount]
    /\ supply20' = supply20 - amount
    /\ UNCHANGED <<named20, allowance20>>

(* Both balances are read before either is written.                       *)
transferOverdrawn(from, to, value) ==
    /\ from # to /\ value >= 0 /\ Adds20(balance20[to], value)
    /\ balance20' = [balance20 EXCEPT ![from] = balance20[from] - value,
                                      ![to] = balance20[to] + value]
transferHelper(from, to, value) ==
    /\ from # to /\ value >= 0
    /\ balance20[from] >= value
    /\ Subs20(balance20[from], value)
    /\ Adds20(balance20[to], value)
    /\ balance20' = [balance20 EXCEPT ![from] = balance20[from] - value,
                                      ![to] = balance20[to] + value]

Transfer20(c, to, value) ==
    /\ named20
    /\ transferHelper(c, to, value)
    /\ UNCHANGED <<named20, supply20, allowance20>>

Approve20(c, spender, value) ==
    /\ named20
    /\ allowance20' = [allowance20 EXCEPT ![c][spender] = value]
    /\ UNCHANGED <<named20, balance20, supply20>>

TransferFrom20(c, from, to, value) ==
    /\ named20
    /\ allowance20[from][c] >= value
    /\ transferHelper(from, to, value)
    /\ Subs20(allowance20[from][c], value)
    /\ allowance20' = [allowance20 EXCEPT ![from][c] = @ - value]
    /\ UNCHANGED <<named20, supply20>>

Next20 == \E c \in Client :
    \/ Initialize20(c)
    \/ \E n \in Amounts20 :
          \/ Mint20(c, n)
          \/ Burn20(c, n)
          \/ \E to \in Client : Transfer20(c, to, n)
          \/ \E s \in Operator : Approve20(c, s, n)
          \/ \E from, to \in Client : TransferFrom20(c, from, to, n)

Spec20 == Init20 /\ [][Next20]_vars20

(* The queries of the contract.                                           *)
BalanceOf20(account) == balance20[account]
TotalSupply20 == supply20
-----------------------------------------------------------------------------
(* TotalSupply answers the sum of what BalanceOf answers: no order of     *)
(* mints, burns, transfers and transfers on allowance, near the limit of  *)
(* the integers included, makes or loses tokens.                          *)
SupplyIsHeld == TotalSupply20 = SumOver([c \in Client |-> BalanceOf20(c)], Client)

(* The contract implements the token ledger: a mint issues to the minter  *)
(* only, a burn retires, and both transfers move without making tokens.   *)
Ledger20 == INSTANCE TokenLedger WITH Account <- Client, Kind <- {1},
    held <- [c \in Client |-> [k \in {1} |-> balance20[c]]]
IsLedger20 == Ledger20!LedgerSpec
=============================================================================
