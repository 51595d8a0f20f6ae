---------------------------- MODULE TokenLedger ----------------------------
(***************************************************************************)
(* What a fungible token promises, whatever rows it keeps: accounts hold   *)
(* amounts of each kind of token, a step issues tokens to one account,     *)
(* retires tokens of one account, or moves tokens out of one account into  *)
(* others without changing how many there are.                             *)
(***************************************************************************)
EXTENDS Sums

CONSTANTS Account, Kind
VARIABLE held            \* held[a][k]: what account a holds of kind k

Total(h, k) == SumOver([a \in Account |-> h[a][k]], Account)

LedgerInit == held = [a \in Account |-> [k \in Kind |-> 0]]

OnlyChanges(a) == \A b \in Account \ {a} : held'[b] = held[b]

Issue(a) == OnlyChanges(a) /\ \A k \in Kind : held'[a][k] >= held[a][k]

Retire(a) == /\ OnlyChanges(a)
             /\ \A k \in Kind : held'[a][k] \in 0..held[a][k]

Move(a) == \A k \in Kind :
              /\ held'[a][k] \in 0..held[a][k]
              /\ \A b \in Account \ {a} : held'[b][k] >= held[b][k]
              /\ Total(held', k) = Total(held, k)

LedgerNext == \E a \in Account : Issue(a) \/ Retire(a) \/ Move(a)

LedgerSpec == LedgerInit /\ [][LedgerNext]_held
=============================================================================
