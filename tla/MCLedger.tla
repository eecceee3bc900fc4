------------------------------- MODULE MCLedger -------------------------------
(***************************************************************************)
(* alice has 10 coins and two payments to bob of which she can afford       *)
(* either, but not both (pay1, and pay2, whose nonce leaves a gap when it  *)
(* goes alone); bob passes coins on (pass) and sends some to himself       *)
(* (self); val, the genesis validator, whom a payment can fund, takes      *)
(* stake out (unstake).  16 stands for 2^64.                               *)
(***************************************************************************)
EXTENDS Ledger

CONSTANTS alice, bob, val, pay1, pay2, pass, self, unstake, enroll

SenderOf == [x \in Txs |-> CASE x \in {pay1, pay2, enroll} -> alice
                             [] x = unstake -> val [] OTHER -> bob]
RecipientOf == [x \in Txs |-> CASE x \in {pay1, pay2, self} -> bob [] OTHER -> val]
KindOf == [x \in Txs |-> CASE x = unstake -> "Unstake" [] x = enroll -> "RegisterValidator"
                           [] OTHER -> "Transfer"]
AmountOf == [x \in Txs |-> CASE x = pay1 -> 6 [] x = pay2 -> 5 [] x = pass -> 3
                             [] x = unstake -> 1 [] OTHER -> 2]
FeeOf == [x \in Txs |-> 1]
NonceOf == [x \in Txs |-> IF x \in {pay2, self, enroll} THEN 2 ELSE 1]
\* Of one fee per byte, the higher nonce goes first.
PriorityOf == [x \in Txs |-> CASE x = pay2 -> 6 [] x = self -> 5 [] x = pass -> 4
                               [] x = pay1 -> 3 [] x = enroll -> 2 [] OTHER -> 1]
BalanceOf == [a \in Addresses |-> CASE a = alice -> 10 [] a = bob -> 4 [] OTHER -> 0]
StakeOf == [a \in Addresses |-> IF a = val THEN 1 ELSE 0]
=============================================================================
