------------------------------ MODULE Execution ------------------------------
(***************************************************************************)
(* What executing a transaction does to the accounts.  The engine and the  *)
(* ChainSyncer each have a copy of this loop body; neither checks anything *)
(* in it.  Amounts are unsigned integers below Width (2^64 in the code).   *)
(***************************************************************************)
EXTENDS Integers

CONSTANTS
  Addresses, Txs,
  Kind, Sender, Recipient, Amount, Fee, Nonce,   \* functions of a transaction
  Width             \* 2^64

Kinds == {"Transfer", "RegisterValidator", "Stake", "Unstake"}
Amounts == 0..(Width - 1)

ASSUME ExecutionAssumption ==
  /\ Width \in Nat \ {0}
  /\ Kind \in [Txs -> Kinds]
  /\ Sender \in [Txs -> Addresses] /\ Recipient \in [Txs -> Addresses]
  /\ Amount \in [Txs -> Amounts] /\ Fee \in [Txs -> Amounts]
  /\ Nonce \in [Txs -> Nat]

Account == [balance : Amounts, nonce : Nat, staked : Amounts, validator : BOOLEAN]

\* A missing key.
NoAccount == [balance |-> 0, nonce |-> 0, staked |-> 0, validator |-> FALSE]

SatAdd(m, n) == IF m + n < Width THEN m + n ELSE Width - 1

\* A mutated form of SatSub, which Ledger!TypeOK must notice: it does not
\* saturate.
PlainSub(m, n) == m - n

SatSub(m, n) == IF n <= m THEN m - n ELSE 0

-----------------------------------------------------------------------------
(* Execution.  The sum of amount and fee wraps; the rest saturates.  The   *)
(* sender's account is written last, over a credit to the same account.    *)

Paid(acc, x) ==
  [acc EXCEPT !.balance = SatSub(@, (Amount[x] + Fee[x]) % Width), !.nonce = @ + 1]

\* The sender's account after x.
Spent(acc, x) ==
  CASE Kind[x] = "Transfer" -> Paid(acc, x)
    [] Kind[x] = "RegisterValidator" ->
         [Paid(acc, x) EXCEPT !.validator = TRUE, !.staked = SatAdd(@, Amount[x])]
    [] Kind[x] = "Stake" -> [Paid(acc, x) EXCEPT !.staked = SatAdd(@, Amount[x])]
    [] Kind[x] = "Unstake" -> [Paid(acc, x) EXCEPT !.staked = SatSub(@, Amount[x]),
                                                   !.balance = SatAdd(@, Amount[x])]

\* A mutated form of Credit, which Ledger!SupplyLaw must notice: the recipient
\* gets the fee, too.
CreditWhole(acc, x) ==
  [acc EXCEPT ![Recipient[x]].balance = SatAdd(@, Amount[x] + Fee[x])]

Credit(acc, x) ==
  [acc EXCEPT ![Recipient[x]].balance = SatAdd(@, Amount[x])]

Execute(acc, x) ==
  [IF Kind[x] = "Transfer" THEN Credit(acc, x) ELSE acc
     EXCEPT ![Sender[x]] = Spent(acc[Sender[x]], x)]
=============================================================================
