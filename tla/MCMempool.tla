------------------------------ MODULE MCMempool ------------------------------
(***************************************************************************)
(* Transactions of two senders: alice's first (a1), one that can replace   *)
(* it (a1up), one of the same slot that pays too little to (a1lo, of the   *)
(* same rate), and one of bob's that pays the lowest rate (b1).            *)
(***************************************************************************)
EXTENDS Mempool

CONSTANTS a1, a1up, a1lo, b1, alice, bob

SenderOf == [x \in Txs |-> IF x = b1 THEN bob ELSE alice]
NonceOf == [x \in Txs |-> 1]
FeeOf == [x \in Txs |-> CASE x = a1up -> 440 [] x = b1 -> 200
                          [] OTHER -> 400]
SizeOf == [x \in Txs |-> IF x = b1 THEN 2 ELSE 1]
RankOf == [x \in Txs |-> CASE x = a1 -> 1 [] x = a1up -> 2 [] x = a1lo -> 3 [] OTHER -> 5]
=============================================================================
