------------------------------ MODULE MCChainSync ------------------------------
(***************************************************************************)
(* A chain h1, h2, h3 to follow; a rival r1 of h1; x2, the header of h2    *)
(* with another body; f2, a block on h1 with a forged transaction; and d1, *)
(* the header of h1 with the last of its three transactions repeated,      *)
(* which has the same root.  h3 has no transaction.                        *)
(***************************************************************************)
EXTENDS ChainSync

CONSTANTS alice, bob, pay, pass, stake, forged, g, h1, h2, h3, r1, x2, f2, d1

SenderOf == [x \in Txs |-> IF x = pass THEN bob ELSE alice]
RecipientOf == [x \in Txs |-> IF x = pass THEN alice ELSE bob]
KindOf == [x \in Txs |-> IF x = stake THEN "Stake" ELSE "Transfer"]
AmountOf == [x \in Txs |-> CASE x = pay -> 5 [] x = pass -> 2 [] OTHER -> 1]
FeeOf == [x \in Txs |-> 1]
NonceOf == [x \in Txs |-> IF x = stake THEN 2 ELSE 1]

HeightOf == [b \in Blocks |-> CASE b = g -> 0 [] b \in {h1, r1, d1} -> 1
                                [] b = h3 -> 3 [] OTHER -> 2]
\* A header's hash is the block that was made with it.
HeaderOf == [b \in Blocks |-> CASE b = x2 -> h2 [] b = d1 -> h1 [] OTHER -> b]
PrevOf == [b \in Blocks |-> CASE b \in {h1, r1, d1} -> g [] b \in {h2, x2, f2} -> h1
                              [] b = h3 -> h2 [] OTHER -> NoBlock]
BodyOf == [b \in Blocks |-> CASE b = h1 -> <<pay, pass, stake>> [] b = h2 -> <<pass>>
                              [] b = x2 -> <<pay>> [] b = r1 -> <<pay, pass>>
                              [] b = d1 -> <<pay, pass, stake, stake>>
                              [] b = f2 -> <<forged>> [] OTHER -> <<>>]
RootOf == [b \in Blocks |-> Root(BodyOf[HeaderOf[b]])]

AccountsAtGenesis ==
  [a \in Addresses |-> [NoAccount EXCEPT !.balance = IF a = alice THEN 10 ELSE 0]]

Chain == <<h1, h2, h3>>
SentBatches == {Chain, <<h2, h1, h1>>, <<h1, x2, h3>>, <<r1, h2>>, <<h1, f2>>,
                <<d1, h2>>}
=============================================================================
