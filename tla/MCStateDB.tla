------------------------------ MODULE MCStateDB ------------------------------
(***************************************************************************)
(* A small chain for TLC: a genesis block, two rival blocks of height 1    *)
(* and one of height 2, over two accounts, so that batches overlap, are    *)
(* overwritten and overtake one another.                                   *)
(***************************************************************************)
EXTENDS StateDB, TLC

CONSTANTS g, b1, c1, b2, x, y

MCBlocks == {g, b1, c1, b2}
RivalBlocks == {g, b1, c1}
MCAddresses == {x, y}
MCHeight == [b \in Blocks |-> CASE b = g -> 0 [] b = b2 -> 2 [] OTHER -> 1]
MCWrites ==
  [b \in Blocks |-> CASE b = b1 -> {x} [] b = b2 -> {y} [] OTHER -> {x, y}]

ThreadSymmetry == Permutations(Threads)
=============================================================================
