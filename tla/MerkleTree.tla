------------------------------ MODULE MerkleTree ------------------------------
(***************************************************************************)
(* The binary hash tree over a block's transactions.  A hash is the term   *)
(* it was computed from, so that different inputs have different hashes;   *)
(* what the tree is given as a leaf is any value.                          *)
(***************************************************************************)
EXTENDS Integers, SequencesExt

CONSTANT ZeroHash    \* Hash::ZERO, the root of no leaves

HashLeaf(data) == <<"leaf", data>>
HashNode(left, right) == <<"node", left, right>>

\* The hashes one level up; an odd last element is paired with itself.
NextLevel(level) ==
  [i \in 1..((Len(level) + 1) \div 2) |->
     HashNode(level[2 * i - 1], level[IF 2 * i <= Len(level) THEN 2 * i ELSE 2 * i - 1])]

\* The levels from the leaves (0) up. The code stops at the one of a single
\* hash, which is level Depth.
Levels(leaves) ==
  LET level[k \in 0..Len(leaves)] ==
        IF k = 0 THEN leaves ELSE NextLevel(level[k - 1])
  IN level

Depth(leaves) ==
  CHOOSE d \in 0..Len(leaves) : /\ Len(Levels(leaves)[d]) <= 1
                                /\ \A e \in 0..(d - 1) : Len(Levels(leaves)[e]) > 1

Root(leaves) == IF leaves = <<>> THEN ZeroHash ELSE Levels(leaves)[Depth(leaves)][1]

\* generate_proof: what a leaf (numbered from 0, as in the code) is hashed with
\* on its way to the root.
AuditPath(leaves, index) ==
  LET Sibling(level, i) ==
        IF i % 2 = 1 THEN level[i]
        ELSE level[IF i + 1 < Len(level) THEN i + 2 ELSE i + 1]
      at[k \in 0..Depth(leaves)] == IF k = 0 THEN index ELSE at[k - 1] \div 2
  IN [k \in 1..Depth(leaves) |-> [hash |-> Sibling(Levels(leaves)[k - 1], at[k - 1]),
                                  right |-> at[k - 1] % 2 = 0]]

\* One turn of verify's loop.
Join(hash, step) ==
  IF step.right THEN HashNode(hash, step.hash) ELSE HashNode(step.hash, hash)

\* Where a path leads from a hash.
Climb(hash, path) ==
  LET reached[k \in 0..Len(path)] ==
        IF k = 0 THEN hash ELSE Join(reached[k - 1], path[k])
  IN reached[Len(path)]

\* MerkleProof::verify.
Verify(path, root, data) == Climb(HashLeaf(data), path) = root
=============================================================================
