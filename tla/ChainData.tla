------------------------------ MODULE ChainData ------------------------------
(***************************************************************************)
(* The content of an Aura database: what aura-storage keeps in one         *)
(* key-value map under the prefixes "m:", "h:", "b:" and "a:", and the     *)
(* effect of one batch (a block together with the accounts its execution   *)
(* wrote) on it.                                                           *)
(***************************************************************************)
EXTENDS Integers

CONSTANTS
  Blocks,       \* block identities (hashes), the genesis block included
  Addresses,    \* account addresses
  Height,       \* Height[b]: the height in the header of block b
  Writes,       \* Writes[b]: the addresses in the overlay committed with b
  MaxHeight,    \* the highest height of a block in Blocks
  NoBlock       \* a missing key

ASSUME ChainAssumption ==
  /\ MaxHeight \in Nat
  /\ Height \in [Blocks -> 0..MaxHeight]
  /\ Writes \in [Blocks -> SUBSET Addresses]
  /\ NoBlock \notin Blocks

Heights == 0..MaxHeight

\* accounts[a] is the block whose execution wrote the account last; the
\* account's balance, nonce and stake are a function of it.
Contents ==
  [latest   : Heights,
   byHeight : [Heights -> Blocks \cup {NoBlock}],
   blocks   : SUBSET Blocks,
   accounts : [Addresses -> Blocks \cup {NoBlock}]]

\* An empty BTreeMap. get_latest_height answers 0 for a missing key.
EmptyContent ==
  [latest   |-> 0,
   byHeight |-> [h \in Heights |-> NoBlock],
   blocks   |-> {},
   accounts |-> [a \in Addresses |-> NoBlock]]

\* The account map after the writes of block b.
Touch(accounts, b) ==
  [a \in Addresses |-> IF a \in Writes[b] THEN b ELSE accounts[a]]

\* The batch built by commit_block (and, for the genesis block, by
\* apply_genesis): accounts, block, height index and latest height.
PutBlock(c, b) ==
  [latest   |-> Height[b],
   byHeight |-> [c.byHeight EXCEPT ![Height[b]] = b],
   blocks   |-> c.blocks \cup {b},
   accounts |-> Touch(c.accounts, b)]

\* A content no batch is half applied in: its latest height is indexed, the
\* block is stored, and every account that block wrote carries its effect.
Whole(c) ==
  \/ c = EmptyContent
  \/ LET b == c.byHeight[c.latest] IN
       /\ b \in c.blocks
       /\ \A a \in Writes[b] : c.accounts[a] = b
       /\ \A h \in Heights : c.byHeight[h] \in c.blocks \cup {NoBlock}
=============================================================================
