------------------------------- MODULE ChainSync -------------------------------
(***************************************************************************)
(* aura-network's ChainSyncer: a node follows the chain of others.         *)
(* Threads call apply_block_batch on one shared StateDB with batches as    *)
(* peers send them: out of order, repeated, of a rival chain, or with a    *)
(* body that is not the header's.  A call reads the latest height once, at *)
(* its start; it checks, executes and commits block after block; what it   *)
(* committed before an error stays.  The process may be killed, and a      *)
(* write may fail with the block already in memory.                        *)
(***************************************************************************)
EXTENDS Execution, MerkleTree

CONSTANTS
  Tasks,           \* threads that call apply_block_batch
  Blocks,          \* the blocks peers send, and the genesis block
  Height, HeaderHash, PrevHash, MerkleRoot,  \* what a block's header says
  Body,            \* Body[b]: its transactions, by their hashes
  Genuine,         \* the transactions whose signature and sender are right
  GenesisBlock, GenesisAccounts,
  MaxHeight,       \* bounds the heights
  Batches,         \* the batches peers send
  Honest,          \* the batch of the chain to follow, heights 1 to MaxHeight
  MaxFaults,       \* bounds the crashes and failed writes of a behaviour
  NoBlock

Heights == 0..MaxHeight

ASSUME ChainSyncAssumption ==
  /\ MaxHeight \in Nat /\ MaxFaults \in Nat
  /\ GenesisBlock \in Blocks /\ NoBlock \notin Blocks
  /\ Height \in [Blocks -> Heights] /\ Height[GenesisBlock] = 0
  /\ GenesisAccounts \in [Addresses -> Account]
  /\ Body \in [Blocks -> Seq(Txs)]
  /\ Batches \subseteq Seq(Blocks) /\ Honest \in Batches

VARIABLES
  mem,      \* the database in memory
  disk,     \* what its file holds
  task,     \* the calls in progress
  overlap,  \* ghost: two calls have been in progress at once
  faults    \* crashes and failed writes so far

vars == <<mem, disk, task, overlap, faults>>

Databases == [latest : Heights, at : [Heights -> Blocks \cup {NoBlock}],
              accounts : [Addresses -> Account]]

Idle == [pc |-> "idle", batch |-> <<>>, latest |-> 0, rest |-> <<>>, overlay |-> <<>>]

InProgress(t) == task[t].pc \in {"next", "executing"}

Init ==
  /\ mem = [latest |-> 0, accounts |-> GenesisAccounts,
            at |-> [h \in Heights |-> IF h = 0 THEN GenesisBlock ELSE NoBlock]]
  /\ disk = mem
  /\ task = [t \in Tasks |-> Idle]
  /\ overlap = FALSE /\ faults = 0

-----------------------------------------------------------------------------
(* Mutated forms of definitions of this module: bugs the real ones do not  *)
(* have.                                                                   *)

\* BodiesBound: a body is believed to be the header's.
ValidBasicUnrooted(b) == \A i \in DOMAIN Body[b] : Body[b][i] \in Genuine

\* Linked: the parent hash is not compared.
LinksAny(b, prev) == TRUE

\* NoGap: the batch lacks the height index.
PutUnindexed(db, b, overlay) ==
  [db EXCEPT !.latest = Height[b],
     !.accounts = [a \in Addresses |-> IF a \in DOMAIN overlay THEN overlay[a] ELSE @[a]]]

\* ReplicaAgrees: the recipient is not written to the overlay.
TouchedSender(x) == {Sender[x]}

\* CatchesUp: a block that is not the next one ends the call.
SkipEnds(t) ==
  /\ task[t].pc = "next" /\ task[t].batch # <<>>
  /\ Height[Head(task[t].batch)] # task[t].latest + 1
  /\ task' = [task EXCEPT ![t] = Idle]
  /\ UNCHANGED <<mem, disk, overlap, faults>>

-----------------------------------------------------------------------------
(* One block.                                                              *)

\* Block::validate_basic.
ValidBasic(b) ==
  /\ Root(Body[b]) = MerkleRoot[b]
  /\ \A i \in DOMAIN Body[b] : Body[b][i] \in Genuine

Links(b, prev) == PrevHash[b] = HeaderHash[prev]

\* The block at hand is the one after the call's latest height.
IsNext(t) == Height[Head(task[t].batch)] = task[t].latest + 1

\* The accounts through an overlay that holds some of them.
Overlaid(accounts, overlay) ==
  [a \in Addresses |-> IF a \in DOMAIN overlay THEN overlay[a] ELSE accounts[a]]

\* The addresses execution writes to the overlay.
Touched(x) == {Sender[x]} \cup IF Kind[x] = "Transfer" THEN {Recipient[x]} ELSE {}

Put(db, b, overlay) ==
  [latest |-> Height[b], at |-> [db.at EXCEPT ![Height[b]] = b],
   accounts |-> Overlaid(db.accounts, overlay)]

\* verify_light_client_proof.
VerifyLightClientProof(root, x, path) == Verify(path, root, x)

-----------------------------------------------------------------------------
(* apply_block_batch.                                                      *)

Becomes(t, r) == task' = [task EXCEPT ![t] = r]

Call(t, batch) ==
  /\ task[t].pc = "idle"
  /\ Becomes(t, [Idle EXCEPT !.pc = "next", !.batch = batch, !.latest = mem.latest])
  /\ overlap' = (overlap \/ \E u \in Tasks : InProgress(u))
  /\ UNCHANGED <<mem, disk, faults>>

\* Out of order: the block is passed over.
Skip(t) ==
  /\ task[t].pc = "next" /\ task[t].batch # <<>> /\ ~IsNext(t)
  /\ Becomes(t, [task[t] EXCEPT !.batch = Tail(@)])
  /\ UNCHANGED <<mem, disk, overlap, faults>>

\* validate_basic and the link to the previous block: an error ends the call,
\* a missing previous block its thread.
Check(t) ==
  LET b == Head(task[t].batch)
      prev == mem.at[task[t].latest]
  IN /\ task[t].pc = "next" /\ task[t].batch # <<>> /\ IsNext(t)
     /\ \/ ~ValidBasic(b) /\ Becomes(t, Idle)
        \/ ValidBasic(b) /\ prev = NoBlock /\ Becomes(t, [Idle EXCEPT !.pc = "panicked"])
        \/ ValidBasic(b) /\ prev # NoBlock /\ ~Links(b, prev) /\ Becomes(t, Idle)
        \/ /\ ValidBasic(b) /\ prev # NoBlock /\ Links(b, prev)
           /\ Becomes(t, [task[t] EXCEPT !.pc = "executing", !.rest = Body[b],
                                          !.overlay = <<>>])
     /\ UNCHANGED <<mem, disk, overlap, faults>>

\* One transaction, on the accounts as the overlay and the store have them now.
ExecuteNext(t) ==
  LET x == Head(task[t].rest)
      after == Execute(Overlaid(mem.accounts, task[t].overlay), x)
  IN /\ task[t].pc = "executing" /\ task[t].rest # <<>>
     /\ Becomes(t, [task[t] EXCEPT !.rest = Tail(@),
                       !.overlay = [a \in DOMAIN @ \cup Touched(x) |-> after[a]]])
     /\ UNCHANGED <<mem, disk, overlap, faults>>

\* commit_block.  When the write fails the block is in memory, and the call
\* ends with the error.
Commit(t, written) ==
  LET b == Head(task[t].batch)
  IN /\ task[t].pc = "executing" /\ task[t].rest = <<>>
     /\ mem' = Put(mem, b, task[t].overlay)
     /\ disk' = IF written THEN mem' ELSE disk
     /\ faults' = IF written THEN faults ELSE faults + 1
     /\ faults' <= MaxFaults
     /\ Becomes(t, IF written
                      THEN [Idle EXCEPT !.pc = "next", !.batch = Tail(task[t].batch),
                                        !.latest = Height[b]]
                      ELSE Idle)
     /\ UNCHANGED overlap

\* The end of the batch.
Return(t) ==
  /\ task[t].pc = "next" /\ task[t].batch = <<>>
  /\ Becomes(t, Idle)
  /\ UNCHANGED <<mem, disk, overlap, faults>>

\* The process is killed and started again.
Restart ==
  /\ faults < MaxFaults /\ faults' = faults + 1
  /\ mem' = disk /\ task' = [t \in Tasks |-> Idle]
  /\ UNCHANGED <<disk, overlap>>

-----------------------------------------------------------------------------
Advance(t) == Skip(t) \/ Check(t) \/ ExecuteNext(t) \/ Commit(t, TRUE) \/ Return(t)

Next ==
  \/ \E t \in Tasks : \/ \E batch \in Batches : Call(t, batch)
                      \/ Skip(t) \/ Check(t) \/ ExecuteNext(t) \/ Return(t)
                      \/ \E written \in BOOLEAN : Commit(t, written)
  \/ Restart

Spec == Init /\ [][Next]_vars

\* A call runs to its end, and the honest chain is offered again and again.
FairSpec ==
  /\ Spec
  /\ \A t \in Tasks : WF_vars(Advance(t)) /\ SF_vars(Call(t, Honest))

-----------------------------------------------------------------------------
(* Properties.                                                             *)

IsOverlay(f) ==
  /\ DOMAIN f \subseteq Addresses /\ f = [a \in DOMAIN f |-> f[a]]
  /\ \A a \in DOMAIN f : f[a] \in Account

\* Every variable has its type; no account is lost from the store.
TypeOK ==
  /\ mem \in Databases /\ disk \in Databases
  /\ \A t \in Tasks :
       /\ task[t].pc \in {"idle", "next", "executing", "panicked"}
       /\ task[t].batch \in Seq(Blocks) /\ task[t].latest \in Heights
       /\ task[t].rest \in Seq(Txs) /\ IsOverlay(task[t].overlay)
  /\ overlap \in BOOLEAN /\ faults \in 0..MaxFaults

Gapless(db) == \A h \in 0..db.latest : db.at[h] \in Blocks /\ Height[db.at[h]] = h

\* No height up to the latest is without its block, in memory or in what a
\* restart finds, and the expect on the previous block never panics: also when
\* calls overlap and set the latest height back.
NoGap ==
  /\ Gapless(mem) /\ Gapless(disk)
  /\ \A t \in Tasks : task[t].pc # "panicked"

Chained(db) ==
  \A h \in 1..db.latest : PrevHash[db.at[h]] = HeaderHash[db.at[h - 1]]

\* As long as calls do not overlap, every stored block names the one stored
\* below it, whatever was sent, failed or restarted.
Linked == ~overlap => Chained(mem) /\ Chained(disk)

\* The accounts as the chain of a database makes them, block by block.
Replay(db) ==
  LET after[h \in 0..db.latest] ==
        IF h = 0 THEN GenesisAccounts ELSE FoldLeft(Execute, after[h - 1], Body[db.at[h]])
  IN after[db.latest]

\* A follower's accounts are those of executing its chain once: no block was
\* executed twice, on a wrong base, or by half.  This is all that ties a
\* follower's state to its chain, as the header's state_root is not compared.
ReplicaAgrees ==
  ~overlap => mem.accounts = Replay(mem) /\ disk.accounts = Replay(disk)

\* The transactions of a stored block are genuine, the path the tree gives out
\* for each of them leads to the root in the header, and no other body of as many
\* transactions passes for the block's.  As many: the last hash of an odd level
\* is paired with itself, so that a body has the root, and the block hash, of the
\* one with its last transaction repeated, which is stored and executed.
BodiesBound ==
  \A h \in 1..mem.latest :
    LET b == mem.at[h] IN
      /\ \A i \in DOMAIN Body[b] :
           /\ Body[b][i] \in Genuine
           /\ Climb(Body[b][i], AuditPath(Body[b], i - 1)) = MerkleRoot[b]
      /\ \A c \in Blocks :
           Root(Body[c]) = MerkleRoot[b] /\ Len(Body[c]) = Len(Body[b]) => Body[c] = Body[b]

\* A follower that never takes a block of another chain gets the whole chain,
\* although it may be given parts of it, in any order, and may fail and
\* restart in between.
CatchesUp ==
  [](\A h \in 1..mem.latest : mem.at[h] = Honest[h]) => <>(mem.latest = MaxHeight)

-----------------------------------------------------------------------------
(* What the repository says of the code, and the code does not do.         *)

\* A light client is convinced that a transaction of a stored block is in it, by
\* the path that block's tree gives out.  It never is: it hashes the
\* transaction's hash once more, which in the tree is a leaf as it is.
LightClientConvinced ==
  \A h \in 1..mem.latest :
    LET b == mem.at[h] IN
      \A i \in DOMAIN Body[b] :
        VerifyLightClientProof(MerkleRoot[b], Body[b][i], AuditPath(Body[b], i - 1))
=============================================================================
