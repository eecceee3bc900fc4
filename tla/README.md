# A TLA+ development of Aura

These modules specify the Aura blockchain node: how it stores blocks, how validators agree on
them, how transactions wait for them and are executed, how a node follows the chain of others,
how the daemon behaves to its clients, and how the tunnel carries data. TLC checks the modules on
small instances; TLAPS proves the main results for all values of the constants. File and line
numbers in comments refer to the sources under `src/`; file names without a directory are those of
the crate a module is about.

* [Inventory](#inventory-of-the-system)
* [Modules and their relation to the code](#modules)
* [What the runs check](#runs)
* [Disagreements between code and documents](#disagreements)
* [What is proved](#proofs)
* [What is not modelled](#not-modelled)

## Inventory of the system

| Part | State | Operations | Talks to | Module |
|---|---|---|---|---|
| `aura-storage`: `KeyValueStore`, `StateDB` | an in-memory map (`RwLock`), the file `state.db`, the leaves of a sparse Merkle tree (`RwLock`) | `open`, `apply_genesis`, `commit_block`, `persist`, `get_*` | engine, syncer and RPC share one `Arc<StateDB>` | `StateDB` |
| `aura-storage`: `WriteAheadLog` | one log file | `open`, `append`, `recover_and_truncate` | nobody yet | `Wal` |
| `aura-mempool`: `Mempool` | `by_hash`, `by_sender`, `priority_index`, `total_bytes`, each behind a lock of its own | `add_transaction`, `harvest`, `remove_committed`, `evict_transaction` | reads accounts from `StateDB`; called by RPC threads and by the engine | `Mempool` |
| `aura-consensus`: `ConsensusEngine` | height, round, step, proposed block, prevotes, precommits, last certificate, each behind a lock of its own | `create_proposal`, `handle_proposal`, `handle_prevote`, `handle_precommit` | commits to `StateDB`, harvests from and cleans `Mempool` | `ConsensusEngine` |
| `aura-consensus`: slashing | none | `DoubleSignEvidence::verify`, `apply_slashing` | no caller | `ConsensusEngine!Evidence` |
| transaction execution | an overlay of accounts | `execute_transactions_speculative`, and its copy in `apply_block_batch` | engine, syncer | `Execution`, `Ledger` |
| `aura-network`: `ChainSyncer` | none of its own | `apply_block_batch`, `verify_light_client_proof` | commits to `StateDB` | `ChainSync` |
| `aura-network`: `PeerManager` | peers with heights and reputations | `add_peer`, `penalize`, `reward`, ... | RPC counts peers | |
| `aura-rpc` | a broadcast channel | `sendTransaction`, `getAccount`, `getNodeInfo`, other queries, a WebSocket feed | `Mempool`, `StateDB` | `NodeDaemon` |
| `aura-node` | the process: runtime workers, RPC task, production loop | `init`, `run`, `tx` | all of the above | `NodeDaemon` |
| `aura-primitives` | data and pure functions | hashing, encoding, Merkle trees | all | `MerkleTree`, data of others |
| `aura-crypto` | none | signing, hashing | all | |
| `aura-tunnel` | sequence numbers of a cipher, the host's stream table | `encrypt`, `decrypt`, the SOCKS5 client, the host loop | the network | `Tunnel` |
| Android host and VPN client | pairing codes, approved clients, a tunnel thread | pairing, approval, packet forwarding | UDP | |
| Explorer | one peer connection, file buffers | chat, file transfer, ping | PeerJS, RPC | |

The behaviours that are hard to get right, and to test:

* **Locks.** All locks of the crates are parking_lot's: not reentrant, and a queued writer bars new
  readers. The engine and the mempool take many short ones, so that calls interleave between any two
  statements, and a statement or call that takes a lock it has already never returns. The
  callers are asynchronous tasks: one that never returns takes a worker of the runtime with it.
* **Crashes and failing files.** `persist` rewrites the whole database through `state.tmp`, the
  log appends in three writes; any of their system calls can fail, and the process or the machine
  may stop between any two.
* **Votes and blocks.** They may be lost, delayed, repeated and reordered, and a validator forgets
  its votes at a restart. Blocks of a batch come out of order, or with bodies that are not theirs.
* **Streams.** Several share one connection, one loop and one sequence of numbers.
* **Numbers.** Two-thirds thresholds, replacement fees, capacity limits, saturating sums.

What makes each component correct, in one line: a store loses no acknowledged block and shows no
half of one; a log gives back what it acknowledged; validators store one block per height and
can be blamed if they do not; a pool keeps what it accepted, within its limits, and its calls
return; a ledger neither makes nor loses coins and executes a transaction once; a syncer leaves a chain
linked and its accounts those of the chain; a daemon answers what a restart will not take back;
a tunnel delivers the bytes it was given, once and in order.

## Modules

| Module | What it is |
|---|---|
| `ChainData` | blocks, accounts and what one batch does to the stored contents |
| `AtomicStore` | the abstract store: blocks are put in one step, a crash goes back to the last state that was saved, and what is acknowledged is saved |
| `StateDB` | the store as it is written; `Abstract == INSTANCE AtomicStore WITH ...` at its end |
| `Wal` | the write-ahead log, write by write |
| `ConsensusEngine` | validators, each with an engine and a database, over an unreliable transport |
| `Mempool` | one mempool, RPC threads that add, a producer that harvests and removes |
| `Execution` | what a transaction does to the accounts: the loop body that engine and syncer share |
| `Ledger` | accounts: validation of transactions, execution and commit of blocks, genesis, restarts |
| `MerkleTree` | the tree over a block's transactions, its paths and their verification |
| `ChainSync` | threads that apply batches of blocks to one store; composes `Execution` and `MerkleTree` |
| `NodeDaemon` | the process with its workers, the production loop, RPC, feed and clients |
| `Pipe` | the abstract tunnel: on each stream a prefix of what went in comes out |
| `Tunnel` | client, connection, host, streams; `P == INSTANCE Pipe` at its end |
| `MC*` | the instances for TLC |
| `*Proofs` | the theorems |

Each module is parameterised by constants (validators, threads, transactions, limits) with named
assumptions. Ahead of the actions of each module stand *mutated forms* of some definitions: bugs
the code does not have. They are used by no specification; each is there because putting it in
place of the real definition must make TLC report the property its comment names.

### StateDB

One action is one system call or one critical section. `StageBatch` takes `smt.write()` and updates
the leaves (`state.rs` 117-179); `ApplyBatch` changes the map (`kv.rs` 91-103); `Serialize`,
`OpenTmp`, `WriteTmp`, `SyncTmp` and `Rename` are the statements of `persist`; `ReturnOk` releases
the tree. `IoError` is the `?` of any of them. `Crash` leaves the files; `PowerLoss`, allowed when
`PowerFails`, also loses what was neither synced nor, as `Writeback` may do at any time, written
back by the operating system. `Open` loads the file and rebuilds the tree from its accounts.
`ReadHeight`, `ReadRoot` and `Answer` are `getNodeInfo`.

Two threads commit at once in the runs. Today the production loop is the only committer of a node,
and `ChainSyncer` shares the same `StateDB` in the tests' cluster: the interface is meant for
threads, and the guard on the tree, which nobody wrote for this purpose, is what keeps two
`persist` calls from writing one temporary file.

Data: a block has a height and the accounts it writes, an account is the last block that wrote it.
The root of the tree is abstracted to its leaves, that is, hashes are taken to be free of collisions.

### Wal

The file is a sequence of items: whole records, torn pieces, and zeros, which some file systems
leave where data had not been written yet and which read as an empty record with a correct
checksum. `WriteLength`, `WriteChecksum`, `WritePayload` and `SyncRecord` are the statements of
`append`; `Fail` is the `?` of any of them. `cache` is the file as the running system sees it, `medium`
as it was when it was last synced; after a `PowerLoss` the file is anything `Images` allows
between the two: some of what was written, perhaps with a torn or zero end, or an old end that a
truncation had removed. `Recover` is `recover_and_truncate`, whose `set_len` is not synced. `dirty`
says whether the log was recovered since the last start or failure; `append` asks for nothing of the
kind. The checksum is ideal: a torn record is not taken for a whole one.

### ConsensusEngine

One action is one call of a handler including all calls nested in it: `handle_proposal` counts its
own prevote, which may cast and count a precommit, which may commit. The handlers are functions
(`AfterProposal`, `AfterPrevote`, `AfterPrecommit`) of an engine and a database, which the actions
apply. One task drives an engine, so handlers of one engine do not interleave. `state` records how
that task stopped: `"hung"` when `handle_precommit` clears the votes under its caller's guard
(`engine.rs` 291 or 292), `"failed"` and `"orphan"` at the two `expect`s. A handler that does not
return releases nothing to other validators.

The transport is the set `released`: any handler may be given any vote in it at any time, any number
of times or never. `aura-node` has no transport between validators yet; its test harness and the
handlers' interfaces are what this stands for. All validators are honest and the set of
validators is fixed. `Variants` distinguishes the blocks a proposer makes at one height, which in
the code differ in their timestamps. Rounds do not occur: no code changes `current_round` from 0.
Power is a measure on sets of validators (`PowerAssumption`), so that a quorum is one comparison.
What transactions do, and `remove_committed`, are left out; the latter hangs earlier in the same
call if the block has transactions (see `Mempool`), after the block is stored just the same.
`Evidence` is what `DoubleSignEvidence::verify` compares of two votes.

### Mempool

One action is one statement with the lock it takes, since no guard but two is kept from one statement
to the next: `by_sender` during a replacement and `priority_index` during a harvest. `senderLock`
and `prioHeld` are those two; `jammed` stands for `total_bytes` after a thread has asked for its
write lock while holding its read lock. `LowerBytes` is that statement (`pool.rs` 115 and 205),
and leaves its thread at `"hung"`.

Transactions are constants with a sender, a nonce, a fee and a size of at most `MaxTxSize`
(`MAX_TRANSACTION_SIZE`, which `validate_stateless` enforces) that pass stateless validation; balances suffice.
`Fill` is the loop of the harvest over the index, highest priority first. `Commit` stands for the execution of a block by the engine and moves the nonces,
which the validation of other threads may read at any time between two of their statements.

### Execution and Ledger

`Execute` is the code's arithmetic: `amount + fee` wraps (as in a release build), balances and
stakes saturate at the width, the sender's account is written last. In `Ledger`,
`Validate` is `add_transaction` up to the end of the validation and `Insert` the rest of it, so that
a block may be committed between the two; `Evict` stands for evictions and replacements. What else
the pool does is in `Mempool`: here it may hold any set of transactions that passed. `Propose` is the harvest
of `create_proposal`, `ExecuteNext` one turn of the loop of `execute_transactions_speculative`, and
`Commit` the rest of `handle_precommit`, with or without a successful write.

A node commits once in a life and then stands still, as `ConsensusEngine` and `Mempool` show; its RPC
threads go on. The block is the node's own: blocks of other honest validators were harvested
from pools that were checked against the same state. Fees go to nobody.

### ChainSync and MerkleTree

`Call` reads the latest height, once for the whole batch; `Skip`, `Check`, `ExecuteNext` and `Commit`
are the steps of a turn of the loop in `apply_block_batch`, and `Commit` may fail with the block in
memory (`kv.rs` 104). An account that the overlay lacks is read from the store at that moment, so
that overlapping calls see each other's blocks. A header's fields are functions of the block, so that
two blocks may share a header (`HeaderHash`) and differ in their bodies. `ValidBasic` recomputes the
root of the body with `MerkleTree` and asks every transaction to be genuine. `BodiesBound` says how far this
ties a body to its header: no other body of as many transactions passes. A longer one may (see
[Disagreements](#disagreements)).

`Replay` is the definition the replica is compared with: the accounts after executing the bodies of the stored blocks,
one after the other, from the genesis.

`MerkleTree` writes a hash as the term it was computed from. `Levels` numbers the levels of the tree from the leaves,
`Depth` is the first of a single hash, where the code's loop ends. An odd last hash is paired with itself
at every level, as in the code. Leaves of blocks are transaction hashes that are *not* hashed as leaves
(`block.rs` 31-35), while `MerkleProof::verify` hashes what it is given as one: `Climb` is the path without that
step, `Verify` with it; `VerifyLightClientProof` is the latter.

### NodeDaemon

One process: the store in memory and its file, the production loop, the mempool as the set a harvest
would find, the RPC tasks and the WebSocket feed; and the commands that talk to it. It takes from
the detailed modules where calls hang: the loop at the end of its first block, and in the mempool
whoever takes a transaction out of it, and everybody after that (`jammed`). A hung task keeps its
worker (`Stuck`), and `WorkerFree` is the condition for any task to begin. `Run` opens the database
and applies a genesis to a new one; `InitCommand` is the command `init`, which does so over any database
and keeps no key. `Interrupt` and `Exit` are Ctrl-C: the runtime waits for what its workers are in.
`CommitMemory` and `CommitFile` or `FailFile` are the two halves of `commit_block`, between which
requests are answered. A harvest goes by priority and passes over what does not fit into 1 MB any more, of a
pool that may hold ten: `Harvests` are the sets that it may return, within `MaxBlockBytes` and such that nothing
of the rest fits, as priorities are left out. A command `tx send` asks for the account, then sends; `Check` and `Insert` are
the two halves of `add_transaction` that a block may fall between.

### Tunnel

One connection from a client to an exit node, in the direction in which data goes: the host reads
what targets answer and drops it. `Open`, `SendData`, `SendClose` and `SendPing` write frames under the
sequence numbers of the sender's cipher; `Receive` is one turn of `handle_tunnel_client`, `Refuse` its end with
`ReplayDetected`. `Enqueue` waits for room in the stream's channel, and with it the whole loop.
`Deliver` and `TargetGone` are the stream's task. A target reads what it is written or not: `Readers` are the streams
whose targets go on reading, and nothing ends a write to another one. The sender is the SOCKS client of the crate (one
stream, `ConnectTcp` and then a second cipher from 0, no `Close`) or, `client = "peer"`, one that
uses the frames of `protocol.rs` with one cipher and several streams. Decryption is ideal: a frame
has a number, a kind, a stream and a piece of data. Pieces of a stream are numbered, so that `got`
shows which came through.

## Runs

| Run | Instance | Properties |
|---|---|---|
| `store_crash` | two committers, four blocks over two accounts, failing calls, crashes; with fairness | `TypeOK`, `AckedDurable`, `RootMatchesState`, `ImplementsAtomicStore`, `CommitEnds` |
| `store_power` | two committers, three blocks, a reader, power failures | `DiskWhole`, `AnswerLinearizable` |
| `wal` | four records, any number of failures of each kind | `AckedRecovered`, `RecoveredInOrder` |
| `bft` | powers 1, 1, 2; two heights, two blocks of each, two restarts, failing writes, in three slices | `TypeOK`, `CommitBacked`, `PrecommitBacked`, `AccountableSafety`, `ForkConvicts`, `NoOrphan`, `ChainExtends` |
| `pool` | two RPC threads, the producer, four transactions, limits of one transaction and three bytes; with fairness | `TypeOK`, `LenBounded`, `BytesBounded`, `AcceptedKept`, `ReturnsUnlessJammed` |
| `ledger` | six transactions of three senders, two RPC threads, three blocks, failing writes, restarts; 16 for 2^64 | `TypeOK`, `HarvestValid`, `ReplayBounded`, `SupplyLaw` |
| `sync` | two threads, a chain of three blocks, a rival, a forged and a stuffed block, a body with its last transaction repeated, six batches, one fault; with fairness | `TypeOK`, `NoGap`, `Linked`, `ReplicaAgrees`, `BodiesBound`, `CatchesUp` |
| `node` | two workers, three commands of two senders, a block that holds one of them or two, one subscriber, two starts; with fairness | `TypeOK`, `AnswersLoseOneBlock`, `FeedWhole`, `FirstBlockTakesWhatFits`, `ReadsAnswered` |
| `tunnel` | two streams, the target of one of which may not read, two pieces each, queues of one, one heartbeat; with fairness | `TypeOK`, `ImplementsPipe`, `PeerNotRefused`, `Arrives` |

and `bft_agreement`, `sync_light` and `tunnel_socks`, whose properties are violated, are below. The state spaces of
the passing runs are exhausted, that of `bft` within its slices.

What they show, beyond what the comments of the properties say:

* `AckedRecovered` needs `dirty`: without the discipline of recovering first, a record behind a torn
  one is acknowledged and lost, which neither `open` nor `append` prevents.
* `ForkConvicts` is stronger than `AccountableSafety` for a prosecutor: a precommit carries the height
  of the engine and not that of its block, so that the two precommits of a double signer need not be evidence.
  The two prevotes behind them are, and their signers, too, are more than a third.
* `NoGap` also holds while calls overlap; `Linked` and `ReplicaAgrees` do not. Without `~overlap` TLC
  finds two calls that start at the same height with rival blocks.
* `BodiesBound` compares bodies of one length: without that condition it fails with the first block, which has the
  root of its body with the last transaction repeated. In the run the latter is stored too, and the next block on top of it.
* `CatchesUp` is about a follower that has not taken a block of another chain. One that has is stuck:
  nothing rolls back.
* `AnswersLoseOneBlock` speaks of databases over which `init` was not run; `init` sets the height
  back to 0.
* `FirstBlockTakesWhatFits` needs the whole pool to be gone through: a harvest that stops at the first transaction that
  does not fit leaves out a smaller one behind it.
* `Arrives` needs its last case, the loop that waits for ever: without it TLC finds the stream whose target
  does not read, with a full queue, holding up the one whose target does.
* `ReadsAnswered` counts workers: each `sendTransaction` after the mempool has jammed costs one, and
  with the last one the node answers nothing.

**Bounds.** Two committing threads are enough for every pair of steps to meet. A genesis block, two
rivals of height 1 and a block of height 2 over two accounts make batches overlap, overwrite and
overtake one another. With powers 1, 1 and 2 some pairs are quorums and some are not, and no single validator
is; a fork needs the heavy one to sign twice. Three validators with two heights, two blocks and two restarts at once are
out of TLC's reach: the constraint `Slices` of `MCConsensusEngine` explores three parts. In the first there is one block, all three
validators act, and none restarts: votes of several come late and twice. In the second one light validator is
silent and rival blocks of one height are proposed; the heavy one may restart at any time, the other one before it has voted: forks.
In the third the same one is silent and there is one block a height, with two heights and any two
restarts of the others: chains. `bft_agreement` has two validators of equal power, which are a quorum only together. Two
heights show an engine going on from its own and from another's block; a third would start from the
same state. The engine stops at every commit, so that a second height needs a restart of each
validator: hence two restarts. `MaxHeight`, `Variants` and `MaxRestarts`
bound what is unbounded in the code; the guards that use them are conjuncts of `CreateProposal` and
`Restart`. The blocks of one height are interchangeable (`SYMMETRY Variations`), and a `VIEW` forgets the memory of an
engine whose task has stopped; no property looks at it. `store_power` uses the symmetry of its threads; three blocks keep it
small, as the one of height 2 adds nothing to what a file holds.

The four transactions of the mempool hold a replacement that
pays just enough, one that pays too little, and another sender at the lowest rate, and
the limits make the pool overflow both in number and in bytes. The six transactions of the ledger hold two that
are affordable one by one and not together, one with a
nonce gap, a transfer to oneself, a registration and an unstaking that another transfer must fund first;
the genesis supply is one below the width. No `amount + fee` reaches the width in the run; that accounts stay accounts when it does is
proved. Three blocks let a
transaction be executed, executed again after a restart, and refused.

Four records let one be acknowledged, one torn, and two follow. The batches of `sync` hold
a block before its parent, the same block twice, a rival, a body under another's header, a forged transaction, and the first block with the last of its three transactions
repeated, which has its root and its hash. Two starts of the node are a first and a
recovered life; with two workers one hung task leaves the other, and with a backlog of one a second message
overtakes a slow subscriber (`Backlog` is 1024 and `Workers` the number of cores in the code). `MaxBlockBytes` is 3, with commands of sizes 1, 2 and 2: two
fit together, the two large ones do not, and the small one fits behind either. Two streams with
queues of one show one stream blocking the other, for a while or, where its target does not read, for ever; `MaxData` and `MaxPings` bound what is sent.

**Deadlock** is not checked where the system stops by itself: engines, mempool threads and nodes that
hang do so for good, and a tunnel's connection ends.

**Fairness.** `StateDB!FairSpec` asks weak fairness of each committing thread's steps and strong
fairness of its taking the lock on the tree: the operating system answers each call, with success
or an error, and parking_lot hands a lock over to a waiting thread eventually. `Mempool!FairSpec`
asks strong fairness of the steps of a call that has begun, for the same reason, and of the harvest
and the producer's removals. `ChainSync!FairSpec` asks that a call that runs goes on, and that the
honest chain is offered again and again to a thread that is often free: this is what the caller of
`apply_block_batch` is for. `NodeDaemon!FairSpec` asks weak fairness of what has a worker (the loop, a
request that is being handled), of the runtime's giving a free worker to a waiting request, and of the exit.
`Tunnel!FairSpec` asks it of the host's loop, where `connect` ends with success or an error (the operating system gives up in
the end) and `send` waits for room, and of the task of each stream in `Readers`, and of no other: `write_all` (`host.rs` 92) has no
timeout. No fairness is asked
of new calls, commands, failures, crashes, or the producer's beginning another block of its own,
and none in `ConsensusEngine` and `Wal`.

**Capacity.** `LenBounded` and `BytesBounded` are what holds, not what the configuration says: the check
and the insertion use different guards, so each RPC thread but one can overshoot by one transaction.

**Liveness of the mempool.** `ReturnsUnlessJammed` says that `total_bytes` is the only reason a call can
be stuck. The other reason one would look for, a thread in an eviction loop around a key whose
transaction is gone, cannot go on without a removal that jams `total_bytes` first.

## Disagreements

Three runs check a statement of the repository's documents, comments or messages, and end with a behaviour of
the code that contradicts it.

`bft_agreement`: a proposer proposes twice at a height (the production loop calls it every
two seconds); all validators follow both times, and two of them reach their quorum on different blocks.
It has no crash, restart or failed write. `AccountableSafety` and `ForkConvicts` are what is left of
agreement: different blocks of one height need more than a third of the power to have signed both, and to
have signed what `DoubleSignEvidence::verify` takes for double signing.

`sync_light`: `verify_light_client_proof`, which `sync.rs` 96, `PROJECT.md` 87 and `ORIGINAL_REQUEST.md` 26 and 43 announce as the
verification of a transaction's inclusion, hashes the transaction's hash once more (`sync.rs` 106, `merkle.rs` 17), while the leaves of a
block are these hashes themselves: it rejects the path of the first transaction that is ever stored. What holds of the paths
is in `BodiesBound`: without that step each leads to the root.

`tunnel_socks`: the SOCKS client, which `src/README.md` 47 and its own messages (`client.rs` 36 and 130) say carries a browser's traffic,
starts a second cipher (`client.rs` 139): the host takes its first data for a replay and ends the session, and no byte of a browser
ever reaches a target. A sender with one cipher is never refused (`PeerNotRefused`).

Others are in the models as the code has them, without a run of their own:

*Store and log.*
* `StateDB!IoError` leaves a batch in memory that the caller was told had failed (`kv.rs` 89 calls it
  atomic), and the next successful write makes it durable. The directory is not synced after the rename.
* `append` does not recover by itself: behind a torn record everything it acknowledges is lost
  (`PROJECT.md` 70 promises a crash-resilient log). A power failure during the first `open` may leave other bytes than the
  magic ones: `recover_and_truncate` then answers `InvalidMagic` for ever while `append` answers
  `Ok`. Zeros at the end of the file read as empty records.

*Engine and mempool.*
* A single validator hangs with its first block (`engine.rs` 291: the quorum is reached inside
  `handle_prevote`, whose guard on `prevotes` is held when `handle_precommit` clears them); the test at
  `aura-consensus/src/lib.rs` 143 expects it "should trigger commit and return QC". `AfterProposal`
  has the precommit that `handle_proposal` drops (`engine.rs` 191).
* `evict_transaction` never returns (`pool.rs` 205: the right-hand side holds the read guard that the
  left-hand side waits for), nor does a replacement (line 115), which the test at `aura-mempool/src/lib.rs` 148 expects
  to succeed. The first committed transaction hangs the producer.
* Two threads get two transactions into one slot: the guard is dropped between the check at
  `pool.rs` 91 and the insertion at 147 (line 48 calls the pool thread-safe).
* A sender's higher nonce is harvested first (`Fill`, `pool.rs` 168).

*Ledger.*
* `GenesisAccount` has no balance for a validator, where the test at `aura-storage/src/lib.rs` 77 expects
  one; the default genesis of `main.rs` has one account, which is a validator, so that nobody can pay a fee.
* `Execute` compares no nonce (`PROJECT.md` 73 asks for strict sequencing): a transaction with nonce 2 is
  executed before the one with nonce 1, and twice if it is sent again after a restart, which is what
  `ReplayBounded` bounds. Two transactions of one sender in one block may spend one balance twice, which is why
  `SupplyLaw` speaks of orderly blocks; `Unstake` takes the amount out of both stake and balance and returns it
  to one.
* `HarvestValid` holds because the producer stops after its commit: if it went on (`CommitGoesOn`), what an RPC
  thread had checked before the commit could enter the pool after it.

*Syncer and tree.*
* An odd last hash is paired with itself (`merkle.rs` 81): a body whose last transaction is repeated has the same root, so that
  `validate_basic` accepts it under the same header, the block has the same hash, later blocks link to it, and the transaction is
  executed twice. A follower that was sent it has other accounts than its peers, under the same block hashes
  (`ORIGINAL_REQUEST.md` 42 asks that any alteration of block data invalidate the chain). The run `sync` has such a block.
* RFC 6962, which `merkle.rs` 47 names, pairs no hash with itself: it splits the leaves
  at a power of two.
* The executed accounts are stored under the header's `state_root` without being compared with it.
* Overlapping calls may set the latest height back, and leave a block above one it does not name.

*Daemon.*
* A block takes at most 1 MB (`engine.rs` 118) of a pool of up to 10: what does not fit into the first block is never executed.
* After the first block there is no second (`Propose` needs an engine that is `"ready"`); transactions are
  accepted and never executed. Ctrl-C then waits for the hung workers and does not return
  (`Exit` is not enabled), where `main.rs` 206 announces to shut down cleanly.
* `tx send` reports success whatever the answer to `sendTransaction` was (`main.rs` 272).
* `init`, and a first `run` without a key, put a validator into the genesis whose key nobody keeps: no
  block is ever produced. A second `init` resets the height and adds a validator.

*Tunnel.*
* The browser is told of success before the host has connected to anything (`client.rs` 125), and is not told of
  a failure; what targets answer is dropped (`host.rs` 85).
* A target's connection stays open after `Close` until the target closes it (`host.rs` 107: with the channel gone,
  the task waits for the target alone).
* A full queue of one stream holds up all others (`host.rs` 103), and the loop for ever if its target does not read, since nothing ends
  `write_all` (line 92); so does a connection being opened, until it succeeds or fails (line 73).
* `decrypt` moves its sequence number before it verifies the tag (`cipher.rs` 84): the test at
  `aura-tunnel/src/lib.rs` 34-39, which damages a frame it has already decrypted, gets `ReplayDetected` and not the
  `TagMismatch` it expects.

## Proofs

The constants range over all values that satisfy the named assumptions: any validators, powers,
threads, blocks, transactions, heights, restarts, limits, batches, workers and streams. Every invariant and every
action property that a run checks, and both refinements, are stated by a theorem. What the assumptions say
beyond types: `PowerAssumption` (power is a measure), finite sets of threads and of addresses (which have 20 bytes),
no transaction larger than `MaxTxSize`, and a total order of priorities. Hashes do not collide because `MerkleTree` writes them as terms; no assumption says more.

**Induction.** The provers cannot use the library's induction theorems, which take an operator. The proofs about
sums, folds and the tree therefore take a *set* instead: `SubsetInduction` says that a set `C` that contains a subset of a finite
`S` whenever it contains all smaller ones contains them all, and follows from the theorem that the strict
subsets of a finite set are well founded; `NatSetInduction` is the same for numbers. A recursive function `f[x] == ...` is a `CHOOSE`, of
which nothing is known until a function that satisfies the equation is shown to exist: `FoldExists` does this once for folds over sets, in
any order of choice, and the intervals `0..n` make it do for recursion over numbers. `MempoolProofs`, `LedgerProofs` and
`ChainSyncProofs` begin their second parts with these lemmas.

**StateDBProofs.** The invariant `IInv` adds to the types: the thread that holds the tree is the only
one inside a commit (`LockInv`); a stopped process has no threads (`DownInv`); what the holder has staged, serialized and written
follows its step (`HolderInv`); the files hold whole, synced snapshots wherever a restart may look
(`FilesInv`); and what a reader has read is one of the maps the store has had since it began
(`ReaderInv`). `DiskWhole` alone is not inductive: that the renamed file is whole depends on which
step its writer is at, and that no one else truncated it depends on the lock. One lemma shows each part kept by
each action. `Refinement` maps `StateDB` to `AtomicStore` step by step: `ApplyBatch` puts a block,
`Rename` saves, `Open` recovers, and all other steps stutter. Its statement is the property of the run,
`ImplementsAtomicStore`, which supposes that no power fails.

**WalProofs.** An acknowledged record is at the same place in both files, and what is before it is the same in
both and not torn (`SafeAt`): `AckedRecovered` alone says nothing of the place, and a power failure could choose
the end of one file and the beginning of the other. `CleanInv` says that on a log that was recovered only the record being
written is torn, so that the next acknowledgement finds a whole prefix; `PlaceInv` where that record is.
`AlwaysRecoveredInOrder` follows from both files being sorted (`Sorted`), which `Images` keeps.

**ConsensusEngineProofs.** `IInv` says, for each engine and its database, that counted votes were
signed and are of the right type, that a running engine is at the height after its database's, and that
stored blocks have no gaps and are backed by quorums. Since handlers are functions of an engine and
a database, each has a lemma of its own (`PrecommitKeeps`, `PrevoteKeeps`), which the steps cite.
`QuorumsIntersect` derives from `PowerAssumption` that two sets of more than two thirds share more
than one third; `Accountable` follows for the precommits of two blocks, and `ForksConvict` for the prevotes behind
them, whose height is that of the block.

**MempoolProofs.** `Typing` adds to the types what each place of a thread knows of the transaction it holds; `block` is
the result of a fold, and `FillSound` shows that a harvest is a sequence of indexed transactions without repetition, sorted by
priority. `Kept` relates the place of each thread to the tables: what is being inserted is
in a table already or was removed, and a victim being taken out counts as removed. `Room` counts
the threads that have passed the capacity check with the transactions there are; the check
itself restores it and an insertion uses it up. `Space` does the same for `total_bytes`, with `MaxTxSize` for each
thread that has passed (`Filling`) and not yet added its size.

**LedgerProofs.** `IInv` strengthens `HarvestValid` to what is between validation and the pool (`ValidInv`),
adds that a stopped process remembers nothing, that a sender's nonce counts at least the executions
of each of its transactions (`CountInv`), and that the overlay has counted those of the block so far
(`OverlayInv`). An execution of `x` at commit follows a validation against the same accounts: the count was at most
the account's nonce, which was below that of `x`.

`SupplyKept` is the action property `SupplyLaw`. `MapThenSumSet` adds up in an order that `CHOOSE` picks; `AnyOrder` shows
that every order gives the same sum, `SupplyChanges` that the supply moves as the one or two accounts do that a
transaction changes. `ExecuteSupply` is the law for one transaction its sender can pay: nothing wraps, nothing saturates,
since no two accounts hold more than the supply. The invariant `SInv` carries it through the block: `PartialInv` states the law for
the transactions executed so far, and `UntouchedInv` that who has sent none of them has all he had when his was
validated, so that the next one can still be paid (`ExecutePays`). `DurableInv`, that a restart never finds more blocks than memory
had, keeps `Start` and `Crash` from looking like commits.

**ChainSyncProofs.** `GapInv`: every call in progress stands on a height up to which the store is filled, and stays
filled even when another call sets the latest height back, since nothing is ever taken out (`Filled`). That is why
a commit at the next height leaves no gap, although the height was read long before. `LinkInv`: without overlap the
only call in progress knows the latest height, so that the link it has checked is still the one to the stored
block below when it commits.

`JInv` is about data. `DataInv`: stored accounts are accounts, stored blocks and those being executed passed
`validate_basic`. `AgreeInv`: without overlap the stored accounts are `Replay` of the
stored blocks, and what is left of a block leads from the overlay to where its whole body leads from the store. `Replay` of a
chain with one block more goes on from that of the chain (`ReplayGrows`), which is a commit's case. For the tree, `PathLeadsToRoot` says that for any number of
leaves the path from each leads to the root (the levels halve until one hash is left, and the place of the leaf with them);
`ClimbInjective`, that no two leaves climb one path to the same root. `RootBindsBody` is what a follower relies on when it
takes a body for the header's, and how far it may: two bodies of one length with one root are equal. (Of one length, as an odd last hash is paired with
itself.) `PathLeadsToRoot` and `RootBindsBody` give `BodiesAlwaysBound`.

**NodeDaemonProofs.** `HeightInv`: the memory is one block ahead of the file exactly from the first half of a commit to the
second, which a panic puts off for ever; whatever was answered is at most one ahead. A second block could break it, and none
comes after a failed write. `FeedInv`: what a subscriber got lies within what was published since it connected.

**TunnelProofs.** `QueueInv`: what is written and queued on a stream is 1, 2, ... up to `Taken`. To show that the
next piece is `Taken + 1` takes the frames on their way: `OnTheirWay` (increasing), `Contiguous` (each goes on where the
one before or the host is), `ConnectInv` (a stream's `ConnectTcp` is unique and ahead of its data, so that none is skipped before
there is a target) and `CloseInv` (no data behind a `Close`). After its target has failed or gone nothing is taken, and
`Contiguous` is not needed. `PeerInv` orders the numbers of
one cipher, which is `PeerNeverRefused`. `TunnelImplementsPipe` maps `SendData` to `Send`, `Deliver` to `Deliver` and all other steps to stuttering.

**Only model-checked**: liveness (`CommitEnds`, `ReturnsUnlessJammed`, `CatchesUp`, `FirstBlockTakesWhatFits`,
`ReadsAnswered`, `Arrives`), which needs fairness and `ENABLED`, both out of the prover's reach. `Agreement`, `LightClientConvinced` and
`SocksAccepted` are false of the code, so that there is nothing to prove: see `AccountableSafety`, `BodiesBound` and `PeerNotRefused` for what is
left of them.

## Not modelled

* `aura-crypto`, encodings, and the root of the sparse Merkle tree: pure functions over bytes, taken as ideal.
* `PeerManager`: a table that nothing fills; each of its methods is one map operation under one lock. Network messages
  have no handler.
* Metrics, the command line's wallet, user interfaces, RPC formatting: no state the others depend on.
* Byzantine validators: `Vote::verify` is called by no handler, so that the code has no defence to model; the
  theorems are about honest ones. `apply_slashing` has no caller.
* Changes of the validator set by executed transactions: `ConsensusEngine` has a fixed one, `NodeDaemon` a schedule of
  the heights at which one of two is elected (`Elected`).
* Billing vouchers and the derivation of session keys in `aura-tunnel`: pure functions that nothing composes with the
  tunnel. Damaged frames: the host ends the session at any of them, as at a cut.
* The Android application and the Explorer: separate programs that share neither state nor wire format with the crates.
* Two data directories, two nodes on one database, and a node with an engine and a syncer at once: `aura-node` starts
  none of these.

`PROJECT.json` lists each component with its status, each hazard with the line where it bites and the properties
that cover it, and, for each definition that models code, the lines it stands for.
