------------------------------- MODULE StateDB -------------------------------
(***************************************************************************)
(* aura-storage: StateDB over KeyValueStore.  Threads call apply_genesis   *)
(* and commit_block on one shared StateDB; each holds the write lock on    *)
(* the sparse Merkle tree from its first account update to its return,     *)
(* and in between changes the in-memory map and rewrites the file          *)
(* "state.db" through "state.tmp".  A reader (getNodeInfo of the RPC       *)
(* server) takes the height and then the state root.  The process may be   *)
(* killed at any step, any file operation may fail, and, when PowerFails,  *)
(* the machine may lose what the operating system had not written back.    *)
(***************************************************************************)
EXTENDS ChainData

CONSTANTS
  Threads,      \* threads that commit
  Readers,      \* threads that serve getNodeInfo
  NoThread,     \* the lock's holder when it is free
  NoFile,       \* no such file
  Torn,         \* file data that is not a whole serialization
  PowerFails    \* TRUE: the machine, not only the process, may stop

ASSUME StateDBAssumption ==
  /\ NoThread \notin Threads
  /\ NoFile \notin Contents /\ Torn \notin Contents /\ NoFile # Torn
  /\ PowerFails \in BOOLEAN

VARIABLES
  up,         \* the process runs
  mem,        \* KeyValueStore.data
  smt,        \* the leaves of StateDB.smt
  smtHolder,  \* the thread that holds smt.write()
  tmp,        \* the file state.tmp
  disk,       \* the file state.db as the running system sees it
  medium,     \* the file state.db names on the medium (directory not yet synced)
  pc, op,     \* where each committing thread is, and the block it commits
  buf,        \* the bytes persist() serialized
  acked,      \* ghost: the blocks whose commit has returned Ok
  reader,     \* what each reader has read
  since       \* ghost: the account maps the store has had since that reader's
              \* first read

dvars == <<up, mem, smt, smtHolder, tmp, disk, medium, pc, op, buf, acked>>
rvars == <<reader, since>>
vars  == <<dvars, rvars>>

Files == [data : Contents \cup {NoFile, Torn}, synced : BOOLEAN]
Accounts == [Addresses -> Blocks \cup {NoBlock}]

\* What opening a file yields; a missing file is an empty database.
Load(f) == IF f.data = NoFile THEN EmptyContent ELSE f.data

Steps == {"idle", "called", "staged", "applied", "serialized",
          "opened", "written", "synced", "renamed"}

\* The steps at which a thread holds smt.write().
InCommit(t) == pc[t] \notin {"idle", "called"}

Init ==
  /\ up = TRUE
  /\ mem = EmptyContent
  /\ smt = EmptyContent.accounts
  /\ smtHolder = NoThread
  /\ tmp = [data |-> NoFile, synced |-> TRUE]
  /\ disk = [data |-> NoFile, synced |-> TRUE]
  /\ medium = [data |-> NoFile, synced |-> TRUE]
  /\ pc = [t \in Threads |-> "idle"]
  /\ op = [t \in Threads |-> NoBlock]
  /\ buf = [t \in Threads |-> EmptyContent]
  /\ acked = {}
  /\ reader = [r \in Readers |-> [at |-> "idle", root |-> EmptyContent.accounts]]
  /\ since = [r \in Readers |-> {}]

-----------------------------------------------------------------------------
(* Mutated forms of definitions of this module: each is a bug the real one *)
(* does not have, and the property named beside it must notice it.         *)

\* ImplementsAtomicStore: the tree is updated without taking its lock.
StageBatchUnlocked(t) ==
  /\ up /\ pc[t] = "called"
  /\ smtHolder' = t
  /\ smt' = Touch(smt, op[t])
  /\ pc' = [pc EXCEPT ![t] = "staged"]
  /\ UNCHANGED <<up, mem, tmp, disk, medium, op, buf, acked, rvars>>

\* DiskWhole: no sync_all before the rename.
SyncTmpSkipped(t) ==
  /\ up /\ pc[t] = "written"
  /\ pc' = [pc EXCEPT ![t] = "synced"]
  /\ UNCHANGED <<up, mem, smt, smtHolder, tmp, disk, medium, op, buf, acked, rvars>>

\* AckedDurable: the result of persist() is dropped and Ok returned.
IoErrorIgnored(t) ==
  /\ up /\ pc[t] \in {"serialized", "opened", "written", "synced"}
  /\ smtHolder' = NoThread
  /\ acked' = acked \cup {op[t]}
  /\ pc' = [pc EXCEPT ![t] = "idle"]
  /\ op' = [op EXCEPT ![t] = NoBlock]
  /\ buf' = [buf EXCEPT ![t] = EmptyContent]
  /\ UNCHANGED <<up, mem, smt, tmp, disk, medium, rvars>>

\* CommitEnds: the guard is leaked on the error path.
IoErrorLeaksLock(t) ==
  /\ up /\ pc[t] \in {"serialized", "opened", "written", "synced"}
  /\ pc' = [pc EXCEPT ![t] = "idle"]
  /\ op' = [op EXCEPT ![t] = NoBlock]
  /\ buf' = [buf EXCEPT ![t] = EmptyContent]
  /\ UNCHANGED <<up, mem, smt, smtHolder, tmp, disk, medium, acked, rvars>>

\* AnswerLinearizable: the root is read without waiting for the lock.
ReadRootUnlocked(r) ==
  /\ up /\ reader[r].at = "height"
  /\ reader' = [reader EXCEPT ![r] = [at |-> "done", root |-> smt]]
  /\ UNCHANGED <<dvars, since>>

\* RootMatchesState: a restart does not load the stored accounts into the tree.
OpenWithoutTree ==
  /\ ~up /\ disk.data # Torn
  /\ up' = TRUE
  /\ mem' = IF disk.data = NoFile THEN EmptyContent ELSE disk.data
  /\ UNCHANGED <<smt, smtHolder, tmp, disk, medium, pc, op, buf, acked, rvars>>

\* TypeOK: the tree is rebuilt from every stored key, blocks and indexes too,
\* and not from those with the accounts' prefix.
OpenEveryKey ==
  /\ ~up /\ disk.data # Torn
  /\ up' = TRUE
  /\ mem' = Load(disk)
  /\ smt' = Load(disk)
  /\ UNCHANGED <<smtHolder, tmp, disk, medium, pc, op, buf, acked, rvars>>

-----------------------------------------------------------------------------
(* Committing.                                                             *)

\* The caller's choice of block: the genesis block into a database without
\* one, a block of the height after the latest otherwise.  Nothing is locked.
Call(t, b) ==
  /\ up /\ pc[t] = "idle"
  /\ IF mem.byHeight[0] = NoBlock THEN Height[b] = 0 ELSE Height[b] = mem.latest + 1
  /\ pc' = [pc EXCEPT ![t] = "called"]
  /\ op' = [op EXCEPT ![t] = b]
  /\ UNCHANGED <<up, mem, smt, smtHolder, tmp, disk, medium, buf, acked, rvars>>

\* smt.write(), and the loop that updates the tree while building the batch.
StageBatch(t) ==
  /\ up /\ pc[t] = "called"
  /\ smtHolder = NoThread
  /\ smtHolder' = t
  /\ smt' = Touch(smt, op[t])
  /\ pc' = [pc EXCEPT ![t] = "staged"]
  /\ UNCHANGED <<up, mem, tmp, disk, medium, op, buf, acked, rvars>>

\* The whole batch goes into the map under one data.write().
ApplyBatch(t) ==
  /\ up /\ pc[t] = "staged"
  /\ mem' = PutBlock(mem, op[t])
  /\ since' = [r \in Readers |->
                 IF reader[r].at = "height"
                   THEN since[r] \cup {PutBlock(mem, op[t]).accounts}
                   ELSE since[r]]
  /\ pc' = [pc EXCEPT ![t] = "applied"]
  /\ UNCHANGED <<up, smt, smtHolder, tmp, disk, medium, op, buf, acked, reader>>

\* persist(): the map is serialized under data.read(), which is then dropped.
Serialize(t) ==
  /\ up /\ pc[t] = "applied"
  /\ buf' = [buf EXCEPT ![t] = mem]
  /\ pc' = [pc EXCEPT ![t] = "serialized"]
  /\ UNCHANGED <<up, mem, smt, smtHolder, tmp, disk, medium, op, acked, rvars>>

\* open(create, truncate) of state.tmp.
OpenTmp(t) ==
  /\ up /\ pc[t] = "serialized"
  /\ tmp' = [data |-> Torn, synced |-> FALSE]
  /\ pc' = [pc EXCEPT ![t] = "opened"]
  /\ UNCHANGED <<up, mem, smt, smtHolder, disk, medium, op, buf, acked, rvars>>

\* write_all: the data is in the page cache.
WriteTmp(t) ==
  /\ up /\ pc[t] = "opened"
  /\ tmp' = [data |-> buf[t], synced |-> FALSE]
  /\ pc' = [pc EXCEPT ![t] = "written"]
  /\ UNCHANGED <<up, mem, smt, smtHolder, disk, medium, op, buf, acked, rvars>>

\* sync_all: the data is on the medium.
SyncTmp(t) ==
  /\ up /\ pc[t] = "written"
  /\ tmp' = [tmp EXCEPT !.synced = TRUE]
  /\ pc' = [pc EXCEPT ![t] = "synced"]
  /\ UNCHANGED <<up, mem, smt, smtHolder, disk, medium, op, buf, acked, rvars>>

\* rename(state.tmp, state.db): atomic for every process; the directory is
\* not synced.
Rename(t) ==
  /\ up /\ pc[t] = "synced"
  /\ disk' = tmp
  /\ tmp' = [data |-> NoFile, synced |-> TRUE]
  /\ pc' = [pc EXCEPT ![t] = "renamed"]
  /\ UNCHANGED <<up, mem, smt, smtHolder, medium, op, buf, acked, rvars>>

\* Ok(root): the guard on the tree is dropped.
ReturnOk(t) ==
  /\ up /\ pc[t] = "renamed"
  /\ smtHolder' = NoThread
  /\ acked' = acked \cup {op[t]}
  /\ pc' = [pc EXCEPT ![t] = "idle"]
  /\ op' = [op EXCEPT ![t] = NoBlock]
  /\ buf' = [buf EXCEPT ![t] = EmptyContent]
  /\ UNCHANGED <<up, mem, smt, tmp, disk, medium, rvars>>

\* A file operation fails: `?` returns Err and the guard is dropped.  The map
\* and the tree keep the batch.
IoError(t) ==
  /\ up /\ pc[t] \in {"serialized", "opened", "written", "synced"}
  /\ smtHolder' = NoThread
  /\ pc' = [pc EXCEPT ![t] = "idle"]
  /\ op' = [op EXCEPT ![t] = NoBlock]
  /\ buf' = [buf EXCEPT ![t] = EmptyContent]
  /\ UNCHANGED <<up, mem, smt, tmp, disk, medium, acked, rvars>>

-----------------------------------------------------------------------------
(* Reading: getNodeInfo.                                                   *)

\* get_latest_height reads the map alone.
ReadHeight(r) ==
  /\ up /\ reader[r].at = "idle"
  /\ reader' = [reader EXCEPT ![r].at = "height"]
  /\ since' = [since EXCEPT ![r] = {mem.accounts}]
  /\ UNCHANGED dvars

\* get_state_root waits for smt.read().
ReadRoot(r) ==
  /\ up /\ reader[r].at = "height"
  /\ smtHolder = NoThread
  /\ reader' = [reader EXCEPT ![r] = [at |-> "done", root |-> smt]]
  /\ UNCHANGED <<dvars, since>>

\* The answer is sent.
Answer(r) ==
  /\ up /\ reader[r].at = "done"
  /\ reader' = [reader EXCEPT ![r] = [at |-> "idle", root |-> EmptyContent.accounts]]
  /\ since' = [since EXCEPT ![r] = {}]
  /\ UNCHANGED dvars

-----------------------------------------------------------------------------
(* Crash and restart.                                                      *)

\* The process ends: its memory and its threads are gone.
Die ==
  /\ up /\ up' = FALSE
  /\ mem' = EmptyContent
  /\ smt' = EmptyContent.accounts
  /\ smtHolder' = NoThread
  /\ pc' = [t \in Threads |-> "idle"]
  /\ op' = [t \in Threads |-> NoBlock]
  /\ buf' = [t \in Threads |-> EmptyContent]
  /\ reader' = [r \in Readers |-> [at |-> "idle", root |-> EmptyContent.accounts]]
  /\ since' = [r \in Readers |-> {}]
  /\ UNCHANGED acked

Crash == Die /\ UNCHANGED <<tmp, disk, medium>>

\* Only what reached the medium is left; unsynced data is lost.
AfterPowerLoss(f) ==
  IF f.synced THEN f ELSE [data |-> Torn, synced |-> TRUE]

PowerLoss ==
  /\ PowerFails
  /\ Die
  /\ disk' = AfterPowerLoss(medium)
  /\ medium' = AfterPowerLoss(medium)
  /\ tmp' = AfterPowerLoss(tmp)

\* The operating system writes the directory back in its own time (told apart
\* from no writeback only by a power failure).
Writeback ==
  /\ PowerFails /\ medium # disk
  /\ medium' = disk
  /\ UNCHANGED <<up, mem, smt, smtHolder, tmp, disk, pc, op, buf, acked, rvars>>

\* KeyValueStore::open and StateDB::new.  A file that does not deserialize
\* stops the node.
Open ==
  /\ ~up /\ disk.data # Torn
  /\ up' = TRUE
  /\ mem' = Load(disk)
  /\ smt' = Load(disk).accounts
  /\ UNCHANGED <<smtHolder, tmp, disk, medium, pc, op, buf, acked, rvars>>

-----------------------------------------------------------------------------
CommitStep(t) ==
  \/ StageBatch(t) \/ ApplyBatch(t) \/ Serialize(t) \/ OpenTmp(t)
  \/ WriteTmp(t) \/ SyncTmp(t) \/ Rename(t) \/ ReturnOk(t)

ReadStep(r) == ReadHeight(r) \/ ReadRoot(r) \/ Answer(r)

Next ==
  \/ \E t \in Threads : (\E b \in Blocks : Call(t, b)) \/ CommitStep(t) \/ IoError(t)
  \/ \E r \in Readers : ReadStep(r)
  \/ Crash \/ PowerLoss \/ Writeback \/ Open

Spec == Init /\ [][Next]_vars

\* A running thread goes on, and parking_lot's eventual fairness hands the
\* lock to a waiting thread.
Fairness == \A t \in Threads : WF_vars(CommitStep(t)) /\ SF_vars(StageBatch(t))

FairSpec == Spec /\ Fairness

-----------------------------------------------------------------------------
(* Properties.                                                             *)

\* Every variable has its type.
TypeOK ==
  /\ up \in BOOLEAN
  /\ mem \in Contents
  /\ smt \in Accounts
  /\ smtHolder \in Threads \cup {NoThread}
  /\ tmp \in Files /\ disk \in Files /\ medium \in Files
  /\ pc \in [Threads -> Steps]
  /\ op \in [Threads -> Blocks \cup {NoBlock}]
  /\ buf \in [Threads -> Contents]
  /\ acked \in SUBSET Blocks
  /\ reader \in [Readers -> [at : {"idle", "height", "done"}, root : Accounts]]
  /\ since \in [Readers -> SUBSET Accounts]

\* A database file never holds a truncated serialization or half a batch,
\* whenever a process crash or a power failure strikes: the temporary file is
\* written and synced in full, by one thread, before it takes the name.
DiskWhole ==
  /\ disk.data # Torn
  /\ Whole(Load(disk))

\* A block whose commit returned Ok is found after any process crash.  (The
\* directory is not synced after the rename, so a power failure may lose it.)
AckedDurable ==
  PowerFails \/ acked \subseteq Load(disk).blocks

\* When no commit is under way the tree's leaves are the stored accounts,
\* after failed writes and restarts too, so the state root is that of the
\* state the node executes against.
RootMatchesState ==
  smtHolder = NoThread => smt = mem.accounts

\* The state root of an answer is that of a state the store was in after the
\* answer's height was read: never one that is staged and not yet applied,
\* never an older one.
AnswerLinearizable ==
  \A r \in Readers : reader[r].at = "done" => reader[r].root \in since[r]

\* A commit that was called ends, by returning or with its process.
CommitEnds ==
  \A t \in Threads : pc[t] = "called" ~> pc[t] = "idle"

\* The promise of the store, seen from its callers.
Abstract == INSTANCE AtomicStore WITH
  store   <- IF up THEN mem ELSE Load(disk),
  durable <- Load(disk)

ImplementsAtomicStore == Abstract!ASpec
=============================================================================
