---------------------------- MODULE StateDBProofs ----------------------------
(***************************************************************************)
(* For any set of blocks, addresses, threads and readers: StateDB keeps    *)
(* its types, never leaves a torn file or half a batch to a restart, keeps *)
(* every acknowledged block across process crashes, and implements         *)
(* AtomicStore.  All of it rests on one inductive invariant, IInv: a       *)
(* thread is inside a commit exactly when it holds the tree's lock, so at  *)
(* each step of persist() one thread's buffer, temporary file and memory   *)
(* are the same content.                                                   *)
(***************************************************************************)
EXTENDS StateDB, TLAPS

\* A thread is between smt.write() and its return iff it holds the lock.
LockInv == \A t \in Threads : InCommit(t) <=> smtHolder = t

\* A dead process has no memory and no threads.
DownInv ==
  ~up => /\ smtHolder = NoThread
         /\ smt = mem.accounts
         /\ \A t \in Threads : pc[t] = "idle"
         /\ \A r \in Readers : reader[r].at = "idle"

\* What the lock holder has done so far, step by step.
HolderInv ==
  \A t \in Threads :
    /\ pc[t] # "idle" => op[t] \in Blocks
    /\ pc[t] = "staged" => smt = Touch(mem.accounts, op[t])
    /\ pc[t] \in {"applied", "serialized", "opened", "written", "synced", "renamed"}
         => smt = mem.accounts /\ op[t] \in mem.blocks
    /\ pc[t] \in {"serialized", "opened", "written", "synced"} => buf[t] = mem
    /\ pc[t] \in {"written", "synced"} => tmp.data = mem
    /\ pc[t] = "synced" => tmp.synced
    /\ pc[t] = "renamed" => disk.data = mem

\* A file under the name state.db, here or on the medium, is synced and whole.
GoodFile(f) == f.synced /\ f.data # Torn /\ Whole(Load(f))

FilesInv ==
  /\ Whole(mem)
  /\ GoodFile(disk) /\ GoodFile(medium)
  /\ up => Load(disk).blocks \subseteq mem.blocks

\* A reader between its two reads still has the present state to linearize to.
ReaderInv ==
  \A r \in Readers :
    /\ reader[r].at = "height" => mem.accounts \in since[r]
    /\ reader[r].at = "done" => reader[r].root \in since[r]

IInv ==
  /\ TypeOK
  /\ LockInv
  /\ DownInv
  /\ HolderInv
  /\ RootMatchesState
  /\ FilesInv
  /\ AckedDurable
  /\ ReaderInv

-----------------------------------------------------------------------------
(* The data of a database.                                                 *)

\* An empty database is a content.
LEMMA EmptyIsContent == EmptyContent \in Contents /\ Whole(EmptyContent)
BY ChainAssumption DEF EmptyContent, Contents, Heights, Whole

\* Updating the accounts a block writes gives an account map.
LEMMA TouchIsAccounts ==
  ASSUME NEW f \in Accounts, NEW b \in Blocks
  PROVE  Touch(f, b) \in Accounts
BY DEF Touch, Accounts

\* A batch leads from whole content to whole content and forgets no block.
LEMMA PutBlockWhole ==
  ASSUME NEW c \in Contents, NEW b \in Blocks, Whole(c)
  PROVE  /\ PutBlock(c, b) \in Contents
         /\ Whole(PutBlock(c, b))
         /\ PutBlock(c, b).accounts = Touch(c.accounts, b)
         /\ b \in PutBlock(c, b).blocks
         /\ c.blocks \subseteq PutBlock(c, b).blocks
<1> DEFINE d == PutBlock(c, b)
<1>1. Height[b] \in Heights
  BY ChainAssumption DEF Heights
<1>2. d.latest = Height[b] /\ d.byHeight = [c.byHeight EXCEPT ![Height[b]] = b]
      /\ d.blocks = c.blocks \cup {b} /\ d.accounts = Touch(c.accounts, b)
  BY DEF PutBlock
<1>3. d \in Contents
  <2>1. Touch(c.accounts, b) \in Accounts
    BY TouchIsAccounts DEF Contents, Accounts
  <2> QED BY <1>1, <2>1 DEF PutBlock, Contents, Accounts
<1>4. \A h \in Heights : d.byHeight[h] \in d.blocks \cup {NoBlock}
  <2>1. \A h \in Heights : c.byHeight[h] \in c.blocks \cup {NoBlock}
    BY DEF Whole, EmptyContent
  <2> QED BY <1>1, <1>2, <2>1 DEF Contents
<1>5. Whole(d)
  <2>1. d.byHeight[d.latest] = b
    BY <1>1, <1>2 DEF Contents
  <2>2. \A a \in Writes[b] : d.accounts[a] = b
    BY <1>2, ChainAssumption DEF Touch
  <2> QED BY <1>2, <1>4, <2>1, <2>2 DEF Whole
<1> QED BY <1>2, <1>3, <1>5

-----------------------------------------------------------------------------
(* Each part of the invariant is kept by every step.                       *)

\* Every step keeps the types.
LEMMA TypeStep ==
  ASSUME TypeOK, HolderInv, FilesInv, [Next]_vars
  PROVE  TypeOK'
<1> USE DEF TypeOK, Files, Steps
<1>1. ASSUME NEW t \in Threads, NEW b \in Blocks, Call(t, b) PROVE TypeOK'
  BY <1>1 DEF Call, rvars
<1>2. ASSUME NEW t \in Threads, StageBatch(t) PROVE TypeOK'
  BY <1>2, TouchIsAccounts DEF StageBatch, HolderInv, rvars
<1>3. ASSUME NEW t \in Threads, ApplyBatch(t) PROVE TypeOK'
  <2>1. op[t] \in Blocks /\ Whole(mem)
    BY <1>3 DEF ApplyBatch, HolderInv, FilesInv
  <2>2. PutBlock(mem, op[t]) \in Contents
    BY <2>1, PutBlockWhole
  <2>3. PutBlock(mem, op[t]).accounts \in Accounts
    BY <2>2 DEF Contents, Accounts
  <2>4. since' \in [Readers -> SUBSET Accounts]
    BY <1>3, <2>3 DEF ApplyBatch
  <2> QED BY <1>3, <2>2, <2>4 DEF ApplyBatch
<1>4. ASSUME NEW t \in Threads, Serialize(t) PROVE TypeOK'
  BY <1>4 DEF Serialize, rvars
<1>5. ASSUME NEW t \in Threads, OpenTmp(t) PROVE TypeOK'
  BY <1>5 DEF OpenTmp, rvars
<1>6. ASSUME NEW t \in Threads, WriteTmp(t) PROVE TypeOK'
  BY <1>6 DEF WriteTmp, rvars
<1>7. ASSUME NEW t \in Threads, SyncTmp(t) PROVE TypeOK'
  BY <1>7 DEF SyncTmp, rvars
<1>8. ASSUME NEW t \in Threads, Rename(t) PROVE TypeOK'
  BY <1>8 DEF Rename, rvars
<1>9. ASSUME NEW t \in Threads, ReturnOk(t) PROVE TypeOK'
  BY <1>9, EmptyIsContent DEF ReturnOk, rvars, HolderInv
<1>10. ASSUME NEW t \in Threads, IoError(t) PROVE TypeOK'
  BY <1>10, EmptyIsContent DEF IoError, rvars
<1>11. ASSUME NEW r \in Readers, ReadHeight(r) PROVE TypeOK'
  <2>1. mem.accounts \in Accounts
    BY DEF Contents, Accounts
  <2>2. reader' = [reader EXCEPT ![r] = [reader[r] EXCEPT !.at = "height"]]
    BY <1>11 DEF ReadHeight
  <2>3. [reader[r] EXCEPT !.at = "height"]
          \in [at : {"idle", "height", "done"}, root : Accounts]
    OBVIOUS
  <2> QED BY <1>11, <2>1, <2>2, <2>3 DEF ReadHeight, dvars
<1>12. ASSUME NEW r \in Readers, ReadRoot(r) PROVE TypeOK'
  BY <1>12 DEF ReadRoot, dvars
<1>13. ASSUME NEW r \in Readers, Answer(r) PROVE TypeOK'
  BY <1>13, EmptyIsContent DEF Answer, Contents, Accounts, dvars
<1>14. CASE Crash
  BY <1>14, EmptyIsContent DEF Crash, Die, Contents, Accounts
<1>15. CASE PowerLoss
  BY <1>15, EmptyIsContent DEF PowerLoss, Die, AfterPowerLoss, Contents, Accounts
<1>16. CASE Writeback
  BY <1>16 DEF Writeback, rvars
<1>17. CASE Open
  BY <1>17, EmptyIsContent DEF Open, Contents, Accounts, Load, rvars
<1>18. CASE UNCHANGED vars
  BY <1>18 DEF vars, dvars, rvars
<1> QED
  BY <1>1, <1>2, <1>3, <1>4, <1>5, <1>6, <1>7, <1>8, <1>9, <1>10, <1>11, <1>12, <1>13,
     <1>14, <1>15, <1>16, <1>17, <1>18 DEF Next, CommitStep, ReadStep

\* Only the thread inside a commit holds the lock, and every way out of a
\* commit releases it.
LEMMA LockStep ==
  ASSUME TypeOK, LockInv, [Next]_vars
  PROVE  LockInv'
<1> USE DEF TypeOK, LockInv, InCommit, Steps
<1>1. ASSUME NEW t \in Threads, NEW b \in Blocks, Call(t, b) PROVE LockInv'
  BY <1>1 DEF Call
<1>2. ASSUME NEW t \in Threads, StageBatch(t) PROVE LockInv'
  BY <1>2, StateDBAssumption DEF StageBatch
<1>3. ASSUME NEW t \in Threads, ApplyBatch(t) PROVE LockInv'
  BY <1>3 DEF ApplyBatch
<1>4. ASSUME NEW t \in Threads, Serialize(t) PROVE LockInv'
  BY <1>4 DEF Serialize
<1>5. ASSUME NEW t \in Threads, OpenTmp(t) PROVE LockInv'
  BY <1>5 DEF OpenTmp
<1>6. ASSUME NEW t \in Threads, WriteTmp(t) PROVE LockInv'
  BY <1>6 DEF WriteTmp
<1>7. ASSUME NEW t \in Threads, SyncTmp(t) PROVE LockInv'
  BY <1>7 DEF SyncTmp
<1>8. ASSUME NEW t \in Threads, Rename(t) PROVE LockInv'
  BY <1>8 DEF Rename
<1>9. ASSUME NEW t \in Threads, ReturnOk(t) PROVE LockInv'
  BY <1>9, StateDBAssumption DEF ReturnOk
<1>10. ASSUME NEW t \in Threads, IoError(t) PROVE LockInv'
  BY <1>10, StateDBAssumption DEF IoError
<1>11. ASSUME NEW r \in Readers, ReadHeight(r) PROVE LockInv'
  BY <1>11 DEF ReadHeight, dvars
<1>12. ASSUME NEW r \in Readers, ReadRoot(r) PROVE LockInv'
  BY <1>12 DEF ReadRoot, dvars
<1>13. ASSUME NEW r \in Readers, Answer(r) PROVE LockInv'
  BY <1>13 DEF Answer, dvars
<1>14. CASE Crash
  BY <1>14, StateDBAssumption DEF Crash, Die
<1>15. CASE PowerLoss
  BY <1>15, StateDBAssumption DEF PowerLoss, Die
<1>16. CASE Writeback
  BY <1>16 DEF Writeback
<1>17. CASE Open
  BY <1>17 DEF Open
<1>18. CASE UNCHANGED vars
  BY <1>18 DEF vars, dvars
<1> QED
  BY <1>1, <1>2, <1>3, <1>4, <1>5, <1>6, <1>7, <1>8, <1>9, <1>10, <1>11, <1>12, <1>13,
     <1>14, <1>15, <1>16, <1>17, <1>18 DEF Next, CommitStep, ReadStep

\* Nothing runs in a dead process.
LEMMA DownStep ==
  ASSUME TypeOK, DownInv, [Next]_vars
  PROVE  DownInv'
<1> USE DEF TypeOK, DownInv
<1>1. ASSUME NEW t \in Threads, NEW b \in Blocks, Call(t, b) PROVE DownInv'
  BY <1>1 DEF Call
<1>2. ASSUME NEW t \in Threads, StageBatch(t) PROVE DownInv'
  BY <1>2 DEF StageBatch
<1>3. ASSUME NEW t \in Threads, ApplyBatch(t) PROVE DownInv'
  BY <1>3 DEF ApplyBatch
<1>4. ASSUME NEW t \in Threads, Serialize(t) PROVE DownInv'
  BY <1>4 DEF Serialize
<1>5. ASSUME NEW t \in Threads, OpenTmp(t) PROVE DownInv'
  BY <1>5 DEF OpenTmp
<1>6. ASSUME NEW t \in Threads, WriteTmp(t) PROVE DownInv'
  BY <1>6 DEF WriteTmp
<1>7. ASSUME NEW t \in Threads, SyncTmp(t) PROVE DownInv'
  BY <1>7 DEF SyncTmp
<1>8. ASSUME NEW t \in Threads, Rename(t) PROVE DownInv'
  BY <1>8 DEF Rename
<1>9. ASSUME NEW t \in Threads, ReturnOk(t) PROVE DownInv'
  BY <1>9 DEF ReturnOk
<1>10. ASSUME NEW t \in Threads, IoError(t) PROVE DownInv'
  BY <1>10 DEF IoError
<1>11. ASSUME NEW r \in Readers, ReadHeight(r) PROVE DownInv'
  BY <1>11 DEF ReadHeight, dvars
<1>12. ASSUME NEW r \in Readers, ReadRoot(r) PROVE DownInv'
  BY <1>12 DEF ReadRoot, dvars
<1>13. ASSUME NEW r \in Readers, Answer(r) PROVE DownInv'
  BY <1>13 DEF Answer, dvars
<1>14. CASE Crash
  BY <1>14 DEF Crash, Die
<1>15. CASE PowerLoss
  BY <1>15 DEF PowerLoss, Die
<1>16. CASE Writeback
  BY <1>16 DEF Writeback, rvars
<1>17. CASE Open
  BY <1>17 DEF Open
<1>18. CASE UNCHANGED vars
  BY <1>18 DEF vars, dvars, rvars
<1> QED
  BY <1>1, <1>2, <1>3, <1>4, <1>5, <1>6, <1>7, <1>8, <1>9, <1>10, <1>11, <1>12, <1>13,
     <1>14, <1>15, <1>16, <1>17, <1>18 DEF Next, CommitStep, ReadStep

\* Each step of a commit leaves what the next one relies on; no other thread
\* disturbs it, because no other thread holds the lock.
LEMMA HolderStep ==
  ASSUME TypeOK, LockInv, DownInv, HolderInv, RootMatchesState, FilesInv, [Next]_vars
  PROVE  HolderInv'
<1> USE DEF HolderInv, LockInv, TypeOK, InCommit, Steps
<1>1. ASSUME NEW t \in Threads, NEW b \in Blocks, Call(t, b) PROVE HolderInv'
  BY <1>1 DEF Call
<1>2. ASSUME NEW t \in Threads, StageBatch(t) PROVE HolderInv'
  BY <1>2, StateDBAssumption DEF StageBatch, RootMatchesState
<1>3. ASSUME NEW t \in Threads, ApplyBatch(t) PROVE HolderInv'
  BY <1>3, PutBlockWhole DEF ApplyBatch, FilesInv
<1>4. ASSUME NEW t \in Threads, Serialize(t) PROVE HolderInv'
  BY <1>4 DEF Serialize
<1>5. ASSUME NEW t \in Threads, OpenTmp(t) PROVE HolderInv'
  BY <1>5 DEF OpenTmp
<1>6. ASSUME NEW t \in Threads, WriteTmp(t) PROVE HolderInv'
  BY <1>6 DEF WriteTmp
<1>7. ASSUME NEW t \in Threads, SyncTmp(t) PROVE HolderInv'
  BY <1>7 DEF SyncTmp
<1>8. ASSUME NEW t \in Threads, Rename(t) PROVE HolderInv'
  BY <1>8 DEF Rename
<1>9. ASSUME NEW t \in Threads, ReturnOk(t) PROVE HolderInv'
  BY <1>9 DEF ReturnOk
<1>10. ASSUME NEW t \in Threads, IoError(t) PROVE HolderInv'
  BY <1>10 DEF IoError
<1>11. ASSUME NEW r \in Readers, ReadHeight(r) PROVE HolderInv'
  BY <1>11 DEF ReadHeight, dvars
<1>12. ASSUME NEW r \in Readers, ReadRoot(r) PROVE HolderInv'
  BY <1>12 DEF ReadRoot, dvars
<1>13. ASSUME NEW r \in Readers, Answer(r) PROVE HolderInv'
  BY <1>13 DEF Answer, dvars
<1>14. CASE Crash
  BY <1>14 DEF Crash, Die
<1>15. CASE PowerLoss
  BY <1>15 DEF PowerLoss, Die
<1>16. CASE Writeback
  BY <1>16 DEF Writeback
<1>17. CASE Open
  BY <1>17 DEF Open, DownInv
<1>18. CASE UNCHANGED vars
  BY <1>18 DEF vars, dvars
<1> QED
  BY <1>1, <1>2, <1>3, <1>4, <1>5, <1>6, <1>7, <1>8, <1>9, <1>10, <1>11, <1>12, <1>13,
     <1>14, <1>15, <1>16, <1>17, <1>18 DEF Next, CommitStep, ReadStep

\* The tree is that of the stored accounts whenever the lock is free.
LEMMA RootStep ==
  ASSUME TypeOK, LockInv, DownInv, HolderInv, RootMatchesState, [Next]_vars
  PROVE  RootMatchesState'
<1> USE DEF RootMatchesState, LockInv, TypeOK, InCommit
<1>1. ASSUME NEW t \in Threads, NEW b \in Blocks, Call(t, b) PROVE RootMatchesState'
  BY <1>1 DEF Call
<1>2. ASSUME NEW t \in Threads, StageBatch(t) PROVE RootMatchesState'
  BY <1>2 DEF StageBatch
<1>3. ASSUME NEW t \in Threads, ApplyBatch(t) PROVE RootMatchesState'
  BY <1>3, StateDBAssumption DEF ApplyBatch
<1>4. ASSUME NEW t \in Threads, Serialize(t) PROVE RootMatchesState'
  BY <1>4 DEF Serialize
<1>5. ASSUME NEW t \in Threads, OpenTmp(t) PROVE RootMatchesState'
  BY <1>5 DEF OpenTmp
<1>6. ASSUME NEW t \in Threads, WriteTmp(t) PROVE RootMatchesState'
  BY <1>6 DEF WriteTmp
<1>7. ASSUME NEW t \in Threads, SyncTmp(t) PROVE RootMatchesState'
  BY <1>7 DEF SyncTmp
<1>8. ASSUME NEW t \in Threads, Rename(t) PROVE RootMatchesState'
  BY <1>8 DEF Rename
<1>9. ASSUME NEW t \in Threads, ReturnOk(t) PROVE RootMatchesState'
  BY <1>9 DEF ReturnOk, HolderInv
<1>10. ASSUME NEW t \in Threads, IoError(t) PROVE RootMatchesState'
  BY <1>10 DEF IoError, HolderInv
<1>11. ASSUME NEW r \in Readers, ReadHeight(r) PROVE RootMatchesState'
  BY <1>11 DEF ReadHeight, dvars
<1>12. ASSUME NEW r \in Readers, ReadRoot(r) PROVE RootMatchesState'
  BY <1>12 DEF ReadRoot, dvars
<1>13. ASSUME NEW r \in Readers, Answer(r) PROVE RootMatchesState'
  BY <1>13 DEF Answer, dvars
<1>14. CASE Crash
  BY <1>14 DEF Crash, Die
<1>15. CASE PowerLoss
  BY <1>15 DEF PowerLoss, Die
<1>16. CASE Writeback
  BY <1>16 DEF Writeback
<1>17. CASE Open
  <2>1. smt' = mem'.accounts
    BY <1>17 DEF Open
  <2> QED BY <2>1
<1>18. CASE UNCHANGED vars
  BY <1>18 DEF vars, dvars
<1> QED
  BY <1>1, <1>2, <1>3, <1>4, <1>5, <1>6, <1>7, <1>8, <1>9, <1>10, <1>11, <1>12, <1>13,
     <1>14, <1>15, <1>16, <1>17, <1>18 DEF Next, CommitStep, ReadStep

\* Memory and the files named state.db are whole, and memory is never behind.
LEMMA FilesStep ==
  ASSUME TypeOK, LockInv, DownInv, HolderInv, FilesInv, [Next]_vars
  PROVE  FilesInv'
<1> USE DEF FilesInv, GoodFile, TypeOK
<1>1. ASSUME NEW t \in Threads, NEW b \in Blocks, Call(t, b) PROVE FilesInv'
  BY <1>1 DEF Call
<1>2. ASSUME NEW t \in Threads, StageBatch(t) PROVE FilesInv'
  BY <1>2 DEF StageBatch
<1>3. ASSUME NEW t \in Threads, ApplyBatch(t) PROVE FilesInv'
  BY <1>3, PutBlockWhole DEF ApplyBatch, HolderInv
<1>4. ASSUME NEW t \in Threads, Serialize(t) PROVE FilesInv'
  BY <1>4 DEF Serialize
<1>5. ASSUME NEW t \in Threads, OpenTmp(t) PROVE FilesInv'
  BY <1>5 DEF OpenTmp
<1>6. ASSUME NEW t \in Threads, WriteTmp(t) PROVE FilesInv'
  BY <1>6 DEF WriteTmp
<1>7. ASSUME NEW t \in Threads, SyncTmp(t) PROVE FilesInv'
  BY <1>7 DEF SyncTmp
<1>8. ASSUME NEW t \in Threads, Rename(t) PROVE FilesInv'
  BY <1>8, StateDBAssumption DEF Rename, HolderInv, Load
<1>9. ASSUME NEW t \in Threads, ReturnOk(t) PROVE FilesInv'
  BY <1>9 DEF ReturnOk
<1>10. ASSUME NEW t \in Threads, IoError(t) PROVE FilesInv'
  BY <1>10 DEF IoError
<1>11. ASSUME NEW r \in Readers, ReadHeight(r) PROVE FilesInv'
  BY <1>11 DEF ReadHeight, dvars
<1>12. ASSUME NEW r \in Readers, ReadRoot(r) PROVE FilesInv'
  BY <1>12 DEF ReadRoot, dvars
<1>13. ASSUME NEW r \in Readers, Answer(r) PROVE FilesInv'
  BY <1>13 DEF Answer, dvars
<1>14. CASE Crash
  BY <1>14, EmptyIsContent DEF Crash, Die
<1>15. CASE PowerLoss
  BY <1>15, EmptyIsContent DEF PowerLoss, Die, AfterPowerLoss
<1>16. CASE Writeback
  BY <1>16 DEF Writeback
<1>17. CASE Open
  BY <1>17 DEF Open
<1>18. CASE UNCHANGED vars
  BY <1>18 DEF vars, dvars
<1> QED
  BY <1>1, <1>2, <1>3, <1>4, <1>5, <1>6, <1>7, <1>8, <1>9, <1>10, <1>11, <1>12, <1>13,
     <1>14, <1>15, <1>16, <1>17, <1>18 DEF Next, CommitStep, ReadStep

\* Ok is returned only when the file holds the block.
LEMMA AckedStep ==
  ASSUME TypeOK, HolderInv, FilesInv, AckedDurable, [Next]_vars
  PROVE  AckedDurable'
<1> USE DEF AckedDurable, TypeOK
<1>1. ASSUME NEW t \in Threads, NEW b \in Blocks, Call(t, b) PROVE AckedDurable'
  BY <1>1 DEF Call
<1>2. ASSUME NEW t \in Threads, StageBatch(t) PROVE AckedDurable'
  BY <1>2 DEF StageBatch
<1>3. ASSUME NEW t \in Threads, ApplyBatch(t) PROVE AckedDurable'
  BY <1>3 DEF ApplyBatch
<1>4. ASSUME NEW t \in Threads, Serialize(t) PROVE AckedDurable'
  BY <1>4 DEF Serialize
<1>5. ASSUME NEW t \in Threads, OpenTmp(t) PROVE AckedDurable'
  BY <1>5 DEF OpenTmp
<1>6. ASSUME NEW t \in Threads, WriteTmp(t) PROVE AckedDurable'
  BY <1>6 DEF WriteTmp
<1>7. ASSUME NEW t \in Threads, SyncTmp(t) PROVE AckedDurable'
  BY <1>7 DEF SyncTmp
<1>8. ASSUME NEW t \in Threads, Rename(t) PROVE AckedDurable'
  BY <1>8, StateDBAssumption DEF Rename, HolderInv, Load, FilesInv
<1>9. ASSUME NEW t \in Threads, ReturnOk(t) PROVE AckedDurable'
  BY <1>9, StateDBAssumption DEF ReturnOk, HolderInv, Load
<1>10. ASSUME NEW t \in Threads, IoError(t) PROVE AckedDurable'
  BY <1>10 DEF IoError
<1>11. ASSUME NEW r \in Readers, ReadHeight(r) PROVE AckedDurable'
  BY <1>11 DEF ReadHeight, dvars
<1>12. ASSUME NEW r \in Readers, ReadRoot(r) PROVE AckedDurable'
  BY <1>12 DEF ReadRoot, dvars
<1>13. ASSUME NEW r \in Readers, Answer(r) PROVE AckedDurable'
  BY <1>13 DEF Answer, dvars
<1>14. CASE Crash
  BY <1>14 DEF Crash, Die
<1>15. CASE PowerLoss
  BY <1>15 DEF PowerLoss
<1>16. CASE Writeback
  BY <1>16 DEF Writeback
<1>17. CASE Open
  BY <1>17 DEF Open
<1>18. CASE UNCHANGED vars
  BY <1>18 DEF vars, dvars
<1> QED
  BY <1>1, <1>2, <1>3, <1>4, <1>5, <1>6, <1>7, <1>8, <1>9, <1>10, <1>11, <1>12, <1>13,
     <1>14, <1>15, <1>16, <1>17, <1>18 DEF Next, CommitStep, ReadStep

\* A reader can linearize to the state it is about to read.
LEMMA ReaderStep ==
  ASSUME TypeOK, LockInv, DownInv, HolderInv, RootMatchesState, FilesInv, ReaderInv, [Next]_vars
  PROVE  ReaderInv'
<1> USE DEF ReaderInv, TypeOK
<1>1. ASSUME NEW t \in Threads, NEW b \in Blocks, Call(t, b) PROVE ReaderInv'
  BY <1>1 DEF Call, rvars
<1>2. ASSUME NEW t \in Threads, StageBatch(t) PROVE ReaderInv'
  BY <1>2 DEF StageBatch, rvars
<1>3. ASSUME NEW t \in Threads, ApplyBatch(t) PROVE ReaderInv'
  BY <1>3 DEF ApplyBatch
<1>4. ASSUME NEW t \in Threads, Serialize(t) PROVE ReaderInv'
  BY <1>4 DEF Serialize, rvars
<1>5. ASSUME NEW t \in Threads, OpenTmp(t) PROVE ReaderInv'
  BY <1>5 DEF OpenTmp, rvars
<1>6. ASSUME NEW t \in Threads, WriteTmp(t) PROVE ReaderInv'
  BY <1>6 DEF WriteTmp, rvars
<1>7. ASSUME NEW t \in Threads, SyncTmp(t) PROVE ReaderInv'
  BY <1>7 DEF SyncTmp, rvars
<1>8. ASSUME NEW t \in Threads, Rename(t) PROVE ReaderInv'
  BY <1>8 DEF Rename, rvars
<1>9. ASSUME NEW t \in Threads, ReturnOk(t) PROVE ReaderInv'
  BY <1>9 DEF ReturnOk, rvars
<1>10. ASSUME NEW t \in Threads, IoError(t) PROVE ReaderInv'
  BY <1>10 DEF IoError, rvars
<1>11. ASSUME NEW r \in Readers, ReadHeight(r) PROVE ReaderInv'
  BY <1>11 DEF ReadHeight, dvars
<1>12. ASSUME NEW r \in Readers, ReadRoot(r) PROVE ReaderInv'
  BY <1>12 DEF ReadRoot, dvars, RootMatchesState
<1>13. ASSUME NEW r \in Readers, Answer(r) PROVE ReaderInv'
  BY <1>13 DEF Answer, dvars
<1>14. CASE Crash
  BY <1>14 DEF Crash, Die
<1>15. CASE PowerLoss
  BY <1>15 DEF PowerLoss, Die
<1>16. CASE Writeback
  BY <1>16 DEF Writeback, rvars
<1>17. CASE Open
  BY <1>17 DEF Open, DownInv, rvars
<1>18. CASE UNCHANGED vars
  BY <1>18 DEF vars, dvars, rvars
<1> QED
  BY <1>1, <1>2, <1>3, <1>4, <1>5, <1>6, <1>7, <1>8, <1>9, <1>10, <1>11, <1>12, <1>13,
     <1>14, <1>15, <1>16, <1>17, <1>18 DEF Next, CommitStep, ReadStep

-----------------------------------------------------------------------------
(* The theorems.                                                           *)

\* IInv holds initially.
LEMMA InitIInv == Init => IInv
<1> SUFFICES ASSUME Init PROVE IInv
  OBVIOUS
<1>1. TypeOK
  BY EmptyIsContent DEF Init, TypeOK, Files, Steps, Contents, Accounts
<1>2. LockInv /\ DownInv /\ HolderInv /\ RootMatchesState /\ AckedDurable /\ ReaderInv
  BY StateDBAssumption
  DEF Init, LockInv, DownInv, HolderInv, RootMatchesState, AckedDurable, ReaderInv, InCommit
<1>3. FilesInv
  BY EmptyIsContent, StateDBAssumption DEF Init, FilesInv, GoodFile, Load
<1> QED BY <1>1, <1>2, <1>3 DEF IInv

\* IInv is inductive.
LEMMA NextIInv == IInv /\ [Next]_vars => IInv'
BY TypeStep, LockStep, DownStep, HolderStep, RootStep, FilesStep, AckedStep, ReaderStep
DEF IInv

\* The invariant holds in every behaviour.
LEMMA SpecIInv == Spec => []IInv
BY InitIInv, NextIInv, PTL DEF Spec

\* Types are kept: in particular neither a torn file nor the absence of one
\* ever ends up in memory.
THEOREM TypeCorrect == Spec => []TypeOK
BY SpecIInv, PTL DEF IInv

\* commit_block and apply_genesis are atomic on disk: through process crashes,
\* failed file operations and power failures, state.db is whole.
THEOREM DiskAlwaysWhole == Spec => []DiskWhole
<1>1. IInv => DiskWhole
  BY DEF IInv, FilesInv, GoodFile, DiskWhole
<1> QED BY <1>1, SpecIInv, PTL

\* A block whose commit_block returned Ok survives every process crash.
THEOREM AckedAlwaysDurable == Spec => []AckedDurable
BY SpecIInv, PTL DEF IInv

\* Between commits the state root is that of the stored accounts.
THEOREM RootAlwaysMatches == Spec => []RootMatchesState
BY SpecIInv, PTL DEF IInv

\* getNodeInfo answers with the root of a state the store was in after it read
\* the height.
THEOREM AnswersLinearizable == Spec => []AnswerLinearizable
<1>1. IInv => AnswerLinearizable
  BY DEF IInv, ReaderInv, AnswerLinearizable
<1> QED BY <1>1, SpecIInv, PTL

\* AtomicStore's contents are StateDB's.
LEMMA SameData ==
  /\ Abstract!EmptyContent = EmptyContent
  /\ \A c, b : Abstract!PutBlock(c, b) = PutBlock(c, b)
BY DEF Abstract!EmptyContent, EmptyContent, Abstract!Heights, Heights,
       Abstract!PutBlock, PutBlock, Abstract!Touch, Touch

\* Initial states are initial states of AtomicStore.
LEMMA RefineInit == Init => Abstract!AInit
BY SameData DEF Init, Abstract!AInit, Load

\* Every step, but for a power failure, is a step of AtomicStore or none.
LEMMA RefineNext ==
  ASSUME IInv, [Next]_vars, PowerFails = FALSE
  PROVE  [Abstract!ANext]_(Abstract!avars)
<1> DEFINE stutter == UNCHANGED <<up, mem, disk, acked>>
<1> USE DEF IInv, TypeOK
<1>0. ASSUME stutter PROVE UNCHANGED Abstract!avars
  BY <1>0 DEF Abstract!avars
<1>1. ASSUME NEW t \in Threads, NEW b \in Blocks, Call(t, b) PROVE stutter
  BY <1>1 DEF Call
<1>2. ASSUME NEW t \in Threads, StageBatch(t) PROVE stutter
  BY <1>2 DEF StageBatch
<1>3. ASSUME NEW t \in Threads, ApplyBatch(t) PROVE Abstract!ANext
  <2>1. op[t] \in Blocks
    BY <1>3 DEF ApplyBatch, HolderInv
  <2>2. Abstract!AApply(op[t])
    BY <1>3, SameData DEF ApplyBatch, Abstract!AApply
  <2> QED BY <2>1, <2>2 DEF Abstract!ANext
<1>4. ASSUME NEW t \in Threads, Serialize(t) PROVE stutter
  BY <1>4 DEF Serialize
<1>5. ASSUME NEW t \in Threads, OpenTmp(t) \/ WriteTmp(t) \/ SyncTmp(t) PROVE stutter
  BY <1>5 DEF OpenTmp, WriteTmp, SyncTmp
<1>6. ASSUME NEW t \in Threads, Rename(t) PROVE Abstract!ANext
  <2>1. Load(disk') = mem
    BY <1>6, StateDBAssumption DEF Rename, HolderInv, Load
  <2>2. Abstract!ASave
    BY <1>6, <2>1 DEF Rename, Abstract!ASave
  <2> QED BY <2>2 DEF Abstract!ANext
<1>7. ASSUME NEW t \in Threads, ReturnOk(t) PROVE Abstract!ANext
  <2>1. op[t] \in Blocks /\ op[t] \in Load(disk).blocks
    BY <1>7, StateDBAssumption DEF ReturnOk, HolderInv, Load
  <2>2. Abstract!AAcknowledge(op[t])
    BY <1>7, <2>1 DEF ReturnOk, Abstract!AAcknowledge
  <2> QED BY <2>1, <2>2 DEF Abstract!ANext
<1>8. ASSUME NEW t \in Threads, IoError(t) PROVE stutter
  BY <1>8 DEF IoError
<1>9. ASSUME NEW r \in Readers, ReadStep(r) PROVE stutter
  BY <1>9 DEF ReadStep, ReadHeight, ReadRoot, Answer, dvars
<1>10. CASE Crash
  <2>1. Abstract!ACrash
    BY <1>10 DEF Crash, Die, Abstract!ACrash
  <2> QED BY <2>1 DEF Abstract!ANext
<1>11. ~PowerLoss
  BY DEF PowerLoss
<1>12. CASE Writeback
  BY <1>0, <1>12 DEF Writeback
<1>13. CASE Open
  BY <1>13 DEF Open, Abstract!avars
<1>14. CASE UNCHANGED vars
  BY <1>0, <1>14 DEF vars, dvars
<1> QED
  BY <1>0, <1>1, <1>2, <1>3, <1>4, <1>5, <1>6, <1>7, <1>8, <1>9, <1>10, <1>11,
     <1>12, <1>13, <1>14
  DEF Next, CommitStep

\* Without power failures StateDB implements AtomicStore: batches take effect
\* at once, a restart recovers the last saved state, and Ok is returned only
\* of what a restart recovers.
THEOREM Refinement ==
  ASSUME PowerFails = FALSE
  PROVE  Spec => ImplementsAtomicStore
<1>1. IInv /\ [Next]_vars => [Abstract!ANext]_(Abstract!avars)
  BY RefineNext
<1> QED BY <1>1, RefineInit, SpecIInv, PTL DEF Spec, ImplementsAtomicStore, Abstract!ASpec
=============================================================================
