--------------------------- MODULE ChainSyncProofs ---------------------------
(***************************************************************************)
(* For any blocks, batches, threads and faults: the store of a follower    *)
(* has no gap, and no block whose body could be exchanged for another of   *)
(* its length; as long as calls do not overlap, its blocks are linked to   *)
(* each other and its accounts are those of executing them. For any        *)
(* leaves: the paths of a hash tree lead to its root, and the root         *)
(* determines the leaves, if it is known how many they are.                *)
(***************************************************************************)
EXTENDS ChainSync, FiniteSetTheorems, WellFoundedInduction, TLAPS

\* The heights up to n have their blocks.
Filled(n) == \A h \in 0..n : mem.at[h] \in Blocks /\ Height[mem.at[h]] = h

\* A call in progress is what its record says.
IsCall(r) ==
  r \in [pc : {"idle", "next", "executing"}, batch : Seq(Blocks), latest : Heights,
         rest : {r.rest}, overlay : {r.overlay}]

IsDb(db) == db.latest \in Heights /\ db.at \in [Heights -> Blocks \cup {NoBlock}]

Active(r) == r.pc \in {"next", "executing"}

\* What a block that is being executed was checked for.
AtHand(r) == r.batch # <<>> /\ Height[Head(r.batch)] = r.latest + 1

TypeInv ==
  /\ IsDb(mem) /\ IsDb(disk) /\ overlap \in BOOLEAN
  /\ task = [t \in Tasks |-> task[t]] /\ \A t \in Tasks : IsCall(task[t])

\* What a call stands on stays filled, also when another sets mem.latest back.
GapInv ==
  /\ Gapless(mem) /\ Gapless(disk)
  /\ \A t \in Tasks :
       /\ Active(task[t]) => Filled(task[t].latest)
       /\ task[t].pc = "executing" => AtHand(task[t])

Linking(r) == Links(Head(r.batch), mem.at[mem.latest])

\* The only call in progress knows the latest height.
LinkInv ==
  ~overlap =>
    /\ Chained(mem) /\ Chained(disk)
    /\ \A t \in Tasks : Active(task[t]) =>
         /\ task[t].latest = mem.latest
         /\ \A u \in Tasks : Active(task[u]) => u = t
         /\ task[t].pc = "executing" => Linking(task[t])

IInv == TypeInv /\ GapInv /\ LinkInv

-----------------------------------------------------------------------------
\* The head and the tail of a batch.
LEMMA BatchFacts ==
  ASSUME NEW batch \in Seq(Blocks), batch # <<>>
  PROVE  Head(batch) \in Blocks /\ Tail(batch) \in Seq(Blocks)
OBVIOUS

LEMMA IdleIsCall == IsCall(Idle) /\ ~Active(Idle) /\ Idle.pc = "idle"
BY ChainSyncAssumption DEF Idle, IsCall, Active, Heights

\* A record of a call with some of its fields changed is one.
LEMMA CallRecord ==
  ASSUME NEW r, IsCall(r), NEW pc \in {"idle", "next", "executing"}, NEW rest, NEW overlay,
         NEW batch \in Seq(Blocks), NEW latest \in Heights
  PROVE  /\ IsCall([r EXCEPT !.pc = pc, !.rest = rest, !.overlay = overlay])
         /\ IsCall([r EXCEPT !.rest = rest, !.overlay = overlay])
         /\ IsCall([r EXCEPT !.pc = pc, !.batch = batch, !.latest = latest])
BY DEF IsCall

LEMMA InitOK == Init => IInv
PROOF
<1> SUFFICES ASSUME Init PROVE IInv
  OBVIOUS
<1>1. /\ mem.latest = 0 /\ mem.at = [h \in Heights |-> IF h = 0 THEN GenesisBlock ELSE NoBlock]
      /\ disk = mem /\ task = [t \in Tasks |-> Idle] /\ overlap = FALSE
  BY DEF Init
<1>2. TypeInv
  <2>1. IsDb(mem)
    BY <1>1, ChainSyncAssumption DEF IsDb, Heights
  <2>2. IsDb(disk)
    BY <1>1, <2>1
  <2>3. task = [t \in Tasks |-> task[t]] /\ \A t \in Tasks : IsCall(task[t])
    BY <1>1, IdleIsCall
  <2> QED BY <1>1, <2>1, <2>2, <2>3 DEF TypeInv
<1>3. Gapless(mem)
  <2>1. 0 \in Heights
    BY ChainSyncAssumption DEF Heights
  <2>2. mem.at[0] = GenesisBlock
    BY <1>1, <2>1
  <2>3. \A h \in 0..mem.latest : h = 0
    BY <1>1
  <2> QED BY <2>2, <2>3, ChainSyncAssumption DEF Gapless
<1>4. GapInv
  BY <1>1, <1>3, IdleIsCall DEF GapInv
<1>5. Chained(mem)
  BY <1>1 DEF Chained
<1>6. LinkInv
  BY <1>1, <1>5, IdleIsCall DEF LinkInv
<1> QED BY <1>2, <1>4, <1>6 DEF IInv

-----------------------------------------------------------------------------
(* The steps.                                                              *)

\* A step of a call in progress that leaves the databases alone.
LEMMA CallGoesOn ==
  ASSUME IInv, NEW t \in Tasks, NEW r, Active(task[t]), IsCall(r),
         task' = [task EXCEPT ![t] = r], UNCHANGED <<mem, disk, overlap>>,
         Active(r) => r.latest = task[t].latest,
         r.pc = "executing" => AtHand(r) /\ (~overlap => Linking(r))
  PROVE  IInv'
PROOF
<1>1. \A u \in Tasks : task'[u] = IF u = t THEN r ELSE task[u]
  BY DEF IInv, TypeInv
<1>2. task' = [u \in Tasks |-> task'[u]]
  BY DEF IInv, TypeInv
<1>3. TypeInv'
  BY <1>1, <1>2 DEF IInv, TypeInv
<1>4. GapInv'
  BY <1>1 DEF IInv, GapInv, Filled
<1>5. LinkInv'
  BY <1>1 DEF IInv, LinkInv, Linking
<1> QED BY <1>3, <1>4, <1>5 DEF IInv

LEMMA SkipOK == ASSUME IInv, NEW t \in Tasks, Skip(t) PROVE IInv'
PROOF
<1> DEFINE r == [task[t] EXCEPT !.batch = Tail(task[t].batch)]
<1>1. IsCall(task[t]) /\ task[t].pc = "next" /\ Active(task[t])
  BY DEF IInv, TypeInv, Skip, Active
<1>2. Tail(task[t].batch) \in Seq(Blocks)
  BY <1>1, BatchFacts DEF IsCall, Skip
<1>3. IsCall(r) /\ r.pc = "next" /\ r.latest = task[t].latest
  BY <1>1, <1>2 DEF IsCall
<1>4. task' = [task EXCEPT ![t] = r] /\ UNCHANGED <<mem, disk, overlap>>
  BY DEF Skip, Becomes
<1> HIDE DEF r
<1> QED BY <1>1, <1>3, <1>4, CallGoesOn

LEMMA CheckOK == ASSUME IInv, NEW t \in Tasks, Check(t) PROVE IInv'
PROOF
<1> DEFINE b == Head(task[t].batch)
           prev == mem.at[task[t].latest]
           r == [task[t] EXCEPT !.pc = "executing", !.rest = Body[b], !.overlay = <<>>]
<1>1. IsCall(task[t]) /\ task[t].pc = "next" /\ Active(task[t]) /\ AtHand(task[t])
  BY DEF IInv, TypeInv, Check, Active, AtHand, IsNext
<1>2. prev \in Blocks /\ prev # NoBlock
  BY <1>1, ChainSyncAssumption DEF IInv, GapInv, Filled, IsCall, Heights
<1>3. UNCHANGED <<mem, disk, overlap>>
  BY DEF Check
<1>4. \/ task' = [task EXCEPT ![t] = Idle]
      \/ task' = [task EXCEPT ![t] = r] /\ Links(b, prev)
  BY <1>2 DEF Check, Becomes
<1>5. /\ IsCall(r) /\ r.pc = "executing" /\ r.latest = task[t].latest
      /\ r.batch = task[t].batch
  BY <1>1, CallRecord DEF IsCall
<1>6. ~overlap => task[t].latest = mem.latest
  BY <1>1 DEF IInv, LinkInv
<1>7. CASE task' = [task EXCEPT ![t] = Idle]
  BY <1>1, <1>3, <1>7, IdleIsCall, CallGoesOn
<1>8. CASE task' = [task EXCEPT ![t] = r] /\ Links(b, prev)
  <2>1. AtHand(r) /\ (~overlap => Linking(r))
    BY <1>1, <1>5, <1>6, <1>8 DEF AtHand, Linking
  <2> HIDE DEF r
  <2> QED BY <1>1, <1>3, <1>5, <1>8, <2>1, CallGoesOn
<1> QED BY <1>4, <1>7, <1>8

LEMMA ExecuteNextOK == ASSUME IInv, NEW t \in Tasks, ExecuteNext(t) PROVE IInv'
PROOF
<1>1. IsCall(task[t]) /\ task[t].pc = "executing" /\ Active(task[t])
  BY DEF IInv, TypeInv, ExecuteNext, Active
<1>2. AtHand(task[t]) /\ (~overlap => Linking(task[t]))
  BY <1>1 DEF IInv, GapInv, LinkInv
<1>3. PICK rest, overlay :
        task' = [task EXCEPT ![t] = [task[t] EXCEPT !.rest = rest, !.overlay = overlay]]
  BY DEF ExecuteNext, Becomes
<1> DEFINE r == [task[t] EXCEPT !.rest = rest, !.overlay = overlay]
<1>4. /\ IsCall(r) /\ r.pc = "executing" /\ r.latest = task[t].latest
      /\ r.batch = task[t].batch
  BY <1>1, CallRecord DEF IsCall
<1>5. UNCHANGED <<mem, disk, overlap>>
  BY DEF ExecuteNext
<1>6. AtHand(r) /\ (~overlap => Linking(r))
  BY <1>2, <1>4 DEF AtHand, Linking
<1>7. task' = [task EXCEPT ![t] = r]
  BY <1>3
<1> HIDE DEF r
<1> QED BY <1>1, <1>4, <1>5, <1>6, <1>7, CallGoesOn

LEMMA ReturnOK == ASSUME IInv, NEW t \in Tasks, Return(t) PROVE IInv'
PROOF
<1>1. /\ Active(task[t]) /\ task' = [task EXCEPT ![t] = Idle]
      /\ UNCHANGED <<mem, disk, overlap>>
  BY DEF Return, Becomes, Active
<1> QED BY <1>1, IdleIsCall, CallGoesOn

LEMMA CallOK == ASSUME IInv, NEW t \in Tasks, NEW batch \in Batches, Call(t, batch) PROVE IInv'
PROOF
<1> DEFINE r == [Idle EXCEPT !.pc = "next", !.batch = batch, !.latest = mem.latest]
<1>1. mem.latest \in Heights /\ batch \in Seq(Blocks) /\ Gapless(mem)
  BY ChainSyncAssumption DEF IInv, TypeInv, IsDb, GapInv
<1>2. IsCall(r) /\ r.pc = "next" /\ r.latest = mem.latest
  BY <1>1, IdleIsCall, CallRecord DEF IsCall
<1>3. /\ task' = [task EXCEPT ![t] = r] /\ UNCHANGED <<mem, disk>>
      /\ overlap' = (overlap \/ \E u \in Tasks : InProgress(u))
  BY DEF Call, Becomes
<1> HIDE DEF r
<1>4. \A u \in Tasks : task'[u] = IF u = t THEN r ELSE task[u]
  BY <1>3 DEF IInv, TypeInv
<1>5. TypeInv'
  <2>1. task' = [u \in Tasks |-> task'[u]]
    BY <1>3 DEF IInv, TypeInv
  <2>2. overlap' \in BOOLEAN
    BY <1>3
  <2> QED BY <1>2, <1>3, <1>4, <2>1, <2>2 DEF IInv, TypeInv
<1>6. GapInv'
  BY <1>1, <1>2, <1>3, <1>4 DEF IInv, GapInv, Filled, Gapless
<1>7. LinkInv'
  <2>1. ~overlap' => ~overlap /\ \A u \in Tasks : ~InProgress(u)
    BY <1>3, Zenon
  <2>2. ~overlap' => \A u \in Tasks : ~Active(task[u])
    BY <2>1 DEF InProgress, Active
  <2> QED BY <1>2, <1>3, <1>4, <2>1, <2>2 DEF IInv, LinkInv
<1> QED BY <1>5, <1>6, <1>7 DEF IInv

\* A block is put on top of those the call stands on.
LEMMA CommitOK ==
  ASSUME IInv, NEW t \in Tasks, NEW written \in BOOLEAN, Commit(t, written)
  PROVE  IInv'
PROOF
<1> DEFINE b == Head(task[t].batch)
           r == IF written THEN [Idle EXCEPT !.pc = "next", !.batch = Tail(task[t].batch),
                                             !.latest = Height[b]]
                           ELSE Idle
<1>1. IsCall(task[t]) /\ task[t].pc = "executing" /\ Active(task[t]) /\ AtHand(task[t])
  BY DEF IInv, TypeInv, GapInv, Commit, Active
<1>2. /\ b \in Blocks /\ Tail(task[t].batch) \in Seq(Blocks)
      /\ Height[b] = task[t].latest + 1 /\ Height[b] \in Heights
      /\ task[t].latest \in Heights
  BY <1>1, BatchFacts, ChainSyncAssumption DEF IsCall, AtHand
<1>3. /\ mem'.latest = Height[b] /\ mem'.at = [mem.at EXCEPT ![Height[b]] = b]
      /\ disk' = mem' \/ disk' = disk
      /\ task' = [task EXCEPT ![t] = r] /\ overlap' = overlap
  BY DEF Commit, Becomes, Put
<1>4. IsCall(r) /\ r.pc # "executing" /\ (Active(r) => r.latest = Height[b])
  BY <1>2, IdleIsCall DEF IsCall, Idle, Active
<1> HIDE DEF r
<1>a. PICK n \in Heights : n = Height[b]
  BY <1>2
<1>b. PICK c \in Blocks : c = b
  BY <1>2
<1> HIDE DEF b
<1>5. \A u \in Tasks : task'[u] = IF u = t THEN r ELSE task[u]
  BY <1>3 DEF IInv, TypeInv
<1>6. \A h \in Heights : mem'.at[h] = IF h = n THEN c ELSE mem.at[h]
  BY <1>3, <1>a, <1>b DEF IInv, TypeInv, IsDb
<1>7. TypeInv'
  <2>1. task' = [u \in Tasks |-> task'[u]]
    BY <1>3 DEF IInv, TypeInv
  <2>2. IsDb(mem)'
    BY <1>2, <1>3 DEF IInv, TypeInv, IsDb
  <2>3. IsDb(disk)'
    BY <1>3, <2>2 DEF IInv, TypeInv, IsDb
  <2>4. \A u \in Tasks : IsCall(task[u])'
    BY <1>4, <1>5 DEF IInv, TypeInv
  <2>5. overlap' \in BOOLEAN
    BY <1>3 DEF IInv, TypeInv
  <2> QED BY <2>1, <2>2, <2>3, <2>4, <2>5 DEF TypeInv
<1>8. ASSUME NEW k \in Heights, Filled(k) PROVE Filled(k)'
  <2>1. ASSUME NEW h \in 0..k PROVE mem'.at[h] \in Blocks /\ Height[mem'.at[h]] = h
    <3>1. h \in Heights
      BY <2>1, ChainSyncAssumption DEF Heights
    <3>2. mem.at[h] \in Blocks /\ Height[mem.at[h]] = h
      BY <1>8 DEF Filled
    <3> QED BY <1>6, <1>a, <1>b, <3>1, <3>2
  <2> QED BY <2>1 DEF Filled
<1>9. Filled(n)'
  <2>1. Filled(task[t].latest) /\ n = task[t].latest + 1
    BY <1>1, <1>2, <1>a DEF IInv, GapInv
  <2>2. ASSUME NEW h \in 0..n PROVE mem'.at[h] \in Blocks /\ Height[mem'.at[h]] = h
    <3>1. h \in Heights /\ (h = n \/ h \in 0..task[t].latest)
      BY <1>2, <2>1, <2>2, ChainSyncAssumption DEF Heights
    <3>2. CASE h = n
      BY <1>6, <1>a, <1>b, <3>1, <3>2
    <3>3. CASE h # n
      BY <1>6, <2>1, <3>1, <3>3 DEF Filled
    <3> QED BY <3>2, <3>3
  <2> QED BY <2>2 DEF Filled
<1>10. GapInv'
  <2>1. Gapless(mem)'
    BY <1>3, <1>9, <1>a DEF Gapless, Filled
  <2>2. Gapless(disk)'
    BY <1>3, <2>1 DEF IInv, GapInv, Gapless
  <2>3. ASSUME NEW u \in Tasks
        PROVE  /\ Active(task'[u]) => Filled(task[u].latest)'
               /\ task'[u].pc = "executing" => AtHand(task'[u])
    <3>1. task[u].latest \in Heights
      BY DEF IInv, TypeInv, IsCall
    <3>2. CASE u = t
      <4>1. Active(task'[u]) => task'[u].latest = n
        BY <1>4, <1>5, <1>a, <3>2
      <4> QED BY <1>4, <1>5, <1>9, <3>2, <4>1
    <3>3. CASE u # t
      BY <1>5, <1>8, <3>1, <3>3 DEF IInv, GapInv
    <3> QED BY <3>2, <3>3
  <2> QED BY <2>1, <2>2, <2>3 DEF GapInv
<1>11. LinkInv'
  <2> SUFFICES ASSUME ~overlap' PROVE LinkInv'
    BY DEF LinkInv
  <2>1. /\ Chained(mem) /\ Chained(disk) /\ task[t].latest = mem.latest
        /\ Links(b, mem.at[mem.latest])
        /\ \A u \in Tasks : Active(task[u]) => u = t
    BY <1>1, <1>3 DEF IInv, LinkInv, Linking, b
  <2>2. ASSUME NEW h \in 1..mem'.latest
        PROVE  PrevHash[mem'.at[h]] = HeaderHash[mem'.at[h - 1]]
    <3>1. /\ h \in Heights /\ h - 1 \in Heights /\ h <= n
          /\ mem.latest \in Nat /\ n = mem.latest + 1
      <4>1. h \in 1..n /\ n \in 0..MaxHeight /\ MaxHeight \in Nat
        BY <1>3, <1>a, ChainSyncAssumption DEF Heights
      <4>2. mem.latest \in 0..MaxHeight /\ n = mem.latest + 1
        BY <1>2, <1>a, <2>1 DEF Heights
      <4> QED BY <4>1, <4>2 DEF Heights
    <3>a. mem'.at[h - 1] = mem.at[h - 1]
      BY <1>6, <3>1 DEF Heights
    <3>2. CASE h = n
      <4>1. h - 1 = mem.latest /\ mem'.at[h] = b
        BY <1>6, <1>b, <3>1, <3>2
      <4> QED BY <2>1, <3>a, <4>1 DEF Links
    <3>3. CASE h # n
      <4>1. h \in 1..mem.latest /\ mem'.at[h] = mem.at[h]
        BY <1>6, <3>1, <3>3 DEF Heights
      <4> QED BY <2>1, <3>a, <4>1 DEF Chained
    <3> QED BY <3>2, <3>3
  <2>3. Chained(mem)'
    BY <2>2 DEF Chained
  <2>4. Chained(disk)'
    BY <1>3, <2>1, <2>3 DEF Chained
  <2> QED BY <1>3, <1>4, <1>5, <2>1, <2>3, <2>4 DEF LinkInv
<1> QED BY <1>7, <1>10, <1>11 DEF IInv

LEMMA RestartOK == ASSUME IInv, Restart PROVE IInv'
PROOF
<1>1. /\ mem' = disk /\ disk' = disk /\ overlap' = overlap
      /\ task' = [t \in Tasks |-> Idle]
  BY DEF Restart
<1>2. TypeInv'
  BY <1>1, IdleIsCall DEF IInv, TypeInv, IsDb
<1>3. GapInv'
  BY <1>1, IdleIsCall DEF IInv, GapInv, Gapless
<1>4. LinkInv'
  BY <1>1, IdleIsCall DEF IInv, LinkInv, Chained
<1> QED BY <1>2, <1>3, <1>4 DEF IInv

LEMMA StepOK == IInv /\ [Next]_vars => IInv'
PROOF
<1> SUFFICES ASSUME IInv, [Next]_vars PROVE IInv'
  OBVIOUS
<1>1. CASE Next
  BY <1>1, CallOK, SkipOK, CheckOK, ExecuteNextOK, ReturnOK, CommitOK, RestartOK DEF Next
<1>2. CASE UNCHANGED vars
  <2>1. TypeInv'
    BY <1>2 DEF vars, IInv, TypeInv
  <2>2. GapInv'
    BY <1>2 DEF vars, IInv, GapInv, Gapless, Filled
  <2>3. LinkInv'
    BY <1>2 DEF vars, IInv, LinkInv, Linking, Chained
  <2> QED BY <2>1, <2>2, <2>3 DEF IInv
<1> QED BY <1>1, <1>2

LEMMA Invariance == Spec => []IInv
BY InitOK, StepOK, PTL DEF Spec

-----------------------------------------------------------------------------
(* Types.                                                                  *)

\* Execution saturates: it turns accounts into accounts.
LEMMA SatType ==
  ASSUME NEW m \in Amounts, NEW n \in Nat
  PROVE  SatAdd(m, n) \in Amounts /\ SatSub(m, n) \in Amounts
BY ExecutionAssumption DEF Amounts, SatAdd, SatSub

LEMMA PaidType ==
  ASSUME NEW acc \in Account, NEW x \in Txs
  PROVE  Paid(acc, x) \in Account
<1> DEFINE b == SatSub(acc.balance, (Amount[x] + Fee[x]) % Width)
<1>1. (Amount[x] + Fee[x]) % Width \in Nat
  <2>1. Amount[x] \in Nat /\ Fee[x] \in Nat /\ Width \in Nat /\ Width > 0
    BY ExecutionAssumption DEF Amounts
  <2> QED BY <2>1
<1>2. b \in Amounts
  BY <1>1, SatType DEF Account
<1>3. Paid(acc, x) = [acc EXCEPT !.balance = b, !.nonce = acc.nonce + 1]
  BY DEF Paid
<1> HIDE DEF b
<1>4. Paid(acc, x) = [balance |-> b, nonce |-> acc.nonce + 1, staked |-> acc.staked,
                      validator |-> acc.validator]
  BY <1>3 DEF Account
<1> QED BY <1>2, <1>4 DEF Account

LEMMA SpentType ==
  ASSUME NEW acc \in Account, NEW x \in Txs
  PROVE  Spent(acc, x) \in Account
<1> DEFINE p == Paid(acc, x)
<1>1. p \in Account
  BY PaidType
<1>2. Amount[x] \in Nat /\ Kind[x] \in Kinds
  BY ExecutionAssumption DEF Amounts
<1>3. SatAdd(p.staked, Amount[x]) \in Amounts /\ SatSub(p.staked, Amount[x]) \in Amounts
      /\ SatAdd(p.balance, Amount[x]) \in Amounts
  BY <1>1, <1>2, SatType DEF Account
<1> HIDE DEF p
<1>4. Spent(acc, x) = CASE Kind[x] = "Transfer" -> p
        [] Kind[x] = "RegisterValidator" ->
             [p EXCEPT !.validator = TRUE, !.staked = SatAdd(p.staked, Amount[x])]
        [] Kind[x] = "Stake" -> [p EXCEPT !.staked = SatAdd(p.staked, Amount[x])]
        [] Kind[x] = "Unstake" -> [p EXCEPT !.staked = SatSub(p.staked, Amount[x]),
                                            !.balance = SatAdd(p.balance, Amount[x])]
  BY <1>1 DEF Spent, p, Account
<1>5. CASE Kind[x] = "Transfer"
  BY <1>1, <1>4, <1>5
<1>6. CASE Kind[x] = "RegisterValidator"
  BY <1>1, <1>3, <1>4, <1>6 DEF Account
<1>7. CASE Kind[x] = "Stake"
  BY <1>1, <1>3, <1>4, <1>7 DEF Account
<1>8. CASE Kind[x] = "Unstake"
  BY <1>1, <1>3, <1>4, <1>8 DEF Account
<1> QED BY <1>2, <1>5, <1>6, <1>7, <1>8 DEF Kinds

\* What execution writes is in Touched; all else stays as it was.
LEMMA ExecuteType ==
  ASSUME NEW acc \in [Addresses -> Account], NEW x \in Txs
  PROVE  /\ Execute(acc, x) \in [Addresses -> Account]
         /\ \A a \in Addresses : a \notin Touched(x) => Execute(acc, x)[a] = acc[a]
         /\ Touched(x) \subseteq Addresses
<1> DEFINE base == IF Kind[x] = "Transfer" THEN Credit(acc, x) ELSE acc
<1>1. Sender[x] \in Addresses /\ Recipient[x] \in Addresses /\ Amount[x] \in Nat
  BY ExecutionAssumption DEF Amounts
<1>2. /\ Credit(acc, x) \in [Addresses -> Account]
      /\ \A a \in Addresses : a # Recipient[x] => Credit(acc, x)[a] = acc[a]
  <2>1. SatAdd(acc[Recipient[x]].balance, Amount[x]) \in Amounts
    BY <1>1, SatType DEF Account
  <2> QED BY <1>1, <2>1 DEF Credit, Account
<1>3. /\ base \in [Addresses -> Account]
      /\ \A a \in Addresses : a \notin Touched(x) => base[a] = acc[a]
  BY <1>2 DEF Touched
<1>4. Spent(acc[Sender[x]], x) \in Account
  BY <1>1, SpentType
<1> HIDE DEF base
<1>5. Execute(acc, x) = [base EXCEPT ![Sender[x]] = Spent(acc[Sender[x]], x)]
  BY DEF Execute, base
<1>6. Sender[x] \in Touched(x) /\ Touched(x) \subseteq Addresses
  BY <1>1 DEF Touched
<1> QED BY <1>1, <1>3, <1>4, <1>5, <1>6

LEMMA OverlaidType ==
  ASSUME NEW acc \in [Addresses -> Account], NEW f, IsOverlay(f)
  PROVE  Overlaid(acc, f) \in [Addresses -> Account]
BY DEF Overlaid, IsOverlay

LEMMA NoOverlay == IsOverlay(<<>>)
<1>1. DOMAIN <<>> = {}
  OBVIOUS
<1>2. <<>> = [a \in {} |-> <<>>[a]]
  OBVIOUS
<1> QED BY <1>1, <1>2 DEF IsOverlay

\* The overlay after one transaction more.
LEMMA OverlayGrows ==
  ASSUME NEW acc \in [Addresses -> Account], NEW f, IsOverlay(f), NEW x \in Txs
  PROVE  LET after == Execute(Overlaid(acc, f), x)
             g == [a \in DOMAIN f \cup Touched(x) |-> after[a]]
         IN IsOverlay(g) /\ Overlaid(acc, g) = after
<1> DEFINE under == Overlaid(acc, f)
           after == Execute(under, x)
           g == [a \in DOMAIN f \cup Touched(x) |-> after[a]]
<1>1. under \in [Addresses -> Account]
  BY OverlaidType
<1>2. after \in [Addresses -> Account] /\ Touched(x) \subseteq Addresses
      /\ \A a \in Addresses : a \notin Touched(x) => after[a] = under[a]
  BY <1>1, ExecuteType
<1>3. DOMAIN f \subseteq Addresses
  BY DEF IsOverlay
<1>4. \A a \in Addresses : a \notin DOMAIN f => under[a] = acc[a]
  BY DEF Overlaid
<1> HIDE DEF under, after
<1>5. DOMAIN g = DOMAIN f \cup Touched(x) /\ \A a \in DOMAIN g : g[a] = after[a]
  OBVIOUS
<1>6. IsOverlay(g)
  BY <1>2, <1>3, <1>5 DEF IsOverlay
<1>7. Overlaid(acc, g) = after
  <2>1. \A a \in Addresses : (IF a \in DOMAIN g THEN g[a] ELSE acc[a]) = after[a]
    BY <1>2, <1>4, <1>5
  <2> QED BY <1>2, <2>1 DEF Overlaid
<1> QED BY <1>6, <1>7 DEF after, under

-----------------------------------------------------------------------------
(* Induction.                                                              *)

\* Induction over the subsets of a finite set: what holds of a subset whenever it
\* holds of all smaller ones holds of them all.
LEMMA SubsetInduction ==
  ASSUME NEW S, IsFiniteSet(S), NEW C,
         \A A \in SUBSET S : (\A B \in SUBSET A : B # A => B \in C) => A \in C
  PROVE  SUBSET S \subseteq C
<1> DEFINE T == (SUBSET S) \ C
<1>1. SUFFICES ASSUME T # {} PROVE FALSE
  OBVIOUS
<1>2. IsWellFoundedOn(StrictSubsetOrdering(S), SUBSET S)
  BY FS_StrictSubsetOrderingWellFounded, FS_FiniteSubsetsOfFinite
<1>3. PICK A \in T : \A B \in T : ~ (<<B, A>> \in StrictSubsetOrdering(S))
  <2>1. T \subseteq SUBSET S
    OBVIOUS
  <2> HIDE DEF T
  <2> QED BY <1>1, <1>2, <2>1, WFMin
<1>4. PICK B \in SUBSET A : B # A /\ B \notin C
  OBVIOUS
<1>5. B \in T
  BY <1>4
<1>6. <<B, A>> \in StrictSubsetOrdering(S)
  BY <1>4 DEF StrictSubsetOrdering
<1> QED
  BY <1>3, <1>5, <1>6

\* Induction over the natural numbers, for a set in place of a predicate.
LEMMA NatSetInduction ==
  ASSUME NEW C, 0 \in C, \A n \in Nat : n \in C => n + 1 \in C
  PROVE  Nat \subseteq C
<1> SUFFICES ASSUME NEW n \in Nat PROVE n \in C
  OBVIOUS
<1> DEFINE D == {A \in SUBSET (0 .. n) : \A k \in 0 .. n : A = 0 .. k => k \in C}
<1>1. IsFiniteSet(0 .. n)
  BY FS_Interval
<1>2. ASSUME NEW A \in SUBSET (0 .. n), \A B \in SUBSET A : B # A => B \in D
      PROVE  A \in D
  <2> SUFFICES ASSUME NEW k \in 0 .. n, A = 0 .. k PROVE k \in C
    OBVIOUS
  <2>1. CASE k = 0
    BY <2>1
  <2>2. CASE k # 0
    <3>1. k - 1 \in Nat /\ k - 1 \in 0 .. n /\ k \in A /\ k \notin 0 .. (k - 1)
          /\ 0 .. (k - 1) \subseteq A
      BY <2>2
    <3>2. 0 .. (k - 1) \in D
      BY <1>2, <3>1
    <3>3. k - 1 \in C
      BY <3>1, <3>2
    <3> QED BY <3>1, <3>3
  <2> QED BY <2>1, <2>2
<1>3. SUBSET (0 .. n) \subseteq D
  <2> HIDE DEF D
  <2> DEFINE I == 0 .. n
  <2>1. IsFiniteSet(I) /\ \A A \in SUBSET I : (\A B \in SUBSET A : B # A => B \in D) => A \in D
    BY <1>1, <1>2
  <2> HIDE DEF I
  <2>2. SUBSET I \subseteq D
    BY <2>1, SubsetInduction
  <2> QED BY <2>2 DEF I
<1>4. 0 .. n \in SUBSET (0 .. n)
  OBVIOUS
<1>5. 0 .. n \in D
  BY <1>3, <1>4
<1>6. n \in 0 .. n
  OBVIOUS
<1> QED
  BY <1>5, <1>6

\* A fold over the subsets of S: from base, by step, taking the element that pick
\* names last.
IsFold(g, S, base, pick, step) ==
  \A s \in SUBSET S : g[s] = IF s = {} THEN base ELSE step[<<pick[s], g[s \ {pick[s]}]>>]

IsPick(pick, S) == \A s \in SUBSET S : s # {} => pick[s] \in s

IsStep(step, S, V) == \A x \in S, v \in V : step[<<x, v>>] \in V

\* There is such a fold, whatever the set: the recursion that defines
\* MapThenFoldSet has a solution.
LEMMA FoldExists ==
  ASSUME NEW S, IsFiniteSet(S), NEW V, NEW base \in V, NEW pick, NEW step,
         IsPick(pick, S), IsStep(step, S, V)
  PROVE  \E g \in [SUBSET S -> V] : IsFold(g, S, base, pick, step)
<1> USE DEF IsFold, IsPick, IsStep
<1> DEFINE Eq(g, s) == g[s] = IF s = {} THEN base ELSE step[<<pick[s], g[s \ {pick[s]}]>>]
           C == {n \in Nat : \E g \in [SUBSET S -> V] :
                   \A s \in SUBSET S : Cardinality(s) <= n => Eq(g, s)}
<1>0. \A s \in SUBSET S :
        IsFiniteSet(s) /\ Cardinality(s) \in Nat /\ (Cardinality(s) = 0 <=> s = {})
  BY FS_Subset, FS_CardinalityType, FS_EmptySet
<1>1. 0 \in C
  <2>1. [s \in SUBSET S |-> base] \in [SUBSET S -> V]
    OBVIOUS
  <2>2. \A s \in SUBSET S : Cardinality(s) <= 0 => Eq([t \in SUBSET S |-> base], s)
    BY <1>0
  <2> QED BY <2>1, <2>2
<1>2. ASSUME NEW n \in Nat, n \in C PROVE n + 1 \in C
  <2>1. PICK g \in [SUBSET S -> V] : \A s \in SUBSET S : Cardinality(s) <= n => Eq(g, s)
    BY <1>2
  <2> DEFINE h == [s \in SUBSET S |-> IF s = {} THEN base ELSE step[<<pick[s], g[s \ {pick[s]}]>>]]
  <2>2. h \in [SUBSET S -> V]
    OBVIOUS
  <2>3. ASSUME NEW s \in SUBSET S, Cardinality(s) <= n + 1
        PROVE  Eq(h, s)
    <3>1. CASE s = {}
      BY <3>1
    <3>2. CASE s # {}
      <4>1. pick[s] \in s /\ s \ {pick[s]} \in SUBSET S
        BY <3>2
      <4>2. Cardinality(s \ {pick[s]}) = Cardinality(s) - 1
        BY <1>0, <4>1, FS_RemoveElement
      <4>3. Cardinality(s \ {pick[s]}) <= n
        BY <1>0, <2>3, <4>2
      <4>4. h[s \ {pick[s]}] = g[s \ {pick[s]}]
        BY <2>1, <4>1, <4>3
      <4> QED BY <3>2, <4>4
    <3> QED BY <3>1, <3>2
  <2> HIDE DEF h, Eq
  <2> QED BY <2>2, <2>3
<1>3. Nat \subseteq C
  <2> HIDE DEF C
  <2> QED BY <1>1, <1>2, NatSetInduction
<1>4. Cardinality(S) \in C
  BY <1>0, <1>3
<1>5. PICK g \in [SUBSET S -> V] : \A s \in SUBSET S : Cardinality(s) <= Cardinality(S) => Eq(g, s)
  BY <1>4
<1>6. \A s \in SUBSET S : Cardinality(s) <= Cardinality(S)
  BY FS_Subset
<1> QED BY <1>5, <1>6

\* A recursion over the numbers up to n has a solution.
LEMMA IterExists ==
  ASSUME NEW n \in Nat, NEW V, NEW base \in V, NEW step, IsStep(step, 1 .. n, V)
  PROVE  \E g \in [0 .. n -> V] :
           g = [k \in 0 .. n |-> IF k = 0 THEN base ELSE step[<<k, g[k - 1]>>]]
<1> DEFINE Eq(g, k) == g[k] = IF k = 0 THEN base ELSE step[<<k, g[k - 1]>>]
           C == {m \in Nat : m <= n => \E g \in [0 .. m -> V] : \A k \in 0 .. m : Eq(g, k)}
<1>1. 0 \in C
  <2> DEFINE g == [k \in 0 .. 0 |-> base]
  <2>1. g \in [0 .. 0 -> V] /\ \A k \in 0 .. 0 : Eq(g, k)
    OBVIOUS
  <2> HIDE DEF g, Eq
  <2> QED BY <2>1
<1>2. ASSUME NEW m \in Nat, m \in C PROVE m + 1 \in C
  <2> SUFFICES ASSUME m + 1 <= n
               PROVE  \E g \in [0 .. (m + 1) -> V] : \A k \in 0 .. (m + 1) : Eq(g, k)
    OBVIOUS
  <2>1. PICK g \in [0 .. m -> V] : \A k \in 0 .. m : Eq(g, k)
    BY <1>2
  <2> DEFINE h == [k \in 0 .. (m + 1) |-> IF k = m + 1 THEN step[<<m + 1, g[m]>>] ELSE g[k]]
  <2>2. m \in 0 .. m /\ m + 1 \in 1 .. n /\ step[<<m + 1, g[m]>>] \in V
    BY DEF IsStep
  <2>3. h \in [0 .. (m + 1) -> V]
    BY <2>2
  <2>4. ASSUME NEW k \in 0 .. (m + 1) PROVE Eq(h, k)
    <3>1. CASE k = m + 1
      <4>1. k # 0 /\ k - 1 = m /\ h[k - 1] = g[m]
        BY <3>1
      <4> QED BY <3>1, <4>1
    <3>2. CASE k # m + 1
      <4>1. k \in 0 .. m /\ h[k] = g[k] /\ (k # 0 => k - 1 \in 0 .. m /\ h[k - 1] = g[k - 1])
        BY <3>2
      <4> QED BY <2>1, <4>1
    <3> QED BY <3>1, <3>2
  <2> HIDE DEF h, Eq
  <2> QED BY <2>3, <2>4
<1>3. Nat \subseteq C
  <2> HIDE DEF C
  <2> QED BY <1>1, <1>2, NatSetInduction
<1>4. n \in C
  BY <1>3
<1> QED BY <1>4

-----------------------------------------------------------------------------
(* The hash tree.                                                          *)

\* The recursion of Levels has a solution.
LEMMA LevelsRecursion ==
  ASSUME NEW leaves, Len(leaves) \in Nat
  PROVE  /\ Levels(leaves)[0] = leaves
         /\ \A k \in 1 .. Len(leaves) : Levels(leaves)[k] = NextLevel(Levels(leaves)[k - 1])
<1> DEFINE n == Len(leaves)
           Eq(f, k) == f[k] = IF k = 0 THEN leaves ELSE NextLevel(f[k - 1])
           C == {m \in Nat : \E f : \A k \in 0 .. m : Eq(f, k)}
<1>1. 0 \in C
  <2> DEFINE f == [k \in 0 .. 0 |-> leaves]
  <2>1. \A k \in 0 .. 0 : Eq(f, k)
    OBVIOUS
  <2> HIDE DEF f, Eq
  <2> QED BY <2>1
<1>2. ASSUME NEW m \in Nat, m \in C PROVE m + 1 \in C
  <2>1. PICK f : \A k \in 0 .. m : Eq(f, k)
    BY <1>2
  <2> DEFINE h == [k \in 0 .. (m + 1) |-> IF k = m + 1 THEN NextLevel(f[m]) ELSE f[k]]
  <2>2. ASSUME NEW k \in 0 .. (m + 1) PROVE Eq(h, k)
    <3>1. CASE k = m + 1
      <4>1. k # 0 /\ k - 1 = m /\ h[k - 1] = f[m]
        BY <3>1
      <4> QED BY <3>1, <4>1
    <3>2. CASE k # m + 1
      <4>1. k \in 0 .. m /\ h[k] = f[k] /\ (k # 0 => k - 1 \in 0 .. m /\ h[k - 1] = f[k - 1])
        BY <3>2
      <4> QED BY <2>1, <4>1
    <3> QED BY <3>1, <3>2
  <2> HIDE DEF h, Eq
  <2> QED BY <2>2
<1>3. Nat \subseteq C
  <2> HIDE DEF C
  <2> QED BY <1>1, <1>2, NatSetInduction
<1>4. PICK f : \A k \in 0 .. n : Eq(f, k)
  BY <1>3
<1> DEFINE g == [k \in 0 .. n |-> f[k]]
<1>5. g = [k \in 0 .. n |-> IF k = 0 THEN leaves ELSE NextLevel(g[k - 1])]
  <2>1. ASSUME NEW k \in 0 .. n
        PROVE  g[k] = IF k = 0 THEN leaves ELSE NextLevel(g[k - 1])
    <3>1. k # 0 => k - 1 \in 0 .. n /\ g[k - 1] = f[k - 1]
      OBVIOUS
    <3> QED BY <1>4, <3>1
  <2> QED BY <2>1
<1> HIDE DEF g
<1>6. Levels(leaves) = [k \in 0 .. n |-> IF k = 0 THEN leaves
                                          ELSE NextLevel(Levels(leaves)[k - 1])]
  BY <1>5 DEF Levels
<1>7. 0 \in 0 .. n /\ \A k \in 1 .. n : k \in 0 .. n /\ k # 0
  OBVIOUS
<1> HIDE DEF n
<1> QED BY <1>6, <1>7 DEF n

\* The next level has half as many hashes, rounded up.
LEMMA NextLevelShape ==
  ASSUME NEW level, Len(level) \in Nat
  PROVE  /\ Len(NextLevel(level)) = (Len(level) + 1) \div 2
         /\ \A i \in 1 .. ((Len(level) + 1) \div 2) :
              NextLevel(level)[i] =
                HashNode(level[2 * i - 1], level[IF 2 * i <= Len(level) THEN 2 * i ELSE 2 * i - 1])
<1> DEFINE m == (Len(level) + 1) \div 2
           e(i) == HashNode(level[2 * i - 1], level[IF 2 * i <= Len(level) THEN 2 * i ELSE 2 * i - 1])
<1>1. m \in Nat
  OBVIOUS
<1>2. NextLevel(level) = [i \in 1 .. m |-> e(i)]
  BY DEF NextLevel
<1> HIDE DEF m, e
<1>3. [i \in 1 .. m |-> e(i)] \in Seq({e(i) : i \in 1 .. m})
  BY <1>1
<1>4. Len([i \in 1 .. m |-> e(i)]) = m
  BY <1>1
<1> QED BY <1>2, <1>4 DEF m, e

LEMMA Halving ==
  ASSUME NEW w \in Nat \ {0}
  PROVE  /\ (w + 1) \div 2 \in Nat \ {0}
         /\ (w + 1) \div 2 <= 1 \/ (w + 1) \div 2 <= w - 1
OBVIOUS

LEMMA OneLeft ==
  ASSUME NEW w \in Nat \ {0}, w <= 1 \/ w <= 0
  PROVE  w = 1
OBVIOUS

\* No level is empty, each has as many hashes as its position says, and the
\* recursion gets to one hash.
LEMMA LevelLengths ==
  ASSUME NEW leaves, Len(leaves) \in Nat \ {0}
  PROVE  /\ \A k \in 0 .. Len(leaves) : Len(Levels(leaves)[k]) \in Nat \ {0}
         /\ Len(Levels(leaves)[Len(leaves)]) = 1
<1> DEFINE n == Len(leaves)
           L == Levels(leaves)
           C == {k \in Nat : k <= n => /\ Len(L[k]) \in Nat \ {0}
                                       /\ Len(L[k]) <= 1 \/ Len(L[k]) <= n - k}
<1>1. L[0] = leaves /\ \A k \in 1 .. n : L[k] = NextLevel(L[k - 1])
  BY LevelsRecursion
<1> HIDE DEF L
<1>2. 0 \in C
  BY <1>1
<1>3. ASSUME NEW k \in Nat, k \in C PROVE k + 1 \in C
  <2> SUFFICES ASSUME k + 1 <= n
               PROVE  /\ Len(L[k + 1]) \in Nat \ {0}
                      /\ Len(L[k + 1]) <= 1 \/ Len(L[k + 1]) <= n - (k + 1)
    OBVIOUS
  <2>1. Len(L[k]) \in Nat \ {0} /\ (Len(L[k]) <= 1 \/ Len(L[k]) <= n - k)
    BY <1>3
  <2>2. L[k + 1] = NextLevel(L[k])
    <3>1. k + 1 \in 1 .. n /\ (k + 1) - 1 = k
      OBVIOUS
    <3> QED BY <1>1, <3>1
  <2>3. Len(L[k + 1]) = (Len(L[k]) + 1) \div 2
    BY <2>1, <2>2, NextLevelShape
  <2>4. PICK w \in Nat \ {0} : w = Len(L[k])
    BY <2>1
  <2>5. PICK v \in Nat \ {0} : v = (w + 1) \div 2 /\ (v <= 1 \/ v <= w - 1)
    BY Halving
  <2>7. n \in Nat /\ (w <= 1 \/ w <= n - k)
    BY <2>1, <2>4
  <2>8. v <= 1 \/ v <= n - (k + 1)
    <3> HIDE DEF n
    <3> QED BY <2>5, <2>7
  <2> QED BY <2>3, <2>4, <2>5, <2>8
<1>4. Nat \subseteq C
  <2> HIDE DEF C
  <2> QED BY <1>2, <1>3, NatSetInduction
<1>5. \A k \in 0 .. n : Len(L[k]) \in Nat \ {0} /\ (Len(L[k]) <= 1 \/ Len(L[k]) <= n - k)
  BY <1>4
<1>6. Len(L[n]) = 1
  <2>1. n \in Nat
    OBVIOUS
  <2> HIDE DEF n
  <2>2. n \in 0 .. n /\ n - n = 0
    BY <2>1
  <2>3. Len(L[n]) \in Nat \ {0} /\ (Len(L[n]) <= 1 \/ Len(L[n]) <= 0)
    BY <1>5, <2>2
  <2> QED BY <2>3, OneLeft
<1> QED BY <1>5, <1>6 DEF L

\* The code's loop ends: there is a first level of one hash.
LEMMA DepthFirst ==
  ASSUME NEW leaves, Len(leaves) \in Nat \ {0}
  PROVE  /\ Depth(leaves) \in 0 .. Len(leaves) /\ Len(Levels(leaves)[Depth(leaves)]) = 1
         /\ \A e \in 0 .. (Depth(leaves) - 1) : Len(Levels(leaves)[e]) > 1
<1> DEFINE n == Len(leaves)
           W(d) == Len(Levels(leaves)[d])
           First(d) == W(d) <= 1 /\ \A e \in 0 .. (d - 1) : W(e) > 1
           C == {k \in Nat : k <= n => (\E d \in 0 .. n : First(d)) \/ \A e \in 0 .. k : W(e) > 1}
<1>1. (\A k \in 0 .. n : W(k) \in Nat \ {0}) /\ W(n) = 1
  BY LevelLengths
<1> HIDE DEF W
<1>2. 0 \in C
  <2>1. CASE W(0) <= 1
    <3>1. First(0) /\ 0 \in 0 .. n
      BY <2>1
    <3> QED BY <3>1
  <2>2. CASE W(0) > 1
    BY <2>2
  <2>3. W(0) \in Nat
    BY <1>1
  <2> QED BY <2>1, <2>2, <2>3
<1>3. ASSUME NEW k \in Nat, k \in C PROVE k + 1 \in C
  <2> SUFFICES ASSUME k + 1 <= n, \A e \in 0 .. k : W(e) > 1
               PROVE  (\E d \in 0 .. n : First(d)) \/ \A e \in 0 .. (k + 1) : W(e) > 1
    BY <1>3
  <2>1. k + 1 \in 0 .. n /\ (k + 1) - 1 = k
    OBVIOUS
  <2>2. CASE W(k + 1) <= 1
    <3>1. First(k + 1)
      BY <2>1, <2>2
    <3> HIDE DEF First
    <3> QED BY <2>1, <3>1
  <2>3. CASE W(k + 1) > 1
    <3>1. \A e \in 0 .. (k + 1) : e = k + 1 \/ e \in 0 .. k
      OBVIOUS
    <3> QED BY <2>3, <3>1
  <2>4. W(k + 1) \in Nat
    BY <1>1, <2>1
  <2> QED BY <2>2, <2>3, <2>4
<1>4. Nat \subseteq C
  <2> HIDE DEF C
  <2> QED BY <1>2, <1>3, NatSetInduction
<1>5. \E d \in 0 .. n : First(d)
  <2>1. n \in C
    BY <1>4
  <2>2. n \in 0 .. n /\ ~ (W(n) > 1)
    BY <1>1
  <2> QED BY <2>1, <2>2
<1>6. Depth(leaves) \in 0 .. n /\ First(Depth(leaves))
  BY <1>5 DEF Depth, W
<1>7. W(Depth(leaves)) = 1
  BY <1>1, <1>6
<1> QED BY <1>6, <1>7 DEF W

\* A place of a level is one half of a place of the next.
LEMMA PlaceAbove ==
  ASSUME NEW w \in Nat, NEW i \in 1 .. w
  PROVE  LET j == (i + 1) \div 2
         IN /\ j \in 1 .. ((w + 1) \div 2)
            /\ i = 2 * j - 1 \/ (i = 2 * j /\ 2 * j <= w)
OBVIOUS

\* A level determines the one below it, if its length is known.
LEMMA NextLevelInjective ==
  ASSUME NEW p, NEW q, Len(p) \in Nat, Len(q) = Len(p),
         \A j \in 1 .. ((Len(p) + 1) \div 2) : NextLevel(p)[j] = NextLevel(q)[j]
  PROVE  \A i \in 1 .. Len(p) : p[i] = q[i]
<1> TAKE i \in 1 .. Len(p)
<1> DEFINE w == Len(p)
           j == (i + 1) \div 2
<1>1. j \in 1 .. ((w + 1) \div 2) /\ (i = 2 * j - 1 \/ (i = 2 * j /\ 2 * j <= w))
  BY PlaceAbove
<1> DEFINE right == IF 2 * j <= w THEN 2 * j ELSE 2 * j - 1
<1>2. NextLevel(p)[j] = HashNode(p[2 * j - 1], p[right])
      /\ NextLevel(q)[j] = HashNode(q[2 * j - 1], q[right])
  <2> HIDE DEF j
  <2> QED BY <1>1, NextLevelShape
<1>3. p[2 * j - 1] = q[2 * j - 1] /\ p[right] = q[right]
  <2> DEFINE r == right
             l == 2 * j - 1
  <2>1. HashNode(p[l], p[r]) = HashNode(q[l], q[r])
    BY <1>1, <1>2
  <2> HIDE DEF j, r, l
  <2>2. p[l] = q[l] /\ p[r] = q[r]
    BY <2>1 DEF HashNode
  <2> QED BY <2>2 DEF r, l
<1> HIDE DEF j, w
<1> QED BY <1>1, <1>3

\* As many leaves make as many hashes at each level.
LEMMA SameLengths ==
  ASSUME NEW a, NEW b, Len(a) \in Nat \ {0}, Len(b) = Len(a)
  PROVE  /\ \A k \in 0 .. Len(a) : Len(Levels(a)[k]) = Len(Levels(b)[k])
         /\ Depth(a) = Depth(b)
<1> DEFINE n == Len(a)
           A == Levels(a)
           B == Levels(b)
           C == {k \in Nat : k <= n => Len(A[k]) = Len(B[k])}
<1>1. /\ A[0] = a /\ \A k \in 1 .. n : A[k] = NextLevel(A[k - 1])
      /\ B[0] = b /\ \A k \in 1 .. n : B[k] = NextLevel(B[k - 1])
  BY LevelsRecursion
<1>2. (\A k \in 0 .. n : Len(A[k]) \in Nat \ {0}) /\ \A k \in 0 .. n : Len(B[k]) \in Nat \ {0}
  BY LevelLengths
<1> HIDE DEF A, B
<1>3. 0 \in C
  BY <1>1
<1>4. ASSUME NEW k \in Nat, k \in C PROVE k + 1 \in C
  <2> SUFFICES ASSUME k + 1 <= n PROVE Len(A[k + 1]) = Len(B[k + 1])
    OBVIOUS
  <2>1. k \in 0 .. n /\ k + 1 \in 1 .. n /\ (k + 1) - 1 = k
    OBVIOUS
  <2>2. A[k + 1] = NextLevel(A[k]) /\ B[k + 1] = NextLevel(B[k])
    BY <1>1, <2>1
  <2>3. Len(NextLevel(A[k])) = (Len(A[k]) + 1) \div 2
        /\ Len(NextLevel(B[k])) = (Len(B[k]) + 1) \div 2
    BY <1>2, <2>1, NextLevelShape
  <2>4. Len(A[k]) = Len(B[k])
    BY <1>4, <2>1
  <2> HIDE DEF n
  <2> QED BY <2>2, <2>3, <2>4
<1>5. \A k \in 0 .. n : Len(A[k]) = Len(B[k])
  <2>1. Nat \subseteq C
    <3> HIDE DEF C
    <3> QED BY <1>3, <1>4, NatSetInduction
  <2> QED BY <2>1
<1>6. Depth(a) = Depth(b)
  <2> DEFINE d == Depth(a)
             e == Depth(b)
  <2>1. /\ d \in 0 .. n /\ Len(A[d]) = 1 /\ \A k \in 0 .. (d - 1) : Len(A[k]) > 1
        /\ e \in 0 .. n /\ Len(B[e]) = 1 /\ \A k \in 0 .. (e - 1) : Len(B[k]) > 1
    BY DepthFirst DEF A, B
  <2> HIDE DEF d, e
  <2>2. ~ (e < d)
    <3> SUFFICES ASSUME e < d PROVE FALSE
      OBVIOUS
    <3>1. e \in 0 .. (d - 1)
      BY <2>1
    <3>2. Len(A[e]) > 1 /\ Len(A[e]) = 1
      BY <1>5, <2>1, <3>1
    <3> QED BY <3>2
  <2>3. ~ (d < e)
    <3> SUFFICES ASSUME d < e PROVE FALSE
      OBVIOUS
    <3>1. d \in 0 .. (e - 1)
      BY <2>1
    <3>2. Len(B[d]) > 1 /\ Len(B[d]) = 1
      BY <1>5, <2>1, <3>1
    <3> QED BY <3>2
  <2>4. d \in Nat /\ e \in Nat
    BY <2>1
  <2> QED BY <2>2, <2>3, <2>4 DEF d, e
<1> QED BY <1>5, <1>6 DEF A, B

\* A header's merkle_root is that of one body only, among those of one length:
\* no transaction of it can be changed, left out for another, or moved.
THEOREM RootBindsBody ==
  ASSUME NEW S, NEW a \in Seq(S), NEW b \in Seq(S), Len(b) = Len(a), Root(a) = Root(b)
  PROVE  a = b
<1>1. CASE Len(a) = 0
  BY <1>1
<1>2. CASE Len(a) # 0
  <2> DEFINE n == Len(a)
             D == Depth(a)
             A == Levels(a)
             B == Levels(b)
             Same(k) == \A i \in 1 .. Len(A[k]) : A[k][i] = B[k][i]
             C == {k \in Nat : k <= D => Same(D - k)}
  <2>0. n \in Nat \ {0} /\ Len(b) = n
    BY <1>2
  <2>1. /\ A[0] = a /\ \A k \in 1 .. n : A[k] = NextLevel(A[k - 1])
        /\ B[0] = b /\ \A k \in 1 .. n : B[k] = NextLevel(B[k - 1])
    BY <2>0, LevelsRecursion
  <2>2. /\ \A k \in 0 .. n : Len(A[k]) \in Nat \ {0} /\ Len(A[k]) = Len(B[k])
        /\ D \in 0 .. n /\ Len(A[D]) = 1 /\ Depth(b) = D
    <3>1. \A k \in 0 .. n : Len(A[k]) \in Nat \ {0}
      BY <2>0, LevelLengths
    <3>2. D \in 0 .. n /\ Len(A[D]) = 1
      BY <2>0, DepthFirst
    <3>3. (\A k \in 0 .. n : Len(A[k]) = Len(B[k])) /\ Depth(b) = D
      BY <2>0, SameLengths
    <3> HIDE DEF A, B, D
    <3> QED BY <3>1, <3>2, <3>3
  <2>3. A[D][1] = B[D][1]
    <3>1. a # <<>> /\ b # <<>>
      BY <2>0
    <3>2. Root(a) = A[D][1] /\ Root(b) = B[Depth(b)][1]
      <4> HIDE DEF D
      <4> QED BY <3>1 DEF Root, D
    <3> QED BY <2>2, <3>2
  <2> HIDE DEF A, B, D, n
  <2>4. 0 \in C
    <3>1. D - 0 = D /\ \A i \in 1 .. Len(A[D]) : i = 1
      BY <2>2
    <3> QED BY <2>3, <3>1
  <2>5. ASSUME NEW k \in Nat, k \in C PROVE k + 1 \in C
    <3> SUFFICES ASSUME k + 1 <= D PROVE Same(D - (k + 1))
      OBVIOUS
    <3> DEFINE m == D - k
    <3>1. m \in 1 .. n /\ m - 1 \in 0 .. n /\ m \in 0 .. n /\ D - (k + 1) = m - 1 /\ Same(m)
      BY <2>0, <2>2, <2>5
    <3> HIDE DEF m
    <3> DEFINE p == A[m - 1]
               q == B[m - 1]
    <3>2. A[m] = NextLevel(p) /\ B[m] = NextLevel(q)
      BY <2>1, <3>1
    <3>3. Len(p) \in Nat /\ Len(q) = Len(p)
      BY <2>2, <3>1
    <3>4. \A j \in 1 .. Len(A[m]) : A[m][j] = B[m][j]
      BY <3>1
    <3> HIDE DEF p, q
    <3>5. \A j \in 1 .. ((Len(p) + 1) \div 2) : NextLevel(p)[j] = NextLevel(q)[j]
      BY <3>2, <3>3, <3>4, NextLevelShape
    <3>6. \A i \in 1 .. Len(p) : p[i] = q[i]
      BY <3>3, <3>5, NextLevelInjective
    <3> QED BY <3>1, <3>6 DEF p, q
  <2>6. Same(0)
    <3>1. Nat \subseteq C
      <4> HIDE DEF C
      <4> QED BY <2>4, <2>5, NatSetInduction
    <3>2. D \in Nat /\ D - D = 0
      BY <2>0, <2>2
    <3> QED BY <3>1, <3>2
  <2>7. \A i \in 1 .. Len(a) : a[i] = b[i]
    BY <2>1, <2>6
  <2> QED BY <2>7
<1> QED BY <1>1, <1>2

\* The hashes on the way of a path.
IsWay(R, hash, path) ==
  /\ R[0] = hash /\ \A k \in 1 .. Len(path) : R[k] = Join(R[k - 1], path[k])
  /\ Climb(hash, path) = R[Len(path)]

LEMMA ClimbRecursion ==
  ASSUME NEW hash, NEW path, Len(path) \in Nat
  PROVE  \E R : IsWay(R, hash, path)
<1> DEFINE n == Len(path)
           Eq(f, k) == f[k] = IF k = 0 THEN hash ELSE Join(f[k - 1], path[k])
           C == {m \in Nat : \E f : \A k \in 0 .. m : Eq(f, k)}
<1>1. 0 \in C
  <2> DEFINE f == [k \in 0 .. 0 |-> hash]
  <2>1. \A k \in 0 .. 0 : Eq(f, k)
    OBVIOUS
  <2> HIDE DEF f, Eq
  <2> QED BY <2>1
<1>2. ASSUME NEW m \in Nat, m \in C PROVE m + 1 \in C
  <2>1. PICK f : \A k \in 0 .. m : Eq(f, k)
    BY <1>2
  <2> DEFINE h == [k \in 0 .. (m + 1) |-> IF k = m + 1 THEN Join(f[m], path[m + 1]) ELSE f[k]]
  <2>2. ASSUME NEW k \in 0 .. (m + 1) PROVE Eq(h, k)
    <3>1. CASE k = m + 1
      <4>1. k # 0 /\ k - 1 = m /\ h[k - 1] = f[m]
        BY <3>1
      <4> QED BY <3>1, <4>1
    <3>2. CASE k # m + 1
      <4>1. k \in 0 .. m /\ h[k] = f[k] /\ (k # 0 => k - 1 \in 0 .. m /\ h[k - 1] = f[k - 1])
        BY <3>2
      <4> QED BY <2>1, <4>1
    <3> QED BY <3>1, <3>2
  <2> HIDE DEF h, Eq
  <2> QED BY <2>2
<1>3. Nat \subseteq C
  <2> HIDE DEF C
  <2> QED BY <1>1, <1>2, NatSetInduction
<1>4. PICK f : \A k \in 0 .. n : Eq(f, k)
  BY <1>3
<1> DEFINE g == [k \in 0 .. n |-> f[k]]
<1>5. g = [k \in 0 .. n |-> IF k = 0 THEN hash ELSE Join(g[k - 1], path[k])]
  <2>1. ASSUME NEW k \in 0 .. n
        PROVE  g[k] = IF k = 0 THEN hash ELSE Join(g[k - 1], path[k])
    <3>1. k # 0 => k - 1 \in 0 .. n /\ g[k - 1] = f[k - 1]
      OBVIOUS
    <3> QED BY <1>4, <3>1
  <2> QED BY <2>1
<1> HIDE DEF g
<1>6. PICK R : /\ R = [k \in 0 .. n |-> IF k = 0 THEN hash ELSE Join(R[k - 1], path[k])]
               /\ Climb(hash, path) = R[n]
  BY <1>5 DEF Climb
<1>7. 0 \in 0 .. n /\ \A k \in 1 .. n : k \in 0 .. n /\ k # 0
  OBVIOUS
<1> HIDE DEF n
<1>8. R[0] = hash /\ \A k \in 1 .. n : R[k] = Join(R[k - 1], path[k])
  BY <1>6, <1>7
<1> QED BY <1>6, <1>8 DEF n, IsWay

\* verify accepts at most one leaf for a path and a root.
THEOREM ClimbInjective ==
  ASSUME NEW x, NEW y, NEW path, Len(path) \in Nat, Climb(x, path) = Climb(y, path)
  PROVE  x = y
<1> DEFINE n == Len(path)
<1>a. PICK R : IsWay(R, x, path)
  BY ClimbRecursion
<1>b. PICK S : IsWay(S, y, path)
  BY ClimbRecursion
<1>1. /\ R[0] = x /\ \A k \in 1 .. n : R[k] = Join(R[k - 1], path[k])
      /\ Climb(x, path) = R[n]
  BY <1>a DEF IsWay
<1>2. /\ S[0] = y /\ \A k \in 1 .. n : S[k] = Join(S[k - 1], path[k])
      /\ Climb(y, path) = S[n]
  BY <1>b DEF IsWay
<1> DEFINE C == {k \in Nat : k <= n => R[n - k] = S[n - k]}
<1>3. 0 \in C
  <2>1. n - 0 = n
    OBVIOUS
  <2> QED BY <1>1, <1>2, <2>1
<1>4. ASSUME NEW k \in Nat, k \in C PROVE k + 1 \in C
  <2> SUFFICES ASSUME k + 1 <= n PROVE R[n - (k + 1)] = S[n - (k + 1)]
    OBVIOUS
  <2> DEFINE i == n - k
  <2>1. i \in 1 .. n /\ i - 1 = n - (k + 1) /\ R[i] = S[i]
    BY <1>4
  <2> HIDE DEF i, n
  <2>2. Join(R[i - 1], path[i]) = Join(S[i - 1], path[i])
    BY <1>1, <1>2, <2>1
  <2>3. R[i - 1] = S[i - 1]
    BY <2>2 DEF Join, HashNode
  <2> QED BY <2>1, <2>3
<1>5. Nat \subseteq C
  <2> HIDE DEF C
  <2> QED BY <1>3, <1>4, NatSetInduction
<1>6. R[n - n] = S[n - n] /\ n - n = 0
  BY <1>5
<1> QED BY <1>1, <1>2, <1>6

\* What a path has for hash i (from 0) of a level.
StepOf(level, i) ==
  [hash |-> IF i % 2 = 1 THEN level[i]
            ELSE level[IF i + 1 < Len(level) THEN i + 2 ELSE i + 1],
   right |-> i % 2 = 0]

LEMMA JoinStep ==
  ASSUME NEW level, NEW i \in Nat, NEW h
  PROVE  /\ i % 2 = 1 => Join(h, StepOf(level, i)) = HashNode(level[i], h)
         /\ i % 2 = 0 => Join(h, StepOf(level, i)) =
                           HashNode(h, level[IF i + 1 < Len(level) THEN i + 2 ELSE i + 1])
<1> DEFINE s == StepOf(level, i)
           even == (i % 2 = 0)
<1>1. s.right = even
  BY DEF StepOf
<1>2. CASE i % 2 = 1
  <2>1. s.hash = level[i] /\ even = FALSE
    BY <1>2 DEF StepOf
  <2> HIDE DEF s, even
  <2>2. Join(h, s) = HashNode(s.hash, h)
    BY <1>1, <2>1 DEF Join
  <2> QED BY <1>2, <2>1, <2>2 DEF s
<1>3. CASE i % 2 = 0
  <2>1. s.hash = level[IF i + 1 < Len(level) THEN i + 2 ELSE i + 1] /\ even = TRUE
    BY <1>3 DEF StepOf
  <2> HIDE DEF s, even
  <2>2. Join(h, s) = HashNode(h, s.hash)
    BY <1>1, <2>1 DEF Join
  <2> QED BY <1>3, <2>1, <2>2 DEF s
<1> QED BY <1>2, <1>3

\* What a path consists of: the siblings of the hashes on the way up.
LEMMA AuditPathSteps ==
  ASSUME NEW leaves, NEW index \in Nat, Depth(leaves) \in Nat
  PROVE  \E at \in [0 .. Depth(leaves) -> Nat] :
           /\ at[0] = index /\ \A k \in 1 .. Depth(leaves) : at[k] = at[k - 1] \div 2
           /\ Len(AuditPath(leaves, index)) = Depth(leaves)
           /\ \A k \in 1 .. Depth(leaves) :
                AuditPath(leaves, index)[k] = StepOf(Levels(leaves)[k - 1], at[k - 1])
<1> DEFINE D == Depth(leaves)
           V == Nat
           step == [p \in (1 .. D) \X V |-> p[2] \div 2]
<1>1. IsStep(step, 1 .. D, V) /\ index \in V
  BY DEF IsStep
<1>2. PICK g \in [0 .. D -> V] :
        g = [k \in 0 .. D |-> IF k = 0 THEN index ELSE step[<<k, g[k - 1]>>]]
  <2>1. D \in Nat
    OBVIOUS
  <2> HIDE DEF D, V, step
  <2> QED BY <1>1, <2>1, IterExists
<1>3. g = [k \in 0 .. D |-> IF k = 0 THEN index ELSE g[k - 1] \div 2]
  <2>1. ASSUME NEW k \in 0 .. D, k # 0
        PROVE  g[k] = g[k - 1] \div 2
    <3>1. k \in 1 .. D /\ g[k - 1] \in Nat
      BY <2>1
    <3>2. g[k] = step[<<k, g[k - 1]>>]
      BY <1>2, <2>1
    <3> QED BY <3>1, <3>2
  <2> HIDE DEF step
  <2> QED BY <1>2, <2>1
<1> DEFINE Place(at, k) == StepOf(Levels(leaves)[k - 1], at[k - 1])
<1>4. PICK at : /\ at = [k \in 0 .. D |-> IF k = 0 THEN index ELSE at[k - 1] \div 2]
                /\ AuditPath(leaves, index) = [k \in 1 .. D |-> Place(at, k)]
  <2> DEFINE A == CHOOSE at : at = [k \in 0 .. D |-> IF k = 0 THEN index ELSE at[k - 1] \div 2]
  <2>1. A = [k \in 0 .. D |-> IF k = 0 THEN index ELSE A[k - 1] \div 2]
    BY <1>3
  <2>2. AuditPath(leaves, index) = [k \in 1 .. D |-> Place(A, k)]
    BY DEF AuditPath, StepOf
  <2> HIDE DEF A, Place
  <2> QED BY <2>1, <2>2
<1>5. at \in [0 .. D -> Nat] /\ at[0] = index /\ \A k \in 1 .. D : at[k] = at[k - 1] \div 2
  <2> DEFINE C == {k \in Nat : k <= D => at[k] \in Nat}
  <2> HIDE DEF D
  <2>0. D \in Nat
    BY DEF D
  <2>1. at[0] = index /\ \A k \in 1 .. D : at[k] = at[k - 1] \div 2
    BY <1>4, <2>0
  <2>2. 0 \in C
    BY <2>1
  <2>3. ASSUME NEW k \in Nat, k \in C PROVE k + 1 \in C
    <3> SUFFICES ASSUME k + 1 <= D PROVE at[k + 1] \in Nat
      OBVIOUS
    <3>1. k + 1 \in 1 .. D /\ (k + 1) - 1 = k /\ at[k] \in Nat
      BY <2>0, <2>3
    <3>2. at[k + 1] = at[k] \div 2
      BY <2>1, <3>1
    <3> QED BY <3>1, <3>2
  <2>4. Nat \subseteq C
    <3> HIDE DEF C
    <3> QED BY <2>2, <2>3, NatSetInduction
  <2>5. \A k \in 0 .. D : at[k] \in Nat
    BY <2>0, <2>4
  <2> QED BY <1>4, <2>1, <2>5
<1> HIDE DEF Place
<1>6. Len(AuditPath(leaves, index)) = D
  <2>1. [k \in 1 .. D |-> Place(at, k)] \in Seq({Place(at, k) : k \in 1 .. D})
    OBVIOUS
  <2>2. Len([k \in 1 .. D |-> Place(at, k)]) = D
    OBVIOUS
  <2> QED BY <1>4, <2>2
<1>7. \A k \in 1 .. D : AuditPath(leaves, index)[k] = Place(at, k)
  BY <1>4
<1> QED BY <1>5, <1>6, <1>7 DEF Place

\* generate_proof and root agree, for any number of leaves: from each leaf its
\* path leads to the root.
THEOREM PathLeadsToRoot ==
  ASSUME NEW leaves, Len(leaves) \in Nat \ {0}, leaves # <<>>,
         NEW index \in 0 .. (Len(leaves) - 1)
  PROVE  Climb(leaves[index + 1], AuditPath(leaves, index)) = Root(leaves)
<1> DEFINE n == Len(leaves)
           D == Depth(leaves)
           L == Levels(leaves)
           path == AuditPath(leaves, index)
<1>1. L[0] = leaves /\ \A k \in 1 .. n : L[k] = NextLevel(L[k - 1])
  BY LevelsRecursion
<1>2. D \in 0 .. n /\ Len(L[D]) = 1 /\ \A k \in 0 .. n : Len(L[k]) \in Nat \ {0}
  BY DepthFirst, LevelLengths
<1>3. D \in Nat /\ index \in Nat /\ n \in Nat /\ D <= n
  BY <1>2
<1>4. PICK at \in [0 .. D -> Nat] :
        /\ at[0] = index /\ \A k \in 1 .. D : at[k] = at[k - 1] \div 2
        /\ Len(path) = D
        /\ \A k \in 1 .. D : path[k] = StepOf(L[k - 1], at[k - 1])
  BY <1>3, AuditPathSteps
<1>a. PICK R : IsWay(R, leaves[index + 1], path)
  <2>1. Len(path) \in Nat
    BY <1>3, <1>4
  <2> DEFINE start == leaves[index + 1]
  <2> HIDE DEF path, start
  <2>2. \E R : IsWay(R, start, path)
    BY <2>1, ClimbRecursion
  <2> QED BY <2>2 DEF start
<1>5. /\ R[0] = leaves[index + 1]
      /\ \A k \in 1 .. Len(path) : R[k] = Join(R[k - 1], path[k])
      /\ Climb(leaves[index + 1], path) = R[Len(path)]
  BY <1>a DEF IsWay
<1> DEFINE C == {k \in Nat : k <= D => at[k] < Len(L[k]) /\ R[k] = L[k][at[k] + 1]}
<1> HIDE DEF D, L, path
<1>6. 0 \in C
  BY <1>1, <1>4, <1>5
<1>7. ASSUME NEW k \in Nat, k \in C PROVE k + 1 \in C
  <2> SUFFICES ASSUME k + 1 <= D
               PROVE  at[k + 1] < Len(L[k + 1]) /\ R[k + 1] = L[k + 1][at[k + 1] + 1]
    OBVIOUS
  <2> DEFINE i == at[k]
             m == Len(L[k])
             j == i \div 2
  <2>1. k \in 0 .. D /\ k + 1 \in 1 .. D /\ k + 1 \in 1 .. n /\ k \in 0 .. n /\ (k + 1) - 1 = k
    BY <1>3
  <2>2. i \in Nat /\ m \in Nat \ {0} /\ i < m /\ R[k] = L[k][i + 1]
    BY <1>2, <1>7, <2>1
  <2>3. at[k + 1] = j /\ L[k + 1] = NextLevel(L[k])
    BY <1>1, <1>4, <2>1
  <2>4. path[k + 1] = StepOf(L[k], i)
    BY <1>4, <2>1
  <2>5. R[k + 1] = Join(R[k], path[k + 1])
    BY <1>4, <1>5, <2>1
  <2>6. /\ Len(L[k + 1]) = (m + 1) \div 2
        /\ \A p \in 1 .. ((m + 1) \div 2) :
             L[k + 1][p] = HashNode(L[k][2 * p - 1], L[k][IF 2 * p <= m THEN 2 * p ELSE 2 * p - 1])
    BY <2>2, <2>3, NextLevelShape
  <2> HIDE DEF i, m
  <2>7. j \in Nat /\ j < (m + 1) \div 2 /\ j + 1 \in 1 .. ((m + 1) \div 2)
        /\ (i % 2 = 1 => i = 2 * j + 1) /\ (i % 2 = 0 => i = 2 * j) /\ i % 2 \in {0, 1}
    BY <2>2
  <2> HIDE DEF j
  <2>8. 2 * (j + 1) - 1 = 2 * j + 1 /\ 2 * (j + 1) = 2 * j + 2
    BY <2>7
  <2>9. L[k + 1][j + 1] = HashNode(L[k][2 * j + 1], L[k][IF 2 * j + 2 <= m THEN 2 * j + 2 ELSE 2 * j + 1])
    BY <2>6, <2>7, <2>8
  <2>10. CASE i % 2 = 1
    <3>2. R[k + 1] = HashNode(L[k][i], L[k][i + 1])
      BY <2>2, <2>4, <2>5, <2>10, JoinStep
    <3>3. i = 2 * j + 1 /\ i + 1 = 2 * j + 2 /\ 2 * j + 2 <= m
      BY <2>2, <2>7, <2>10
    <3> QED BY <2>3, <2>6, <2>7, <2>9, <3>2, <3>3
  <2>11. CASE i % 2 = 0
    <3>2. R[k + 1] = HashNode(L[k][i + 1], L[k][IF i + 1 < m THEN i + 2 ELSE i + 1])
      BY <2>2, <2>4, <2>5, <2>11, JoinStep DEF m
    <3>3. i = 2 * j /\ (i + 1 < m <=> 2 * j + 2 <= m)
      BY <2>2, <2>7, <2>11
    <3> QED BY <2>3, <2>6, <2>7, <2>9, <3>2, <3>3
  <2> QED BY <2>7, <2>10, <2>11
<1>8. Nat \subseteq C
  <2> HIDE DEF C
  <2> QED BY <1>6, <1>7, NatSetInduction
<1>9. at[D] < 1 /\ R[D] = L[D][at[D] + 1]
  BY <1>2, <1>3, <1>8
<1>10. at[D] = 0
  <2>1. D \in 0 .. D
    BY <1>3
  <2> QED BY <1>4, <1>9, <2>1
<1>11. R[D] = Root(leaves)
  BY <1>9, <1>10 DEF Root, L, D
<1> QED BY <1>4, <1>5, <1>11 DEF path

-----------------------------------------------------------------------------
(* Executing a sequence of transactions.                                   *)

Run(acc, s) == FoldLeft(Execute, acc, s)

\* A finite set of numbers that is not empty has its largest.
LEMMA MaxIn ==
  ASSUME NEW S \in SUBSET Nat, IsFiniteSet(S), S # {}
  PROVE  Max(S) \in S /\ \A y \in S : Max(S) >= y
<1> DEFINE C == {A \in SUBSET S : A # {} => \E x \in A : \A y \in A : x >= y}
<1>1. ASSUME NEW A \in SUBSET S, \A B \in SUBSET A : B # A => B \in C
      PROVE  A \in C
  <2> SUFFICES ASSUME A # {} PROVE \E x \in A : \A y \in A : x >= y
    OBVIOUS
  <2>1. PICK a \in A : TRUE
    OBVIOUS
  <2>2. CASE A = {a}
    BY <2>1, <2>2
  <2>3. CASE A # {a}
    <3>1. A \ {a} \in SUBSET A /\ A \ {a} # A /\ A \ {a} # {}
      BY <2>1, <2>3
    <3>2. A \ {a} \in C
      <4> HIDE DEF C
      <4> QED BY <1>1, <3>1
    <3>3. PICK b \in A \ {a} : \A y \in A \ {a} : b >= y
      BY <3>1, <3>2
    <3>4. a \in Nat /\ b \in Nat /\ \A y \in A : y \in Nat
      OBVIOUS
    <3>5. CASE a >= b
      BY <3>3, <3>4, <3>5
    <3>6. CASE b >= a
      BY <3>3, <3>4, <3>6
    <3> QED BY <3>4, <3>5, <3>6
  <2> QED BY <2>2, <2>3
<1>2. SUBSET S \subseteq C
  <2> HIDE DEF C
  <2> QED BY <1>1, SubsetInduction
<1>3. \E x \in S : \A y \in S : x >= y
  BY <1>2
<1> QED BY <1>3 DEF Max

\* The accounts after each of the transactions, the last of which are Run's.
LEMMA RunPrefixes ==
  ASSUME NEW acc \in [Addresses -> Account], NEW s \in Seq(Txs)
  PROVE  \E P \in [0 .. Len(s) -> [Addresses -> Account]] :
           /\ P[0] = acc /\ \A k \in 1 .. Len(s) : P[k] = Execute(P[k - 1], s[k])
           /\ Run(acc, s) = P[Len(s)]
<1> DEFINE S == DOMAIN s
           V == [Addresses -> Account]
           pick == [t \in SUBSET S |-> Max(t)]
           step == [p \in S \X V |-> Execute(p[2], s[p[1]])]
<1>1. S = 1 .. Len(s) /\ Len(s) \in Nat /\ \A i \in S : s[i] \in Txs
  OBVIOUS
<1>2. IsFiniteSet(S)
  BY <1>1, FS_Interval
<1>3. \A t \in SUBSET S : t # {} => Max(t) \in t
  <2>1. \A t \in SUBSET S : IsFiniteSet(t) /\ t \in SUBSET Nat
    BY <1>1, <1>2, FS_Subset
  <2> QED BY <2>1, MaxIn
<1>4. \A i \in S, v \in V : Execute(v, s[i]) \in V
  BY <1>1, ExecuteType
<1>5. IsPick(pick, S) /\ IsStep(step, S, V)
  BY <1>3, <1>4 DEF IsPick, IsStep
<1>6. PICK f \in [SUBSET S -> V] : IsFold(f, S, acc, pick, step)
  <2>1. acc \in V
    OBVIOUS
  <2> HIDE DEF S, V, pick, step
  <2> QED BY <1>2, <1>5, <2>1, FoldExists
<1>7. ASSUME NEW t \in SUBSET S, t # {}
      PROVE  f[t] = Execute(f[t \ {Max(t)}], s[Max(t)])
  <2>1. Max(t) \in S /\ f[t \ {Max(t)}] \in V /\ pick[t] = Max(t)
    BY <1>3, <1>7
  <2>2. f[t] = step[<<Max(t), f[t \ {Max(t)}]>>]
    BY <1>6, <1>7, <2>1 DEF IsFold
  <2> QED BY <2>1, <2>2
<1>8. f = [t \in SUBSET S |-> IF t = {} THEN acc ELSE Execute(f[t \ {Max(t)}], s[Max(t)])]
  BY <1>6, <1>7 DEF IsFold
<1>9. PICK g : /\ g = [t \in SUBSET S |-> IF t = {} THEN acc
                                          ELSE Execute(g[t \ {Max(t)}], s[Max(t)])]
               /\ Run(acc, s) = g[S]
  BY <1>8 DEF Run, FoldLeft, MapThenFoldSet
<1> DEFINE P == [k \in 0 .. Len(s) |-> g[1 .. k]]
<1>10. P[0] = acc
  <2>1. 1 .. 0 = {} /\ 0 \in 0 .. Len(s) /\ {} \in SUBSET S
    BY <1>1
  <2>2. g[{}] = acc
    BY <1>9, <2>1
  <2> QED BY <2>1, <2>2
<1>11. ASSUME NEW k \in 1 .. Len(s)
       PROVE  P[k] = Execute(P[k - 1], s[k])
  <2> DEFINE t == 1 .. k
  <2>0. t \subseteq 1 .. Len(s) /\ Len(s) \in Nat
    OBVIOUS
  <2>1. t \in SUBSET S /\ t # {} /\ k \in t /\ \A y \in t : k >= y
    <3>1. t \in SUBSET S
      <4> HIDE DEF t, S
      <4> QED BY <1>1, <2>0
    <3>2. k \in t /\ \A y \in t : k >= y
      OBVIOUS
    <3> QED BY <3>1, <3>2
  <2>2. IsFiniteSet(t) /\ t \in SUBSET Nat
    BY FS_Interval
  <2>3. t \ {k} = 1 .. (k - 1) /\ k - 1 \in 0 .. Len(s) /\ k \in 0 .. Len(s)
    OBVIOUS
  <2> HIDE DEF t
  <2>4. Max(t) = k
    <3>1. Max(t) \in Nat /\ k \in Nat /\ Max(t) >= k /\ k >= Max(t)
      BY <2>1, <2>2, MaxIn
    <3> QED BY <3>1
  <2>5. g[t] = Execute(g[t \ {k}], s[k])
    BY <1>9, <2>1, <2>4
  <2> QED BY <2>3, <2>5 DEF t
<1>12. P \in [0 .. Len(s) -> V]
  <2> DEFINE C == {k \in Nat : k \in 0 .. Len(s) => P[k] \in V}
  <2> HIDE DEF P
  <2>1. 0 \in C
    BY <1>10
  <2>2. ASSUME NEW k \in Nat, k \in C PROVE k + 1 \in C
    <3>1. CASE k + 1 \in 0 .. Len(s)
      <4>1. P[k] \in V /\ k + 1 \in 1 .. Len(s) /\ (k + 1) - 1 = k
        BY <2>2, <3>1
      <4>2. P[k + 1] = Execute(P[k], s[k + 1])
        BY <1>11, <4>1
      <4>3. s[k + 1] \in Txs
        BY <1>1, <4>1
      <4> HIDE DEF V
      <4>4. P[k + 1] \in V
        BY <4>1, <4>2, <4>3, ExecuteType DEF V
      <4> QED BY <4>4
    <3> QED BY <3>1
  <2>3. Nat \subseteq C
    <3> HIDE DEF C
    <3> QED BY <2>1, <2>2, NatSetInduction
  <2>4. \A k \in 0 .. Len(s) : P[k] \in V
    BY <2>3
  <2> QED BY <2>4 DEF P
<1>13. Run(acc, s) = P[Len(s)]
  BY <1>1, <1>9
<1> HIDE DEF P
<1> QED BY <1>10, <1>11, <1>12, <1>13

LEMMA RunType ==
  ASSUME NEW acc \in [Addresses -> Account], NEW s \in Seq(Txs)
  PROVE  Run(acc, s) \in [Addresses -> Account]
<1>1. PICK P \in [0 .. Len(s) -> [Addresses -> Account]] : Run(acc, s) = P[Len(s)]
  BY RunPrefixes
<1>2. Len(s) \in 0 .. Len(s)
  OBVIOUS
<1> QED BY <1>1, <1>2

LEMMA RunEmpty ==
  ASSUME NEW acc \in [Addresses -> Account]
  PROVE  Run(acc, <<>>) = acc
<1> DEFINE s == <<>>
<1>1. s \in Seq(Txs) /\ Len(s) = 0
  OBVIOUS
<1> HIDE DEF s
<1>2. PICK P \in [0 .. Len(s) -> [Addresses -> Account]] :
        P[0] = acc /\ Run(acc, s) = P[Len(s)]
  BY <1>1, RunPrefixes
<1> QED BY <1>1, <1>2 DEF s

\* A sequence is executed by executing its first transaction, then the rest.
LEMMA RunHead ==
  ASSUME NEW acc \in [Addresses -> Account], NEW s \in Seq(Txs), s # <<>>
  PROVE  Run(acc, s) = Run(Execute(acc, Head(s)), Tail(s))
<1> DEFINE n == Len(s) - 1
           one == Execute(acc, Head(s))
<1>1. /\ n \in Nat /\ Len(s) = n + 1 /\ Head(s) = s[1] /\ Head(s) \in Txs
      /\ Tail(s) \in Seq(Txs) /\ Len(Tail(s)) = n
      /\ \A k \in 1 .. n : Tail(s)[k] = s[k + 1]
  OBVIOUS
<1>2. one \in [Addresses -> Account]
  BY <1>1, ExecuteType
<1>3. PICK P \in [0 .. Len(s) -> [Addresses -> Account]] :
        /\ P[0] = acc /\ \A k \in 1 .. Len(s) : P[k] = Execute(P[k - 1], s[k])
        /\ Run(acc, s) = P[Len(s)]
  BY RunPrefixes
<1> HIDE DEF one
<1>4. PICK Q \in [0 .. n -> [Addresses -> Account]] :
        /\ Q[0] = one /\ \A k \in 1 .. n : Q[k] = Execute(Q[k - 1], Tail(s)[k])
        /\ Run(one, Tail(s)) = Q[n]
  <2> HIDE DEF n
  <2> QED BY <1>1, <1>2, RunPrefixes
<1> DEFINE C == {k \in Nat : k <= n => Q[k] = P[k + 1]}
<1> HIDE DEF n
<1>5. 0 \in C
  <2>1. P[1] = Execute(P[1 - 1], s[1]) /\ 1 - 1 = 0 /\ 0 + 1 = 1
    BY <1>1, <1>3
  <2> QED BY <1>1, <1>3, <1>4, <2>1 DEF one
<1>6. ASSUME NEW k \in Nat, k \in C PROVE k + 1 \in C
  <2> SUFFICES ASSUME k + 1 <= n PROVE Q[k + 1] = P[(k + 1) + 1]
    OBVIOUS
  <2>1. /\ k + 1 \in 1 .. n /\ (k + 1) - 1 = k /\ (k + 1) + 1 \in 1 .. Len(s)
        /\ ((k + 1) + 1) - 1 = k + 1 /\ Q[k] = P[k + 1]
    BY <1>1, <1>6
  <2>2. Q[k + 1] = Execute(Q[k], s[(k + 1) + 1])
    BY <1>1, <1>4, <2>1
  <2>3. P[(k + 1) + 1] = Execute(P[k + 1], s[(k + 1) + 1])
    BY <1>3, <2>1
  <2> QED BY <2>1, <2>2, <2>3
<1>7. Nat \subseteq C
  <2> HIDE DEF C
  <2> QED BY <1>5, <1>6, NatSetInduction
<1>8. Q[n] = P[n + 1]
  BY <1>1, <1>7
<1> QED BY <1>1, <1>3, <1>4, <1>8 DEF one

-----------------------------------------------------------------------------
(* The chain of a database, executed.                                      *)

\* The accounts after each height, of which the last are those of Replay.
LEMMA ReplayPrefixes ==
  ASSUME NEW db, db \in Databases, Gapless(db)
  PROVE  \E P \in [0 .. db.latest -> [Addresses -> Account]] :
           /\ P[0] = GenesisAccounts
           /\ \A h \in 1 .. db.latest : P[h] = Run(P[h - 1], Body[db.at[h]])
           /\ Replay(db) = P[db.latest]
<1> DEFINE n == db.latest
           V == [Addresses -> Account]
           step == [p \in (1 .. n) \X V |-> Run(p[2], Body[db.at[p[1]]])]
<1>1. n \in Nat /\ GenesisAccounts \in V
  BY ChainSyncAssumption DEF Databases, Heights
<1>2. \A h \in 1 .. n, v \in V : Run(v, Body[db.at[h]]) \in V
  <2> SUFFICES ASSUME NEW h \in 1 .. n, NEW v \in V PROVE Run(v, Body[db.at[h]]) \in V
    OBVIOUS
  <2>1. db.at[h] \in Blocks
    BY <1>1 DEF Gapless
  <2>2. Body[db.at[h]] \in Seq(Txs)
    BY <2>1, ChainSyncAssumption
  <2> QED BY <2>2, RunType
<1>3. IsStep(step, 1 .. n, V)
  BY <1>2 DEF IsStep
<1>4. PICK g \in [0 .. n -> V] :
        g = [h \in 0 .. n |-> IF h = 0 THEN GenesisAccounts ELSE step[<<h, g[h - 1]>>]]
  <2> HIDE DEF n, V, step
  <2> QED BY <1>1, <1>3, IterExists
<1>5. g = [h \in 0 .. n |-> IF h = 0 THEN GenesisAccounts ELSE Run(g[h - 1], Body[db.at[h]])]
  <2>1. ASSUME NEW h \in 0 .. n, h # 0
        PROVE  g[h] = Run(g[h - 1], Body[db.at[h]])
    <3>1. h \in 1 .. n /\ g[h - 1] \in V
      BY <1>1, <2>1
    <3>2. g[h] = step[<<h, g[h - 1]>>]
      BY <1>4, <2>1
    <3> QED BY <3>1, <3>2
  <2> HIDE DEF step
  <2> QED BY <1>4, <2>1
<1>6. PICK P : /\ P = [h \in 0 .. n |-> IF h = 0 THEN GenesisAccounts
                                         ELSE Run(P[h - 1], Body[db.at[h]])]
               /\ Replay(db) = P[n]
  BY <1>5 DEF Replay, Run
<1>7. /\ P[0] = GenesisAccounts
      /\ \A h \in 1 .. n : P[h] = Run(P[h - 1], Body[db.at[h]])
  <2> HIDE DEF n
  <2> QED BY <1>1, <1>6
<1>8. P \in [0 .. n -> V]
  <2> DEFINE C == {h \in Nat : h <= n => P[h] \in V}
  <2> HIDE DEF n, V
  <2>1. 0 \in C
    BY <1>1, <1>7
  <2>2. ASSUME NEW h \in Nat, h \in C PROVE h + 1 \in C
    <3> SUFFICES ASSUME h + 1 <= n PROVE P[h + 1] \in V
      OBVIOUS
    <3>1. h + 1 \in 1 .. n /\ (h + 1) - 1 = h /\ P[h] \in V
      BY <1>1, <2>2
    <3> QED BY <1>2, <1>7, <3>1
  <2>3. Nat \subseteq C
    <3> HIDE DEF C
    <3> QED BY <2>1, <2>2, NatSetInduction
  <2>4. \A h \in 0 .. n : P[h] \in V
    BY <2>3
  <2> QED BY <1>6, <2>4
<1> QED BY <1>6, <1>7, <1>8

\* A block on top of a chain is executed after it.
LEMMA ReplayGrows ==
  ASSUME NEW db, db \in Databases, Gapless(db), NEW up, up \in Databases, Gapless(up),
         up.latest = db.latest + 1, \A h \in 0 .. db.latest : up.at[h] = db.at[h]
  PROVE  /\ Replay(db) \in [Addresses -> Account]
         /\ Replay(up) = Run(Replay(db), Body[up.at[up.latest]])
<1> DEFINE n == db.latest
<1>1. n \in Nat /\ n + 1 = up.latest
  BY DEF Databases, Heights
<1>2. PICK P \in [0 .. n -> [Addresses -> Account]] :
        /\ P[0] = GenesisAccounts
        /\ \A h \in 1 .. n : P[h] = Run(P[h - 1], Body[db.at[h]])
        /\ Replay(db) = P[n]
  BY ReplayPrefixes
<1>3. PICK Q \in [0 .. (n + 1) -> [Addresses -> Account]] :
        /\ Q[0] = GenesisAccounts
        /\ \A h \in 1 .. (n + 1) : Q[h] = Run(Q[h - 1], Body[up.at[h]])
        /\ Replay(up) = Q[n + 1]
  BY <1>1, ReplayPrefixes
<1> DEFINE C == {h \in Nat : h <= n => Q[h] = P[h]}
<1>4. 0 \in C
  BY <1>2, <1>3
<1>5. ASSUME NEW h \in Nat, h \in C PROVE h + 1 \in C
  <2> SUFFICES ASSUME h + 1 <= n PROVE Q[h + 1] = P[h + 1]
    OBVIOUS
  <2>1. /\ h + 1 \in 1 .. n /\ h + 1 \in 1 .. (n + 1) /\ h + 1 \in 0 .. n
        /\ (h + 1) - 1 = h /\ Q[h] = P[h]
    BY <1>1, <1>5
  <2>2. up.at[h + 1] = db.at[h + 1]
    BY <2>1
  <2> HIDE DEF n
  <2> QED BY <1>2, <1>3, <2>1, <2>2
<1>6. Nat \subseteq C
  <2> HIDE DEF C
  <2> QED BY <1>4, <1>5, NatSetInduction
<1>7. Q[n] = P[n]
  BY <1>1, <1>6
<1>8. n + 1 \in 1 .. (n + 1) /\ (n + 1) - 1 = n /\ n \in 0 .. n
  BY <1>1
<1> HIDE DEF n
<1> QED BY <1>1, <1>2, <1>3, <1>7, <1>8

-----------------------------------------------------------------------------
(* What is stored, and what a call has executed so far.                    *)

\* Every block that was put into a database was checked before.
DbData(db) ==
  db \in Databases /\ \A h \in Heights \ {0} : db.at[h] \in Blocks => ValidBasic(db.at[h])

CallData(r) ==
  /\ r.rest \in Seq(Txs) /\ IsOverlay(r.overlay)
  /\ r.pc = "executing" => ValidBasic(Head(r.batch))

\* What is left to execute leads from the overlay to where the block leads from
\* the store.
Executed(r) ==
  Run(Overlaid(mem.accounts, r.overlay), r.rest) = Run(mem.accounts, Body[Head(r.batch)])

DataInv ==
  /\ DbData(mem) /\ DbData(disk) /\ faults \in 0 .. MaxFaults
  /\ \A t \in Tasks : CallData(task[t])

\* The only call in progress executes its block on the accounts of the chain.
AgreeInv ==
  ~overlap =>
    /\ mem.accounts = Replay(mem) /\ disk.accounts = Replay(disk)
    /\ \A t \in Tasks : task[t].pc = "executing" => Executed(task[t])

JInv == DataInv /\ AgreeInv

LEMMA IdleData == CallData(Idle) /\ Idle.pc # "executing"
<1>1. Idle.rest = <<>> /\ Idle.overlay = <<>> /\ Idle.pc = "idle"
  BY DEF Idle
<1>2. <<>> \in Seq(Txs)
  OBVIOUS
<1> QED BY <1>1, <1>2, NoOverlay DEF CallData

LEMMA InitData == Init => JInv
<1> SUFFICES ASSUME Init PROVE JInv
  OBVIOUS
<1>1. /\ mem = [latest |-> 0, accounts |-> GenesisAccounts,
                at |-> [h \in Heights |-> IF h = 0 THEN GenesisBlock ELSE NoBlock]]
      /\ disk = mem /\ task = [t \in Tasks |-> Idle] /\ overlap = FALSE /\ faults = 0
  BY DEF Init
<1>2. mem \in Databases
  <2>1. 0 \in Heights /\ GenesisAccounts \in [Addresses -> Account]
    BY ChainSyncAssumption DEF Heights
  <2> QED BY <1>1, <2>1, ChainSyncAssumption DEF Databases
<1>3. DbData(mem)
  BY <1>1, <1>2, ChainSyncAssumption DEF DbData
<1>4. DataInv
  BY <1>1, <1>3, IdleData, ChainSyncAssumption DEF DataInv
<1>5. mem.accounts = Replay(mem)
  <2>1. Gapless(mem) /\ mem.latest = 0
    BY <1>1, InitOK DEF IInv, GapInv
  <2>2. PICK P \in [0 .. mem.latest -> [Addresses -> Account]] :
          P[0] = GenesisAccounts /\ Replay(mem) = P[mem.latest]
    BY <1>2, <2>1, ReplayPrefixes
  <2> QED BY <1>1, <2>1, <2>2
<1>6. AgreeInv
  BY <1>1, <1>5, IdleData DEF AgreeInv
<1> QED BY <1>4, <1>6 DEF JInv

\* A step of one call that leaves the databases alone.
LEMMA DataGoesOn ==
  ASSUME IInv, JInv, NEW t \in Tasks, NEW r, CallData(r),
         task' = [task EXCEPT ![t] = r], UNCHANGED <<mem, disk, faults>>,
         overlap => overlap', ~overlap' /\ r.pc = "executing" => Executed(r)
  PROVE  JInv'
<1>1. \A u \in Tasks : task'[u] = IF u = t THEN r ELSE task[u]
  BY DEF IInv, TypeInv
<1>2. DataInv'
  BY <1>1 DEF JInv, DataInv, DbData, CallData
<1>3. AgreeInv'
  <2> SUFFICES ASSUME ~overlap' PROVE AgreeInv'
    BY DEF AgreeInv
  <2>1. mem'.accounts = Replay(mem)' /\ disk'.accounts = Replay(disk)'
    BY DEF JInv, AgreeInv, Replay
  <2>2. ASSUME NEW u \in Tasks, task'[u].pc = "executing" PROVE Executed(task[u])'
    BY <1>1, <2>2 DEF JInv, AgreeInv, Executed
  <2> QED BY <2>1, <2>2 DEF AgreeInv
<1> QED BY <1>2, <1>3 DEF JInv

LEMMA SkipData == ASSUME IInv, JInv, NEW t \in Tasks, Skip(t) PROVE JInv'
<1> DEFINE r == [task[t] EXCEPT !.batch = Tail(task[t].batch)]
<1>1. IsCall(task[t]) /\ CallData(task[t]) /\ task[t].pc = "next"
  BY DEF IInv, TypeInv, JInv, DataInv, Skip
<1>2. r.pc = "next" /\ r.rest = task[t].rest /\ r.overlay = task[t].overlay
  BY <1>1 DEF IsCall
<1>3. task' = [task EXCEPT ![t] = r] /\ UNCHANGED <<mem, disk, overlap, faults>>
  BY DEF Skip, Becomes
<1> HIDE DEF r
<1>4. CallData(r)
  BY <1>1, <1>2 DEF CallData
<1> QED BY <1>2, <1>3, <1>4, DataGoesOn

LEMMA CheckData == ASSUME IInv, JInv, NEW t \in Tasks, Check(t) PROVE JInv'
<1> DEFINE b == Head(task[t].batch)
           r == [task[t] EXCEPT !.pc = "executing", !.rest = Body[b], !.overlay = <<>>]
<1>1. IsCall(task[t]) /\ task[t].batch # <<>>
  BY DEF IInv, TypeInv, Check
<1>2. b \in Blocks /\ Body[b] \in Seq(Txs)
  BY <1>1, BatchFacts, ChainSyncAssumption DEF IsCall
<1>3. UNCHANGED <<mem, disk, overlap, faults>>
  BY DEF Check
<1>4. \/ \E q : task' = [task EXCEPT ![t] = q] /\ CallData(q) /\ q.pc # "executing"
      \/ task' = [task EXCEPT ![t] = r] /\ ValidBasic(b)
  <2> DEFINE q == [Idle EXCEPT !.pc = "panicked"]
  <2>1. CallData(q) /\ q.pc # "executing"
    <3>1. q.pc = "panicked" /\ q.rest = <<>> /\ q.overlay = <<>>
      BY DEF Idle
    <3>2. <<>> \in Seq(Txs)
      OBVIOUS
    <3> QED BY <3>1, <3>2, NoOverlay DEF CallData
  <2>2. \/ task' = [task EXCEPT ![t] = Idle] \/ task' = [task EXCEPT ![t] = q]
        \/ task' = [task EXCEPT ![t] = r] /\ ValidBasic(b)
    BY DEF Check, Becomes
  <2> HIDE DEF q, r, b
  <2> QED BY <2>1, <2>2, IdleData
<1>5. CASE \E q : task' = [task EXCEPT ![t] = q] /\ CallData(q) /\ q.pc # "executing"
  BY <1>3, <1>5, DataGoesOn
<1>6. CASE task' = [task EXCEPT ![t] = r] /\ ValidBasic(b)
  <2>1. /\ r.pc = "executing" /\ r.rest = Body[b] /\ r.overlay = <<>>
        /\ r.batch = task[t].batch
    BY <1>1 DEF IsCall
  <2> HIDE DEF r
  <2>2. CallData(r)
    BY <1>2, <1>6, <2>1, NoOverlay DEF CallData
  <2>3. mem.accounts \in [Addresses -> Account]
    BY DEF JInv, DataInv, DbData, Databases
  <2>4. Overlaid(mem.accounts, <<>>) = mem.accounts
    <3>1. DOMAIN <<>> = {}
      OBVIOUS
    <3>2. [a \in Addresses |-> mem.accounts[a]] = mem.accounts
      BY <2>3
    <3> QED BY <3>1, <3>2 DEF Overlaid
  <2>5. Executed(r)
    BY <2>1, <2>4 DEF Executed
  <2> QED BY <1>3, <1>6, <2>2, <2>5, DataGoesOn
<1> QED BY <1>4, <1>5, <1>6

LEMMA ExecuteNextData == ASSUME IInv, JInv, NEW t \in Tasks, ExecuteNext(t) PROVE JInv'
<1> DEFINE f == task[t].overlay
           x == Head(task[t].rest)
           after == Execute(Overlaid(mem.accounts, f), x)
           g == [a \in DOMAIN f \cup Touched(x) |-> after[a]]
           r == [task[t] EXCEPT !.rest = Tail(task[t].rest), !.overlay = g]
<1>1. /\ IsCall(task[t]) /\ CallData(task[t]) /\ task[t].pc = "executing"
      /\ task[t].rest # <<>>
  BY DEF IInv, TypeInv, JInv, DataInv, ExecuteNext
<1>2. mem.accounts \in [Addresses -> Account] /\ IsOverlay(f) /\ task[t].rest \in Seq(Txs)
  BY <1>1 DEF JInv, DataInv, DbData, Databases, CallData
<1>3. x \in Txs /\ Tail(task[t].rest) \in Seq(Txs)
  <2>1. \A s \in Seq(Txs) : s # <<>> => Head(s) \in Txs /\ Tail(s) \in Seq(Txs)
    OBVIOUS
  <2> QED BY <1>1, <1>2, <2>1
<1>4. task' = [task EXCEPT ![t] = r] /\ UNCHANGED <<mem, disk, overlap, faults>>
  BY DEF ExecuteNext, Becomes
<1>5. IsOverlay(g) /\ Overlaid(mem.accounts, g) = after
  BY <1>2, <1>3, OverlayGrows
<1>6. Run(Overlaid(mem.accounts, f), task[t].rest) = Run(after, Tail(task[t].rest))
  BY <1>1, <1>2, OverlaidType, RunHead
<1> HIDE DEF g, after
<1>7. /\ r.pc = "executing" /\ r.rest = Tail(task[t].rest) /\ r.overlay = g
      /\ r.batch = task[t].batch
  BY <1>1 DEF IsCall
<1> HIDE DEF r
<1>8. CallData(r)
  BY <1>1, <1>3, <1>5, <1>7 DEF CallData
<1>9. ~overlap => Executed(r)
  BY <1>1, <1>5, <1>6, <1>7 DEF JInv, AgreeInv, Executed
<1> QED BY <1>4, <1>8, <1>9, DataGoesOn

LEMMA ReturnData == ASSUME IInv, JInv, NEW t \in Tasks, Return(t) PROVE JInv'
<1>1. task' = [task EXCEPT ![t] = Idle] /\ UNCHANGED <<mem, disk, overlap, faults>>
  BY DEF Return, Becomes
<1> QED BY <1>1, IdleData, DataGoesOn

LEMMA CallStartData ==
  ASSUME IInv, JInv, NEW t \in Tasks, NEW batch \in Batches, Call(t, batch)
  PROVE  JInv'
<1> DEFINE r == [Idle EXCEPT !.pc = "next", !.batch = batch, !.latest = mem.latest]
<1>1. r.pc = "next" /\ r.rest = Idle.rest /\ r.overlay = Idle.overlay
  BY DEF Idle
<1>2. task' = [task EXCEPT ![t] = r] /\ UNCHANGED <<mem, disk, faults>>
      /\ (overlap => overlap')
  BY DEF Call, Becomes
<1> HIDE DEF r
<1>3. CallData(r)
  BY <1>1, IdleData DEF CallData
<1> QED BY <1>1, <1>2, <1>3, DataGoesOn

\* The block is stored with the accounts its execution leads to.
LEMMA CommitData ==
  ASSUME IInv, JInv, NEW t \in Tasks, NEW written \in BOOLEAN, Commit(t, written)
  PROVE  JInv'
<1> DEFINE b == Head(task[t].batch)
           f == task[t].overlay
           q == [Idle EXCEPT !.pc = "next", !.batch = Tail(task[t].batch), !.latest = Height[b]]
<1>1. /\ IsCall(task[t]) /\ CallData(task[t]) /\ task[t].pc = "executing"
      /\ task[t].rest = <<>> /\ AtHand(task[t]) /\ Active(task[t])
  BY DEF IInv, TypeInv, GapInv, JInv, DataInv, Commit, Active
<1>2. /\ b \in Blocks /\ Height[b] = task[t].latest + 1 /\ Height[b] \in Heights
      /\ task[t].latest \in Heights /\ Body[b] \in Seq(Txs)
  BY <1>1, BatchFacts, ChainSyncAssumption DEF IsCall, AtHand
<1>3. /\ mem' = Put(mem, b, f) /\ (disk' = mem' \/ disk' = disk)
      /\ (faults' = faults \/ faults' = faults + 1) /\ faults' <= MaxFaults
      /\ overlap' = overlap
      /\ (task' = [task EXCEPT ![t] = Idle] \/ task' = [task EXCEPT ![t] = q])
  BY DEF Commit, Becomes
<1>4. /\ mem \in Databases /\ DbData(mem) /\ DbData(disk) /\ IsOverlay(f)
      /\ mem.accounts \in [Addresses -> Account] /\ ValidBasic(b)
  BY <1>1 DEF JInv, DataInv, DbData, Databases, CallData
<1>5. Overlaid(mem.accounts, f) \in [Addresses -> Account]
  BY <1>4, OverlaidType
<1>6. IInv'
  BY CommitOK
<1>7. CallData(q) /\ q.pc # "executing"
  <2>1. q.pc = "next" /\ q.rest = Idle.rest /\ q.overlay = Idle.overlay
    BY DEF Idle
  <2> HIDE DEF q
  <2> QED BY <2>1, IdleData DEF CallData
<1>8. PICK r : task' = [task EXCEPT ![t] = r] /\ CallData(r) /\ r.pc # "executing"
  <2> HIDE DEF q
  <2> QED BY <1>3, <1>7, IdleData
<1> HIDE DEF b, f
<1>9. /\ mem' \in Databases /\ mem'.latest = Height[b] /\ mem'.accounts = Overlaid(mem.accounts, f)
      /\ \A h \in Heights : mem'.at[h] = IF h = Height[b] THEN b ELSE mem.at[h]
  <2>1. mem' = [latest |-> Height[b], at |-> [mem.at EXCEPT ![Height[b]] = b],
                accounts |-> Overlaid(mem.accounts, f)]
    BY <1>3 DEF Put
  <2>2. mem.at \in [Heights -> Blocks \cup {NoBlock}]
    BY <1>4 DEF Databases
  <2> QED BY <1>2, <1>5, <2>1, <2>2 DEF Databases
<1>10. DbData(mem)'
  BY <1>4, <1>9 DEF DbData
<1>11. \A u \in Tasks : task'[u] = IF u = t THEN r ELSE task[u]
  BY <1>8 DEF IInv, TypeInv
<1>12. DataInv'
  <2>1. DbData(disk)'
    BY <1>3, <1>4, <1>10 DEF DbData
  <2>2. faults' \in 0 .. MaxFaults
    <3>1. faults \in Nat /\ MaxFaults \in Nat
      BY ChainSyncAssumption DEF JInv, DataInv
    <3> QED BY <1>3, <3>1
  <2>3. \A u \in Tasks : CallData(task[u])'
    BY <1>8, <1>11 DEF JInv, DataInv, CallData
  <2> QED BY <1>10, <2>1, <2>2, <2>3 DEF DataInv
<1>13. AgreeInv'
  <2> SUFFICES ASSUME ~overlap' PROVE AgreeInv'
    BY DEF AgreeInv
  <2>1. /\ mem.accounts = Replay(mem) /\ disk.accounts = Replay(disk) /\ Executed(task[t])
    BY <1>1, <1>3 DEF JInv, AgreeInv
  <2>2. task[t].latest = mem.latest /\ \A u \in Tasks : Active(task[u]) => u = t
    BY <1>1, <1>3 DEF IInv, LinkInv
  <2>3. Overlaid(mem.accounts, f) = Run(mem.accounts, Body[b])
    BY <1>1, <1>5, <2>1, RunEmpty DEF Executed, f, b
  <2>4. Replay(mem') = Run(Replay(mem), Body[b])
    <3>1. Gapless(mem) /\ Gapless(mem')
      BY <1>6 DEF IInv, GapInv, Gapless
    <3>2. mem'.latest = mem.latest + 1
      BY <1>2, <1>9, <2>2
    <3>3. \A h \in 0 .. mem.latest : mem'.at[h] = mem.at[h]
      <4>1. mem.latest \in 0 .. MaxHeight /\ MaxHeight \in Nat
        BY <1>4, ChainSyncAssumption DEF Databases, Heights
      <4>2. \A h \in 0 .. mem.latest : h \in Heights /\ h # mem.latest + 1
        BY <4>1 DEF Heights
      <4> QED BY <1>9, <3>2, <4>2
    <3>4. mem'.at[mem'.latest] = b
      BY <1>2, <1>9
    <3> QED BY <1>4, <1>9, <3>1, <3>2, <3>3, <3>4, ReplayGrows
  <2>5. mem'.accounts = Replay(mem')
    BY <1>9, <2>1, <2>3, <2>4
  <2>6. disk'.accounts = Replay(disk')
    BY <1>3, <2>1, <2>5
  <2>7. \A u \in Tasks : task'[u].pc # "executing"
    BY <1>8, <1>11, <2>2 DEF Active
  <2> QED BY <2>5, <2>6, <2>7 DEF AgreeInv
<1> QED BY <1>12, <1>13 DEF JInv

LEMMA RestartData == ASSUME IInv, JInv, Restart PROVE JInv'
<1>1. /\ mem' = disk /\ disk' = disk /\ overlap' = overlap
      /\ task' = [t \in Tasks |-> Idle] /\ faults < MaxFaults /\ faults' = faults + 1
  BY DEF Restart
<1>2. \A t \in Tasks : task'[t] = Idle
  BY <1>1
<1>3. DataInv'
  <2>1. faults' \in 0 .. MaxFaults
    BY <1>1, ChainSyncAssumption DEF JInv, DataInv
  <2>2. DbData(mem)' /\ DbData(disk)'
    BY <1>1 DEF JInv, DataInv, DbData
  <2>3. \A t \in Tasks : CallData(task[t])'
    BY <1>2, IdleData DEF CallData
  <2> QED BY <2>1, <2>2, <2>3 DEF DataInv
<1>4. AgreeInv'
  BY <1>1, <1>2, IdleData DEF JInv, AgreeInv
<1> QED BY <1>3, <1>4 DEF JInv

LEMMA DataStep == IInv /\ JInv /\ [Next]_vars => JInv'
<1> SUFFICES ASSUME IInv, JInv, [Next]_vars PROVE JInv'
  OBVIOUS
<1>1. CASE Next
  BY <1>1, CallStartData, SkipData, CheckData, ExecuteNextData, ReturnData, CommitData,
     RestartData
     DEF Next
<1>2. CASE UNCHANGED vars
  BY <1>2 DEF vars, JInv, DataInv, DbData, CallData, AgreeInv, Executed, Replay
<1> QED BY <1>1, <1>2

LEMMA DataInvariance == Spec => []JInv
BY InitData, DataStep, Invariance, PTL DEF Spec

-----------------------------------------------------------------------------
(* The theorems.                                                           *)

\* Whatever peers send and however calls overlap, apply_block_batch leaves no
\* height below the latest one without its block, and its expect on the block
\* before the next one never panics.
THEOREM AlwaysNoGap == Spec => []NoGap
PROOF
<1>1. IInv => NoGap
  BY DEF IInv, TypeInv, IsCall, GapInv, NoGap
<1> QED BY <1>1, Invariance, PTL

\* The blocks commit_block stores for a follower are one chain, also over failed
\* writes and restarts, if no two calls were in progress at once.
THEOREM AlwaysLinked == Spec => []Linked
PROOF
<1>1. IInv => Linked
  BY DEF IInv, LinkInv, Linked
<1> QED BY <1>1, Invariance, PTL

\* Every variable keeps its type: the accounts stay accounts of the whole width,
\* whatever is executed on them.
THEOREM TypeCorrect == Spec => []TypeOK
PROOF
<1>1. IInv /\ JInv => TypeOK
  <2> SUFFICES ASSUME IInv, JInv PROVE TypeOK
    OBVIOUS
  <2>1. \A t \in Tasks : IsCall(task[t]) /\ CallData(task[t])
    BY DEF IInv, TypeInv, JInv, DataInv
  <2>2. \A t \in Tasks :
          /\ task[t].pc \in {"idle", "next", "executing", "panicked"}
          /\ task[t].batch \in Seq(Blocks) /\ task[t].latest \in Heights
          /\ task[t].rest \in Seq(Txs) /\ IsOverlay(task[t].overlay)
    BY <2>1 DEF IsCall, CallData
  <2> QED BY <2>2 DEF IInv, TypeInv, JInv, DataInv, DbData, TypeOK
<1> QED BY <1>1, Invariance, DataInvariance, PTL

\* If no two calls were in progress at once, the accounts of a follower, in
\* memory and on disk, are what executing its chain from the genesis makes them:
\* over blocks out of order, failed writes and restarts apply_block_batch
\* executes each block once, whole, and on the accounts of the block before.
THEOREM ReplicasAgree == Spec => []ReplicaAgrees
PROOF
<1>1. JInv => ReplicaAgrees
  BY DEF JInv, AgreeInv, ReplicaAgrees
<1> QED BY <1>1, DataInvariance, PTL

\* The transactions of a stored block are genuine and the paths of its tree lead
\* to the header's root; validate_basic accepts no other body of its length for
\* the block, also when calls overlap. A body of another length may pass: the one
\* with its last transaction repeated.
THEOREM BodiesAlwaysBound == Spec => []BodiesBound
PROOF
<1>1. IInv /\ JInv => BodiesBound
  <2> SUFFICES ASSUME IInv, JInv, NEW h \in 1 .. mem.latest
               PROVE  /\ \A i \in DOMAIN Body[mem.at[h]] :
                           /\ Body[mem.at[h]][i] \in Genuine
                           /\ Climb(Body[mem.at[h]][i], AuditPath(Body[mem.at[h]], i - 1))
                                = MerkleRoot[mem.at[h]]
                      /\ \A c \in Blocks :
                           Root(Body[c]) = MerkleRoot[mem.at[h]]
                             /\ Len(Body[c]) = Len(Body[mem.at[h]])
                             => Body[c] = Body[mem.at[h]]
    BY DEF BodiesBound
  <2> DEFINE b == mem.at[h]
             leaves == Body[b]
  <2>1. mem.latest \in 0 .. MaxHeight /\ MaxHeight \in Nat
    BY ChainSyncAssumption DEF IInv, TypeInv, IsDb, Heights
  <2>2. b \in Blocks /\ ValidBasic(b)
    <3>1. h \in 0 .. mem.latest /\ h \in Heights \ {0}
      BY <2>1 DEF Heights
    <3>2. b \in Blocks
      BY <3>1 DEF IInv, GapInv, Gapless
    <3> QED BY <3>1, <3>2 DEF JInv, DataInv, DbData
  <2>3. leaves \in Seq(Txs)
    BY <2>2, ChainSyncAssumption
  <2>4. Root(leaves) = MerkleRoot[b] /\ \A i \in DOMAIN leaves : leaves[i] \in Genuine
    BY <2>2 DEF ValidBasic
  <2> HIDE DEF b, leaves
  <2>5. ASSUME NEW i \in DOMAIN leaves
        PROVE  Climb(leaves[i], AuditPath(leaves, i - 1)) = Root(leaves)
    <3>1. i \in 1 .. Len(leaves) /\ Len(leaves) \in Nat
      BY <2>3
    <3>2. leaves[i] \in Txs
      BY <2>3, <3>1
    <3>3. Len(leaves) # 0 /\ i - 1 \in 0 .. (Len(leaves) - 1) /\ i - 1 \in Nat /\ (i - 1) + 1 = i
      BY <3>1
    <3>4. leaves # <<>>
      BY <3>1, <3>3
    <3>5. Len(leaves) \in Nat \ {0}
      BY <3>1, <3>3
    <3> QED BY <3>2, <3>3, <3>4, <3>5, PathLeadsToRoot
  <2>6. ASSUME NEW c \in Blocks, Root(Body[c]) = MerkleRoot[b], Len(Body[c]) = Len(leaves)
        PROVE  Body[c] = leaves
    <3>1. Body[c] \in Seq(Txs)
      BY ChainSyncAssumption
    <3> QED BY <2>3, <2>4, <2>6, <3>1, RootBindsBody
  <2> QED BY <2>4, <2>5, <2>6 DEF b, leaves
<1> QED BY <1>1, Invariance, DataInvariance, PTL
=============================================================================
