----------------------------- MODULE LedgerProofs -----------------------------
(***************************************************************************)
(* Ledger keeps its types, executes only what was validated against the    *)
(* state it is executed on, executes no transaction more often than its    *)
(* nonce says, and makes or destroys no coins but those of Loss: for any   *)
(* accounts, transactions and threads, any number of blocks, failed writes *)
(* and restarts.                                                           *)
(*                                                                         *)
(* Supply and the losses of a block are sums over finite sets, that        *)
(* MapThenSumSet adds up in an order of its own.  Induction over subsets   *)
(* shows that any order gives the same sum; from then on a sum is a        *)
(* function that gives a set and a member the weight of one more.          *)
(***************************************************************************)
EXTENDS Ledger, FiniteSetTheorems, WellFoundedInduction, TLAPS

\* What is in the pool, in the proposed block or between validation and the
\* pool is valid as long as the node can produce a block.
ValidInv ==
  Producing =>
    /\ \A x \in pool \cup block : Valid(x)
    /\ \A t \in RpcThreads : checking[t] # NoTx => Valid(checking[t])

\* A stopped process remembers nothing.
DownInv ==
  phase = "down" => pool = {} /\ block = {} /\ checking = [t \in RpcThreads |-> NoTx]

\* A sender's nonce counts the executions of each of its transactions, and
\* no transaction was executed more often than its nonce allows.
Counted(s) ==
  \A x \in Txs : s.executed[x] <= s.accounts[Sender[x]].nonce /\ s.executed[x] <= Nonce[x]

CountInv == Counted(store) /\ Counted(durable)

\* The overlay has counted the transactions executed so far.
OverlayInv ==
  phase \in {"proposed", "executing"} =>
    /\ \A a \in Addresses : store.accounts[a].nonce <= overlay[a].nonce
    /\ \A x \in block \ rest : store.accounts[Sender[x]].nonce < overlay[Sender[x]].nonce

IInv == TypeOK /\ ValidInv /\ DownInv /\ CountInv /\ OverlayInv

-----------------------------------------------------------------------------
\* Saturating addition and subtraction stay within the width.
LEMMA SatType ==
  ASSUME NEW m \in Amounts, NEW n \in Nat
  PROVE  SatAdd(m, n) \in Amounts /\ SatSub(m, n) \in Amounts
BY LedgerAssumption, ExecutionAssumption DEF Amounts, SatAdd, SatSub

\* The sum of amount and fee, however it wraps, is a number.
LEMMA DeductType ==
  ASSUME NEW x \in Txs
  PROVE  (Amount[x] + Fee[x]) % Width \in Nat
<1>1. Amount[x] \in Nat /\ Fee[x] \in Nat
  BY LedgerAssumption, ExecutionAssumption DEF Amounts
<1>2. Width \in Nat /\ Width > 0
  BY LedgerAssumption, ExecutionAssumption
<1> QED
  BY <1>1, <1>2

\* Paying moves a nonce by one and keeps an account an account.
LEMMA PaidType ==
  ASSUME NEW acc \in Account, NEW x \in Txs
  PROVE  Paid(acc, x) \in Account /\ Paid(acc, x).nonce = acc.nonce + 1
<1> DEFINE d == (Amount[x] + Fee[x]) % Width
<1>1. d \in Nat
  BY DeductType
<1> DEFINE b == SatSub(acc.balance, d)
<1>2. b \in Amounts
  BY <1>1, SatType DEF Account
<1>3. Paid(acc, x) = [acc EXCEPT !.balance = b, !.nonce = acc.nonce + 1]
  BY DEF Paid
<1> HIDE DEF b
<1>4. Paid(acc, x) = [balance |-> b, nonce |-> acc.nonce + 1, staked |-> acc.staked,
                      validator |-> acc.validator]
  BY <1>3 DEF Account
<1> QED
  BY <1>2, <1>4 DEF Account

\* The same of all a transaction does to its sender.
LEMMA SpentType ==
  ASSUME NEW acc \in Account, NEW x \in Txs
  PROVE  Spent(acc, x) \in Account /\ Spent(acc, x).nonce = acc.nonce + 1
<1> DEFINE p == Paid(acc, x)
<1>1. p \in Account /\ p.nonce = acc.nonce + 1
  BY PaidType
<1>2. Amount[x] \in Nat /\ Kind[x] \in Kinds
  BY LedgerAssumption, ExecutionAssumption DEF Amounts
<1>3. SatAdd(p.staked, Amount[x]) \in Amounts /\ SatSub(p.staked, Amount[x]) \in Amounts
      /\ SatAdd(p.balance, Amount[x]) \in Amounts
  BY <1>1, <1>2, SatType DEF Account
<1> HIDE DEF p
<1>4. Spent(acc, x) = CASE Kind[x] = "Transfer" -> p
        [] Kind[x] = "RegisterValidator" ->
             [p EXCEPT !.validator = TRUE, !.staked = SatAdd(p.staked, Amount[x])]
        [] Kind[x] = "Stake" -> [p EXCEPT !.staked = SatAdd(p.staked, Amount[x])]
        [] Kind[x] = "Unstake" -> [p EXCEPT !.staked = SatSub(p.staked, Amount[x]),
                                            !.balance = SatAdd(p.balance, Amount[x])]
  BY <1>1 DEF Spent, p, Account
<1>5. CASE Kind[x] = "Transfer"
  BY <1>1, <1>4, <1>5
<1>6. CASE Kind[x] = "RegisterValidator"
  BY <1>1, <1>3, <1>4, <1>6 DEF Account
<1>7. CASE Kind[x] = "Stake"
  BY <1>1, <1>3, <1>4, <1>7 DEF Account
<1>8. CASE Kind[x] = "Unstake"
  BY <1>1, <1>3, <1>4, <1>8 DEF Account
<1> QED
  BY <1>2, <1>5, <1>6, <1>7, <1>8 DEF Kinds

\* Executing a transaction adds one to its sender's nonce and to no other,
\* not even in a transfer to oneself.
LEMMA ExecuteType ==
  ASSUME NEW acc \in [Addresses -> Account], NEW x \in Txs
  PROVE  /\ Execute(acc, x) \in [Addresses -> Account]
         /\ \A a \in Addresses :
              Execute(acc, x)[a].nonce = acc[a].nonce + IF a = Sender[x] THEN 1 ELSE 0
<1> DEFINE base == IF Kind[x] = "Transfer" THEN Credit(acc, x) ELSE acc
<1>1. Sender[x] \in Addresses /\ Recipient[x] \in Addresses /\ Amount[x] \in Nat
  BY LedgerAssumption, ExecutionAssumption DEF Amounts
<1>2. Credit(acc, x) \in [Addresses -> Account]
      /\ \A a \in Addresses : Credit(acc, x)[a].nonce = acc[a].nonce
  <2>1. SatAdd(acc[Recipient[x]].balance, Amount[x]) \in Amounts
    BY <1>1, SatType DEF Account
  <2> QED
    BY <1>1, <2>1 DEF Credit, Account
<1>3. base \in [Addresses -> Account] /\ \A a \in Addresses : base[a].nonce = acc[a].nonce
  BY <1>2
<1>4. Spent(acc[Sender[x]], x) \in Account
      /\ Spent(acc[Sender[x]], x).nonce = acc[Sender[x]].nonce + 1
  BY <1>1, SpentType
<1> HIDE DEF base
<1>5. Execute(acc, x) = [base EXCEPT ![Sender[x]] = Spent(acc[Sender[x]], x)]
  BY DEF Execute, base
<1>6. \A a \in Addresses : acc[a].nonce \in Nat
  BY DEF Account
<1> QED
  BY <1>1, <1>3, <1>4, <1>5, <1>6

\* The genesis is a store in which nothing was executed.
LEMMA GenesisType ==
  /\ Empty \in Stores /\ Genesis \in Stores
  /\ Counted(Empty) /\ Counted(Genesis)
<1>1. NoAccount \in Account
  BY LedgerAssumption, ExecutionAssumption DEF NoAccount, Account, Amounts
<1>2. \A a \in Addresses : GenesisAccount(a) \in Account
  BY <1>1, LedgerAssumption, ExecutionAssumption DEF GenesisAccount, NoAccount, Account
<1>3. Empty \in Stores
  BY <1>1 DEF Empty, Stores
<1>4. Genesis \in Stores
  BY <1>2, <1>3 DEF Genesis, Empty, Stores
<1>5. \A x \in Txs : Sender[x] \in Addresses /\ Nonce[x] \in Nat
  BY LedgerAssumption, ExecutionAssumption
<1>6. \A x \in Txs : Empty.executed[x] = 0 /\ Genesis.executed[x] = 0
  BY DEF Empty, Genesis
<1>7. \A a \in Addresses : Empty.accounts[a].nonce \in Nat /\ Genesis.accounts[a].nonce \in Nat
  BY <1>3, <1>4 DEF Stores, Account
<1>8. Counted(Empty) /\ Counted(Genesis)
  BY <1>5, <1>6, <1>7 DEF Counted
<1> QED
  BY <1>3, <1>4, <1>8

-----------------------------------------------------------------------------
LEMMA InitHolds == Init => IInv
<1> SUFFICES ASSUME Init PROVE IInv
  OBVIOUS
<1>1. TypeOK
  BY GenesisType DEF Init, TypeOK, Phases, Stores, Empty
<1>2. CountInv
  BY GenesisType DEF Init, CountInv
<1> QED
  BY <1>1, <1>2 DEF Init, IInv, ValidInv, Producing, DownInv, OverlayInv

LEMMA StartKeeps ==
  ASSUME IInv, Start
  PROVE  IInv'
<1> USE DEF IInv, Start
<1>1. store' \in Stores /\ Counted(store') /\ durable' = store'
  BY GenesisType DEF TypeOK, CountInv
<1>2. TypeOK'
  BY <1>1 DEF TypeOK, Phases
<1>3. CountInv'
  BY <1>1 DEF CountInv, Counted
<1>4. ValidInv' /\ DownInv'
  BY DEF DownInv, ValidInv
<1> QED
  BY <1>2, <1>3, <1>4 DEF OverlayInv

LEMMA CrashKeeps ==
  ASSUME IInv, Crash
  PROVE  IInv'
<1> USE DEF IInv, Crash
<1>1. TypeOK'
  BY GenesisType DEF TypeOK, Phases, Stores
<1>2. CountInv'
  BY DEF CountInv, Counted
<1> QED
  BY <1>1, <1>2 DEF ValidInv, Producing, DownInv, OverlayInv

\* The pool's actions change neither the store nor the block.
LEMMA PoolKeeps ==
  ASSUME IInv,
         \/ \E t \in RpcThreads, x \in Txs : Validate(t, x)
         \/ \E t \in RpcThreads : Insert(t)
         \/ \E x \in Txs : Evict(x)
  PROVE  IInv'
<1> USE DEF IInv
<1>1. ASSUME NEW t \in RpcThreads, NEW x \in Txs, Validate(t, x)
      PROVE  IInv'
  <2> USE <1>1 DEF Validate, node
  <2>1. TypeOK'
    BY DEF TypeOK
  <2>2. ValidInv'
    BY DEF TypeOK, ValidInv, Producing, Valid
  <2> QED
    BY <2>1, <2>2 DEF DownInv, CountInv, Counted, OverlayInv
<1>2. ASSUME NEW t \in RpcThreads, Insert(t)
      PROVE  IInv'
  <2> USE <1>2 DEF Insert, node
  <2>1. TypeOK'
    BY DEF TypeOK
  <2>2. ValidInv'
    BY DEF TypeOK, ValidInv, Producing, Valid
  <2> QED
    BY <2>1, <2>2 DEF DownInv, CountInv, Counted, OverlayInv
<1>3. ASSUME NEW x \in Txs, Evict(x)
      PROVE  IInv'
  <2> USE <1>3 DEF Evict, node
  <2>1. TypeOK'
    BY DEF TypeOK
  <2>2. ValidInv'
    BY DEF ValidInv, Producing, Valid
  <2> QED
    BY <2>1, <2>2 DEF DownInv, CountInv, Counted, OverlayInv
<1> QED
  BY <1>1, <1>2, <1>3

LEMMA ProposeKeeps ==
  ASSUME IInv, Propose
  PROVE  IInv'
<1> USE DEF IInv, Propose
<1>1. TypeOK'
  BY DEF TypeOK, Phases, Stores
<1>2. ValidInv'
  BY DEF ValidInv, Producing, Valid
<1>3. OverlayInv'
  BY DEF OverlayInv, TypeOK, Stores, Account
<1> QED
  BY <1>1, <1>2, <1>3 DEF DownInv, CountInv, Counted

LEMMA ExecuteKeeps ==
  ASSUME IInv, NEW x \in Txs, ExecuteNext(x)
  PROVE  IInv'
<1> USE DEF IInv, ExecuteNext
<1>1. overlay \in [Addresses -> Account]
  BY DEF TypeOK
<1>2. /\ overlay' \in [Addresses -> Account]
      /\ \A a \in Addresses :
           overlay'[a].nonce = overlay[a].nonce + IF a = Sender[x] THEN 1 ELSE 0
  BY <1>1, ExecuteType
<1>3. TypeOK'
  BY <1>2 DEF TypeOK, Phases
<1>4. ValidInv'
  BY DEF ValidInv, Producing, Valid
<1>5. OverlayInv'
  <2>1. \A a \in Addresses : overlay[a].nonce \in Nat /\ store.accounts[a].nonce \in Nat
    BY DEF TypeOK, Stores, Account
  <2>2. \A y \in Txs : Sender[y] \in Addresses
    BY LedgerAssumption, ExecutionAssumption
  <2>3. block \subseteq Txs /\ rest \subseteq block
    BY DEF TypeOK
  <2>4. \A a \in Addresses : store.accounts[a].nonce <= overlay[a].nonce
    BY DEF OverlayInv
  <2>5. \A a \in Addresses : store'.accounts[a].nonce <= overlay'[a].nonce
    BY <1>2, <2>1, <2>4
  <2>6. ASSUME NEW y \in block' \ rest'
        PROVE  store'.accounts[Sender[y]].nonce < overlay'[Sender[y]].nonce
    <3>1. CASE y = x
      BY <1>2, <2>1, <2>2, <2>4, <3>1
    <3>2. CASE y # x
      BY <1>2, <2>1, <2>2, <2>3, <3>2 DEF OverlayInv
    <3> QED
      BY <3>1, <3>2
  <2> QED
    BY <2>5, <2>6 DEF OverlayInv
<1> QED
  BY <1>3, <1>4, <1>5 DEF DownInv, CountInv, Counted

\* What was executed was valid, so that its nonce was ahead of the account's,
\* and with it of the number of times it had been executed.
LEMMA CommitKeeps ==
  ASSUME IInv, NEW written \in BOOLEAN, Commit(written)
  PROVE  IInv'
<1> USE DEF IInv, Commit
<1>1. Committed \in Stores
  <2> DEFINE counts == [x \in Txs |-> store.executed[x] + IF x \in block THEN 1 ELSE 0]
  <2>1. counts \in [Txs -> Nat] /\ store \in Stores /\ overlay \in [Addresses -> Account]
    BY DEF TypeOK, Stores
  <2>2. Committed = [store EXCEPT !.height = store.height + 1, !.accounts = overlay,
                                  !.executed = counts]
    BY DEF Committed
  <2> HIDE DEF counts
  <2>3. store.height + 1 \in Nat
    BY <2>1 DEF Stores
  <2>4. Committed = [born |-> store.born, height |-> store.height + 1,
                     accounts |-> overlay, executed |-> counts]
    BY <2>1, <2>2 DEF Stores
  <2> QED
    BY <2>1, <2>3, <2>4 DEF Stores
<1>2. Counted(Committed)
  <2> SUFFICES ASSUME NEW x \in Txs
               PROVE  /\ Committed.executed[x] <= Committed.accounts[Sender[x]].nonce
                      /\ Committed.executed[x] <= Nonce[x]
    BY DEF Counted
  <2>1. Sender[x] \in Addresses /\ Nonce[x] \in Nat
    BY LedgerAssumption, ExecutionAssumption
  <2>2. /\ store.executed[x] \in Nat
        /\ store.accounts[Sender[x]].nonce \in Nat /\ overlay[Sender[x]].nonce \in Nat
    BY <2>1 DEF TypeOK, Stores, Account
  <2>3. /\ Committed.executed[x] = store.executed[x] + IF x \in block THEN 1 ELSE 0
        /\ Committed.accounts = overlay
    BY DEF Committed, TypeOK, Stores
  <2>4. store.executed[x] <= store.accounts[Sender[x]].nonce /\ store.executed[x] <= Nonce[x]
    BY DEF CountInv, Counted
  <2>5. store.accounts[Sender[x]].nonce <= overlay[Sender[x]].nonce
    BY <2>1 DEF OverlayInv
  <2>6. CASE x \in block
    <3>1. store.accounts[Sender[x]].nonce < Nonce[x]
      BY <2>6 DEF ValidInv, Producing, Valid, StatefulOk, NonceOk
    <3>2. store.accounts[Sender[x]].nonce < overlay[Sender[x]].nonce
      BY <2>6 DEF OverlayInv
    <3> QED
      BY <2>1, <2>2, <2>3, <2>4, <2>6, <3>1, <3>2
  <2>7. CASE x \notin block
    BY <2>1, <2>2, <2>3, <2>4, <2>5, <2>7
  <2> QED
    BY <2>6, <2>7
<1>3. TypeOK'
  BY <1>1 DEF TypeOK, Phases, AfterRemoval
<1>4. CountInv'
  BY <1>2 DEF CountInv, Counted
<1> QED
  BY <1>3, <1>4 DEF ValidInv, Producing, DownInv, OverlayInv

LEMMA StutterKeeps ==
  ASSUME IInv, UNCHANGED vars
  PROVE  IInv'
BY DEF IInv, vars, TypeOK, ValidInv, Producing, Valid, DownInv, CountInv, Counted, OverlayInv

LEMMA NextKeeps == IInv /\ [Next]_vars => IInv'
BY StartKeeps, CrashKeeps, PoolKeeps, ProposeKeeps, ExecuteKeeps, CommitKeeps, StutterKeeps
   DEF Next

-----------------------------------------------------------------------------
LEMMA Inductive == Spec => []IInv
BY InitHolds, NextKeeps, PTL DEF Spec

\* Every variable keeps its type; no balance or stake leaves its width, although
\* amount + fee may wrap.
THEOREM TypeCorrect == Spec => []TypeOK
<1>1. IInv => TypeOK
  BY DEF IInv
<1> QED
  BY <1>1, Inductive, PTL

\* The producer executes only transactions that are valid in the stored state.
THEOREM HarvestsValid == Spec => []HarvestValid
<1>1. IInv => HarvestValid
  BY DEF IInv, ValidInv, HarvestValid
<1> QED
  BY <1>1, Inductive, PTL

\* No transaction is executed more often than its nonce says, in memory or on
\* disk, whatever failed and was restarted.
THEOREM ReplaysBounded == Spec => []ReplayBounded
<1>1. IInv => ReplayBounded
  BY DEF IInv, CountInv, Counted, ReplayBounded
<1> QED
  BY <1>1, Inductive, PTL
-----------------------------------------------------------------------------
(* Induction.                                                              *)

\* Induction over the subsets of a finite set: what holds of a subset whenever it
\* holds of all smaller ones holds of them all.
LEMMA SubsetInduction ==
  ASSUME NEW S, IsFiniteSet(S), NEW C,
         \A A \in SUBSET S : (\A B \in SUBSET A : B # A => B \in C) => A \in C
  PROVE  SUBSET S \subseteq C
<1> DEFINE T == (SUBSET S) \ C
<1>1. SUFFICES ASSUME T # {} PROVE FALSE
  OBVIOUS
<1>2. IsWellFoundedOn(StrictSubsetOrdering(S), SUBSET S)
  BY FS_StrictSubsetOrderingWellFounded, FS_FiniteSubsetsOfFinite
<1>3. PICK A \in T : \A B \in T : ~ (<<B, A>> \in StrictSubsetOrdering(S))
  <2>1. T \subseteq SUBSET S
    OBVIOUS
  <2> HIDE DEF T
  <2> QED BY <1>1, <1>2, <2>1, WFMin
<1>4. PICK B \in SUBSET A : B # A /\ B \notin C
  OBVIOUS
<1>5. B \in T
  BY <1>4
<1>6. <<B, A>> \in StrictSubsetOrdering(S)
  BY <1>4 DEF StrictSubsetOrdering
<1> QED
  BY <1>3, <1>5, <1>6

\* Induction over the natural numbers, for a set in place of a predicate.
LEMMA NatSetInduction ==
  ASSUME NEW C, 0 \in C, \A n \in Nat : n \in C => n + 1 \in C
  PROVE  Nat \subseteq C
<1> SUFFICES ASSUME NEW n \in Nat PROVE n \in C
  OBVIOUS
<1> DEFINE D == {A \in SUBSET (0 .. n) : \A k \in 0 .. n : A = 0 .. k => k \in C}
<1>1. IsFiniteSet(0 .. n)
  BY FS_Interval
<1>2. ASSUME NEW A \in SUBSET (0 .. n), \A B \in SUBSET A : B # A => B \in D
      PROVE  A \in D
  <2> SUFFICES ASSUME NEW k \in 0 .. n, A = 0 .. k PROVE k \in C
    OBVIOUS
  <2>1. CASE k = 0
    BY <2>1
  <2>2. CASE k # 0
    <3>1. k - 1 \in Nat /\ k - 1 \in 0 .. n /\ k \in A /\ k \notin 0 .. (k - 1)
          /\ 0 .. (k - 1) \subseteq A
      BY <2>2
    <3>2. 0 .. (k - 1) \in D
      BY <1>2, <3>1
    <3>3. k - 1 \in C
      BY <3>1, <3>2
    <3> QED BY <3>1, <3>3
  <2> QED BY <2>1, <2>2
<1>3. SUBSET (0 .. n) \subseteq D
  <2> HIDE DEF D
  <2> DEFINE I == 0 .. n
  <2>1. IsFiniteSet(I) /\ \A A \in SUBSET I : (\A B \in SUBSET A : B # A => B \in D) => A \in D
    BY <1>1, <1>2
  <2> HIDE DEF I
  <2>2. SUBSET I \subseteq D
    BY <2>1, SubsetInduction
  <2> QED BY <2>2 DEF I
<1>4. 0 .. n \in SUBSET (0 .. n)
  OBVIOUS
<1>5. 0 .. n \in D
  BY <1>3, <1>4
<1>6. n \in 0 .. n
  OBVIOUS
<1> QED
  BY <1>5, <1>6

\* A fold over the subsets of S: from base, by step, taking the element that pick
\* names last.
IsFold(g, S, base, pick, step) ==
  \A s \in SUBSET S : g[s] = IF s = {} THEN base ELSE step[<<pick[s], g[s \ {pick[s]}]>>]

IsPick(pick, S) == \A s \in SUBSET S : s # {} => pick[s] \in s

IsStep(step, S, V) == \A x \in S, v \in V : step[<<x, v>>] \in V

\* There is such a fold, whatever the set: the recursion that defines
\* MapThenFoldSet has a solution.
LEMMA FoldExists ==
  ASSUME NEW S, IsFiniteSet(S), NEW V, NEW base \in V, NEW pick, NEW step,
         IsPick(pick, S), IsStep(step, S, V)
  PROVE  \E g \in [SUBSET S -> V] : IsFold(g, S, base, pick, step)
<1> USE DEF IsFold, IsPick, IsStep
<1> DEFINE Eq(g, s) == g[s] = IF s = {} THEN base ELSE step[<<pick[s], g[s \ {pick[s]}]>>]
           C == {n \in Nat : \E g \in [SUBSET S -> V] :
                   \A s \in SUBSET S : Cardinality(s) <= n => Eq(g, s)}
<1>0. \A s \in SUBSET S :
        IsFiniteSet(s) /\ Cardinality(s) \in Nat /\ (Cardinality(s) = 0 <=> s = {})
  BY FS_Subset, FS_CardinalityType, FS_EmptySet
<1>1. 0 \in C
  <2>1. [s \in SUBSET S |-> base] \in [SUBSET S -> V]
    OBVIOUS
  <2>2. \A s \in SUBSET S : Cardinality(s) <= 0 => Eq([t \in SUBSET S |-> base], s)
    BY <1>0
  <2> QED BY <2>1, <2>2
<1>2. ASSUME NEW n \in Nat, n \in C PROVE n + 1 \in C
  <2>1. PICK g \in [SUBSET S -> V] : \A s \in SUBSET S : Cardinality(s) <= n => Eq(g, s)
    BY <1>2
  <2> DEFINE h == [s \in SUBSET S |-> IF s = {} THEN base ELSE step[<<pick[s], g[s \ {pick[s]}]>>]]
  <2>2. h \in [SUBSET S -> V]
    OBVIOUS
  <2>3. ASSUME NEW s \in SUBSET S, Cardinality(s) <= n + 1
        PROVE  Eq(h, s)
    <3>1. CASE s = {}
      BY <3>1
    <3>2. CASE s # {}
      <4>1. pick[s] \in s /\ s \ {pick[s]} \in SUBSET S
        BY <3>2
      <4>2. Cardinality(s \ {pick[s]}) = Cardinality(s) - 1
        BY <1>0, <4>1, FS_RemoveElement
      <4>3. Cardinality(s \ {pick[s]}) <= n
        BY <1>0, <2>3, <4>2
      <4>4. h[s \ {pick[s]}] = g[s \ {pick[s]}]
        BY <2>1, <4>1, <4>3
      <4> QED BY <3>2, <4>4
    <3> QED BY <3>1, <3>2
  <2> HIDE DEF h, Eq
  <2> QED BY <2>2, <2>3
<1>3. Nat \subseteq C
  <2> HIDE DEF C
  <2> QED BY <1>1, <1>2, NatSetInduction
<1>4. Cardinality(S) \in C
  BY <1>0, <1>3
<1>5. PICK g \in [SUBSET S -> V] : \A s \in SUBSET S : Cardinality(s) <= Cardinality(S) => Eq(g, s)
  BY <1>4
<1>6. \A s \in SUBSET S : Cardinality(s) <= Cardinality(S)
  BY FS_Subset
<1> QED BY <1>5, <1>6

-----------------------------------------------------------------------------
(* Sums.                                                                   *)

\* g adds up the weights w over the subsets of S, in any order.
IsSum(g, w, S) ==
  /\ g \in [SUBSET S -> Nat] /\ g[{}] = 0
  /\ \A s \in SUBSET S : \A x \in s : g[s] = w[x] + g[s \ {x}]

\* What a recursion adds up in one order it adds up in any.
LEMMA AnyOrder ==
  ASSUME NEW S, IsFiniteSet(S), NEW w \in [S -> Nat], NEW g \in [SUBSET S -> Nat],
         NEW pick, \A s \in SUBSET S : s # {} => pick[s] \in s,
         g[{}] = 0, \A s \in SUBSET S : s # {} => g[s] = w[pick[s]] + g[s \ {pick[s]}]
  PROVE  IsSum(g, w, S)
<1> DEFINE C == {s \in SUBSET S : \A x \in s : g[s] = w[x] + g[s \ {x}]}
<1>1. ASSUME NEW A \in SUBSET S, \A B \in SUBSET A : B # A => B \in C
      PROVE  A \in C
  <2> SUFFICES ASSUME NEW x \in A PROVE g[A] = w[x] + g[A \ {x}]
    OBVIOUS
  <2> DEFINE p == pick[A]
  <2>1. p \in A /\ g[A] = w[p] + g[A \ {p}]
    OBVIOUS
  <2> HIDE DEF p
  <2>2. CASE x = p
    BY <2>1, <2>2
  <2>3. CASE x # p
    <3> DEFINE r == (A \ {p}) \ {x}
    <3>1. r = (A \ {x}) \ {p} /\ x \in A \ {p} /\ p \in A \ {x} /\ r \in SUBSET S
      BY <2>1, <2>3
    <3>2. A \ {p} \in C /\ A \ {x} \in C
      <4>1. A \ {p} \in SUBSET A /\ A \ {p} # A /\ A \ {x} \in SUBSET A /\ A \ {x} # A
        BY <2>1
      <4> HIDE DEF C
      <4> QED BY <1>1, <4>1
    <3>3. g[A \ {p}] = w[x] + g[r]
      BY <3>1, <3>2
    <3>4. g[A \ {x}] = w[p] + g[r]
      BY <3>1, <3>2
    <3>5. w[x] \in Nat /\ w[p] \in Nat /\ g[r] \in Nat
      BY <2>1, <3>1
    <3> HIDE DEF r
    <3> QED BY <2>1, <3>3, <3>4, <3>5
  <2> QED BY <2>2, <2>3
<1>2. SUBSET S \subseteq C
  <2> HIDE DEF C
  <2> QED BY <1>1, SubsetInduction
<1> QED BY <1>2 DEF IsSum

\* The recursion of MapThenSumSet.
IsIter(g, w, S) ==
  g = [s \in SUBSET S |->
         IF s = {} THEN 0 ELSE LET x == CHOOSE x \in s : TRUE IN w[x] + g[s \ {x}]]

LEMMA IterExists ==
  ASSUME NEW S, IsFiniteSet(S), NEW w \in [S -> Nat]
  PROVE  \E g : IsIter(g, w, S)
<1> DEFINE pick == [s \in SUBSET S |-> CHOOSE x \in s : TRUE]
           V == Nat
           step == [p \in S \X V |-> w[p[1]] + p[2]]
<1>1. \A s \in SUBSET S : s # {} => (CHOOSE x \in s : TRUE) \in s
  OBVIOUS
<1>2. IsPick(pick, S) /\ IsStep(step, S, V) /\ 0 \in V
  BY <1>1 DEF IsPick, IsStep
<1>3. PICK g \in [SUBSET S -> V] : IsFold(g, S, 0, pick, step)
  <2> HIDE DEF V, pick, step
  <2> QED BY <1>2, FoldExists
<1>4. ASSUME NEW s \in SUBSET S, s # {}
      PROVE  g[s] = w[pick[s]] + g[s \ {pick[s]}]
  <2>1. pick[s] \in S /\ g[s \ {pick[s]}] \in V
    BY <1>2, <1>4 DEF IsPick
  <2>2. g[s] = step[<<pick[s], g[s \ {pick[s]}]>>]
    BY <1>3, <1>4 DEF IsFold
  <2> HIDE DEF pick, V
  <2> QED BY <2>1, <2>2
<1>5. g[{}] = 0
  BY <1>3 DEF IsFold
<1>6. \A s \in SUBSET S : pick[s] = CHOOSE x \in s : TRUE
  OBVIOUS
<1>7. g = [s \in SUBSET S |-> g[s]]
  OBVIOUS
<1> HIDE DEF pick
<1>8. \A s \in SUBSET S :
        g[s] = IF s = {} THEN 0 ELSE LET x == CHOOSE x \in s : TRUE IN w[x] + g[s \ {x}]
  BY <1>4, <1>5, <1>6
<1>9. IsIter(g, w, S)
  BY <1>7, <1>8 DEF IsIter
<1> QED BY <1>9

LEMMA IterIsSum ==
  ASSUME NEW S, IsFiniteSet(S), NEW w \in [S -> Nat], NEW g, IsIter(g, w, S)
  PROVE  IsSum(g, w, S)
<1> DEFINE pick == [s \in SUBSET S |-> CHOOSE x \in s : TRUE]
           C == {s \in SUBSET S : g[s] \in Nat}
<1>1. \A s \in SUBSET S : s # {} => pick[s] \in s
  OBVIOUS
<1>2. \A s \in SUBSET S : s # {} => g[s] = w[pick[s]] + g[s \ {pick[s]}]
  BY DEF IsIter
<1>3. g[{}] = 0 /\ g = [s \in SUBSET S |-> g[s]]
  BY DEF IsIter
<1> HIDE DEF pick
<1>4. ASSUME NEW A \in SUBSET S, \A B \in SUBSET A : B # A => B \in C
      PROVE  A \in C
  <2>1. CASE A = {}
    BY <1>3, <2>1
  <2>2. CASE A # {}
    <3>1. pick[A] \in A /\ A \ {pick[A]} \in SUBSET A /\ A \ {pick[A]} # A
      BY <1>1, <2>2
    <3>2. A \ {pick[A]} \in C
      <4> HIDE DEF C
      <4> QED BY <1>4, <3>1
    <3>3. w[pick[A]] \in Nat
      BY <3>1
    <3> QED BY <1>2, <2>2, <3>2, <3>3
  <2> QED BY <2>1, <2>2
<1>5. SUBSET S \subseteq C
  <2> HIDE DEF C
  <2> QED BY <1>4, SubsetInduction
<1>6. g \in [SUBSET S -> Nat]
  BY <1>3, <1>5
<1> QED BY <1>1, <1>2, <1>3, <1>6, AnyOrder

\* Equal weights have equal sums.
LEMMA SumAgrees ==
  ASSUME NEW S, NEW T, NEW g, NEW w, NEW h, NEW v, IsSum(g, w, S), IsSum(h, v, T),
         NEW r \in SUBSET S, r \in SUBSET T, IsFiniteSet(r), \A a \in r : w[a] = v[a]
  PROVE  g[r] = h[r]
<1> DEFINE C == {s \in SUBSET r : g[s] = h[s]}
<1>1. ASSUME NEW A \in SUBSET r, \A B \in SUBSET A : B # A => B \in C
      PROVE  A \in C
  <2>1. CASE A = {}
    BY <2>1 DEF IsSum
  <2>2. CASE A # {}
    <3>1. PICK a \in A : TRUE
      BY <2>2
    <3>2. A \ {a} \in C
      BY <1>1, <3>1
    <3>3. g[A] = w[a] + g[A \ {a}] /\ h[A] = v[a] + h[A \ {a}] /\ w[a] = v[a]
      BY <3>1 DEF IsSum
    <3> QED BY <3>2, <3>3
  <2> QED BY <2>1, <2>2
<1>2. SUBSET r \subseteq C
  <2> HIDE DEF C
  <2> QED BY <1>1, SubsetInduction
<1> QED BY <1>2

\* A member of a set, or two, and the rest.
Splits(g, w, S, a) ==
  /\ g[S] = w[a] + g[S \ {a}]
  /\ g[S] \in Nat /\ g[S \ {a}] \in Nat /\ w[a] \in Nat

SplitsTwice(g, w, S, a, b) ==
  /\ g[S] = w[a] + w[b] + g[(S \ {a}) \ {b}]
  /\ g[S] \in Nat /\ g[(S \ {a}) \ {b}] \in Nat /\ w[a] \in Nat /\ w[b] \in Nat

LEMMA SumSplits ==
  ASSUME NEW S, NEW g, NEW w, w \in [S -> Nat], IsSum(g, w, S), NEW a \in S
  PROVE  /\ Splits(g, w, S, a)
         /\ \A b \in S : b # a => SplitsTwice(g, w, S, a, b)
<1>1. Splits(g, w, S, a)
  BY DEF IsSum, Splits
<1>2. ASSUME NEW b \in S, b # a PROVE SplitsTwice(g, w, S, a, b)
  <2>1. g[S \ {a}] = w[b] + g[(S \ {a}) \ {b}] /\ g[(S \ {a}) \ {b}] \in Nat
    BY <1>2 DEF IsSum
  <2> DEFINE r == g[(S \ {a}) \ {b}]
  <2>2. w[b] \in Nat
    OBVIOUS
  <2> HIDE DEF r
  <2> QED BY <1>1, <2>1, <2>2 DEF Splits, SplitsTwice, r
<1> QED BY <1>1, <1>2

-----------------------------------------------------------------------------
(* The supply.                                                             *)

Worth(accounts) == [a \in Addresses |-> accounts[a].balance + accounts[a].staked]

LEMMA SupplyIsSum ==
  ASSUME NEW acc \in [Addresses -> Account]
  PROVE  /\ Worth(acc) \in [Addresses -> Nat]
         /\ \E g : IsSum(g, Worth(acc), Addresses) /\ Supply(acc) = g[Addresses]
<1> DEFINE w == Worth(acc)
           worth(x) == acc[x].balance + acc[x].staked
           IsLoop(h) == h = [s \in SUBSET Addresses |->
             IF s = {} THEN 0 ELSE LET x == CHOOSE x \in s : TRUE IN worth(x) + h[s \ {x}]]
           h == CHOOSE h : IsLoop(h)
<1>1. w \in [Addresses -> Nat] /\ IsFiniteSet(Addresses)
  BY LedgerAssumption DEF Worth, Account, Amounts
<1>2. \A f : IsLoop(f) <=> IsIter(f, w, Addresses)
  <2> SUFFICES ASSUME NEW f PROVE IsLoop(f) <=> IsIter(f, w, Addresses)
    OBVIOUS
  <2>1. \A s \in SUBSET Addresses : s # {} => (CHOOSE x \in s : TRUE) \in Addresses
    OBVIOUS
  <2>2. \A x \in Addresses : w[x] = worth(x)
    BY DEF Worth
  <2> HIDE DEF w, worth
  <2> QED BY <2>1, <2>2 DEF IsIter
<1>3. Supply(acc) = h[Addresses]
  BY DEF Supply, MapThenSumSet, MapThenFoldSet
<1> HIDE DEF IsLoop, w
<1>4. IsLoop(h)
  BY <1>1, <1>2, IterExists
<1>5. IsSum(h, w, Addresses)
  <2> HIDE DEF h
  <2> QED BY <1>1, <1>2, <1>4, IterIsSum
<1> HIDE DEF h
<1> QED BY <1>1, <1>3, <1>5 DEF w

\* What the transactions of a block lose.
LEMMA LossIsSum ==
  ASSUME NEW S \in SUBSET Txs, IsFiniteSet(S)
  PROVE  /\ \A x \in S : Loss(x) \in Nat
         /\ \E g : IsSum(g, [x \in S |-> Loss(x)], S) /\ MapThenSumSet(Loss, S) = g[S]
<1> DEFINE w == [x \in S |-> Loss(x)]
           IsLoop(h) == h = [s \in SUBSET S |->
             IF s = {} THEN 0
             ELSE LET x == CHOOSE x \in s : TRUE IN Loss(x) + h[s \ {x}]]
           h == CHOOSE h : IsLoop(h)
<1>0. \A x \in S : Loss(x) \in Nat
  BY ExecutionAssumption DEF Loss, Amounts
<1>1. w \in [S -> Nat]
  BY <1>0
<1>2. \A f : IsLoop(f) <=> IsIter(f, w, S)
  <2> SUFFICES ASSUME NEW f PROVE IsLoop(f) <=> IsIter(f, w, S)
    OBVIOUS
  <2>1. \A s \in SUBSET S : s # {} => (CHOOSE x \in s : TRUE) \in S
    OBVIOUS
  <2>2. \A x \in S : w[x] = Loss(x)
    OBVIOUS
  <2> HIDE DEF w
  <2> QED BY <2>1, <2>2 DEF IsIter
<1>3. MapThenSumSet(Loss, S) = h[S]
  BY DEF MapThenSumSet, MapThenFoldSet
<1> HIDE DEF IsLoop, w
<1>4. IsLoop(h)
  BY <1>1, <1>2, IterExists
<1>5. IsSum(h, w, S)
  <2> HIDE DEF h
  <2> QED BY <1>1, <1>2, <1>4, IterIsSum
<1> HIDE DEF h
<1> QED BY <1>0, <1>3, <1>5 DEF w

\* The loss of one transaction more.
LEMMA LossAdds ==
  ASSUME NEW S \in SUBSET Txs, IsFiniteSet(S), NEW x \in Txs, x \notin S
  PROVE  /\ MapThenSumSet(Loss, S) \in Nat /\ Loss(x) \in Nat
         /\ MapThenSumSet(Loss, S \cup {x}) = Loss(x) + MapThenSumSet(Loss, S)
<1> DEFINE T == S \cup {x}
           w == [y \in S |-> Loss(y)]
           v == [y \in T |-> Loss(y)]
<1>1. IsFiniteSet(T) /\ T \in SUBSET Txs
  BY FS_AddElement
<1>2. PICK g : IsSum(g, w, S) /\ MapThenSumSet(Loss, S) = g[S]
  BY LossIsSum
<1>3. PICK h : IsSum(h, v, T) /\ MapThenSumSet(Loss, T) = h[T]
  <2> HIDE DEF T
  <2> QED BY <1>1, LossIsSum
<1>4. \A y \in T : Loss(y) \in Nat
  <2> HIDE DEF T
  <2> QED BY <1>1, LossIsSum
<1>5. g[S] = h[S]
  <2>1. S \in SUBSET S /\ S \in SUBSET T /\ \A y \in S : w[y] = v[y]
    OBVIOUS
  <2> HIDE DEF w, v, T
  <2> QED BY <1>2, <1>3, <2>1, SumAgrees
<1>6. x \in T /\ T \ {x} = S /\ v[x] = Loss(x)
  OBVIOUS
<1>7. h[T] = Loss(x) + h[S]
  <2> HIDE DEF T, v
  <2> QED BY <1>3, <1>6 DEF IsSum
<1>8. g[S] \in Nat
  <2> HIDE DEF w
  <2> QED BY <1>2 DEF IsSum
<1> HIDE DEF v, w
<1> QED BY <1>2, <1>3, <1>4, <1>5, <1>6, <1>7, <1>8

LEMMA NoLoss == MapThenSumSet(Loss, {}) = 0
<1> DEFINE S == {}
<1>1. S \in SUBSET Txs /\ IsFiniteSet(S)
  BY FS_EmptySet
<1> HIDE DEF S
<1>2. PICK g : IsSum(g, [x \in S |-> Loss(x)], S) /\ MapThenSumSet(Loss, S) = g[S]
  BY <1>1, LossIsSum
<1>3. g[{}] = 0
  BY <1>2 DEF IsSum
<1> QED BY <1>2, <1>3 DEF S

\* Two accounts have no more than the supply.
LEMMA SupplyHolds ==
  ASSUME NEW acc \in [Addresses -> Account], NEW a \in Addresses
  PROVE  /\ Supply(acc) \in Nat
         /\ acc[a].balance + acc[a].staked <= Supply(acc)
         /\ \A b \in Addresses : b # a =>
              (acc[a].balance + acc[a].staked) + (acc[b].balance + acc[b].staked) <= Supply(acc)
<1> DEFINE w == Worth(acc)
<1>a. w \in [Addresses -> Nat]
  BY SupplyIsSum
<1>1. \A b \in Addresses : w[b] = acc[b].balance + acc[b].staked
  BY DEF Worth
<1>2. PICK g : IsSum(g, w, Addresses) /\ Supply(acc) = g[Addresses]
  BY SupplyIsSum
<1> HIDE DEF w
<1>3. Splits(g, w, Addresses, a)
      /\ \A b \in Addresses : b # a => SplitsTwice(g, w, Addresses, a, b)
  BY <1>a, <1>2, SumSplits
<1>4. g[Addresses] \in Nat /\ w[a] <= g[Addresses]
  BY <1>3 DEF Splits
<1>5. ASSUME NEW b \in Addresses, b # a PROVE w[a] + w[b] <= g[Addresses]
  <2>1. SplitsTwice(g, w, Addresses, a, b)
    BY <1>3, <1>5
  <2> QED BY <2>1 DEF SplitsTwice
<1> QED BY <1>1, <1>2, <1>3, <1>4, <1>5

\* The supply changes as much as the accounts that change.
LEMMA SupplyChanges ==
  ASSUME NEW old \in [Addresses -> Account], NEW new \in [Addresses -> Account],
         NEW a \in Addresses, NEW b \in Addresses, a # b,
         \A c \in Addresses : c # a /\ c # b => new[c] = old[c]
  PROVE  LET w(acc, c) == acc[c].balance + acc[c].staked
         IN Supply(new) + w(old, a) + w(old, b) = Supply(old) + w(new, a) + w(new, b)
<1> DEFINE v == Worth(old)
           u == Worth(new)
           others == (Addresses \ {a}) \ {b}
<1>a. v \in [Addresses -> Nat] /\ u \in [Addresses -> Nat]
  BY SupplyIsSum
<1>1. \A c \in Addresses : /\ v[c] = old[c].balance + old[c].staked
                           /\ u[c] = new[c].balance + new[c].staked
  BY DEF Worth
<1>2. PICK g : IsSum(g, v, Addresses) /\ Supply(old) = g[Addresses]
  BY SupplyIsSum
<1>3. PICK h : IsSum(h, u, Addresses) /\ Supply(new) = h[Addresses]
  BY SupplyIsSum
<1> HIDE DEF v, u
<1>5. g[Addresses] = v[a] + v[b] + g[others] /\ g[others] \in Nat
  <2>1. SplitsTwice(g, v, Addresses, a, b)
    BY <1>a, <1>2, SumSplits
  <2> QED BY <2>1 DEF SplitsTwice
<1>6. h[Addresses] = u[a] + u[b] + h[others] /\ h[others] \in Nat
  <2>1. SplitsTwice(h, u, Addresses, a, b)
    BY <1>a, <1>3, SumSplits
  <2> QED BY <2>1 DEF SplitsTwice
<1>7. g[others] = h[others]
  <2>1. others \in SUBSET Addresses /\ \A c \in others : v[c] = u[c]
    BY <1>1
  <2>2. IsFiniteSet(others)
    BY LedgerAssumption, FS_Subset, <2>1
  <2> HIDE DEF others
  <2> QED BY <1>2, <1>3, <2>1, <2>2, SumAgrees
<1>8. v[a] \in Nat /\ v[b] \in Nat /\ u[a] \in Nat /\ u[b] \in Nat
  BY <1>a
<1> HIDE DEF others
<1> QED BY <1>1, <1>2, <1>3, <1>5, <1>6, <1>7, <1>8

\* The same for one account.
LEMMA SupplyChangesOne ==
  ASSUME NEW old \in [Addresses -> Account], NEW new \in [Addresses -> Account],
         NEW a \in Addresses, \A c \in Addresses : c # a => new[c] = old[c]
  PROVE  Supply(new) + (old[a].balance + old[a].staked)
           = Supply(old) + (new[a].balance + new[a].staked)
<1> DEFINE v == Worth(old)
           u == Worth(new)
           others == Addresses \ {a}
<1>a. v \in [Addresses -> Nat] /\ u \in [Addresses -> Nat]
  BY SupplyIsSum
<1>1. \A c \in Addresses : /\ v[c] = old[c].balance + old[c].staked
                           /\ u[c] = new[c].balance + new[c].staked
  BY DEF Worth
<1>2. PICK g : IsSum(g, v, Addresses) /\ Supply(old) = g[Addresses]
  BY SupplyIsSum
<1>3. PICK h : IsSum(h, u, Addresses) /\ Supply(new) = h[Addresses]
  BY SupplyIsSum
<1> HIDE DEF v, u
<1>5. g[Addresses] = v[a] + g[others] /\ g[others] \in Nat
  <2>1. Splits(g, v, Addresses, a)
    BY <1>a, <1>2, SumSplits
  <2> QED BY <2>1 DEF Splits
<1>6. h[Addresses] = u[a] + h[others] /\ h[others] \in Nat
  <2>1. Splits(h, u, Addresses, a)
    BY <1>a, <1>3, SumSplits
  <2> QED BY <2>1 DEF Splits
<1>7. g[others] = h[others]
  <2>1. others \in SUBSET Addresses /\ \A c \in others : v[c] = u[c]
    BY <1>1
  <2>2. IsFiniteSet(others)
    BY LedgerAssumption, FS_Subset, <2>1
  <2> HIDE DEF others
  <2> QED BY <1>2, <1>3, <2>1, <2>2, SumAgrees
<1>8. v[a] \in Nat /\ u[a] \in Nat
  BY <1>a
<1> HIDE DEF others
<1> QED BY <1>1, <1>2, <1>3, <1>5, <1>6, <1>7, <1>8

LEMMA SupplyInNat ==
  ASSUME NEW acc \in [Addresses -> Account]
  PROVE  Supply(acc) \in Nat
<1>1. PICK g : IsSum(g, Worth(acc), Addresses) /\ Supply(acc) = g[Addresses]
  BY SupplyIsSum
<1> QED BY <1>1 DEF IsSum

-----------------------------------------------------------------------------
\* A transaction that its sender can pay for loses what Loss says.
Affordable(acc, x) ==
  /\ acc.balance >= Amount[x] + Fee[x]
  /\ Kind[x] = "Unstake" => acc.staked >= Amount[x]

\* What it leaves its sender: nothing wraps and nothing saturates.
LEMMA SpentWorth ==
  ASSUME NEW acc \in Account, NEW x \in Txs, Affordable(acc, x),
         Amount[x] + Fee[x] < Width, acc.balance + acc.staked < Width
  PROVE  LET new == Spent(acc, x)
         IN CASE Kind[x] = "Transfer" ->
                   new.balance + new.staked + Amount[x] + Fee[x] = acc.balance + acc.staked
              [] Kind[x] = "Unstake" ->
                   new.balance + new.staked + Amount[x] + Fee[x] = acc.balance + acc.staked
              [] OTHER -> new.balance + new.staked + Fee[x] = acc.balance + acc.staked
<1> DEFINE A == Amount[x]
           F == Fee[x]
           b == acc.balance
           k == acc.staked
           p == Paid(acc, x)
<1>1. A \in Nat /\ F \in Nat /\ Width \in Nat /\ b \in Nat /\ k \in Nat
      /\ Kind[x] \in Kinds /\ b + k < Width /\ A + F < Width /\ A + F <= b
  BY ExecutionAssumption DEF Affordable, Amounts, Account
<1>2. (A + F) % Width = A + F
  <2> HIDE DEF A, F
  <2> QED BY <1>1
<1>3. p = [acc EXCEPT !.balance = b - (A + F), !.nonce = acc.nonce + 1]
  <2>1. SatSub(b, A + F) = b - (A + F)
    <3> HIDE DEF A, F, b
    <3> QED BY <1>1 DEF SatSub
  <2> QED BY <1>2, <2>1 DEF Paid
<1>4. p.balance = b - (A + F) /\ p.staked = k
  BY <1>3 DEF Account
<1>5. p \in Account
  BY PaidType
<1> HIDE DEF p
<1>6. Spent(acc, x) = CASE Kind[x] = "Transfer" -> p
        [] Kind[x] = "RegisterValidator" ->
             [p EXCEPT !.validator = TRUE, !.staked = SatAdd(p.staked, A)]
        [] Kind[x] = "Stake" -> [p EXCEPT !.staked = SatAdd(p.staked, A)]
        [] Kind[x] = "Unstake" -> [p EXCEPT !.staked = SatSub(p.staked, A),
                                            !.balance = SatAdd(p.balance, A)]
  BY <1>5 DEF Spent, p, Account
<1> HIDE DEF A, F, b, k
<1>7. SatAdd(k, A) = k + A /\ SatAdd(b - (A + F), A) = b - F
  BY <1>1 DEF SatAdd
<1>8. CASE Kind[x] = "Transfer"
  <2>1. Spent(acc, x) = p
    BY <1>6, <1>8
  <2>2. p.balance + p.staked + A + F = b + k
    BY <1>1, <1>4
  <2> QED BY <2>1, <2>2, <1>8 DEF A, F, b, k
<1>9. CASE Kind[x] \in {"RegisterValidator", "Stake"}
  <2>1. Spent(acc, x).balance = b - (A + F) /\ Spent(acc, x).staked = k + A
    BY <1>4, <1>5, <1>6, <1>7, <1>9 DEF Account
  <2>2. (b - (A + F)) + (k + A) + F = b + k
    BY <1>1
  <2> QED BY <2>1, <2>2, <1>9 DEF F, b, k
<1>10. CASE Kind[x] = "Unstake"
  <2>1. A <= k
    BY <1>10 DEF Affordable, A, k
  <2>2. SatSub(k, A) = k - A
    BY <1>1, <2>1 DEF SatSub
  <2>3. Spent(acc, x).balance = b - F /\ Spent(acc, x).staked = k - A
    BY <1>4, <1>5, <1>6, <1>7, <1>10, <2>2 DEF Account
  <2>4. (b - F) + (k - A) + A + F = b + k
    BY <1>1, <2>1
  <2> QED BY <2>3, <2>4, <1>10 DEF A, F, b, k
<1> QED
  BY <1>1, <1>8, <1>9, <1>10 DEF Kinds

\* Nobody but its sender has less coins, or another stake.
LEMMA ExecuteOthers ==
  ASSUME NEW acc \in [Addresses -> Account], NEW x \in Txs,
         NEW a \in Addresses, a # Sender[x]
  PROVE  /\ Execute(acc, x)[a].balance >= acc[a].balance
         /\ Execute(acc, x)[a].staked = acc[a].staked
<1> DEFINE base == IF Kind[x] = "Transfer" THEN Credit(acc, x) ELSE acc
           r == Recipient[x]
<1>1. Sender[x] \in Addresses /\ r \in Addresses /\ Amount[x] \in Nat
  BY ExecutionAssumption DEF Amounts
<1>2. acc[a] \in Account /\ acc[r] \in Account
  BY <1>1
<1>3. SatAdd(acc[a].balance, Amount[x]) >= acc[a].balance
  BY <1>1, <1>2, ExecutionAssumption DEF Account, Amounts, SatAdd
<1>4. base[a].balance >= acc[a].balance /\ base[a].staked = acc[a].staked
  <2>1. acc[a].balance \in Nat
    BY <1>2 DEF Account, Amounts
  <2>2. Credit(acc, x) =
          [acc EXCEPT ![r] = [acc[r] EXCEPT !.balance = SatAdd(acc[r].balance, Amount[x])]]
    BY DEF Credit
  <2>3. CASE r = a
    <3>1. Credit(acc, x)[a] = [acc[a] EXCEPT !.balance = SatAdd(acc[a].balance, Amount[x])]
      BY <1>1, <2>2, <2>3
    <3>2. Credit(acc, x)[a].balance = SatAdd(acc[a].balance, Amount[x])
          /\ Credit(acc, x)[a].staked = acc[a].staked
      BY <1>2, <3>1 DEF Account
    <3> QED BY <1>3, <2>1, <3>2
  <2>4. CASE r # a
    BY <2>1, <2>2, <2>4
  <2> QED BY <2>3, <2>4
<1>5. base \in [Addresses -> Account]
  <2>1. SatAdd(acc[r].balance, Amount[x]) \in Amounts
    BY <1>1, <1>2, SatType DEF Account
  <2> QED BY <1>1, <2>1 DEF Credit, Account
<1> HIDE DEF base
<1>6. Execute(acc, x) = [base EXCEPT ![Sender[x]] = Spent(acc[Sender[x]], x)]
  BY DEF Execute, base
<1> QED BY <1>4, <1>5, <1>6

\* The supply after an affordable transaction is what it was, less the loss.
LEMMA ExecuteSupply ==
  ASSUME NEW acc \in [Addresses -> Account], NEW x \in Txs, Affordable(acc[Sender[x]], x),
         Amount[x] + Fee[x] < Width, Supply(acc) < Width
  PROVE  Supply(Execute(acc, x)) + Loss(x) = Supply(acc)
<1> DEFINE s == Sender[x]
           r == Recipient[x]
           new == Execute(acc, x)
           w(f, c) == f[c].balance + f[c].staked
<1>1. /\ s \in Addresses /\ r \in Addresses /\ Kind[x] \in Kinds
      /\ Amount[x] \in Nat /\ Fee[x] \in Nat /\ Width \in Nat
  BY ExecutionAssumption DEF Amounts
<1>2. new \in [Addresses -> Account]
  BY ExecuteType
<1>3. Supply(acc) \in Nat /\ Supply(new) \in Nat /\ w(acc, s) < Width
  BY <1>1, <1>2, SupplyHolds DEF Account, Amounts
<1>4. new[s] = Spent(acc[s], x)
  <2>1. Credit(acc, x) \in [Addresses -> Account]
    <3>1. SatAdd(acc[r].balance, Amount[x]) \in Amounts
      BY <1>1, SatType DEF Account
    <3> QED BY <1>1, <3>1 DEF Credit, Account
  <2> QED BY <1>1, <2>1 DEF Execute
<1>5. w(acc, s) \in Nat /\ w(new, s) \in Nat
  BY <1>1, <1>2 DEF Account, Amounts
<1>6. /\ Kind[x] \in {"Transfer", "Unstake"} =>
           w(new, s) + Amount[x] + Fee[x] = w(acc, s)
      /\ Kind[x] \in {"RegisterValidator", "Stake"} => w(new, s) + Fee[x] = w(acc, s)
  <2>1. acc[s] \in Account
    BY <1>1
  <2> HIDE DEF new
  <2> QED BY <1>1, <1>3, <1>4, <2>1, SpentWorth
<1>7. CASE Kind[x] # "Transfer" \/ r = s
  <2>1. \A c \in Addresses : c # s => new[c] = acc[c]
    BY <1>1, <1>7 DEF Execute, Credit
  <2>2. Supply(new) + w(acc, s) = Supply(acc) + w(new, s)
    <3> HIDE DEF new
    <3> QED BY <1>1, <1>2, <2>1, SupplyChangesOne
  <2> HIDE DEF new, w
  <2>3. CASE Kind[x] \in {"Transfer", "Unstake"}
    <3>1. Loss(x) = Fee[x] + Amount[x]
      BY <1>7, <2>3 DEF Loss
    <3> QED BY <1>1, <1>3, <1>5, <1>6, <2>2, <2>3, <3>1 DEF new
  <2>4. CASE Kind[x] \in {"RegisterValidator", "Stake"}
    <3>1. Loss(x) = Fee[x]
      BY <1>1, <2>4 DEF Loss
    <3> QED BY <1>1, <1>3, <1>5, <1>6, <2>2, <2>4, <3>1 DEF new
  <2> QED BY <1>1, <2>3, <2>4 DEF Kinds
<1>8. CASE Kind[x] = "Transfer" /\ r # s
  <2>1. \A c \in Addresses : c # s /\ c # r => new[c] = acc[c]
    BY <1>1, <1>8 DEF Execute, Credit
  <2>2. Supply(new) + w(acc, s) + w(acc, r) = Supply(acc) + w(new, s) + w(new, r)
    <3> HIDE DEF new
    <3> QED BY <1>1, <1>2, <1>8, <2>1, SupplyChanges
  <2>3. w(acc, s) + w(acc, r) < Width
    <3>1. w(acc, s) + w(acc, r) <= Supply(acc)
      BY <1>1, <1>8, SupplyHolds
    <3>2. w(acc, r) \in Nat
      BY <1>1 DEF Account, Amounts
    <3> HIDE DEF w
    <3> QED BY <1>1, <1>3, <1>5, <3>1, <3>2
  <2>4. new[r].balance = SatAdd(acc[r].balance, Amount[x]) /\ new[r].staked = acc[r].staked
    <3>1. new[r] = Credit(acc, x)[r]
      BY <1>1, <1>8 DEF Execute
    <3>2. Credit(acc, x)[r] = [acc[r] EXCEPT !.balance = SatAdd(acc[r].balance, Amount[x])]
      BY <1>1 DEF Credit
    <3> HIDE DEF new
    <3> QED BY <1>1, <3>1, <3>2 DEF Account
  <2>5. /\ acc[r].balance \in Nat /\ acc[r].staked \in Nat
        /\ acc[s].balance \in Nat /\ acc[s].staked \in Nat
    BY <1>1 DEF Account, Amounts
  <2>6. Amount[x] <= acc[s].balance
    BY <1>1, <2>5 DEF Affordable
  <2>7. SatAdd(acc[r].balance, Amount[x]) = acc[r].balance + Amount[x]
    BY <1>1, <2>3, <2>5, <2>6 DEF SatAdd
  <2>8. w(new, r) = w(acc, r) + Amount[x]
    <3> HIDE DEF new
    <3> QED BY <1>1, <2>4, <2>5, <2>7
  <2>9. Loss(x) = Fee[x]
    BY <1>1, <1>8 DEF Loss
  <2>10. w(acc, r) \in Nat
    BY <2>5
  <2> HIDE DEF new, w, s, r
  <2>11. w(new, s) + Amount[x] + Fee[x] = w(acc, s)
    BY <1>6, <1>8
  <2>12. Supply(new) + Loss(x) = Supply(acc)
    BY <1>1, <1>3, <1>5, <2>2, <2>8, <2>9, <2>10, <2>11
  <2> QED BY <2>12 DEF new
<1> QED BY <1>7, <1>8

-----------------------------------------------------------------------------
(* The supply while a block is executed.                                   *)

Executed == block \ rest

\* A killed node has nothing in memory that its file does not hold.
DurableInv ==
  /\ durable.height <= store.height
  /\ phase = "down" => store = durable

FiniteInv == IsFiniteSet(pool) /\ IsFiniteSet(block)

\* Who has sent nothing so far has all he had, and the stake he had.
UntouchedInv ==
  phase \in {"proposed", "executing"} =>
    \A a \in Addresses : (\A x \in Executed : Sender[x] # a) =>
      /\ overlay[a].balance >= store.accounts[a].balance
      /\ overlay[a].staked = store.accounts[a].staked

\* The law holds of the transactions executed so far.
PartialInv ==
  phase \in {"proposed", "executing"} /\ Orderly =>
    Supply(overlay) = Supply(store.accounts) - MapThenSumSet(Loss, Executed)

SInv == DurableInv /\ FiniteInv /\ UntouchedInv /\ PartialInv

LEMMA SInit == Init => SInv
<1> SUFFICES ASSUME Init PROVE SInv
  OBVIOUS
<1>1. DurableInv
  BY DEF Init, DurableInv, Empty
<1>2. FiniteInv
  BY FS_EmptySet DEF Init, FiniteInv
<1> QED BY <1>1, <1>2 DEF Init, SInv, UntouchedInv, PartialInv

\* Start and Crash take the state of the file.
LEMMA RestartsSupply ==
  ASSUME IInv, SInv, Start \/ Crash
  PROVE  SInv' /\ store'.height # store.height + 1
<1>1. store \in Stores /\ durable \in Stores
  BY DEF IInv, TypeOK
<1>2. CASE Start
  <2> USE <1>2 DEF Start
  <2>1. store'.height \in Nat /\ store'.height <= store.height
    <3>1. CASE durable.born
      BY <1>1, <3>1 DEF SInv, DurableInv, Stores
    <3>2. CASE ~durable.born
      <4>1. Genesis.height = 0
        BY DEF Genesis, Empty
      <4> QED BY <1>1, <3>2, <4>1 DEF Stores
    <3> QED BY <3>1, <3>2
  <2>2. DurableInv'
    BY <2>1 DEF DurableInv
  <2>3. FiniteInv' /\ UntouchedInv' /\ PartialInv'
    BY DEF SInv, FiniteInv, UntouchedInv, PartialInv
  <2> QED BY <1>1, <2>1, <2>2, <2>3 DEF SInv, Stores
<1>3. CASE Crash
  <2> USE <1>3 DEF Crash
  <2>1. DurableInv' /\ store'.height # store.height + 1
    BY <1>1 DEF SInv, DurableInv, Stores
  <2>2. FiniteInv' /\ UntouchedInv' /\ PartialInv'
    BY FS_EmptySet DEF FiniteInv, UntouchedInv, PartialInv
  <2> QED BY <2>1, <2>2 DEF SInv
<1> QED BY <1>2, <1>3

\* The pool's actions.
LEMMA PoolSupply ==
  ASSUME IInv, SInv,
         \/ \E t \in RpcThreads, x \in Txs : Validate(t, x)
         \/ \E t \in RpcThreads : Insert(t)
         \/ \E x \in Txs : Evict(x)
         \/ UNCHANGED vars
  PROVE  SInv' /\ store' = store
<1>1. UNCHANGED <<store, durable, node>>
  BY DEF Validate, Insert, Evict, vars, node
<1>2. IsFiniteSet(pool')
  <2>1. IsFiniteSet(pool)
    BY DEF SInv, FiniteInv
  <2>2. \A x \in Txs : IsFiniteSet(pool \cup {x}) /\ IsFiniteSet(pool \ {x})
    BY <2>1, FS_AddElement, FS_RemoveElement
  <2>3. ASSUME NEW t \in RpcThreads, Insert(t) PROVE IsFiniteSet(pool')
    BY <2>1, <2>3, FS_AddElement DEF Insert
  <2> QED BY <2>1, <2>2, <2>3 DEF Validate, Evict, vars
<1> QED
  BY <1>1, <1>2 DEF SInv, DurableInv, FiniteInv, UntouchedInv, PartialInv, Executed,
                    Orderly, node

\* Nothing of a new proposal is executed yet.
LEMMA ProposeSupply ==
  ASSUME IInv, SInv, Propose
  PROVE  SInv' /\ store' = store
<1> USE DEF Propose
<1>1. store.accounts \in [Addresses -> Account]
  BY DEF IInv, TypeOK, Stores
<1>2. UntouchedInv'
  BY <1>1 DEF UntouchedInv, Account, Amounts
<1>3. PartialInv'
  <2>1. Executed' = {} /\ overlay' = store'.accounts /\ store' = store
    BY DEF Executed
  <2>2. Supply(store.accounts) \in Nat
    BY <1>1, SupplyInNat
  <2>3. Supply(store.accounts) = Supply(store.accounts) - MapThenSumSet(Loss, {})
    BY <2>2, NoLoss
  <2> QED BY <2>1, <2>3 DEF PartialInv
<1> QED BY <1>2, <1>3 DEF SInv, DurableInv, FiniteInv

\* In an orderly block the sender's account is as it was when the transaction
\* was validated, but for what others have sent: it can still pay.
LEMMA ExecutePays ==
  ASSUME IInv, SInv, NEW x \in Txs, ExecuteNext(x), Orderly
  PROVE  Affordable(overlay[Sender[x]], x) /\ Amount[x] + Fee[x] < Width
<1> DEFINE s == Sender[x]
           old == store.accounts[s]
<1>1. x \in rest /\ x \in block /\ phase \in {"proposed", "executing"}
  BY DEF ExecuteNext, IInv, TypeOK
<1>2. /\ s \in Addresses /\ overlay[s] \in Account /\ old \in Account
      /\ Amount[x] \in Nat /\ Fee[x] \in Nat /\ Width \in Nat
  BY ExecutionAssumption DEF IInv, TypeOK, Stores, Amounts
<1>3. Amount[x] + Fee[x] < Width
  BY <1>1 DEF Orderly
<1>4. old.balance >= Amount[x] + Fee[x] /\ (Kind[x] = "Unstake" => old.staked >= Amount[x])
  <2>1. StatefulOk(old, x)
    BY <1>1 DEF IInv, ValidInv, Producing, Valid
  <2> HIDE DEF old
  <2> QED BY <1>3, <2>1 DEF StatefulOk, SatAdd
<1>5. \A y \in Executed : Sender[y] # s
  BY <1>1 DEF Executed, Orderly
<1>6. overlay[s].balance >= old.balance /\ overlay[s].staked = old.staked
  BY <1>1, <1>2, <1>5 DEF SInv, UntouchedInv
<1> HIDE DEF old, s
<1> QED BY <1>2, <1>3, <1>4, <1>6 DEF Affordable, Account, Amounts, s

LEMMA ExecuteKeepsSupply ==
  ASSUME IInv, SInv, NEW x \in Txs, ExecuteNext(x)
  PROVE  SInv' /\ store' = store
<1>1. /\ x \in rest /\ rest \subseteq block /\ block \subseteq Txs
      /\ overlay \in [Addresses -> Account] /\ store.accounts \in [Addresses -> Account]
      /\ phase \in {"proposed", "executing"}
  BY DEF ExecuteNext, IInv, TypeOK, Stores
<1>2. /\ overlay' = Execute(overlay, x) /\ rest' = rest \ {x} /\ block' = block
      /\ UNCHANGED <<store, durable, pool>> /\ phase' = "executing"
  BY DEF ExecuteNext
<1>3. Executed' = Executed \cup {x} /\ x \notin Executed /\ Executed \in SUBSET Txs
  BY <1>1, <1>2 DEF Executed
<1>4. UntouchedInv'
  <2> SUFFICES ASSUME NEW a \in Addresses, \A y \in Executed' : Sender[y] # a
               PROVE  /\ overlay'[a].balance >= store.accounts[a].balance
                      /\ overlay'[a].staked = store.accounts[a].staked
    BY <1>2 DEF UntouchedInv
  <2>1. a # Sender[x] /\ \A y \in Executed : Sender[y] # a
    BY <1>3
  <2>2. /\ overlay'[a].balance >= overlay[a].balance
        /\ overlay'[a].staked = overlay[a].staked
    BY <1>1, <1>2, <2>1, ExecuteOthers
  <2>3. /\ overlay[a].balance >= store.accounts[a].balance
        /\ overlay[a].staked = store.accounts[a].staked
    BY <1>1, <2>1 DEF SInv, UntouchedInv
  <2>4. overlay' \in [Addresses -> Account]
    BY <1>1, <1>2, ExecuteType
  <2>5. /\ overlay'[a].balance \in Nat /\ overlay[a].balance \in Nat
        /\ store.accounts[a].balance \in Nat
    BY <1>1, <2>4 DEF Account, Amounts
  <2> QED BY <2>2, <2>3, <2>5
<1>5. PartialInv'
  <2> SUFFICES ASSUME Orderly
               PROVE  Supply(overlay') = Supply(store.accounts) - MapThenSumSet(Loss, Executed')
    BY <1>2 DEF PartialInv, Orderly
  <2> DEFINE lost == MapThenSumSet(Loss, Executed)
  <2>1. lost \in Nat /\ Loss(x) \in Nat /\ MapThenSumSet(Loss, Executed') = Loss(x) + lost
    <3>1. IsFiniteSet(Executed)
      BY FS_Subset, <1>1 DEF SInv, FiniteInv, Executed
    <3> QED BY <1>3, <3>1, LossAdds
  <2>2. Supply(overlay) = Supply(store.accounts) - lost
    BY <1>1 DEF SInv, PartialInv
  <2>3. Supply(overlay) \in Nat /\ Supply(store.accounts) \in Nat
    BY <1>1, SupplyInNat
  <2>4. Supply(store.accounts) < Width /\ Width \in Nat
    BY ExecutionAssumption DEF Orderly
  <2> HIDE DEF lost
  <2>5. Supply(overlay) < Width
    BY <2>1, <2>2, <2>3, <2>4
  <2>6. Supply(overlay') + Loss(x) = Supply(overlay)
    BY <1>1, <1>2, <2>5, ExecutePays, ExecuteSupply
  <2>7. Supply(overlay') \in Nat
    BY <1>1, <1>2, ExecuteType, SupplyInNat
  <2> QED BY <2>1, <2>2, <2>3, <2>6, <2>7
<1> QED BY <1>2, <1>4, <1>5 DEF SInv, DurableInv, FiniteInv

\* When all are executed, the overlay is the state that is committed.
LEMMA CommitSupply ==
  ASSUME IInv, SInv, NEW written \in BOOLEAN, Commit(written)
  PROVE  /\ SInv'
         /\ Orderly =>
              Supply(store'.accounts) = Supply(store.accounts) - MapThenSumSet(Loss, block)
<1>1. store \in Stores /\ durable \in Stores /\ phase \in {"proposed", "executing"}
      /\ rest = {} /\ store' = Committed /\ phase' = "stopped" /\ block' = block
      /\ durable' = (IF written THEN Committed ELSE durable)
      /\ pool' = (IF written THEN AfterRemoval ELSE pool)
  BY DEF IInv, TypeOK, Commit
<1>2. store'.height = store.height + 1 /\ store'.accounts = overlay
  BY <1>1 DEF Committed, Stores
<1>3. DurableInv'
  BY <1>1, <1>2 DEF SInv, DurableInv, Stores
<1>4. FiniteInv'
  <2>1. pool' \subseteq pool
    BY <1>1 DEF AfterRemoval
  <2> QED BY <1>1, <2>1, FS_Subset DEF SInv, FiniteInv
<1>5. UntouchedInv' /\ PartialInv'
  BY <1>1 DEF UntouchedInv, PartialInv
<1>6. Executed = block
  BY <1>1 DEF Executed
<1> QED BY <1>1, <1>2, <1>3, <1>4, <1>5, <1>6 DEF SInv, PartialInv

LEMMA SuppliesKept ==
  ASSUME IInv, SInv, [Next]_vars
  PROVE  /\ SInv'
         /\ store'.height = store.height + 1 /\ Orderly =>
              Supply(store'.accounts) = Supply(store.accounts) - MapThenSumSet(Loss, block)
<1>1. store.height # store.height + 1
  BY DEF IInv, TypeOK, Stores
<1> QED
  BY <1>1, RestartsSupply, PoolSupply, ProposeSupply, ExecuteKeepsSupply, CommitSupply DEF Next

\* An orderly block makes no coins and destroys those that Loss counts, in any
\* order of its transactions and whoever else they pay.
THEOREM SupplyKept == Spec => SupplyLaw
<1>1. Init => IInv /\ SInv
  BY InitHolds, SInit
<1>2. IInv /\ SInv /\ [Next]_vars => IInv' /\ SInv'
  BY NextKeeps, SuppliesKept
<1>3. IInv /\ SInv /\ [Next]_vars =>
        [store'.height = store.height + 1 /\ Orderly =>
           Supply(store'.accounts) = Supply(store.accounts) - MapThenSumSet(Loss, block)]_vars
  BY SuppliesKept
<1> QED BY <1>1, <1>2, <1>3, PTL DEF Spec, SupplyLaw
=============================================================================
