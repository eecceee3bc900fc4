---------------------------- MODULE MempoolProofs ----------------------------
(***************************************************************************)
(* For any number of RPC threads, any transactions and any limits: an      *)
(* accepted transaction stays where it can be found and harvested until it *)
(* is removed; concurrent calls overshoot the limit on the number of       *)
(* transactions by fewer than there are threads, and the limit on bytes by *)
(* fewer than that of the largest transactions; a harvest is sorted.       *)
(***************************************************************************)
EXTENDS Mempool, FiniteSetTheorems, WellFoundedInduction, TLAPS

-----------------------------------------------------------------------------
(* Induction.                                                              *)

\* Induction over the subsets of a finite set: what holds of a subset whenever it
\* holds of all smaller ones holds of them all.
LEMMA SubsetInduction ==
  ASSUME NEW S, IsFiniteSet(S), NEW C,
         \A A \in SUBSET S : (\A B \in SUBSET A : B # A => B \in C) => A \in C
  PROVE  SUBSET S \subseteq C
<1> DEFINE T == (SUBSET S) \ C
<1>1. SUFFICES ASSUME T # {} PROVE FALSE
  OBVIOUS
<1>2. IsWellFoundedOn(StrictSubsetOrdering(S), SUBSET S)
  BY FS_StrictSubsetOrderingWellFounded, FS_FiniteSubsetsOfFinite
<1>3. PICK A \in T : \A B \in T : ~ (<<B, A>> \in StrictSubsetOrdering(S))
  <2>1. T \subseteq SUBSET S
    OBVIOUS
  <2> HIDE DEF T
  <2> QED BY <1>1, <1>2, <2>1, WFMin
<1>4. PICK B \in SUBSET A : B # A /\ B \notin C
  OBVIOUS
<1>5. B \in T
  BY <1>4
<1>6. <<B, A>> \in StrictSubsetOrdering(S)
  BY <1>4 DEF StrictSubsetOrdering
<1> QED
  BY <1>3, <1>5, <1>6

\* Induction over the natural numbers, for a set in place of a predicate.
LEMMA NatSetInduction ==
  ASSUME NEW C, 0 \in C, \A n \in Nat : n \in C => n + 1 \in C
  PROVE  Nat \subseteq C
<1> SUFFICES ASSUME NEW n \in Nat PROVE n \in C
  OBVIOUS
<1> DEFINE D == {A \in SUBSET (0 .. n) : \A k \in 0 .. n : A = 0 .. k => k \in C}
<1>1. IsFiniteSet(0 .. n)
  BY FS_Interval
<1>2. ASSUME NEW A \in SUBSET (0 .. n), \A B \in SUBSET A : B # A => B \in D
      PROVE  A \in D
  <2> SUFFICES ASSUME NEW k \in 0 .. n, A = 0 .. k PROVE k \in C
    OBVIOUS
  <2>1. CASE k = 0
    BY <2>1
  <2>2. CASE k # 0
    <3>1. k - 1 \in Nat /\ k - 1 \in 0 .. n /\ k \in A /\ k \notin 0 .. (k - 1)
          /\ 0 .. (k - 1) \subseteq A
      BY <2>2
    <3>2. 0 .. (k - 1) \in D
      BY <1>2, <3>1
    <3>3. k - 1 \in C
      BY <3>1, <3>2
    <3> QED BY <3>1, <3>3
  <2> QED BY <2>1, <2>2
<1>3. SUBSET (0 .. n) \subseteq D
  <2> HIDE DEF D
  <2> DEFINE I == 0 .. n
  <2>1. IsFiniteSet(I) /\ \A A \in SUBSET I : (\A B \in SUBSET A : B # A => B \in D) => A \in D
    BY <1>1, <1>2
  <2> HIDE DEF I
  <2>2. SUBSET I \subseteq D
    BY <2>1, SubsetInduction
  <2> QED BY <2>2 DEF I
<1>4. 0 .. n \in SUBSET (0 .. n)
  OBVIOUS
<1>5. 0 .. n \in D
  BY <1>3, <1>4
<1>6. n \in 0 .. n
  OBVIOUS
<1> QED
  BY <1>5, <1>6

\* A fold over the subsets of S: from base, by step, taking the element that pick
\* names last.
IsFold(g, S, base, pick, step) ==
  \A s \in SUBSET S : g[s] = IF s = {} THEN base ELSE step[<<pick[s], g[s \ {pick[s]}]>>]

IsPick(pick, S) == \A s \in SUBSET S : s # {} => pick[s] \in s

IsStep(step, S, V) == \A x \in S, v \in V : step[<<x, v>>] \in V

\* There is such a fold, whatever the set: the recursion that defines
\* MapThenFoldSet has a solution.
LEMMA FoldExists ==
  ASSUME NEW S, IsFiniteSet(S), NEW V, NEW base \in V, NEW pick, NEW step,
         IsPick(pick, S), IsStep(step, S, V)
  PROVE  \E g \in [SUBSET S -> V] : IsFold(g, S, base, pick, step)
<1> USE DEF IsFold, IsPick, IsStep
<1> DEFINE Eq(g, s) == g[s] = IF s = {} THEN base ELSE step[<<pick[s], g[s \ {pick[s]}]>>]
           C == {n \in Nat : \E g \in [SUBSET S -> V] :
                   \A s \in SUBSET S : Cardinality(s) <= n => Eq(g, s)}
<1>0. \A s \in SUBSET S :
        IsFiniteSet(s) /\ Cardinality(s) \in Nat /\ (Cardinality(s) = 0 <=> s = {})
  BY FS_Subset, FS_CardinalityType, FS_EmptySet
<1>1. 0 \in C
  <2>1. [s \in SUBSET S |-> base] \in [SUBSET S -> V]
    OBVIOUS
  <2>2. \A s \in SUBSET S : Cardinality(s) <= 0 => Eq([t \in SUBSET S |-> base], s)
    BY <1>0
  <2> QED BY <2>1, <2>2
<1>2. ASSUME NEW n \in Nat, n \in C PROVE n + 1 \in C
  <2>1. PICK g \in [SUBSET S -> V] : \A s \in SUBSET S : Cardinality(s) <= n => Eq(g, s)
    BY <1>2
  <2> DEFINE h == [s \in SUBSET S |-> IF s = {} THEN base ELSE step[<<pick[s], g[s \ {pick[s]}]>>]]
  <2>2. h \in [SUBSET S -> V]
    OBVIOUS
  <2>3. ASSUME NEW s \in SUBSET S, Cardinality(s) <= n + 1
        PROVE  Eq(h, s)
    <3>1. CASE s = {}
      BY <3>1
    <3>2. CASE s # {}
      <4>1. pick[s] \in s /\ s \ {pick[s]} \in SUBSET S
        BY <3>2
      <4>2. Cardinality(s \ {pick[s]}) = Cardinality(s) - 1
        BY <1>0, <4>1, FS_RemoveElement
      <4>3. Cardinality(s \ {pick[s]}) <= n
        BY <1>0, <2>3, <4>2
      <4>4. h[s \ {pick[s]}] = g[s \ {pick[s]}]
        BY <2>1, <4>1, <4>3
      <4> QED BY <3>2, <4>4
    <3> QED BY <3>1, <3>2
  <2> HIDE DEF h, Eq
  <2> QED BY <2>2, <2>3
<1>3. Nat \subseteq C
  <2> HIDE DEF C
  <2> QED BY <1>1, <1>2, NatSetInduction
<1>4. Cardinality(S) \in C
  BY <1>0, <1>3
<1>5. PICK g \in [SUBSET S -> V] : \A s \in SUBSET S : Cardinality(s) <= Cardinality(S) => Eq(g, s)
  BY <1>4
<1>6. \A s \in SUBSET S : Cardinality(s) <= Cardinality(S)
  BY FS_Subset
<1> QED BY <1>5, <1>6

-----------------------------------------------------------------------------
(* The order of the keys, and the harvest.                                 *)

\* PriorityKey is a strict total order.
LEMMA BelowOrders ==
  ASSUME NEW x \in Txs, NEW y \in Txs, NEW z \in Txs
  PROVE  /\ x = y \/ Below(x, y) \/ Below(y, x)
         /\ ~ Below(x, x)
         /\ Below(x, y) /\ Below(y, z) => Below(x, z)
<1>1. FeeRate(x) \in Int /\ FeeRate(y) \in Int /\ FeeRate(z) \in Int
  BY MempoolAssumption DEF FeeRate
<1>2. Nonce[x] \in Int /\ Nonce[y] \in Int /\ Nonce[z] \in Int
  <2>1. \A u \in Txs : Nonce[u] \in Nonces /\ Nonces \subseteq Nat
    BY MempoolAssumption
  <2> QED BY <2>1
<1>3. /\ HashRank[x] \in Int /\ HashRank[y] \in Int /\ HashRank[z] \in Int
      /\ HashRank[x] = HashRank[y] => x = y
  BY MempoolAssumption
<1> QED BY <1>1, <1>2, <1>3 DEF Below

\* A finite set of keys that is not empty has a lowest one.
LEMMA LowestLeast ==
  ASSUME NEW S \in SUBSET Txs, IsFiniteSet(S), S # {}
  PROVE  Lowest(S) \in S /\ \A y \in S : Lowest(S) = y \/ Below(Lowest(S), y)
<1> DEFINE C == {A \in SUBSET S : A # {} => \E x \in A : \A y \in A : x = y \/ Below(x, y)}
<1>1. ASSUME NEW A \in SUBSET S, \A B \in SUBSET A : B # A => B \in C
      PROVE  A \in C
  <2> SUFFICES ASSUME A # {} PROVE \E x \in A : \A y \in A : x = y \/ Below(x, y)
    OBVIOUS
  <2>1. PICK a \in A : TRUE
    OBVIOUS
  <2>2. CASE A = {a}
    BY <2>2
  <2>3. CASE A # {a}
    <3>1. A \ {a} # {} /\ A \ {a} \in C
      <4>1. A \ {a} \in SUBSET A /\ A \ {a} # A
        BY <2>1
      <4> HIDE DEF C
      <4> QED BY <1>1, <2>1, <2>3, <4>1
    <3>2. PICK b \in A \ {a} : \A y \in A \ {a} : b = y \/ Below(b, y)
      BY <3>1
    <3>3. CASE Below(a, b)
      <4> SUFFICES ASSUME NEW y \in A PROVE a = y \/ Below(a, y)
        OBVIOUS
      <4> QED BY <3>2, <3>3, BelowOrders
    <3>4. CASE Below(b, a)
      BY <3>2, <3>4
    <3> QED BY <3>2, <3>3, <3>4, BelowOrders
  <2> QED BY <2>2, <2>3
<1>2. SUBSET S \subseteq C
  <2> HIDE DEF C
  <2> QED BY <1>1, SubsetInduction
<1>3. \E x \in S : \A y \in S : x = y \/ Below(x, y)
  BY <1>2
<1> QED BY <1>3 DEF Lowest

\* One turn of the harvest's loop, and what it starts with.
Try(x, acc) ==
  IF acc.bytes + Size[x] <= MaxBlockBytes
    THEN [bytes |-> acc.bytes + Size[x], txs |-> Append(acc.txs, x)]
    ELSE acc

Nothing == [bytes |-> 0, txs |-> <<>>]

\* The harvest tries the lowest key last.
LEMMA FillRecursion ==
  ASSUME NEW S \in SUBSET Txs, IsFiniteSet(S)
  PROVE  \E g : /\ \A s \in SUBSET S :
                     g[s] = IF s = {} THEN Nothing ELSE Try(Lowest(s), g[s \ {Lowest(s)}])
                /\ Fill(S) = g[S].txs
<1> DEFINE V == [bytes : Nat, txs : Seq(S)]
           pick == [s \in SUBSET S |-> Lowest(s)]
           step == [p \in S \X V |-> Try(p[1], p[2])]
<1>1. Nothing \in V
  BY DEF Nothing
<1>2. \A s \in SUBSET S : s # {} => Lowest(s) \in s
  BY LowestLeast, FS_Subset
<1>3. ASSUME NEW x \in S, NEW v \in V PROVE Try(x, v) \in V
  <2>1. Size[x] \in Nat /\ v.bytes \in Nat /\ v.txs \in Seq(S)
    BY MempoolAssumption
  <2> QED BY <2>1 DEF Try
<1>4. IsPick(pick, S) /\ IsStep(step, S, V)
  BY <1>2, <1>3 DEF IsPick, IsStep
<1>5. PICK f \in [SUBSET S -> V] : IsFold(f, S, Nothing, pick, step)
  <2> HIDE DEF V, pick, step
  <2> QED BY <1>1, <1>4, FoldExists
<1>6. f = [s \in SUBSET S |-> IF s = {} THEN Nothing ELSE Try(Lowest(s), f[s \ {Lowest(s)}])]
  <2>1. ASSUME NEW s \in SUBSET S, s # {}
        PROVE  f[s] = Try(Lowest(s), f[s \ {Lowest(s)}])
    <3>1. Lowest(s) \in S /\ f[s \ {Lowest(s)}] \in V /\ pick[s] = Lowest(s)
      BY <1>2, <2>1
    <3>2. f[s] = step[<<Lowest(s), f[s \ {Lowest(s)}]>>]
      BY <1>5, <2>1, <3>1 DEF IsFold
    <3> QED BY <3>1, <3>2
  <2> QED BY <1>5, <2>1 DEF IsFold
<1>7. PICK g : /\ g = [s \in SUBSET S |-> IF s = {} THEN Nothing ELSE Try(Lowest(s), g[s \ {Lowest(s)}])]
               /\ Fill(S) = g[S].txs
  BY <1>6 DEF Fill, MapThenFoldSet, Try, Nothing
<1> QED BY <1>7

\* The harvest takes transactions of the tables only, each at most once, in
\* descending order of their keys.
LEMMA FillSound ==
  ASSUME NEW S \in SUBSET Txs, IsFiniteSet(S)
  PROVE  /\ Fill(S) \in Seq(S)
         /\ \A i, j \in 1 .. Len(Fill(S)) : i < j => Below(Fill(S)[j], Fill(S)[i])
<1>1. PICK g : /\ \A s \in SUBSET S :
                    g[s] = IF s = {} THEN Nothing ELSE Try(Lowest(s), g[s \ {Lowest(s)}])
               /\ Fill(S) = g[S].txs
  BY FillRecursion
<1> DEFINE Descends(q) == \A i, j \in 1 .. Len(q) : i < j => Below(q[j], q[i])
           C == {A \in SUBSET S : g[A].txs \in Seq(A) /\ Descends(g[A].txs)}
<1>2. ASSUME NEW A \in SUBSET S, \A B \in SUBSET A : B # A => B \in C
      PROVE  A \in C
  <2>1. CASE A = {}
    <3>1. g[A] = Nothing
      BY <1>1, <2>1
    <3>2. g[A].txs = <<>> /\ <<>> \in Seq(A) /\ Descends(<<>>)
      BY <3>1 DEF Nothing
    <3> QED BY <3>2
  <2>2. CASE A # {}
    <3> DEFINE x == Lowest(A)
               B == A \ {x}
    <3>1. x \in A /\ \A y \in A : x = y \/ Below(x, y)
      BY <2>2, LowestLeast, FS_Subset
    <3>2. g[A] = Try(x, g[B])
      BY <1>1, <2>2
    <3>3. B \in C
      BY <1>2, <3>1
    <3>4. PICK q \in Seq(B) : q = g[B].txs /\ Descends(q)
      BY <3>3
    <3>5. g[A].txs = q \/ g[A].txs = Append(q, x)
      BY <3>2, <3>4 DEF Try
    <3> HIDE DEF x
    <3>6. q \in Seq(A) /\ Append(q, x) \in Seq(A)
      BY <3>1
    <3>7. Descends(Append(q, x))
      <4> SUFFICES ASSUME NEW i \in 1 .. Len(Append(q, x)), NEW j \in 1 .. Len(Append(q, x)), i < j
                   PROVE  Below(Append(q, x)[j], Append(q, x)[i])
        OBVIOUS
      <4>1. Len(Append(q, x)) = Len(q) + 1 /\ Len(q) \in Nat
        OBVIOUS
      <4>2. i \in 1 .. Len(q) /\ Append(q, x)[i] = q[i] /\ q[i] \in B
        BY <4>1
      <4>3. CASE j \in 1 .. Len(q)
        <5>1. Append(q, x)[j] = q[j]
          BY <4>3
        <5>2. Below(q[j], q[i])
          BY <3>4, <4>2, <4>3
        <5> QED BY <4>2, <5>1, <5>2
      <4>4. CASE j = Len(q) + 1
        BY <3>1, <4>2, <4>4
      <4> QED BY <4>1, <4>3, <4>4
    <3> QED BY <3>4, <3>5, <3>6, <3>7
  <2> QED BY <2>1, <2>2
<1>3. SUBSET S \subseteq C
  <2> HIDE DEF C
  <2> QED BY <1>2, SubsetInduction
<1> QED BY <1>1, <1>3

-----------------------------------------------------------------------------
(* Types.                                                                  *)

Evicting == {"unhash", "unindex", "rbfBytes", "evictHash", "evictPrio", "evictSlot", "evictBytes"}

\* With the types, what the steps rely on: a call has its transaction, an
\* eviction its victim, and the keys can be enumerated.
Typing ==
  /\ TypeOK
  /\ IsFiniteSet(prio)
  /\ \A t \in RpcThreads : pc[t] # "idle" => tx[t] \in Txs
  /\ \A t \in Threads : pc[t] \in Evicting => victim[t] \in Txs

\* A transaction has a slot.
LEMMA SlotType ==
  ASSUME NEW x \in Txs
  PROVE  Slot(x) \in Slots
BY MempoolAssumption DEF Slot, Slots

\* A call's steps up to the capacity check keep the types.
LEMMA TypingAdd ==
  ASSUME Typing, NEW t \in RpcThreads,
         \/ \E x \in Txs : Begin(t, x)
         \/ Validate(t) \/ CheckSlot(t) \/ ReplaceUnhash(t) \/ ReplaceUnindex(t)
         \/ CheckLen(t) \/ CheckBytes(t) \/ PickLowest(t)
  PROVE  Typing'
<1> USE DEF Typing, TypeOK, Threads, Labels, Evicting, Goto, tables, locks, ghosts
<1>1. CASE \E x \in Txs : Begin(t, x)
  BY <1>1 DEF Begin
<1>2. CASE Validate(t)
  BY <1>2 DEF Validate, Done
<1>3. CASE CheckSlot(t)
  <2>1. tx[t] \in Txs
    BY <1>3 DEF CheckSlot
  <2>2. bySender[Slot(tx[t])] \in Txs \cup {NoTx}
    BY <2>1, SlotType
  <2> QED BY <1>3, <2>2 DEF CheckSlot, Done
<1>4. CASE ReplaceUnhash(t)
  BY <1>4 DEF ReplaceUnhash
<1>5. CASE ReplaceUnindex(t)
  <2>1. IsFiniteSet(prio')
    BY <1>5, FS_Subset DEF ReplaceUnindex
  <2> QED BY <1>5, <2>1 DEF ReplaceUnindex
<1>6. CASE CheckLen(t)
  BY <1>6 DEF CheckLen
<1>7. CASE CheckBytes(t)
  BY <1>7 DEF CheckBytes
<1>8. CASE PickLowest(t)
  <2>1. prio # {} => Lowest(prio) \in Txs
    BY LowestLeast
  <2> QED BY <1>8, <2>1 DEF PickLowest, Done
<1> QED BY <1>1, <1>2, <1>3, <1>4, <1>5, <1>6, <1>7, <1>8

\* So do its insertion,
LEMMA TypingInsert ==
  ASSUME Typing, NEW t \in RpcThreads,
         InsertHash(t) \/ InsertSlot(t) \/ InsertPrio(t) \/ InsertBytes(t)
  PROVE  Typing'
<1> USE DEF Typing, TypeOK, Threads, Labels, Evicting, Goto, tables, locks, ghosts
<1>1. tx[t] \in Txs
  BY DEF InsertHash, InsertSlot, InsertPrio, InsertBytes
<1>2. CASE InsertHash(t)
  BY <1>1, <1>2 DEF InsertHash
<1>3. CASE InsertSlot(t)
  BY <1>1, <1>3 DEF InsertSlot
<1>4. CASE InsertPrio(t)
  <2>1. IsFiniteSet(prio')
    BY <1>4, FS_AddElement DEF InsertPrio
  <2> QED BY <1>1, <1>4, <2>1 DEF InsertPrio
<1>5. CASE InsertBytes(t)
  <2>1. Size[tx[t]] \in Nat
    BY <1>1, MempoolAssumption
  <2> QED BY <1>1, <1>5, <2>1 DEF InsertBytes, Done
<1> QED BY <1>2, <1>3, <1>4, <1>5

\* an eviction,
LEMMA TypingEvict ==
  ASSUME Typing, NEW t \in Threads, EvictStep(t)
  PROVE  Typing'
<1> USE DEF Typing, TypeOK, Threads, Labels, Evicting, Goto, tables, locks, ghosts
<1>1. CASE EvictHash(t)
  BY <1>1 DEF EvictHash
<1>2. CASE EvictPrio(t)
  <2>1. IsFiniteSet(prio')
    BY <1>2, FS_Subset DEF EvictPrio
  <2> QED BY <1>2, <2>1 DEF EvictPrio
<1>3. CASE EvictSlot(t)
  BY <1>3 DEF EvictSlot
<1>4. CASE LowerBytes(t)
  BY <1>4 DEF LowerBytes
<1> QED BY <1>1, <1>2, <1>3, <1>4 DEF EvictStep

\* and the producer.
LEMMA TypingProduce == Typing /\ Produce => Typing'
<1> SUFFICES ASSUME Typing, Produce PROVE Typing'
  OBVIOUS
<1>0. Producer \in Threads /\ Producer \notin RpcThreads /\ RpcThreads \subseteq Threads
  BY MempoolAssumption DEF Threads
<1> USE DEF Goto, tables, locks, ghosts
<1> DEFINE Others == /\ IsFiniteSet(prio') /\ \A t \in RpcThreads : pc'[t] # "idle" => tx'[t] \in Txs
                     /\ \A t \in Threads : pc'[t] \in Evicting => victim'[t] \in Txs
<1>1. CASE HarvestLock
  BY <1>0, <1>1 DEF HarvestLock, Typing, TypeOK, Labels, Evicting
<1>2. CASE Harvest
  <2>1. prio \cap byHash \in SUBSET Txs /\ IsFiniteSet(prio \cap byHash)
    BY FS_Subset DEF Typing, TypeOK
  <2>2. Fill(prio \cap byHash) \in Seq(Txs)
    <3>1. Fill(prio \cap byHash) \in Seq(prio \cap byHash)
      BY <2>1, FillSound
    <3> QED BY <2>1, <3>1
  <2>3. TypeOK'
    BY <1>0, <1>2, <2>2 DEF Harvest, Typing, TypeOK, Labels
  <2>4. Others
    BY <1>0, <1>2 DEF Harvest, Typing, TypeOK, Evicting
  <2> QED BY <2>3, <2>4 DEF Typing
<1>3. CASE Commit
  <2>1. ASSUME NEW s \in Senders
        PROVE  Cardinality({i \in DOMAIN block : Sender[block[i]] = s}) \in Nat
    <3>1. DOMAIN block = 1 .. Len(block) /\ Len(block) \in Nat
      BY DEF Typing, TypeOK
    <3>2. IsFiniteSet(DOMAIN block)
      BY <3>1, FS_Interval
    <3> QED BY <3>2, FS_Subset, FS_CardinalityType
  <2>2. account' \in [Senders -> Nat]
    BY <1>3, <2>1 DEF Commit, Typing, TypeOK
  <2>3. TypeOK'
    BY <1>0, <1>3, <2>2 DEF Commit, Typing, TypeOK, Labels
  <2>4. Others
    BY <1>0, <1>3 DEF Commit, Typing, TypeOK, Evicting
  <2> QED BY <2>3, <2>4 DEF Typing
<1>4. CASE RemoveCommitted
  <2>1. CASE block = <<>>
    <3>1. TypeOK'
      BY <1>0, <1>4, <2>1 DEF RemoveCommitted, Typing, TypeOK, Labels
    <3>2. Others
      BY <1>0, <1>4, <2>1 DEF RemoveCommitted, Typing, TypeOK, Evicting
    <3> QED BY <3>1, <3>2 DEF Typing
  <2>2. CASE block # <<>>
    <3>1. Head(block) \in Txs /\ Tail(block) \in Seq(Txs)
      BY <2>2 DEF Typing, TypeOK
    <3>2. TypeOK'
      BY <1>0, <1>4, <2>2, <3>1 DEF RemoveCommitted, Typing, TypeOK, Labels
    <3>3. Others
      <4>1. /\ pc' = [pc EXCEPT ![Producer] = "evictHash"] /\ tx' = tx /\ prio' = prio
            /\ victim' = [victim EXCEPT ![Producer] = Head(block)]
        BY <1>4, <2>2 DEF RemoveCommitted
      <4> QED BY <1>0, <3>1, <4>1 DEF Typing, TypeOK, Evicting
    <3> QED BY <3>2, <3>3 DEF Typing
  <2> QED BY <2>1, <2>2
<1> QED BY <1>1, <1>2, <1>3, <1>4 DEF Produce

\* Every step keeps the types.
LEMMA TypingStep == Typing /\ [Next]_vars => Typing'
<1> SUFFICES ASSUME Typing, [Next]_vars PROVE Typing'
  OBVIOUS
<1>1. CASE UNCHANGED vars
  BY <1>1 DEF Typing, TypeOK, vars, tables, locks, ghosts
<1>2. CASE Next
  BY <1>2, TypingAdd, TypingInsert, TypingEvict, TypingProduce DEF Next, AddStep
<1> QED BY <1>1, <1>2

\* What the steps rely on always holds.
LEMMA TypingInvariant == Spec => []Typing
<1>1. Init => Typing
  <2> SUFFICES ASSUME Init PROVE Typing
    OBVIOUS
  <2>1. prio = {} /\ byHash = {} /\ accepted = {} /\ removed = {} /\ block = <<>>
    BY DEF Init
  <2>2. IsFiniteSet(prio)
    BY <2>1, FS_EmptySet
  <2>3. totalBytes \in Nat /\ account \in [Senders -> Nat] /\ bySender \in [Slots -> Txs \cup {NoTx}]
        /\ senderLock \in Threads \cup {NoThread} /\ prioHeld \in BOOLEAN /\ jammed \in BOOLEAN
    BY DEF Init
  <2>4. /\ pc \in [Threads -> Labels] /\ tx \in [Threads -> Txs \cup {NoTx}]
        /\ victim \in [Threads -> Txs \cup {NoTx}]
        /\ \A t \in Threads : pc[t] = "idle"
    BY DEF Init, Labels
  <2>5. RpcThreads \subseteq Threads
    BY DEF Threads
  <2> QED BY <2>1, <2>2, <2>3, <2>4, <2>5 DEF Typing, TypeOK, Evicting
<1> QED BY <1>1, TypingStep, PTL DEF Spec

\* The tables, the places of the threads and what they work on keep their types.
THEOREM TypeCorrect == Spec => []TypeOK
<1>1. Typing => TypeOK
  BY DEF Typing
<1> QED BY <1>1, TypingInvariant, PTL

-----------------------------------------------------------------------------
(* What is accepted is kept.                                               *)

\* Each thread's step shows in the tables, or in removed: a transaction that
\* is being inserted, and one that is being taken out.
Kept ==
  /\ AcceptedKept
  /\ \A t \in Threads :
       pc[t] \in {"insertSlot", "insertPrio", "insertBytes"} => tx[t] \in byHash \cup removed
  /\ \A t \in Threads : pc[t] = "insertBytes" => tx[t] \in prio \cup removed
  /\ \A t \in Threads : pc[t] \in {"unindex", "evictPrio"} => victim[t] \in removed

\* Every step keeps Kept.
LEMMA KeptStep == Typing /\ Kept /\ [Next]_vars => Kept'
<1> SUFFICES ASSUME Typing, Kept, [Next]_vars PROVE Kept'
  OBVIOUS
<1>1. CASE \E t \in RpcThreads, x \in Txs : Begin(t, x)
  BY <1>1 DEF Kept, AcceptedKept, Goto, Begin, tables, ghosts
<1>2. CASE \E t \in RpcThreads : Validate(t)
  BY <1>2 DEF Typing, TypeOK, Kept, AcceptedKept, Goto, Done, Validate, tables, ghosts
<1>3. CASE \E t \in RpcThreads : CheckSlot(t)
  BY <1>3 DEF Typing, TypeOK, Kept, AcceptedKept, Goto, Done, CheckSlot, tables, ghosts
<1>4. CASE \E t \in RpcThreads : ReplaceUnhash(t)
  BY <1>4 DEF Kept, AcceptedKept, Goto, ReplaceUnhash
<1>5. CASE \E t \in RpcThreads : ReplaceUnindex(t)
  BY <1>5 DEF Kept, AcceptedKept, Threads, Goto, ReplaceUnindex, ghosts
<1>6. CASE \E t \in RpcThreads : CheckLen(t)
  BY <1>6 DEF Kept, AcceptedKept, Goto, CheckLen, tables, ghosts
<1>7. CASE \E t \in RpcThreads : CheckBytes(t)
  BY <1>7 DEF Kept, AcceptedKept, Goto, CheckBytes, tables, ghosts
<1>8. CASE \E t \in RpcThreads : PickLowest(t)
  BY <1>8 DEF Typing, TypeOK, Kept, AcceptedKept, Goto, Done, PickLowest, tables, ghosts
<1>9. CASE \E t \in RpcThreads : InsertHash(t)
  BY <1>9 DEF Kept, AcceptedKept, Goto, InsertHash, ghosts
<1>10. CASE \E t \in RpcThreads : InsertSlot(t)
  BY <1>10 DEF Kept, AcceptedKept, Goto, InsertSlot, ghosts
<1>11. CASE \E t \in RpcThreads : InsertPrio(t)
  BY <1>11 DEF Kept, AcceptedKept, Goto, InsertPrio, ghosts
<1>12. CASE \E t \in RpcThreads : InsertBytes(t)
  BY <1>12 DEF Typing, TypeOK, Kept, AcceptedKept, Threads, Goto, Done, InsertBytes
<1>13. CASE \E t \in Threads : EvictHash(t)
  BY <1>13 DEF Typing, TypeOK, Kept, AcceptedKept, Goto, EvictHash
<1>14. CASE \E t \in Threads : EvictPrio(t)
  BY <1>14 DEF Kept, AcceptedKept, Goto, EvictPrio, ghosts
<1>15. CASE \E t \in Threads : EvictSlot(t)
  BY <1>15 DEF Kept, AcceptedKept, Goto, EvictSlot, ghosts
<1>16. CASE \E t \in Threads : LowerBytes(t)
  BY <1>16 DEF Kept, AcceptedKept, Goto, LowerBytes, tables, ghosts
<1>17. CASE HarvestLock
  BY <1>17 DEF Kept, AcceptedKept, Goto, HarvestLock, tables, ghosts
<1>18. CASE Harvest
  BY <1>18 DEF Kept, AcceptedKept, Goto, Harvest, tables, ghosts
<1>19. CASE Commit
  BY <1>19 DEF Kept, AcceptedKept, Goto, Commit, tables, ghosts
<1>20. CASE RemoveCommitted
  BY <1>20 DEF Typing, TypeOK, Kept, AcceptedKept, Goto, RemoveCommitted, tables, ghosts
<1>21. CASE UNCHANGED vars
  BY <1>21 DEF Kept, AcceptedKept, vars, tables, ghosts
<1> QED
  BY <1>1, <1>2, <1>3, <1>4, <1>5, <1>6, <1>7, <1>8, <1>9, <1>10, <1>11, <1>12,
     <1>13, <1>14, <1>15, <1>16, <1>17, <1>18, <1>19, <1>20, <1>21 DEF Next,
     AddStep, EvictStep, Produce

\* A transaction whose add_transaction returned Ok (pool.rs:156) and that was
\* never taken out is in by_hash and in priority_index, whatever the other
\* threads were doing to their own transactions.
THEOREM AcceptedNeverLost == Spec => []AcceptedKept
<1>1. Init => Kept
  BY DEF Init, Kept, AcceptedKept
<1>2. Kept => AcceptedKept
  BY DEF Kept
<1> QED BY <1>1, <1>2, TypingInvariant, KeptStep, PTL DEF Spec

-----------------------------------------------------------------------------
(* The number of transactions.                                             *)

\* The threads that found room for a transaction and have not inserted it.
Passed == {t \in RpcThreads : pc[t] \in {"bytes", "insertHash"}}

\* Each of them may still add one to the transactions there are.
Room ==
  /\ IsFiniteSet(byHash)
  /\ Cardinality(byHash) + Cardinality(Passed) <= MaxTxs + Cardinality(RpcThreads) - 1

\* Sets of RPC threads are finite, and there is at least one thread.
LEMMA ThreadsFinite ==
  ASSUME NEW S \in SUBSET RpcThreads
  PROVE  /\ IsFiniteSet(S) /\ Cardinality(S) \in Nat
         /\ Cardinality(S) <= Cardinality(RpcThreads)
         /\ Cardinality(RpcThreads) \in Nat /\ Cardinality(RpcThreads) >= 1
<1>1. IsFiniteSet(RpcThreads) /\ RpcThreads # {}
  BY MempoolAssumption
<1>2. Cardinality(RpcThreads) \in Nat /\ Cardinality(RpcThreads) # 0
  BY <1>1, FS_CardinalityType, FS_EmptySet
<1>3. IsFiniteSet(S) /\ Cardinality(S) <= Cardinality(RpcThreads)
  BY <1>1, FS_Subset
<1> QED BY <1>2, <1>3, FS_CardinalityType

\* No more transactions and no more threads past the check keep Room.
LEMMA SameOrFewer ==
  ASSUME Room, byHash' \subseteq byHash, Passed' \subseteq Passed
  PROVE  Room'
<1>1. IsFiniteSet(byHash) /\ IsFiniteSet(Passed)
  BY ThreadsFinite DEF Room, Passed
<1>2. IsFiniteSet(byHash') /\ Cardinality(byHash') <= Cardinality(byHash)
  BY <1>1, FS_Subset
<1>3. IsFiniteSet(Passed') /\ Cardinality(Passed') <= Cardinality(Passed)
  BY <1>1, FS_Subset
<1>4. /\ Cardinality(byHash) \in Nat /\ Cardinality(byHash') \in Nat
      /\ Cardinality(Passed) \in Nat /\ Cardinality(Passed') \in Nat
  BY <1>1, <1>2, <1>3, FS_CardinalityType
<1>5. MaxTxs \in Nat /\ Cardinality(RpcThreads) \in Nat
  BY MempoolAssumption, ThreadsFinite
<1> QED BY <1>2, <1>3, <1>4, <1>5 DEF Room

\* A thread passes the check only below the limit.
LEMMA CheckLenRoom ==
  ASSUME Typing, Room, NEW t \in RpcThreads, CheckLen(t)
  PROVE  Room'
<1>1. CASE Cardinality(byHash) >= MaxTxs
  <2>1. byHash' = byHash /\ Passed' \subseteq Passed
    BY <1>1 DEF CheckLen, Passed, Goto, tables
  <2> QED BY <2>1, SameOrFewer
<1>2. CASE ~(Cardinality(byHash) >= MaxTxs)
  <2>1. byHash' = byHash
    BY DEF CheckLen, tables
  <2>2. Cardinality(byHash) \in Nat /\ MaxTxs \in Nat
    BY FS_CardinalityType, MempoolAssumption DEF Room
  <2>3. Cardinality(byHash) <= MaxTxs - 1
    BY <1>2, <2>2
  <2>4. Passed' \in SUBSET RpcThreads
    BY DEF Passed
  <2>5. /\ Cardinality(Passed') \in Nat /\ Cardinality(RpcThreads) \in Nat
        /\ Cardinality(Passed') <= Cardinality(RpcThreads)
    BY <2>4, ThreadsFinite
  <2> QED BY <2>1, <2>2, <2>3, <2>5 DEF Room
<1> QED BY <1>1, <1>2

\* An insertion uses up the room its thread had found.
LEMMA InsertHashRoom ==
  ASSUME Typing, Room, NEW t \in RpcThreads, InsertHash(t)
  PROVE  Room'
<1>1. byHash' = byHash \cup {tx[t]}
  BY DEF InsertHash
<1>2. t \in Passed /\ Passed' = Passed \ {t}
  <2>1. t \in Threads /\ RpcThreads \subseteq Threads /\ pc \in [Threads -> Labels]
    BY DEF Typing, TypeOK, Threads
  <2> QED BY <2>1 DEF InsertHash, Goto, Passed
<1>3. IsFiniteSet(byHash) /\ Cardinality(byHash) \in Nat
  BY FS_CardinalityType DEF Room
<1>4. IsFiniteSet(byHash') /\ Cardinality(byHash') <= Cardinality(byHash) + 1
      /\ Cardinality(byHash') \in Nat
  BY <1>1, <1>3, FS_AddElement
<1>5. IsFiniteSet(Passed) /\ Cardinality(Passed) \in Nat
  BY ThreadsFinite DEF Passed
<1>6. Cardinality(Passed') = Cardinality(Passed) - 1
  BY <1>2, <1>5, FS_RemoveElement
<1>7. MaxTxs \in Nat /\ Cardinality(RpcThreads) \in Nat
  BY MempoolAssumption, ThreadsFinite
<1> QED BY <1>3, <1>4, <1>5, <1>6, <1>7 DEF Room

\* Every step keeps Room.
LEMMA RoomStep == Typing /\ Room /\ [Next]_vars => Room'
<1> SUFFICES ASSUME Typing, Room, [Next]_vars PROVE Room'
  OBVIOUS
<1>1. CASE \E t \in RpcThreads, x \in Txs : Begin(t, x)
  BY <1>1, SameOrFewer DEF Passed, Goto, Begin, tables
<1>2. CASE \E t \in RpcThreads : Validate(t)
  BY <1>2, SameOrFewer DEF Typing, TypeOK, Passed, Threads, Goto, Done, Validate, tables
<1>3. CASE \E t \in RpcThreads : CheckSlot(t)
  BY <1>3, SameOrFewer DEF Typing, TypeOK, Passed, Threads, Goto, Done, CheckSlot, tables
<1>4. CASE \E t \in RpcThreads : ReplaceUnhash(t)
  BY <1>4, SameOrFewer DEF Passed, Goto, ReplaceUnhash
<1>5. CASE \E t \in RpcThreads : ReplaceUnindex(t)
  BY <1>5, SameOrFewer DEF Passed, Goto, ReplaceUnindex
<1>6. CASE \E t \in RpcThreads : CheckLen(t)
  BY <1>6, CheckLenRoom
<1>7. CASE \E t \in RpcThreads : CheckBytes(t)
  BY <1>7, SameOrFewer DEF Passed, Goto, CheckBytes, tables
<1>8. CASE \E t \in RpcThreads : PickLowest(t)
  BY <1>8, SameOrFewer DEF Typing, TypeOK, Passed, Threads, Goto, Done, PickLowest, tables
<1>9. CASE \E t \in RpcThreads : InsertHash(t)
  BY <1>9, InsertHashRoom
<1>10. CASE \E t \in RpcThreads : InsertSlot(t)
  BY <1>10, SameOrFewer DEF Passed, Goto, InsertSlot
<1>11. CASE \E t \in RpcThreads : InsertPrio(t)
  BY <1>11, SameOrFewer DEF Passed, Goto, InsertPrio
<1>12. CASE \E t \in RpcThreads : InsertBytes(t)
  BY <1>12, SameOrFewer DEF Passed, Goto, Done, InsertBytes
<1>13. CASE \E t \in Threads : EvictHash(t)
  BY <1>13, SameOrFewer DEF Typing, TypeOK, Passed, Threads, Goto, EvictHash
<1>14. CASE \E t \in Threads : EvictPrio(t)
  BY <1>14, SameOrFewer DEF Passed, Goto, EvictPrio
<1>15. CASE \E t \in Threads : EvictSlot(t)
  BY <1>15, SameOrFewer DEF Passed, Goto, EvictSlot
<1>16. CASE \E t \in Threads : LowerBytes(t)
  BY <1>16, SameOrFewer DEF Passed, Goto, LowerBytes, tables
<1>17. CASE HarvestLock
  BY <1>17, SameOrFewer DEF Passed, Goto, HarvestLock, tables
<1>18. CASE Harvest
  BY <1>18, SameOrFewer DEF Passed, Goto, Harvest, tables
<1>19. CASE Commit
  BY <1>19, SameOrFewer DEF Passed, Goto, Commit, tables
<1>20. CASE RemoveCommitted
  BY <1>20, SameOrFewer DEF Typing, TypeOK, Passed, Threads, Goto, RemoveCommitted, tables
<1>21. CASE UNCHANGED vars
  BY <1>21, SameOrFewer DEF Passed, vars, tables
<1> QED
  BY <1>1, <1>2, <1>3, <1>4, <1>5, <1>6, <1>7, <1>8, <1>9, <1>10, <1>11, <1>12,
     <1>13, <1>14, <1>15, <1>16, <1>17, <1>18, <1>19, <1>20, <1>21 DEF Next,
     AddStep, EvictStep, Produce

\* The limit of pool.rs:121 is overshot by fewer transactions than there are
\* RPC threads, although it is checked and used under different guards.
THEOREM LengthBounded == Spec => []LenBounded
<1>1. Init => Room
  <2> SUFFICES ASSUME Init PROVE Room
    OBVIOUS
  <2>1. Passed = {} /\ byHash = {}
    BY DEF Init, Passed, Threads
  <2>2. MaxTxs \in Nat
    BY MempoolAssumption
  <2> QED BY <2>1, <2>2, FS_EmptySet, ThreadsFinite DEF Room
<1>2. Room => LenBounded
  <2> SUFFICES ASSUME Room PROVE LenBounded
    OBVIOUS
  <2>1. Cardinality(byHash) \in Nat /\ Cardinality(Passed) \in Nat
    BY FS_CardinalityType, ThreadsFinite DEF Room, Passed
  <2>2. MaxTxs \in Nat /\ Cardinality(RpcThreads) \in Nat
    BY MempoolAssumption, ThreadsFinite
  <2> QED BY <2>1, <2>2 DEF Room, LenBounded
<1> QED BY <1>1, <1>2, TypingInvariant, RoomStep, PTL DEF Spec

-----------------------------------------------------------------------------
(* The number of bytes.                                                    *)

\* The RPC threads that found room for their bytes and have not added them.
Filling ==
  {t \in RpcThreads : pc[t] \in {"insertHash", "insertSlot", "insertPrio", "insertBytes"}}

MostBytes == MaxBytes + (Cardinality(RpcThreads) - 1) * MaxTxSize

\* One of them, say the last that checked, counts with the size of its own
\* transaction, as the check did; of the others nothing is known but the limit on
\* the size of a transaction.
Space ==
  /\ totalBytes <= MostBytes
  /\ Filling # {} =>
       \E t \in Filling :
         totalBytes + Size[tx[t]] + (Cardinality(Filling) - 1) * MaxTxSize <= MostBytes

\* The numbers in it are natural numbers.
LEMMA SpaceNumbers ==
  /\ MaxBytes \in Nat /\ MaxTxSize \in Nat
  /\ Cardinality(RpcThreads) \in Nat /\ Cardinality(RpcThreads) >= 1
  /\ (Cardinality(RpcThreads) - 1) * MaxTxSize \in Nat /\ MostBytes \in Nat
  /\ IsFiniteSet(Filling) /\ Cardinality(Filling) \in Nat
<1>1. MaxBytes \in Nat /\ MaxTxSize \in Nat
  BY MempoolAssumption
<1>2. Filling \in SUBSET RpcThreads
  BY DEF Filling
<1>3. /\ IsFiniteSet(Filling) /\ Cardinality(Filling) \in Nat
      /\ Cardinality(RpcThreads) \in Nat /\ Cardinality(RpcThreads) >= 1
  BY <1>2, ThreadsFinite
<1>4. (Cardinality(RpcThreads) - 1) * MaxTxSize \in Nat
  BY <1>1, <1>3
<1> QED BY <1>1, <1>3, <1>4 DEF MostBytes

\* Fewer threads times the same size is no more.
LEMMA Times ==
  ASSUME NEW m \in Nat, NEW n \in Nat, NEW s \in Nat, m <= n
  PROVE  m * s \in Nat /\ m * s <= n * s /\ (m + 1) * s = m * s + s
OBVIOUS

\* A thread that is past the check keeps its transaction; a step that moves
\* neither threads past it nor bytes keeps Space.
LEMMA SameSpace ==
  ASSUME Space, totalBytes' = totalBytes, Filling' = Filling,
         \A t \in Filling : tx'[t] = tx[t]
  PROVE  Space'
BY DEF Space, MostBytes

\* A thread passes the check with its own bytes counted.
LEMMA CheckBytesSpace ==
  ASSUME Typing, Space, NEW t \in RpcThreads, CheckBytes(t)
  PROVE  Space'
<1>1. t \in Threads /\ pc \in [Threads -> Labels] /\ RpcThreads \subseteq Threads
  BY DEF Typing, TypeOK, Threads
<1>2. CASE totalBytes + Size[tx[t]] > MaxBytes
  <2>1. totalBytes' = totalBytes /\ tx' = tx /\ Filling' = Filling
    BY <1>1, <1>2 DEF CheckBytes, Goto, Filling, tables
  <2> QED BY <2>1, SameSpace
<1>3. CASE ~ (totalBytes + Size[tx[t]] > MaxBytes)
  <2>1. /\ totalBytes' = totalBytes /\ tx' = tx /\ t \in Filling'
        /\ Filling' \in SUBSET RpcThreads
    BY <1>1, <1>3 DEF CheckBytes, Goto, Filling, tables
  <2>2. /\ IsFiniteSet(Filling') /\ Cardinality(Filling') \in Nat
        /\ Cardinality(Filling') <= Cardinality(RpcThreads)
    BY <2>1, ThreadsFinite
  <2>3. Cardinality(Filling') # 0
    BY <2>1, <2>2, FS_EmptySet
  <2>4. totalBytes \in Nat /\ Size[tx[t]] \in Nat
    BY MempoolAssumption DEF Typing, TypeOK, CheckBytes
  <2>5. totalBytes + Size[tx[t]] <= MaxBytes
    BY <1>3, <2>4, SpaceNumbers
  <2>6. (Cardinality(Filling') - 1) * MaxTxSize <= (Cardinality(RpcThreads) - 1) * MaxTxSize
        /\ (Cardinality(Filling') - 1) * MaxTxSize \in Nat
    BY <2>2, <2>3, SpaceNumbers, Times
  <2>7. totalBytes + Size[tx[t]] + (Cardinality(Filling') - 1) * MaxTxSize <= MostBytes
    BY <2>4, <2>5, <2>6, SpaceNumbers DEF MostBytes
  <2>8. MostBytes' = MostBytes
    BY DEF MostBytes
  <2> QED BY <2>1, <2>4, <2>5, <2>7, <2>8, SpaceNumbers DEF Space, MostBytes
<1> QED BY <1>2, <1>3

\* The bytes a thread adds are its own, or those that were kept for another of
\* the largest size.
LEMMA InsertBytesSpace ==
  ASSUME Typing, Space, NEW t \in RpcThreads, InsertBytes(t)
  PROVE  Space'
<1> DEFINE k == Cardinality(Filling) - 1
           size(u) == Size[tx[u]]
<1>1. /\ t \in Threads /\ RpcThreads \subseteq Threads /\ pc \in [Threads -> Labels]
      /\ tx \in [Threads -> Txs \cup {NoTx}] /\ totalBytes \in Nat
  BY DEF Typing, TypeOK, Threads
<1>2. /\ totalBytes' = totalBytes + size(t) /\ t \in Filling /\ Filling' = Filling \ {t}
      /\ \A u \in Filling' : tx'[u] = tx[u]
  BY <1>1 DEF InsertBytes, Done, Goto, Filling
<1>3. k \in Nat /\ Cardinality(Filling') = k /\ IsFiniteSet(Filling')
  <2>1. Cardinality(Filling') = k
    BY <1>2, SpaceNumbers, FS_RemoveElement
  <2>2. IsFiniteSet(Filling')
    BY <1>2, SpaceNumbers, FS_Subset
  <2> QED BY <2>1, <2>2, FS_CardinalityType
<1>4. \A u \in Filling : size(u) \in Nat /\ size(u) <= MaxTxSize
  <2>1. \A u \in Filling : tx[u] \in Txs
    BY DEF Typing, Filling
  <2> QED BY <2>1, MempoolAssumption
<1>5. PICK u \in Filling : totalBytes + size(u) + k * MaxTxSize <= MostBytes
  BY <1>2 DEF Space
<1>6. k * MaxTxSize \in Nat /\ MostBytes \in Nat /\ MostBytes' = MostBytes
  BY <1>3, SpaceNumbers, Times DEF MostBytes
<1>7. CASE Filling' = {}
  <2>1. u = t
    BY <1>2, <1>7
  <2>2. totalBytes' <= MostBytes'
    BY <1>1, <1>2, <1>4, <1>5, <1>6, <2>1
  <2> QED BY <1>7, <2>2 DEF Space
<1>8. CASE Filling' # {}
  <2>1. k # 0 /\ k - 1 \in Nat
    BY <1>3, <1>8, FS_EmptySet
  <2>2. k * MaxTxSize = (k - 1) * MaxTxSize + MaxTxSize /\ (k - 1) * MaxTxSize \in Nat
    BY <1>3, <2>1, SpaceNumbers, Times
  <2>3. PICK v \in Filling' : v = u \/ u = t
    BY <1>2, <1>5, <1>8
  <2>4. size(u) \in Nat /\ size(t) \in Nat /\ size(v) \in Nat
        /\ size(t) <= MaxTxSize /\ size(v) <= MaxTxSize
    BY <1>2, <1>4, <1>5, <2>3
  <2>5. totalBytes' + size(v) + (k - 1) * MaxTxSize <= MostBytes
    <3> HIDE DEF k, size
    <3>1. CASE v = u
      BY <1>1, <1>2, <1>5, <1>6, <2>2, <2>4, <3>1, SpaceNumbers
    <3>2. CASE u = t
      BY <1>1, <1>2, <1>5, <1>6, <2>2, <2>4, <3>2, SpaceNumbers
    <3> QED BY <2>3, <3>1, <3>2
  <2>6. totalBytes' <= MostBytes
    <3> HIDE DEF k, size
    <3> QED BY <1>1, <1>2, <1>6, <2>2, <2>4, <2>5
  <2>7. totalBytes' + Size[tx'[v]] + (Cardinality(Filling') - 1) * MaxTxSize <= MostBytes'
    BY <1>2, <1>3, <1>6, <2>3, <2>5
  <2> QED BY <1>6, <2>3, <2>6, <2>7 DEF Space
<1> QED BY <1>7, <1>8

\* Every step keeps Space.
LEMMA SpaceStep == Typing /\ Space /\ [Next]_vars => Space'
<1> SUFFICES ASSUME Typing, Space, [Next]_vars PROVE Space'
  OBVIOUS
<1> USE DEF Filling, Goto, tables
<1>0. RpcThreads \subseteq Threads /\ pc \in [Threads -> Labels] /\ tx \in [Threads -> Txs \cup {NoTx}]
  BY DEF Typing, TypeOK, Threads
<1>1. CASE \E t \in RpcThreads, x \in Txs : Begin(t, x)
  BY <1>0, <1>1, SameSpace DEF Begin
<1>2. CASE \E t \in RpcThreads : Validate(t)
  BY <1>0, <1>2, SameSpace DEF Done, Validate
<1>3. CASE \E t \in RpcThreads : CheckSlot(t)
  BY <1>0, <1>3, SameSpace DEF Done, CheckSlot
<1>4. CASE \E t \in RpcThreads : ReplaceUnhash(t) \/ ReplaceUnindex(t)
  BY <1>0, <1>4, SameSpace DEF ReplaceUnhash, ReplaceUnindex
<1>5. CASE \E t \in RpcThreads : CheckLen(t)
  BY <1>0, <1>5, SameSpace DEF CheckLen
<1>6. CASE \E t \in RpcThreads : CheckBytes(t)
  BY <1>6, CheckBytesSpace
<1>7. CASE \E t \in RpcThreads : PickLowest(t)
  BY <1>0, <1>7, SameSpace DEF Done, PickLowest
<1>8. CASE \E t \in RpcThreads : InsertHash(t) \/ InsertSlot(t) \/ InsertPrio(t)
  BY <1>0, <1>8, SameSpace DEF InsertHash, InsertSlot, InsertPrio
<1>9. CASE \E t \in RpcThreads : InsertBytes(t)
  BY <1>9, InsertBytesSpace
<1>10. CASE \E t \in Threads : EvictStep(t)
  BY <1>0, <1>10, SameSpace DEF EvictStep, EvictHash, EvictPrio, EvictSlot, LowerBytes
<1>11. CASE Produce
  <2>1. Producer \notin RpcThreads
    BY MempoolAssumption
  <2> QED BY <1>0, <1>11, <2>1, SameSpace
          DEF Produce, HarvestLock, Harvest, Commit, RemoveCommitted
<1>12. CASE UNCHANGED vars
  BY <1>12, SameSpace DEF vars
<1> QED
  BY <1>1, <1>2, <1>3, <1>4, <1>5, <1>6, <1>7, <1>8, <1>9, <1>10, <1>11, <1>12
  DEF Next, AddStep

\* The limit of pool.rs:122 is overshot by fewer than one transaction of the
\* largest size for every RPC thread, although the sum is read and raised under
\* different guards (pool.rs:122 and 153).
THEOREM BytesAlwaysBounded == Spec => []BytesBounded
<1>1. Init => Space
  <2> SUFFICES ASSUME Init PROVE Space
    OBVIOUS
  <2>1. Filling = {} /\ totalBytes = 0
    BY DEF Init, Filling, Threads
  <2> QED BY <2>1, SpaceNumbers DEF Space
<1>2. Space => BytesBounded
  BY DEF Space, MostBytes, BytesBounded
<1> QED BY <1>1, <1>2, TypingInvariant, SpaceStep, PTL DEF Spec
=============================================================================
