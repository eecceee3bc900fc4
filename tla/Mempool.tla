------------------------------- MODULE Mempool -------------------------------
(***************************************************************************)
(* aura-mempool: one Mempool shared by RPC threads that add transactions   *)
(* and by the block producer, which harvests, commits and removes.  Each   *)
(* of its four tables has a parking_lot lock of its own, taken and dropped *)
(* statement by statement, so calls interleave between any two steps.      *)
(*                                                                         *)
(* The statement that lowers total_bytes reads it through one guard while  *)
(* asking for the write guard of the same lock.  The thread never gets     *)
(* past it, and its queued write request bars every later reader: from     *)
(* then on total_bytes is jammed.                                          *)
(***************************************************************************)
EXTENDS Integers, FiniteSets, Sequences, Folds

CONSTANTS
  Txs,            \* signed transactions that pass stateless validation
  Senders, Nonces,
  Sender, Nonce,  \* functions of a transaction
  Fee, Size,
  HashRank,       \* the order of transaction hashes
  RpcThreads,     \* threads that add transactions
  Producer,       \* the block production task
  MaxTxs, MaxBytes,     \* MempoolConfig
  MaxTxSize,            \* MAX_TRANSACTION_SIZE, of stateless validation
  RbfPercent,           \* min_rbf_bump_percent
  NonceWindow,          \* 64: how far ahead of the account a nonce may be
  MaxBlockBytes,        \* the argument of harvest
  NoTx, NoThread

ASSUME MempoolAssumption ==
  /\ Nonces \subseteq Nat
  /\ Sender \in [Txs -> Senders] /\ Nonce \in [Txs -> Nonces]
  /\ Fee \in [Txs -> Nat] /\ MaxTxSize \in Nat /\ Size \in [Txs -> 1..MaxTxSize]
  /\ HashRank \in [Txs -> Nat]
  /\ \A x, y \in Txs : HashRank[x] = HashRank[y] => x = y
  /\ IsFiniteSet(RpcThreads) /\ RpcThreads # {} /\ Producer \notin RpcThreads
  /\ MaxTxs \in Nat /\ MaxBytes \in Nat /\ RbfPercent \in Nat
  /\ NonceWindow \in Nat /\ MaxBlockBytes \in Nat
  /\ NoTx \notin Txs /\ NoThread \notin RpcThreads \cup {Producer}

Threads == RpcThreads \cup {Producer}

VARIABLES
  byHash,      \* by_hash
  bySender,    \* by_sender: the transaction at each sender and nonce
  prio,        \* priority_index
  totalBytes,  \* total_bytes
  senderLock,  \* who holds by_sender.write() across steps
  prioHeld,    \* harvest holds priority_index.read()
  jammed,      \* total_bytes.read() will never be granted again
  pc, tx,      \* where each thread is, and the transaction it adds
  victim,      \* the transaction it evicts
  block,       \* the transactions the producer has harvested
  account,     \* account[s]: the nonce of s in the StateDB
  accepted,    \* ghost: transactions whose add_transaction returned Ok
  removed      \* ghost: transactions ever taken out of by_hash

tables == <<byHash, bySender, prio, totalBytes>>
locks  == <<senderLock, prioHeld, jammed>>
ghosts == <<accepted, removed>>
vars   == <<tables, locks, pc, tx, victim, block, account, ghosts>>

Slots == Senders \X Nonces
Slot(x) == <<Sender[x], Nonce[x]>>

\* fee_per_byte, in whole units.
FeeRate(x) == Fee[x] \div Size[x]

\* The order of PriorityKey: rate, then nonce, then hash.
Below(x, y) ==
  \/ FeeRate(x) < FeeRate(y)
  \/ FeeRate(x) = FeeRate(y) /\ Nonce[x] < Nonce[y]
  \/ FeeRate(x) = FeeRate(y) /\ Nonce[x] = Nonce[y] /\ HashRank[x] < HashRank[y]

Lowest(S) == CHOOSE x \in S : \A y \in S : x = y \/ Below(x, y)

\* Enough of a fee to replace old in its slot.
Bumps(new, old) == Fee[new] >= Fee[old] + (Fee[old] * RbfPercent) \div 100

\* Stateful validation; balances are taken to suffice.
NonceOk(x) ==
  Nonce[x] > account[Sender[x]] /\ Nonce[x] <= account[Sender[x]] + NonceWindow

Labels ==
  {"idle", "account", "slot", "unhash", "unindex", "rbfBytes", "len", "bytes", "lowest",
   "evictHash", "evictPrio", "evictSlot", "evictBytes",
   "insertHash", "insertSlot", "insertPrio", "insertBytes",
   "harvest", "commit", "remove", "hung"}

Init ==
  /\ byHash = {} /\ prio = {} /\ totalBytes = 0
  /\ bySender = [s \in Slots |-> NoTx]
  /\ senderLock = NoThread /\ prioHeld = FALSE /\ jammed = FALSE
  /\ pc = [t \in Threads |-> "idle"]
  /\ tx = [t \in Threads |-> NoTx] /\ victim = [t \in Threads |-> NoTx]
  /\ block = <<>>
  /\ account = [s \in Senders |-> 0]
  /\ accepted = {} /\ removed = {}

Goto(t, label) == pc' = [pc EXCEPT ![t] = label]
SenderFree == senderLock = NoThread
PrioFree == ~prioHeld

\* The end of an add_transaction call.
Done(t) == Goto(t, "idle") /\ tx' = [tx EXCEPT ![t] = NoTx]

-----------------------------------------------------------------------------
(* Mutated forms of the actions below: each is a bug the real one does not *)
(* have.                                                                   *)

\* TypeOK: the statement works, but subtracts without saturating.
LowerBytesPlain(t) ==
  /\ pc[t] \in {"rbfBytes", "evictBytes"}
  /\ totalBytes' = totalBytes - Size[victim[t]]
  /\ Goto(t, IF t = Producer THEN "remove" ELSE "len")
  /\ IF pc[t] = "rbfBytes"
       THEN senderLock' = NoThread /\ bySender' = [bySender EXCEPT ![Slot(tx[t])] = NoTx]
       ELSE UNCHANGED <<senderLock, bySender>>
  /\ UNCHANGED <<byHash, prio, prioHeld, jammed, tx, victim, block, account, ghosts>>

\* LenBounded: > where the code has >=.
CheckLenOff(t) ==
  /\ pc[t] = "len"
  /\ Goto(t, IF Cardinality(byHash) > MaxTxs THEN "lowest" ELSE "bytes")
  /\ UNCHANGED <<tables, locks, tx, victim, block, account, ghosts>>

\* BytesBounded: the size of the new transaction is left out.
CheckBytesOld(t) ==
  /\ pc[t] = "bytes" /\ ~jammed
  /\ Goto(t, IF totalBytes > MaxBytes THEN "lowest" ELSE "insertHash")
  /\ UNCHANGED <<tables, locks, tx, victim, block, account, ghosts>>

\* AcceptedKept: the keys of one fee rate are not told apart.
EvictPrioByRate(t) ==
  /\ pc[t] = "evictPrio" /\ PrioFree
  /\ prio' = {x \in prio : FeeRate(x) # FeeRate(victim[t])}
  /\ Goto(t, "evictSlot")
  /\ UNCHANGED <<byHash, bySender, totalBytes, locks, tx, victim, block, account, ghosts>>

\* ReturnsUnlessJammed: a refused replacement keeps the guard of by_sender.
CheckSlotLeaks(t) ==
  /\ pc[t] = "slot" /\ SenderFree
  /\ LET old == bySender[Slot(tx[t])] IN
     \/ old = NoTx /\ Goto(t, "len") /\ UNCHANGED <<tx, victim, senderLock>>
     \/ old # NoTx /\ ~Bumps(tx[t], old) /\ Done(t) /\ senderLock' = t /\ UNCHANGED victim
     \/ /\ old # NoTx /\ Bumps(tx[t], old)
        /\ victim' = [victim EXCEPT ![t] = old]
        /\ senderLock' = t
        /\ Goto(t, "unhash") /\ UNCHANGED tx
  /\ UNCHANGED <<tables, prioHeld, jammed, block, account, ghosts>>

-----------------------------------------------------------------------------
(* add_transaction.                                                        *)

\* Stateless validation and the duplicate check, under by_hash.read().
Begin(t, x) ==
  /\ pc[t] = "idle" /\ t \in RpcThreads
  /\ x \notin byHash
  /\ tx' = [tx EXCEPT ![t] = x]
  /\ Goto(t, "account")
  /\ UNCHANGED <<tables, locks, victim, block, account, ghosts>>

\* The account is read and the transaction checked against it.
Validate(t) ==
  /\ pc[t] = "account"
  /\ IF NonceOk(tx[t]) THEN Goto(t, "slot") /\ UNCHANGED tx ELSE Done(t)
  /\ UNCHANGED <<tables, locks, victim, block, account, ghosts>>

\* by_sender.write(): a free slot lets the call pass; an occupied one refuses
\* it, or is to be replaced, with the guard kept.
CheckSlot(t) ==
  /\ pc[t] = "slot" /\ SenderFree
  /\ LET old == bySender[Slot(tx[t])] IN
     \/ old = NoTx /\ Goto(t, "len") /\ UNCHANGED <<tx, victim, senderLock>>
     \/ old # NoTx /\ ~Bumps(tx[t], old) /\ Done(t) /\ UNCHANGED <<victim, senderLock>>
     \/ /\ old # NoTx /\ Bumps(tx[t], old)
        /\ victim' = [victim EXCEPT ![t] = old]
        /\ senderLock' = t
        /\ Goto(t, "unhash") /\ UNCHANGED tx
  /\ UNCHANGED <<tables, prioHeld, jammed, block, account, ghosts>>

ReplaceUnhash(t) ==
  /\ pc[t] = "unhash"
  /\ byHash' = byHash \ {victim[t]}
  /\ removed' = removed \cup {victim[t]}
  /\ Goto(t, "unindex")
  /\ UNCHANGED <<bySender, prio, totalBytes, locks, tx, victim, block, account, accepted>>

ReplaceUnindex(t) ==
  /\ pc[t] = "unindex" /\ PrioFree
  /\ prio' = prio \ {victim[t]}
  /\ Goto(t, "rbfBytes")
  /\ UNCHANGED <<byHash, bySender, totalBytes, locks, tx, victim, block, account, ghosts>>

\* `*total_bytes.write() = total_bytes.read() ...`: the thread stops here for
\* good, in a replacement with by_sender.write() held.
LowerBytes(t) ==
  /\ pc[t] \in {"rbfBytes", "evictBytes"} /\ ~jammed
  /\ jammed' = TRUE
  /\ Goto(t, "hung")
  /\ UNCHANGED <<tables, senderLock, prioHeld, tx, victim, block, account, ghosts>>

\* The loop's two conditions read two locks, one after the other; the second
\* is not evaluated when the first holds.
CheckLen(t) ==
  /\ pc[t] = "len"
  /\ Goto(t, IF Cardinality(byHash) >= MaxTxs THEN "lowest" ELSE "bytes")
  /\ UNCHANGED <<tables, locks, tx, victim, block, account, ghosts>>

CheckBytes(t) ==
  /\ pc[t] = "bytes" /\ ~jammed
  /\ Goto(t, IF totalBytes + Size[tx[t]] > MaxBytes THEN "lowest" ELSE "insertHash")
  /\ UNCHANGED <<tables, locks, tx, victim, block, account, ghosts>>

\* The lowest key is evicted unless it pays as much as the new transaction.
PickLowest(t) ==
  /\ pc[t] = "lowest"
  /\ IF prio = {} \/ FeeRate(Lowest(prio)) >= FeeRate(tx[t])
       THEN Done(t) /\ UNCHANGED victim
       ELSE /\ victim' = [victim EXCEPT ![t] = Lowest(prio)]
            /\ Goto(t, "evictHash") /\ UNCHANGED tx
  /\ UNCHANGED <<tables, locks, block, account, ghosts>>

InsertHash(t) ==
  /\ pc[t] = "insertHash"
  /\ byHash' = byHash \cup {tx[t]}
  /\ Goto(t, "insertSlot")
  /\ UNCHANGED <<bySender, prio, totalBytes, locks, tx, victim, block, account, ghosts>>

InsertSlot(t) ==
  /\ pc[t] = "insertSlot" /\ SenderFree
  /\ bySender' = [bySender EXCEPT ![Slot(tx[t])] = tx[t]]
  /\ Goto(t, "insertPrio")
  /\ UNCHANGED <<byHash, prio, totalBytes, locks, tx, victim, block, account, ghosts>>

InsertPrio(t) ==
  /\ pc[t] = "insertPrio" /\ PrioFree
  /\ prio' = prio \cup {tx[t]}
  /\ Goto(t, "insertBytes")
  /\ UNCHANGED <<byHash, bySender, totalBytes, locks, tx, victim, block, account, ghosts>>

InsertBytes(t) ==
  /\ pc[t] = "insertBytes" /\ ~jammed
  /\ totalBytes' = totalBytes + Size[tx[t]]
  /\ accepted' = accepted \cup {tx[t]}
  /\ Done(t)
  /\ UNCHANGED <<byHash, bySender, prio, locks, victim, block, account, removed>>

-----------------------------------------------------------------------------
(* evict_transaction, called from add_transaction and remove_committed.    *)

\* A transaction that is gone already ends the call.
EvictHash(t) ==
  /\ pc[t] = "evictHash"
  /\ byHash' = byHash \ {victim[t]}
  /\ IF victim[t] \in byHash
       THEN removed' = removed \cup {victim[t]} /\ Goto(t, "evictPrio")
       ELSE UNCHANGED removed /\ Goto(t, IF t = Producer THEN "remove" ELSE "len")
  /\ UNCHANGED <<bySender, prio, totalBytes, locks, tx, victim, block, account, accepted>>

EvictPrio(t) ==
  /\ pc[t] = "evictPrio" /\ PrioFree
  /\ prio' = prio \ {victim[t]}
  /\ Goto(t, "evictSlot")
  /\ UNCHANGED <<byHash, bySender, totalBytes, locks, tx, victim, block, account, ghosts>>

EvictSlot(t) ==
  /\ pc[t] = "evictSlot" /\ SenderFree
  /\ bySender' = [bySender EXCEPT ![Slot(victim[t])] = NoTx]
  /\ Goto(t, "evictBytes")
  /\ UNCHANGED <<byHash, prio, totalBytes, locks, tx, victim, block, account, ghosts>>

-----------------------------------------------------------------------------
(* The block producer.                                                     *)

\* harvest takes priority_index.read() and then by_hash.read().
HarvestLock ==
  /\ pc[Producer] = "idle" /\ PrioFree
  /\ prioHeld' = TRUE
  /\ Goto(Producer, "harvest")
  /\ UNCHANGED <<tables, senderLock, jammed, tx, victim, block, account, ghosts>>

\* Greedily by descending key, whatever fits of what by_hash still has: the
\* lowest key is tried last.
Fill(S) ==
  LET Try(x, acc) == IF acc.bytes + Size[x] <= MaxBlockBytes
                       THEN [bytes |-> acc.bytes + Size[x], txs |-> Append(acc.txs, x)]
                       ELSE acc
  IN MapThenFoldSet(Try, [bytes |-> 0, txs |-> <<>>], LAMBDA x : x, Lowest, S).txs

Harvest ==
  /\ pc[Producer] = "harvest"
  /\ block' = Fill(prio \cap byHash)
  /\ prioHeld' = FALSE
  /\ Goto(Producer, "commit")
  /\ UNCHANGED <<tables, senderLock, jammed, tx, victim, account, ghosts>>

\* The consensus engine commits the block: execution adds one to the sender's
\* nonce for each transaction.
Commit ==
  /\ pc[Producer] = "commit"
  /\ account' = [s \in Senders |->
                   account[s] + Cardinality({i \in DOMAIN block : Sender[block[i]] = s})]
  /\ Goto(Producer, "remove")
  /\ UNCHANGED <<tables, locks, tx, victim, block, ghosts>>

\* remove_committed evicts the block's transactions one by one.
RemoveCommitted ==
  /\ pc[Producer] = "remove"
  /\ IF block = <<>>
       THEN Goto(Producer, "idle") /\ UNCHANGED <<victim, block>>
       ELSE /\ victim' = [victim EXCEPT ![Producer] = Head(block)]
            /\ block' = Tail(block)
            /\ Goto(Producer, "evictHash")
  /\ UNCHANGED <<tables, locks, tx, account, ghosts>>

-----------------------------------------------------------------------------
AddStep(t) ==
  \/ Validate(t) \/ CheckSlot(t) \/ ReplaceUnhash(t) \/ ReplaceUnindex(t)
  \/ CheckLen(t) \/ CheckBytes(t) \/ PickLowest(t)
  \/ InsertHash(t) \/ InsertSlot(t) \/ InsertPrio(t) \/ InsertBytes(t)

EvictStep(t) == EvictHash(t) \/ EvictPrio(t) \/ EvictSlot(t) \/ LowerBytes(t)

Produce == HarvestLock \/ Harvest \/ Commit \/ RemoveCommitted

Next ==
  \/ \E t \in RpcThreads : (\E x \in Txs : Begin(t, x)) \/ AddStep(t)
  \/ \E t \in Threads : EvictStep(t)
  \/ Produce

Spec == Init /\ [][Next]_vars

\* A runnable thread runs on, and parking_lot keeps no thread from a lock that
\* is released again and again.  No call ever has to begin.
FairSpec ==
  /\ Spec
  /\ \A t \in RpcThreads : SF_vars(AddStep(t) \/ EvictStep(t))
  /\ SF_vars(EvictStep(Producer) \/ Harvest)

-----------------------------------------------------------------------------
(* Properties.                                                             *)

\* The variables have their types.
TypeOK ==
  /\ byHash \subseteq Txs /\ prio \subseteq Txs /\ totalBytes \in Nat
  /\ bySender \in [Slots -> Txs \cup {NoTx}]
  /\ senderLock \in Threads \cup {NoThread}
  /\ prioHeld \in BOOLEAN /\ jammed \in BOOLEAN
  /\ pc \in [Threads -> Labels]
  /\ tx \in [Threads -> Txs \cup {NoTx}]
  /\ victim \in [Threads -> Txs \cup {NoTx}]
  /\ block \in Seq(Txs)
  /\ account \in [Senders -> Nat]
  /\ accepted \subseteq Txs /\ removed \subseteq Txs

\* The limit on the number of transactions is checked long before the insertion
\* it is to guard (pool.rs:121 and 146): concurrent calls overshoot it, but by
\* no more than one transaction for every other RPC thread.
LenBounded == Cardinality(byHash) <= MaxTxs + Cardinality(RpcThreads) - 1

\* The same of the limit on bytes, checked at pool.rs:122 and raised at 153.
BytesBounded ==
  totalBytes <= MaxBytes + (Cardinality(RpcThreads) - 1) * MaxTxSize

\* A transaction whose sender was told Ok (pool.rs:156), and which no
\* replacement, eviction or committed block took out, is still found by its
\* hash and by the harvest, whatever other calls did to their own entries.
AcceptedKept == accepted \ removed \subseteq byHash \cap prio

\* A call that has begun returns, as long as no replacement, eviction or
\* removal jammed total_bytes: the locks of the other tables (pool.rs:91-153,
\* 164, 191-201) never keep each other from being released.
ReturnsUnlessJammed ==
  \A t \in RpcThreads : pc[t] # "idle" ~> pc[t] = "idle" \/ jammed
=============================================================================
