-------------------------------- MODULE Ledger --------------------------------
(***************************************************************************)
(* What transactions do to accounts.  One validator's node: RPC threads    *)
(* check transactions against the stored accounts and put them in the      *)
(* pool; the block producer executes a block of them over an overlay and   *)
(* commits it.  No balance, nonce or stake is checked again between the    *)
(* pool and the store.                                                     *)
(*                                                                         *)
(* The node produces one block in a life: the engine hangs on its own      *)
(* locks, or the mempool on its, in the call that commits (see             *)
(* ConsensusEngine and Mempool); the RPC threads go on.  A restart empties *)
(* the pool.                                                               *)
(***************************************************************************)
EXTENDS Execution, FiniteSetsExt

CONSTANTS
  RpcThreads,
  Priority,         \* the order of PriorityKey
  GenesisBalance,   \* balances of the genesis accounts, 0 for other addresses
  GenesisStake,     \* stakes of the genesis validators, 0 for other addresses
  MinFee, MinStake, \* MIN_TRANSACTION_FEE; the least stake of a new validator
  NonceWindow,      \* 64: how far ahead of the account a nonce may be
  MaxHeight,        \* bounds the blocks of a behaviour
  NoTx

ASSUME LedgerAssumption ==
  /\ IsFiniteSet(Addresses)    \* they have 20 bytes
  /\ Priority \in [Txs -> Nat]
  /\ \A x, y \in Txs : Priority[x] = Priority[y] => x = y
  /\ GenesisBalance \in [Addresses -> Amounts] /\ GenesisStake \in [Addresses -> Amounts]
  /\ MinFee \in Nat /\ MinStake \in Nat /\ NonceWindow \in Nat /\ MaxHeight \in Nat
  /\ NoTx \notin Txs

VARIABLES
  store,     \* the StateDB in memory
  durable,   \* what its file holds
  pool,      \* the transactions a harvest finds
  checking,  \* the transaction each RPC thread has validated and not yet inserted
  phase,     \* where the node is
  block,     \* the transactions of the proposed block
  rest,      \* those not executed yet
  overlay    \* the accounts as the block's execution leaves them

vars == <<store, durable, pool, checking, phase, block, rest, overlay>>
node == <<phase, block, rest, overlay>>

\* executed is a ghost: how often the chain has executed each transaction.
Stores == [born : BOOLEAN, height : Nat, accounts : [Addresses -> Account],
           executed : [Txs -> Nat]]

Phases == {"down", "idle", "proposed", "executing", "stopped"}
Producing == phase \in {"idle", "proposed", "executing"}

-----------------------------------------------------------------------------
(* Mutated forms of definitions of this module: bugs the real ones do not  *)
(* have.                                                                   *)

\* ReplayBounded: the nonce of the account itself is let through.
NonceOkOff(acc, x) ==
  Nonce[x] >= acc.nonce /\ Nonce[x] <= acc.nonce + NonceWindow

\* HarvestValid: the producer goes on after a commit, with the pool as it is.
CommitGoesOn(written) ==
  /\ phase \in {"proposed", "executing"} /\ rest = {}
  /\ store' = [store EXCEPT !.height = @ + 1, !.accounts = overlay,
                 !.executed = [x \in Txs |-> @[x] + IF x \in block THEN 1 ELSE 0]]
  /\ durable' = IF written THEN store' ELSE durable
  /\ pool' = pool \ block
  /\ phase' = "idle" /\ block' = {}
  /\ UNCHANGED <<checking, rest, overlay>>

-----------------------------------------------------------------------------
(* Validation.                                                             *)

StatelessOk(x) == Fee[x] >= MinFee /\ (Kind[x] = "Transfer" => Amount[x] > 0)

NonceOk(acc, x) ==
  Nonce[x] > acc.nonce /\ Nonce[x] <= acc.nonce + NonceWindow

StatefulOk(acc, x) ==
  /\ NonceOk(acc, x)
  /\ acc.balance >= SatAdd(Amount[x], Fee[x])
  /\ Kind[x] = "RegisterValidator" => ~acc.validator /\ Amount[x] >= MinStake
  /\ Kind[x] = "Unstake" => acc.validator /\ acc.staked >= Amount[x]

Valid(x) == StatefulOk(store.accounts[Sender[x]], x)

-----------------------------------------------------------------------------
\* A validator's account is read from the store, which its balance has not
\* reached yet.
GenesisAccount(a) ==
  IF GenesisStake[a] > 0
    THEN [NoAccount EXCEPT !.staked = GenesisStake[a], !.validator = TRUE]
    ELSE [NoAccount EXCEPT !.balance = GenesisBalance[a]]

Empty == [born |-> FALSE, height |-> 0, accounts |-> [a \in Addresses |-> NoAccount],
          executed |-> [x \in Txs |-> 0]]

Genesis == [Empty EXCEPT !.born = TRUE,
                         !.accounts = [a \in Addresses |-> GenesisAccount(a)]]

Init ==
  /\ store = Empty /\ durable = Empty
  /\ pool = {} /\ checking = [t \in RpcThreads |-> NoTx]
  /\ phase = "down"
  /\ block = {} /\ rest = {} /\ overlay = Empty.accounts

\* The node starts, with the default genesis in a new database.
Start ==
  /\ phase = "down"
  /\ store' = IF durable.born THEN durable ELSE Genesis
  /\ durable' = store'
  /\ phase' = "idle"
  /\ UNCHANGED <<pool, checking, block, rest, overlay>>

\* The process is killed; its memory is gone.
Crash ==
  /\ phase # "down" /\ phase' = "down"
  /\ store' = durable
  /\ pool' = {} /\ checking' = [t \in RpcThreads |-> NoTx]
  /\ block' = {} /\ rest' = {} /\ overlay' = Empty.accounts
  /\ UNCHANGED durable

-----------------------------------------------------------------------------
(* The pool.                                                               *)

\* add_transaction up to the end of validation.
Validate(t, x) ==
  /\ phase # "down" /\ checking[t] = NoTx
  /\ x \notin pool /\ StatelessOk(x) /\ Valid(x)
  /\ checking' = [checking EXCEPT ![t] = x]
  /\ UNCHANGED <<store, durable, pool, node>>

\* The rest of add_transaction: the transaction is in the pool, or refused.
Insert(t) ==
  /\ phase # "down" /\ checking[t] # NoTx
  /\ pool' \in {pool, pool \cup {checking[t]}}
  /\ checking' = [checking EXCEPT ![t] = NoTx]
  /\ UNCHANGED <<store, durable, node>>

\* An eviction, or a replacement, takes a transaction out.
Evict(x) ==
  /\ phase # "down" /\ x \in pool
  /\ pool' = pool \ {x}
  /\ UNCHANGED <<store, durable, checking, node>>

-----------------------------------------------------------------------------
(* The block producer.                                                     *)

\* create_proposal harvests the pool; the next tick may do so again.
Propose ==
  /\ phase \in {"idle", "proposed"} /\ store.height < MaxHeight
  /\ block' = pool /\ rest' = pool
  /\ overlay' = store.accounts
  /\ phase' = "proposed"
  /\ UNCHANGED <<store, durable, pool, checking>>

\* One turn of the loop over the block's transactions, in the harvest's order.
ExecuteNext(x) ==
  /\ phase \in {"proposed", "executing"}
  /\ x \in rest /\ \A y \in rest : Priority[y] <= Priority[x]
  /\ overlay' = Execute(overlay, x)
  /\ rest' = rest \ {x}
  /\ phase' = "executing"
  /\ UNCHANGED <<store, durable, pool, checking, block>>

Committed ==
  [store EXCEPT !.height = @ + 1, !.accounts = overlay,
     !.executed = [x \in Txs |-> @[x] + IF x \in block THEN 1 ELSE 0]]

\* remove_committed hangs in the first transaction that it takes out.
AfterRemoval ==
  pool \ {x \in block \cap pool : \A y \in block \cap pool : Priority[y] <= Priority[x]}

\* commit_block, remove_committed, and the end of the producer.  When the write
\* fails the block is in memory only, and the producer panics.
Commit(written) ==
  /\ phase \in {"proposed", "executing"} /\ rest = {}
  /\ store' = Committed
  /\ durable' = IF written THEN Committed ELSE durable
  /\ pool' = IF written THEN AfterRemoval ELSE pool
  /\ phase' = "stopped"
  /\ UNCHANGED <<checking, block, rest, overlay>>

-----------------------------------------------------------------------------
Next ==
  \/ Start \/ Crash
  \/ \E t \in RpcThreads : (\E x \in Txs : Validate(t, x)) \/ Insert(t)
  \/ \E x \in Txs : Evict(x) \/ ExecuteNext(x)
  \/ Propose
  \/ \E written \in BOOLEAN : Commit(written)

Spec == Init /\ [][Next]_vars

-----------------------------------------------------------------------------
(* Properties.                                                             *)

\* Every variable has its type; no balance or stake leaves its width.
TypeOK ==
  /\ store \in Stores /\ durable \in Stores
  /\ pool \in SUBSET Txs
  /\ checking \in [RpcThreads -> Txs \cup {NoTx}]
  /\ phase \in Phases
  /\ block \in SUBSET Txs /\ rest \in SUBSET block
  /\ overlay \in [Addresses -> Account]

\* Execution checks nothing again, so what is harvested must have been
\* validated against the very state it is executed on: each transaction by
\* itself is affordable and its nonce unused.
HarvestValid == Producing => \A x \in pool \cup block : Valid(x)

\* Nonces are the only guard against executing a transaction again.  As gaps
\* are allowed and each execution counts one, a transaction can be executed as
\* often as its nonce says, over any number of restarts, and no more: once, if
\* its nonce is the first one.
ReplayBounded ==
  \A x \in Txs : store.executed[x] <= Nonce[x] /\ durable.executed[x] <= Nonce[x]

Supply(accounts) ==
  MapThenSumSet(LAMBDA a : accounts[a].balance + accounts[a].staked, Addresses)

\* What a transaction takes out of circulation: the fee, which nobody gets; and
\* the amount, when it is sent to oneself or taken out of one's stake.
Loss(x) ==
  Fee[x] + IF Kind[x] = "Unstake" \/ (Kind[x] = "Transfer" /\ Sender[x] = Recipient[x])
             THEN Amount[x] ELSE 0

\* No sender has two transactions in the block, and no sum exceeds the width.
Orderly ==
  /\ \A x, y \in block : Sender[x] = Sender[y] => x = y
  /\ \A x \in block : Amount[x] + Fee[x] < Width
  /\ Supply(store.accounts) < Width

\* An orderly block makes no coins and loses exactly those of Loss, whatever
\* transactions of others come before.  (Two of one sender may spend the same
\* balance twice: saturating_sub makes coins then.)
SupplyLaw ==
  [][store'.height = store.height + 1 /\ Orderly =>
       Supply(store'.accounts) = Supply(store.accounts) - MapThenSumSet(Loss, block)]_vars
=============================================================================
