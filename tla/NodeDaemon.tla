------------------------------ MODULE NodeDaemon ------------------------------
(***************************************************************************)
(* aura-node: the whole daemon.  One process holds the store, the mempool, *)
(* a validator's block production loop, and an RPC server with a feed of   *)
(* new transactions; `tx send` commands talk to it from outside.           *)
(*                                                                         *)
(* Requests and the loop are tasks on a few worker threads, and the locks  *)
(* of the engine and the mempool block the thread: a task that hangs on    *)
(* one of them keeps its worker for good (ConsensusEngine and Mempool say  *)
(* where they hang; here the loop hangs at the end of its first block, and *)
(* the mempool is jammed when a block or a replacement takes a transaction *)
(* out of it).  The mempool is never full here; a block has room for so    *)
(* many bytes of it.                                                       *)
(***************************************************************************)
EXTENDS Integers, Sequences, FiniteSetsExt

CONSTANTS
  Sends,        \* `tx send` commands, each with one transaction
  Senders, Sender,   \* Sender[c]: whose secret key the command is given
  Size,         \* Size[c]: the bytes of its transaction
  MaxBlockBytes,     \* 1024 * 1024: the bytes a harvest may return
  Subscribers,  \* WebSocket clients
  Workers,      \* how many worker threads the runtime has
  Backlog,      \* 1024: how many messages the feed keeps
  Elected,      \* the heights at which the old validator is elected beside the
                \* one that `init` makes
  MaxStarts     \* bounds the starts of the node, and so its blocks

ASSUME DaemonAssumption ==
  /\ Sender \in [Sends -> Senders] /\ IsFiniteSet(Sends)
  /\ Size \in [Sends -> Nat \ {0}] /\ MaxBlockBytes \in Nat
  /\ Workers \in Nat \ {0} /\ Backlog \in Nat \ {0}
  /\ MaxStarts \in Nat /\ Elected \subseteq Nat

VARIABLES
  node,       \* the process
  starts,     \* how often it was started
  store,      \* the StateDB in memory
  file,       \* what state.db holds
  engine,     \* where the production loop is
  block,      \* the transactions of its block
  pool,       \* the transactions a harvest finds
  jammed,     \* somebody hangs in the mempool
  cli,        \* the `tx send` commands
  published,  \* the messages sent to the feed since the node was started
  feed,       \* the WebSocket connections
  seen,       \* ghost: the greatest height any client was answered
  wiped       \* ghost: `init` was run on a database with blocks

db == <<store, file>>
rpc == <<cli, published, feed>>
loop == <<engine, block>>
ghosts == <<seen, wiped>>
vars == <<node, starts, db, loop, pool, jammed, rpc, ghosts>>

\* genesis: whose stake the database has: nobody's, that of the validator the
\* node is run with, one whose key nobody kept, or both.
Databases == [genesis : {"none", "ours", "lost", "both"}, height : Nat,
              nonce : [Senders -> Nat], executed : SUBSET Sends]

\* A command asks for the account, then sends the transaction.
Commands == [pc : {"new", "asking", "asked", "sending", "checked",
                   "accepted", "refused", "hung", "broken"}, nonce : Nat]

Pending == {"asking", "sending", "checked", "hung"}

NewCommand == [pc |-> "new", nonce |-> 0]
NoFeed == [on |-> FALSE, start |-> 0, got |-> <<>>]

Init ==
  /\ node = "down" /\ starts = 0
  /\ store = [genesis |-> "none", height |-> 0,
              nonce |-> [a \in Senders |-> 0], executed |-> {}]
  /\ file = store
  /\ engine = "none" /\ block = {} /\ pool = {} /\ jammed = FALSE
  /\ cli = [c \in Sends |-> NewCommand]
  /\ published = <<>> /\ feed = [s \in Subscribers |-> NoFeed]
  /\ seen = 0 /\ wiped = FALSE

HungSends == {c \in Sends : cli[c].pc = "hung"}

\* The workers that will never take up another task.
Stuck == Cardinality(HungSends) + (IF engine = "hung" THEN 1 ELSE 0)

\* A task can begin a turn.
WorkerFree == node = "up" /\ Stuck < Workers

-----------------------------------------------------------------------------
(* Mutated forms of definitions of this module: bugs the real ones do not  *)
(* have.                                                                   *)

\* AnswersLoseOneBlock: the loop goes on after a failed write.
PanickedGoesOn == "ready"

\* FeedWhole: a connection that has lagged goes on with what is still there.
LaggedGoesOn(s) ==
  [feed[s] EXCEPT !.got = Append(@, published[Len(published) - Backlog + 1])]

\* ReadsAnswered: reading an account needs the mempool.
AccountReadableUnjammed == ~jammed

\* TypeOK: a client waits for a node that is gone.
BrokenNever == cli

-----------------------------------------------------------------------------
(* The process.                                                            *)

\* `init`: a genesis with a key that is not kept, also over a database that
\* has one already, whose accounts stay.
InitCommand ==
  /\ node = "down"
  /\ file' = [file EXCEPT !.height = 0,
                !.genesis = IF @ \in {"none", "lost"} THEN "lost" ELSE "both"]
  /\ wiped' = (wiped \/ file.height > 0)
  /\ UNCHANGED <<node, starts, store, loop, pool, jammed, rpc, seen>>

\* `run`, with a validator's key or without; the genesis of a new database has
\* that key, or a random one.
Run(withKey) ==
  LET born == IF file.genesis = "none"
                THEN [file EXCEPT !.genesis = IF withKey THEN "ours" ELSE "lost"]
                ELSE file
  IN /\ node = "down" /\ starts < MaxStarts
     /\ node' = "up" /\ starts' = starts + 1
     /\ store' = born /\ file' = born
     /\ engine' = IF withKey THEN "ready" ELSE "none"
     /\ UNCHANGED <<block, pool, jammed, rpc, ghosts>>

\* What commands see when their connection breaks.
Broken == [c \in Sends |-> IF cli[c].pc \in Pending
                             THEN [cli[c] EXCEPT !.pc = "broken"] ELSE cli[c]]

Vanish ==
  /\ node' = "down"
  /\ engine' = "none" /\ block' = {} /\ pool' = {} /\ jammed' = FALSE
  /\ cli' = Broken
  /\ published' = <<>> /\ feed' = [s \in Subscribers |-> NoFeed]
  /\ UNCHANGED <<starts, db, ghosts>>

Kill == node # "down" /\ Vanish

\* Ctrl-C: main returns, and the runtime waits for its workers to end what
\* they are in.
Interrupt ==
  /\ node = "up" /\ node' = "stopping"
  /\ UNCHANGED <<starts, db, loop, pool, jammed, rpc, ghosts>>

Exit ==
  /\ node = "stopping"
  /\ engine \notin {"proposed", "committing", "hung"}
  /\ \A c \in Sends : cli[c].pc \notin {"checked", "hung"}
  /\ Vanish

-----------------------------------------------------------------------------
(* The production loop.                                                    *)

\* select_proposer: the only validator, or one of two; with the greater stake
\* the old one is a quorum alone.
Proposes(height) ==
  \/ store.genesis = "ours"
  \/ store.genesis = "both" /\ height \in Elected

Total(txs) == MapThenSumSet(LAMBDA c : Size[c], txs)
Fits(c, txs) == Total(txs) + Size[c] <= MaxBlockBytes

\* A mutated form of Harvests, which FirstBlockTakesWhatFits must notice: the
\* harvest ends at the first transaction that does not fit.
HarvestsToFirstMiss ==
  {txs \in SUBSET pool : /\ Total(txs) <= MaxBlockBytes
                         /\ txs = pool \/ \E c \in pool \ txs : ~Fits(c, txs)}

\* What a harvest may return: it goes through the pool by fee per byte and skips
\* what does not fit any more, so that each rest has no room, in some order.
Harvests ==
  {txs \in SUBSET pool : /\ Total(txs) <= MaxBlockBytes
                         /\ \A c \in pool \ txs : ~Fits(c, txs)}

\* A tick: create_proposal.
Propose ==
  /\ WorkerFree /\ engine = "ready" /\ Proposes(store.height + 1)
  /\ block' \in Harvests /\ engine' = "proposed"
  /\ UNCHANGED <<node, starts, db, pool, jammed, rpc, ghosts>>

\* handle_proposal, up to commit_block's change of the memory.
CommitMemory ==
  /\ node # "down" /\ engine = "proposed"
  /\ store' = [store EXCEPT !.height = @ + 1, !.executed = @ \cup block,
                 !.nonce = [a \in Senders |->
                              @[a] + Cardinality({c \in block : Sender[c] = a})]]
  /\ engine' = "committing"
  /\ UNCHANGED <<node, starts, file, block, pool, jammed, rpc, ghosts>>

\* The file is written; the loop hangs in the removal of the block's first
\* transaction that is still there, or, without one, in the engine.
CommitFile ==
  /\ node # "down" /\ engine = "committing"
  /\ file' = store
  /\ \/ block \cap pool = {} /\ UNCHANGED <<pool, jammed>>
     \/ \E c \in block \cap pool : pool' = pool \ {c} /\ jammed' = TRUE
  /\ engine' = "hung"
  /\ UNCHANGED <<node, starts, store, block, rpc, ghosts>>

Panicked == "panicked"

\* The file is not written: the expect in the engine ends the loop's task.
FailFile ==
  /\ node # "down" /\ engine = "committing"
  /\ engine' = Panicked
  /\ UNCHANGED <<node, starts, db, block, pool, jammed, rpc, ghosts>>

-----------------------------------------------------------------------------
(* The RPC server and its clients.                                         *)

Step(c, pc) == cli' = [cli EXCEPT ![c].pc = pc]

\* A client connects; without a node the command ends.
Request(c, from, to) ==
  /\ cli[c].pc = from
  /\ Step(c, IF node = "up" THEN to ELSE "broken")
  /\ UNCHANGED <<node, starts, db, loop, pool, jammed, published, feed, ghosts>>

Ask(c) == Request(c, "new", "asking")
Send(c) == Request(c, "asked", "sending")

\* The account is read without any lock that hangs.
AccountReadable == TRUE

\* getAccount: the command takes the next nonce.
AnswerAccount(c) ==
  /\ WorkerFree /\ AccountReadable /\ cli[c].pc = "asking"
  /\ cli' = [cli EXCEPT ![c] = [pc |-> "asked", nonce |-> store.nonce[Sender[c]] + 1]]
  /\ UNCHANGED <<node, starts, db, loop, pool, jammed, published, feed, ghosts>>

\* getBlockHeight, by anybody.
AnswerHeight ==
  /\ WorkerFree /\ store.height > seen
  /\ seen' = store.height
  /\ UNCHANGED <<node, starts, db, loop, pool, jammed, rpc, wiped>>

\* Transactions of the same sender and nonce in the pool.
Rivals(c) == {d \in pool : Sender[d] = Sender[c] /\ cli[d].nonce = cli[c].nonce}

\* sendTransaction up to the end of add_transaction's checks.
Refuse(c) ==
  /\ WorkerFree /\ cli[c].pc = "sending"
  /\ Step(c, "refused")
  /\ UNCHANGED <<node, starts, db, loop, pool, jammed, published, feed, ghosts>>

Fresh(c) == cli[c].nonce > store.nonce[Sender[c]]

\* A replacement takes the rival's hash away and hangs, also when it was a block
\* that has jammed the mempool.
Replace(c) ==
  /\ WorkerFree /\ cli[c].pc = "sending" /\ Fresh(c)
  /\ \E d \in Rivals(c) : pool' = pool \ {d}
  /\ jammed' = TRUE /\ Step(c, "hung")
  /\ UNCHANGED <<node, starts, db, loop, published, feed, ghosts>>

Check(c) ==
  /\ WorkerFree /\ cli[c].pc = "sending" /\ Fresh(c)
  /\ jammed \/ Rivals(c) = {}
  /\ Step(c, IF jammed THEN "hung" ELSE "checked")
  /\ UNCHANGED <<node, starts, db, loop, pool, jammed, published, feed, ghosts>>

\* The insertion, the message to the feed, and the answer; if the mempool has
\* jammed in between, it is left somewhere in the middle.
Insert(c) ==
  /\ node # "down" /\ cli[c].pc = "checked"
  /\ pool' \in IF jammed THEN {pool, pool \cup {c}} ELSE {pool \cup {c}}
  /\ Step(c, IF jammed THEN "hung" ELSE "accepted")
  /\ published' = IF jammed THEN published ELSE Append(published, c)
  /\ UNCHANGED <<node, starts, db, loop, jammed, feed, ghosts>>

\* A WebSocket is opened.
Subscribe(s) ==
  /\ WorkerFree /\ ~feed[s].on
  /\ feed' = [feed EXCEPT ![s] = [on |-> TRUE, start |-> Len(published), got |-> <<>>]]
  /\ UNCHANGED <<node, starts, db, loop, pool, jammed, cli, published, ghosts>>

\* How many messages are waiting for a subscriber.
Waiting(s) == Len(published) - feed[s].start - Len(feed[s].got)

\* recv() answers Lagged: the loop ends, and the connection with it.
Lagged(s) == [feed[s] EXCEPT !.on = FALSE]

\* recv() answers the next message, which goes to the client.
Forwarded(s) ==
  [feed[s] EXCEPT !.got = Append(@, published[feed[s].start + Len(feed[s].got) + 1])]

Forward(s) ==
  /\ WorkerFree /\ feed[s].on /\ Waiting(s) > 0
  /\ feed' = [feed EXCEPT ![s] =
               IF Waiting(s) > Backlog THEN Lagged(s) ELSE Forwarded(s)]
  /\ UNCHANGED <<node, starts, db, loop, pool, jammed, cli, published, ghosts>>

-----------------------------------------------------------------------------
Next ==
  \/ InitCommand \/ (\E withKey \in BOOLEAN : Run(withKey)) \/ Kill \/ Interrupt \/ Exit
  \/ Propose \/ CommitMemory \/ CommitFile \/ FailFile
  \/ AnswerHeight
  \/ \E c \in Sends : \/ Ask(c) \/ AnswerAccount(c) \/ Send(c)
                      \/ Refuse(c) \/ Replace(c) \/ Check(c) \/ Insert(c)
  \/ \E s \in Subscribers : Subscribe(s) \/ Forward(s)

Spec == Init /\ [][Next]_vars

\* A free worker takes up what is ready, and what has a worker runs on.
FairSpec ==
  /\ Spec
  /\ WF_vars(Propose) /\ WF_vars(CommitMemory) /\ WF_vars(CommitFile \/ FailFile)
  /\ \A c \in Sends : WF_vars(AnswerAccount(c)) /\ WF_vars(Insert(c))
  /\ WF_vars(Exit)

-----------------------------------------------------------------------------
(* Properties.                                                             *)

\* Every variable has its type; a stopped node has no request in progress.
TypeOK ==
  /\ node \in {"down", "up", "stopping"} /\ starts \in 0..MaxStarts
  /\ store \in Databases /\ file \in Databases
  /\ engine \in {"none", "ready", "proposed", "committing", "hung", "panicked"}
  /\ block \subseteq Sends /\ pool \subseteq Sends /\ jammed \in BOOLEAN
  /\ cli \in [Sends -> Commands]
  /\ \A c \in Sends : node = "down" => cli[c].pc \notin Pending
  /\ published \in Seq(Sends)
  /\ feed \in [Subscribers -> [on : BOOLEAN, start : Nat, got : Seq(Sends)]]
  /\ seen \in Nat /\ wiped \in BOOLEAN

\* Clients read blocks that are not on disk yet, or never will be: a restart
\* takes back what they were answered, by one block at most.
AnswersLoseOneBlock == ~wiped => seen <= file.height + 1

\* A WebSocket client gets each new transaction, in order, from its first
\* message on, as long as it is connected: one that falls behind the backlog is
\* closed and not left with a hole.
FeedWhole ==
  \A s \in Subscribers : \A i \in 1..Len(feed[s].got) :
    feed[s].got[i] = published[feed[s].start + i]

\* A transaction that is in the pool before the validator makes its block is
\* executed in it, unless the mempool jams or the node stops first, or the block
\* has no room for it beside the others it takes.  (What is left out, or accepted
\* later, waits for a restart, which forgets it.)
FirstBlockTakesWhatFits ==
  \A c \in Sends :
    c \in pool /\ engine = "ready" /\ Proposes(store.height + 1)
      ~> \/ c \in store.executed \/ jammed \/ node # "up"
         \/ engine # "ready" /\ c \notin block /\ ~Fits(c, block)

\* The hanging loop does not keep accounts from being read: as long as the node
\* is up, requests are answered until all other workers hang in sendTransaction.
ReadsAnswered ==
  \A c \in Sends :
    cli[c].pc = "asking"
      ~> \/ cli[c].pc # "asking" \/ node # "up"
         \/ Cardinality(HungSends) >= Workers - 1
=============================================================================
