--------------------------- MODULE NodeDaemonProofs ---------------------------
(***************************************************************************)
(* For any number of commands, subscribers, workers, starts and blocks:    *)
(* clients are answered at most one block that a restart takes back, and   *)
(* no feed has a hole.                                                     *)
(***************************************************************************)
EXTENDS NodeDaemon, FiniteSetTheorems, TLAPS

\* While a node is up, its memory is one block ahead of its file exactly from
\* the commit in memory to the end of the write, which may never come.
HeightInv ==
  /\ node = "down" => engine = "none"
  /\ node # "down" =>
       store.height = IF engine \in {"committing", "panicked"} THEN file.height + 1
                                                               ELSE file.height
  /\ ~wiped => seen <= file.height + 1

\* What a subscriber has got are published messages.
FeedInv ==
  \A s \in Subscribers :
    /\ feed[s].start + Len(feed[s].got) <= Len(published)
    /\ \A i \in 1..Len(feed[s].got) : feed[s].got[i] = published[feed[s].start + i]

IInv == TypeOK /\ HeightInv /\ FeedInv

-----------------------------------------------------------------------------
(* What the operators return.                                              *)

LEMMA CommandTypes ==
  ASSUME NEW c \in Sends, NEW pc \in {"new", "asking", "asked", "sending", "checked",
                                      "accepted", "refused", "hung", "broken"},
         cli \in [Sends -> Commands], Step(c, pc),
         pc \in Pending => node' # "down",
         \A d \in Sends : node' = "down" => cli[d].pc \notin Pending
  PROVE  /\ cli' \in [Sends -> Commands]
         /\ \A d \in Sends : node' = "down" => cli'[d].pc \notin Pending
BY DEF Step, Commands

LEMMA BrokenType ==
  ASSUME cli \in [Sends -> Commands]
  PROVE  Broken \in [Sends -> Commands] /\ \A c \in Sends : Broken[c].pc \notin Pending
BY DEF Broken, Commands, Pending

\* A block moves the nonces by a number.
LEMMA CommittedType ==
  ASSUME store \in Databases, block \subseteq Sends, CommitMemory
  PROVE  store' \in Databases /\ store'.height = store.height + 1
PROOF
<1>1. ASSUME NEW a \in Senders
      PROVE  Cardinality({c \in block : Sender[c] = a}) \in Nat
  <2>1. IsFiniteSet(Sends) /\ {c \in block : Sender[c] = a} \in SUBSET Sends
    BY DaemonAssumption
  <2>2. IsFiniteSet({c \in block : Sender[c] = a})
    BY <2>1, FS_Subset
  <2> QED BY <2>2, FS_CardinalityType
<1> DEFINE nonces == [a \in Senders |->
                        store.nonce[a] + Cardinality({c \in block : Sender[c] = a})]
<1>2. nonces \in [Senders -> Nat]
  BY <1>1 DEF Databases
<1>3. store' = [store EXCEPT !.height = @ + 1, !.executed = @ \cup block, !.nonce = nonces]
  BY DEF CommitMemory, Databases
<1>4. PICK n \in [Senders -> Nat] :
        store' = [store EXCEPT !.height = @ + 1, !.executed = @ \cup block, !.nonce = n]
  <2> HIDE DEF nonces
  <2> QED BY <1>2, <1>3
<1>5. PICK e \in SUBSET Sends, h \in Nat :
        h = store.height + 1 /\ store' = [store EXCEPT !.height = h, !.executed = e, !.nonce = n]
  <2>1. store.height + 1 \in Nat /\ store.executed \cup block \in SUBSET Sends
    BY DEF Databases
  <2> HIDE DEF nonces
  <2> QED BY <1>4, <2>1, Zenon
<1> QED
  <2> HIDE DEF nonces
  <2> QED BY <1>5 DEF Databases

-----------------------------------------------------------------------------
(* The steps.                                                              *)

LEMMA InitOK == Init => IInv
PROOF
<1> SUFFICES ASSUME Init PROVE IInv
  OBVIOUS
<1>1. store \in Databases /\ file \in Databases /\ file.height = 0 /\ store.height = 0
  BY DEF Init, Databases
<1>2. cli \in [Sends -> Commands] /\ \A c \in Sends : cli[c].pc \notin Pending
  BY DEF Init, NewCommand, Commands, Pending
<1>3. <<>> \in Seq(Sends)
  OBVIOUS
<1>4. feed \in [Subscribers -> [on : BOOLEAN, start : Nat, got : Seq(Sends)]]
  BY <1>3 DEF Init, NoFeed
<1>5. TypeOK
  <2>1. starts \in 0..MaxStarts
    BY DaemonAssumption DEF Init
  <2>2. published \in Seq(Sends)
    BY <1>3 DEF Init
  <2>3. /\ node \in {"down", "up", "stopping"}
        /\ engine \in {"none", "ready", "proposed", "committing", "hung", "panicked"}
        /\ block \subseteq Sends /\ pool \subseteq Sends /\ jammed \in BOOLEAN
        /\ seen \in Nat /\ wiped \in BOOLEAN
    BY DEF Init
  <2> QED BY <1>1, <1>2, <1>4, <2>1, <2>2, <2>3 DEF TypeOK
<1>6. HeightInv
  BY <1>1 DEF Init, HeightInv
<1>7. FeedInv
  BY DEF Init, FeedInv, NoFeed
<1> QED BY <1>5, <1>6, <1>7 DEF IInv

LEMMA FeedQuiet ==
  ASSUME FeedInv, UNCHANGED <<published, feed>>
  PROVE  FeedInv'
BY DEF FeedInv

LEMMA InitCommandOK == ASSUME IInv, InitCommand PROVE IInv'
PROOF
<1>1. TypeOK'
  BY DEF IInv, TypeOK, InitCommand, loop, rpc, Databases, Pending
<1>2. HeightInv'
  <2>1. file.height \in Nat /\ file'.height = 0 /\ seen \in Nat
    BY DEF IInv, TypeOK, InitCommand, Databases
  <2>2. node' = "down" /\ engine' = "none" /\ seen' = seen
    BY DEF IInv, HeightInv, InitCommand, loop
  <2>3. ~wiped' => ~wiped /\ ~(file.height > 0)
    BY Zenon DEF InitCommand
  <2>4. ~wiped => seen <= file.height + 1
    BY DEF IInv, HeightInv
  <2> QED BY <2>1, <2>2, <2>3, <2>4 DEF HeightInv
<1>3. FeedInv'
  BY FeedQuiet DEF IInv, InitCommand, rpc
<1> QED BY <1>1, <1>2, <1>3 DEF IInv

LEMMA RunOK == ASSUME IInv, NEW withKey \in BOOLEAN, Run(withKey) PROVE IInv'
PROOF
<1> DEFINE born == IF file.genesis = "none"
                     THEN [file EXCEPT !.genesis = IF withKey THEN "ours" ELSE "lost"]
                     ELSE file
<1>1. born \in Databases /\ born.height = file.height
  BY DEF IInv, TypeOK, Databases
<1>2. /\ store' = born /\ file' = born /\ node' = "up" /\ starts' = starts + 1
      /\ starts < MaxStarts /\ engine' \in {"ready", "none"}
      /\ UNCHANGED <<block, pool, jammed, cli, published, feed, seen, wiped>>
  BY DEF Run, rpc, ghosts
<1> HIDE DEF born
<1>3. TypeOK'
  BY <1>1, <1>2, DaemonAssumption DEF IInv, TypeOK
<1>4. HeightInv'
  BY <1>1, <1>2 DEF IInv, HeightInv
<1>5. FeedInv'
  BY <1>2, FeedQuiet DEF IInv
<1> QED BY <1>3, <1>4, <1>5 DEF IInv

LEMMA VanishOK == ASSUME IInv, Vanish PROVE IInv'
PROOF
<1>1. TypeOK'
  <2>1. <<>> \in Seq(Sends)
    OBVIOUS
  <2>2. published' \in Seq(Sends)
    BY <2>1 DEF Vanish
  <2>3. feed' \in [Subscribers -> [on : BOOLEAN, start : Nat, got : Seq(Sends)]]
    BY <2>1 DEF Vanish, NoFeed
  <2>4. cli' \in [Sends -> Commands] /\ \A c \in Sends : cli'[c].pc \notin Pending
    BY BrokenType DEF IInv, TypeOK, Vanish
  <2>5. /\ node' = "down" /\ engine' = "none" /\ block' = {} /\ pool' = {} /\ jammed' = FALSE
        /\ UNCHANGED <<starts, store, file, seen, wiped>>
    BY DEF Vanish, db, ghosts
  <2> QED BY <2>2, <2>3, <2>4, <2>5 DEF IInv, TypeOK
<1>2. HeightInv'
  BY DEF IInv, HeightInv, Vanish, db, ghosts
<1>3. FeedInv'
  BY DEF FeedInv, Vanish, NoFeed
<1> QED BY <1>1, <1>2, <1>3 DEF IInv

LEMMA InterruptOK == ASSUME IInv, Interrupt PROVE IInv'
PROOF
<1>1. TypeOK'
  BY DEF IInv, TypeOK, Interrupt, db, loop, rpc, ghosts
<1>2. HeightInv'
  BY DEF IInv, HeightInv, Interrupt, db, loop, ghosts
<1>3. FeedInv'
  BY FeedQuiet DEF IInv, Interrupt, rpc
<1> QED BY <1>1, <1>2, <1>3 DEF IInv

LEMMA ProposeOK == ASSUME IInv, Propose PROVE IInv'
PROOF
<1>1. TypeOK'
  BY DEF IInv, TypeOK, Propose, db, rpc, ghosts, Harvests
<1>2. HeightInv'
  BY DEF IInv, HeightInv, Propose, db, ghosts, WorkerFree
<1>3. FeedInv'
  BY FeedQuiet DEF IInv, Propose, rpc
<1> QED BY <1>1, <1>2, <1>3 DEF IInv

LEMMA CommitMemoryOK == ASSUME IInv, CommitMemory PROVE IInv'
PROOF
<1>1. /\ store' \in Databases /\ store'.height = store.height + 1
      /\ engine = "proposed" /\ engine' = "committing" /\ node # "down"
      /\ UNCHANGED <<node, starts, file, block, pool, jammed, cli, published, feed, seen, wiped>>
  BY CommittedType DEF IInv, TypeOK, CommitMemory, rpc, ghosts
<1>2. TypeOK'
  BY <1>1 DEF IInv, TypeOK
<1>3. HeightInv'
  BY <1>1 DEF IInv, HeightInv
<1>4. FeedInv'
  BY <1>1, FeedQuiet DEF IInv
<1> QED BY <1>2, <1>3, <1>4 DEF IInv

LEMMA CommitFileOK == ASSUME IInv, CommitFile PROVE IInv'
PROOF
<1>1. /\ file' = store /\ pool' \in SUBSET Sends /\ jammed' \in BOOLEAN
      /\ engine = "committing" /\ engine' = "hung" /\ node # "down"
      /\ UNCHANGED <<node, starts, store, block, cli, published, feed, seen, wiped>>
  BY DEF IInv, TypeOK, CommitFile, rpc, ghosts
<1>2. TypeOK'
  BY <1>1 DEF IInv, TypeOK
<1>3. HeightInv'
  BY <1>1 DEF IInv, TypeOK, HeightInv, Databases
<1>4. FeedInv'
  BY <1>1, FeedQuiet DEF IInv
<1> QED BY <1>2, <1>3, <1>4 DEF IInv

LEMMA FailFileOK == ASSUME IInv, FailFile PROVE IInv'
PROOF
<1>1. TypeOK'
  BY DEF IInv, TypeOK, FailFile, db, rpc, ghosts, Panicked
<1>2. HeightInv'
  BY DEF IInv, HeightInv, FailFile, db, ghosts, Panicked
<1>3. FeedInv'
  BY FeedQuiet DEF IInv, FailFile, rpc
<1> QED BY <1>1, <1>2, <1>3 DEF IInv

LEMMA AnswerHeightOK == ASSUME IInv, AnswerHeight PROVE IInv'
PROOF
<1>1. TypeOK'
  BY DEF IInv, TypeOK, AnswerHeight, db, loop, rpc, Databases
<1>2. HeightInv'
  BY DEF IInv, TypeOK, HeightInv, AnswerHeight, db, loop, WorkerFree, Databases
<1>3. FeedInv'
  BY FeedQuiet DEF IInv, AnswerHeight, rpc
<1> QED BY <1>1, <1>2, <1>3 DEF IInv

\* A client's step, but for Insert.
LEMMA ClientOK ==
  ASSUME IInv, NEW c \in Sends,
         Ask(c) \/ AnswerAccount(c) \/ Send(c) \/ Refuse(c) \/ Replace(c) \/ Check(c)
  PROVE  IInv'
PROOF
<1>1. UNCHANGED <<node, starts, store, file, engine, block, published, feed, seen, wiped>>
  BY DEF Ask, AnswerAccount, Send, Request, Refuse, Replace, Check, db, loop, ghosts
<1>2. pool' \in SUBSET Sends /\ jammed' \in BOOLEAN
  BY DEF Ask, AnswerAccount, Send, Request, Refuse, Replace, Check, IInv, TypeOK
<1>3. /\ cli' \in [Sends -> Commands]
      /\ \A d \in Sends : node' = "down" => cli'[d].pc \notin Pending
  <2>0. cli \in [Sends -> Commands] /\ \A d \in Sends : node' = "down" => cli[d].pc \notin Pending
    BY <1>1 DEF IInv, TypeOK
  <2>1. CASE Ask(c) \/ Send(c)
    <3>1. PICK pc \in {"asking", "sending", "broken"} :
            Step(c, pc) /\ (pc \in Pending => node = "up")
      BY <2>1 DEF Ask, Send, Request, Pending
    <3> QED BY <1>1, <2>0, <3>1, CommandTypes
  <2>2. CASE Refuse(c) \/ Replace(c) \/ Check(c)
    <3>1. PICK pc \in {"refused", "hung", "checked"} : Step(c, pc)
      BY <2>2 DEF Refuse, Replace, Check
    <3>2. node # "down"
      BY <2>2 DEF Refuse, Replace, Check, WorkerFree
    <3> QED BY <1>1, <2>0, <3>1, <3>2, CommandTypes
  <2>3. CASE AnswerAccount(c)
    <3>1. store.nonce[Sender[c]] + 1 \in Nat
      BY DaemonAssumption DEF IInv, TypeOK, Databases
    <3>2. node # "down"
      BY <2>3 DEF AnswerAccount, WorkerFree
    <3> QED BY <1>1, <2>0, <2>3, <3>1, <3>2 DEF AnswerAccount, Commands, Pending
  <2> QED BY <2>1, <2>2, <2>3
<1>4. TypeOK'
  BY <1>1, <1>2, <1>3 DEF IInv, TypeOK
<1>5. HeightInv'
  BY <1>1 DEF IInv, HeightInv
<1>6. FeedInv'
  BY <1>1, FeedQuiet DEF IInv
<1> QED BY <1>4, <1>5, <1>6 DEF IInv

LEMMA InsertOK == ASSUME IInv, NEW c \in Sends, Insert(c) PROVE IInv'
PROOF
<1>1. /\ UNCHANGED <<node, starts, store, file, engine, block, jammed, feed, seen, wiped>>
      /\ node # "down" /\ pool' \in SUBSET Sends
  BY DEF Insert, db, loop, ghosts, IInv, TypeOK
<1>2. published' = published \/ published' = Append(published, c)
  BY DEF Insert
<1>3. cli' \in [Sends -> Commands] /\ \A d \in Sends : node' = "down" => cli'[d].pc \notin Pending
  <2>1. PICK pc \in {"hung", "accepted"} : Step(c, pc)
    BY DEF Insert
  <2> QED BY <1>1, <2>1, CommandTypes DEF IInv, TypeOK
<1>4. TypeOK'
  <2>1. published' \in Seq(Sends)
    BY <1>2 DEF IInv, TypeOK
  <2> QED BY <1>1, <1>3, <2>1 DEF IInv, TypeOK
<1>5. HeightInv'
  BY <1>1 DEF IInv, HeightInv
<1>6. FeedInv'
  <2>1. CASE published' = published
    BY <1>1, <2>1, FeedQuiet DEF IInv
  <2>2. CASE published' = Append(published, c)
    <3> SUFFICES ASSUME NEW s \in Subscribers
                 PROVE  /\ feed[s].start + Len(feed[s].got) <= Len(published')
                        /\ \A i \in 1..Len(feed[s].got) :
                             feed[s].got[i] = published'[feed[s].start + i]
      BY <1>1 DEF FeedInv
    <3>1. /\ feed[s].start \in Nat /\ Len(feed[s].got) \in Nat
          /\ published \in Seq(Sends) /\ Len(published) \in Nat
          /\ feed[s].start + Len(feed[s].got) <= Len(published)
          /\ \A i \in 1..Len(feed[s].got) : feed[s].got[i] = published[feed[s].start + i]
      BY DEF IInv, TypeOK, FeedInv
    <3>2. \A j \in 1..Len(published) : published'[j] = published[j]
      BY <2>2, <3>1
    <3>3. Len(published') = Len(published) + 1
      BY <2>2, <3>1
    <3>4. \A i \in 1..Len(feed[s].got) : feed[s].start + i \in 1..Len(published)
      BY <3>1
    <3>5. feed[s].start + Len(feed[s].got) <= Len(published')
      BY <3>1, <3>3
    <3>6. ASSUME NEW i \in 1..Len(feed[s].got)
          PROVE  feed[s].got[i] = published'[feed[s].start + i]
      BY <3>1, <3>2, <3>4, <3>6
    <3> QED BY <3>5, <3>6
  <2> QED BY <1>2, <2>1, <2>2
<1> QED BY <1>4, <1>5, <1>6 DEF IInv

LEMMA FeedStepOK ==
  ASSUME IInv, NEW s \in Subscribers, Subscribe(s) \/ Forward(s)
  PROVE  IInv'
PROOF
<1>1. UNCHANGED <<node, starts, store, file, engine, block, pool, jammed, cli, published, seen, wiped>>
  BY DEF Subscribe, Forward, db, loop, ghosts
<1> DEFINE f == feed[s]
<1>2. /\ f \in [on : BOOLEAN, start : Nat, got : Seq(Sends)] /\ f.start \in Nat
      /\ f.got \in Seq(Sends) /\ Len(f.got) \in Nat
      /\ published \in Seq(Sends) /\ Len(published) \in Nat
      /\ f.start + Len(f.got) <= Len(published)
      /\ \A i \in 1..Len(f.got) : f.got[i] = published[f.start + i]
  BY DEF IInv, TypeOK, FeedInv
<1>3. PICK g \in [on : BOOLEAN, start : Nat, got : Seq(Sends)] :
        /\ feed' = [feed EXCEPT ![s] = g]
        /\ g.start + Len(g.got) <= Len(published)
        /\ \A i \in 1..Len(g.got) : g.got[i] = published[g.start + i]
  <2>1. CASE Subscribe(s)
    <3> DEFINE g == [on |-> TRUE, start |-> Len(published), got |-> <<>>]
    <3>1. feed' = [feed EXCEPT ![s] = g]
      BY <2>1 DEF Subscribe
    <3>2. g \in [on : BOOLEAN, start : Nat, got : Seq(Sends)]
      BY <1>2
    <3>3. g.start + Len(g.got) <= Len(published) /\ \A i \in 1..Len(g.got) : FALSE
      BY <1>2
    <3> QED BY <3>1, <3>2, <3>3
  <2>2. CASE Forward(s) /\ Waiting(s) > Backlog
    <3> DEFINE g == [f EXCEPT !.on = FALSE]
    <3>1. feed' = [feed EXCEPT ![s] = g]
      BY <2>2 DEF Forward, Lagged
    <3>2. /\ g \in [on : BOOLEAN, start : Nat, got : Seq(Sends)]
          /\ g.start = f.start /\ g.got = f.got
      BY <1>2
    <3> HIDE DEF g
    <3> QED BY <1>2, <3>1, <3>2
  <2>3. CASE Forward(s) /\ ~(Waiting(s) > Backlog)
    <3> DEFINE n == Len(f.got)
               x == published[f.start + n + 1]
               g == [f EXCEPT !.got = Append(@, x)]
    <3>1. Len(published) - f.start - n > 0
      BY <2>3 DEF Forward, Waiting
    <3>2. f.start + n + 1 \in 1..Len(published) /\ x \in Sends
      BY <1>2, <3>1
    <3>3. feed' = [feed EXCEPT ![s] = g]
      BY <2>3 DEF Forward, Forwarded
    <3>a. Append(f.got, x) \in Seq(Sends)
      BY <1>2, <3>2
    <3>b. x = published[f.start + n + 1]
      OBVIOUS
    <3> HIDE DEF x, n, f
    <3>4. /\ g \in [on : BOOLEAN, start : Nat, got : Seq(Sends)]
          /\ g.start = f.start /\ g.got = Append(f.got, x)
      BY <1>2, <3>a
    <3> HIDE DEF g
    <3> USE DEF n
    <3>5. /\ Len(g.got) = n + 1 /\ g.got[n + 1] = x
          /\ \A i \in 1..n : g.got[i] = f.got[i]
      BY <1>2, <3>4
    <3>6. g.start + Len(g.got) <= Len(published)
      BY <1>2, <3>2, <3>4, <3>5
    <3>7. ASSUME NEW i \in 1..Len(g.got) PROVE g.got[i] = published[g.start + i]
      <4>1. CASE i \in 1..n
        BY <1>2, <3>4, <3>5, <4>1
      <4>2. CASE i = n + 1
        BY <1>2, <3>4, <3>5, <3>b, <4>2
      <4> QED BY <1>2, <3>5, <4>1, <4>2
    <3> QED BY <3>3, <3>4, <3>6, <3>7
  <2> QED BY <2>1, <2>2, <2>3
<1>4. TypeOK'
  BY <1>1, <1>3 DEF IInv, TypeOK
<1>5. HeightInv'
  BY <1>1 DEF IInv, HeightInv
<1>6. FeedInv'
  BY <1>1, <1>3 DEF IInv, TypeOK, FeedInv
<1> QED BY <1>4, <1>5, <1>6 DEF IInv

LEMMA StepOK == IInv /\ [Next]_vars => IInv'
PROOF
<1> SUFFICES ASSUME IInv, [Next]_vars PROVE IInv'
  OBVIOUS
<1>1. CASE Next
  BY <1>1, InitCommandOK, RunOK, VanishOK, InterruptOK, ProposeOK, CommitMemoryOK, CommitFileOK,
     FailFileOK, AnswerHeightOK, ClientOK, InsertOK, FeedStepOK DEF Next, Kill, Exit
<1>2. CASE UNCHANGED vars
  <2>1. TypeOK'
    BY <1>2 DEF vars, db, loop, rpc, ghosts, IInv, TypeOK
  <2>2. HeightInv' /\ FeedInv'
    BY <1>2 DEF vars, db, loop, rpc, ghosts, IInv, HeightInv, FeedInv
  <2> QED BY <2>1, <2>2 DEF IInv
<1> QED BY <1>1, <1>2

LEMMA Invariance == Spec => []IInv
BY InitOK, StepOK, PTL DEF Spec

-----------------------------------------------------------------------------
(* The theorems.                                                           *)

\* The variables keep their types, and a stopped node has no client waiting.
THEOREM TypeCorrect == Spec => []TypeOK
BY Invariance, PTL DEF IInv

\* Clients read blocks from memory: a kill, a failed write or a panic takes back
\* one block at most of what they were answered.
THEOREM AnswersAlwaysLoseOneBlock == Spec => []AnswersLoseOneBlock
PROOF
<1>1. IInv => AnswersLoseOneBlock
  BY DEF IInv, HeightInv, AnswersLoseOneBlock
<1> QED BY <1>1, Invariance, PTL

\* A WebSocket client has each message of the feed from its first one on.
THEOREM FeedAlwaysWhole == Spec => []FeedWhole
PROOF
<1>1. IInv => FeedWhole
  BY DEF IInv, FeedInv, FeedWhole
<1> QED BY <1>1, Invariance, PTL
=============================================================================
