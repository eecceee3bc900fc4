--------------------------- MODULE ConsensusEngine ---------------------------
(***************************************************************************)
(* aura-consensus: one ConsensusEngine per validator, driven by one task   *)
(* (the block production loop of aura-node), over a network that may       *)
(* delay, reorder, repeat and lose what handlers return.  Every validator  *)
(* is honest; one may be stopped and started at any time, and its database *)
(* write may fail.  Each action is one handler call with all the calls     *)
(* nested in it.                                                           *)
(*                                                                         *)
(* The locks of the engine are parking_lot's, which are not reentrant:     *)
(* handle_precommit clears `prevotes` and `precommits` at its end while    *)
(* its own caller chain still holds a guard on one of them, so a handler   *)
(* that forms a quorum certificate stores the block and never returns.     *)
(***************************************************************************)
EXTENDS Integers, FiniteSets

CONSTANTS
  Validators,     \* the active validators, the same at every node
  PowerOf,        \* PowerOf[S]: the voting power of the validators in S
  Proposer,       \* Proposer[h]: what select_proposer(h, 0, .) answers
  MaxHeight,      \* bound: the highest block height
  Variants,       \* bound: blocks of one height that differ in timestamp
  MaxRestarts,    \* bound: restarts of all nodes together
  DiskResults,    \* BOOLEAN, or {TRUE} when no database write fails
  NoBlock, NoVote \* none

Heights == 1..MaxHeight
Blocks == [height : Heights, variant : Variants]

VoteTypes == {"PreVote", "PreCommit"}

\* A signed Vote; its round is always 0.
Votes == [type : VoteTypes, from : Validators, block : Blocks, height : 1..MaxHeight + 1]

ASSUME EngineAssumption ==
  /\ MaxHeight \in Nat \ {0}
  /\ Proposer \in [Heights -> Validators]
  /\ MaxRestarts \in Nat
  /\ DiskResults \in SUBSET BOOLEAN
  /\ NoBlock \notin Blocks /\ NoVote \notin Votes

\* Voting power is a sum over validators.
ASSUME PowerAssumption ==
  /\ PowerOf \in [SUBSET Validators -> Nat]
  /\ PowerOf[{}] = 0
  /\ \A S, T \in SUBSET Validators :
       PowerOf[S \cup T] + PowerOf[S \cap T] = PowerOf[S] + PowerOf[T]

VARIABLES
  eng,        \* eng[v]: the fields of v's ConsensusEngine
  chain,      \* chain[v]: the blocks in v's StateDB: [latest, at]
  proposals,  \* blocks create_proposal has returned
  released,   \* votes the handlers have returned
  signed,     \* ghost: votes ever signed, returned or not
  restarts    \* how many restarts there were

vars == <<eng, chain, proposals, released, signed, restarts>>

\* state tells why an engine's task has stopped, if it has: "hung" on a lock,
\* "failed" at the expect of commit_block, "orphan" at that of
\* get_block_by_height.
Engines ==
  [height     : 1..MaxHeight + 2,
   step       : {"NewRound", "Propose", "PreVote", "PreCommit", "Commit"},
   proposed   : Blocks \cup {NoBlock},
   prevotes   : SUBSET Votes,
   precommits : SUBSET Votes,
   state      : {"running", "hung", "failed", "orphan"}]

Chains == [latest : 0..MaxHeight, at : [Heights -> Blocks \cup {NoBlock}]]

Running(v) == eng[v].state = "running"

\* ConsensusEngine::new over a database.
NewEngine(c) ==
  [height |-> c.latest + 1, step |-> "NewRound", proposed |-> NoBlock,
   prevotes |-> {}, precommits |-> {}, state |-> "running"]

EmptyChain == [latest |-> 0, at |-> [h \in Heights |-> NoBlock]]

Init ==
  /\ eng = [v \in Validators |-> NewEngine(EmptyChain)]
  /\ chain = [v \in Validators |-> EmptyChain]
  /\ proposals = {}
  /\ released = {}
  /\ signed = {}
  /\ restarts = 0

-----------------------------------------------------------------------------
(* Votes.                                                                  *)

\* One vote per validator and block hash is kept; height, round and type are
\* not looked at.
AddVote(votes, vote) ==
  IF \E w \in votes : w.from = vote.from /\ w.block = vote.block
    THEN votes ELSE votes \cup {vote}

\* A mutated form of Signers, which AccountableSafety and ForkConvicts must
\* notice: votes for other blocks are counted in.
SignersOfAny(votes, b) == {w.from : w \in votes}

Signers(votes, b) == {w.from : w \in {x \in votes : x.block = b}}

\* A mutated form of Quorum, which PrecommitBacked must notice: more than one
\* third.
QuorumOneThird(S) == 3 * PowerOf[S] > PowerOf[Validators]

\* (vote_power as u128) * 3 > (total_power as u128) * 2
Quorum(S) == 3 * PowerOf[S] > 2 * PowerOf[Validators]

Vote(type, v, b, h) == [type |-> type, from |-> v, block |-> b, height |-> h]

\* commit_block: no check of the height against the latest one.
StoreBlock(c, b) == [latest |-> b.height, at |-> [c.at EXCEPT ![b.height] = b]]

-----------------------------------------------------------------------------
(* The handlers, as functions of the engine e and database c they run on.  *)
(* A result is [eng, chain, vote]; vote is the precommit signed on the     *)
(* way, if any.  stored tells whether the database write succeeds.         *)

\* handle_precommit.  At a quorum: store the block if it is the one proposed,
\* advance, and hang in prevotes.clear() (called from handle_prevote, whose
\* guard is held) or, after it, in precommits.clear().
AfterPrecommit(e, c, vote, nested, stored) ==
  LET votes  == AddVote(e.precommits, vote)
      quorum == Quorum(Signers(votes, vote.block)) /\ e.step # "Commit"
      match  == e.proposed = vote.block
      added  == [e EXCEPT !.precommits = votes]
  IN IF ~quorum
       THEN [eng |-> added, chain |-> c]
     ELSE IF match /\ ~stored
       THEN [eng |-> [added EXCEPT !.step = "Commit", !.state = "failed"], chain |-> c]
       ELSE [eng |-> [added EXCEPT !.height = @ + 1, !.step = "NewRound",
                        !.proposed = NoBlock, !.state = "hung",
                        !.prevotes = IF nested THEN @ ELSE {}],
             chain |-> IF match THEN StoreBlock(c, e.proposed) ELSE c]

\* handle_prevote, with the precommit it casts and counts itself.
AfterPrevote(v, e, c, vote, stored) ==
  LET votes  == AddVote(e.prevotes, vote)
      added  == [e EXCEPT !.prevotes = votes]
      cast   == Vote("PreCommit", v, vote.block, e.height)
      next   == AfterPrecommit([added EXCEPT !.step = "PreCommit"], c, cast, TRUE, stored)
  IN IF Quorum(Signers(votes, vote.block)) /\ e.step = "PreVote"
       THEN [eng |-> next.eng, chain |-> next.chain, vote |-> cast]
       ELSE [eng |-> added, chain |-> c, vote |-> NoVote]

\* handle_proposal, for a block of the current height: the own prevote goes
\* through handle_prevote.
AfterProposal(v, e, c, b, stored) ==
  AfterPrevote(v, [e EXCEPT !.proposed = b, !.step = "PreVote"], c,
               Vote("PreVote", v, b, e.height), stored)

\* A handler's result becomes the state; what it returns is released unless
\* the task has stopped in it.
Returns(v, result, cast, out) ==
  /\ eng' = [eng EXCEPT ![v] = result.eng]
  /\ chain' = [chain EXCEPT ![v] = result.chain]
  /\ signed' = signed \cup cast
  /\ released' = IF result.eng.state = "running" THEN released \cup out ELSE released
  /\ UNCHANGED <<proposals, restarts>>

\* A mutated form of Cast, which TypeOK must notice: an absent vote is sent.
CastAlways(vote) == {vote}

\* The precommit a handler signed on the way, if any.
Cast(vote) == {vote} \ {NoVote}

-----------------------------------------------------------------------------
(* Mutated forms of the actions below: each is a bug the real one does not *)
(* have.                                                                   *)

\* ChainExtends: the proposal's height is not compared with the engine's.
HandleProposalAnyHeight(v, b) ==
  /\ Running(v) /\ b \in proposals
  /\ \E stored \in DiskResults :
       LET r == AfterProposal(v, eng[v], chain[v], b, stored) IN
         Returns(v, r, {Vote("PreVote", v, b, eng[v].height)} \cup Cast(r.vote),
                 {Vote("PreVote", v, b, eng[v].height)})

\* CommitBacked: prevotes count as precommits.
HandlePrecommitAnyType(v, vote) ==
  /\ Running(v) /\ vote \in released
  /\ \E stored \in DiskResults :
       Returns(v, AfterPrecommit(eng[v], chain[v], vote, FALSE, stored), {}, {})

\* NoOrphan: an engine starts two above the latest height.
RestartAhead(v) ==
  /\ restarts < MaxRestarts
  /\ restarts' = restarts + 1
  /\ eng' = [eng EXCEPT ![v] = [NewEngine(chain[v]) EXCEPT !.height = @ + 1]]
  /\ UNCHANGED <<chain, proposals, released, signed>>

-----------------------------------------------------------------------------
(* The actions.                                                            *)

\* create_proposal, on each tick of the loop: nothing stops a proposer from
\* proposing again, and the new timestamp makes it another block.
CreateProposal(v) ==
  LET h == eng[v].height IN
  /\ Running(v) /\ h <= MaxHeight /\ Proposer[h] = v
  /\ IF h > 1 /\ chain[v].at[h - 1] = NoBlock
       THEN /\ eng' = [eng EXCEPT ![v].state = "orphan"]
            /\ UNCHANGED proposals
       ELSE \E x \in Variants :
              LET b == [height |-> h, variant |-> x] IN
              /\ eng' = [eng EXCEPT ![v].proposed = b, ![v].step = "Propose"]
              /\ proposals' = proposals \cup {b}
  /\ UNCHANGED <<chain, released, signed, restarts>>

\* A proposal of another height is refused without effect.  The precommit that
\* handle_prevote may return is dropped; the prevote is what is returned.
HandleProposal(v, b) ==
  /\ Running(v) /\ b \in proposals
  /\ b.height = eng[v].height
  /\ \E stored \in DiskResults :
       LET prevote == Vote("PreVote", v, b, eng[v].height)
           r == AfterProposal(v, eng[v], chain[v], b, stored)
       IN Returns(v, r, {prevote} \cup Cast(r.vote), {prevote})

HandlePrevote(v, vote) ==
  /\ Running(v) /\ vote \in released /\ vote.type = "PreVote"
  /\ \E stored \in DiskResults :
       LET r == AfterPrevote(v, eng[v], chain[v], vote, stored) IN
         Returns(v, r, Cast(r.vote), Cast(r.vote))

HandlePrecommit(v, vote) ==
  /\ Running(v) /\ vote \in released /\ vote.type = "PreCommit"
  /\ \E stored \in DiskResults :
       Returns(v, AfterPrecommit(eng[v], chain[v], vote, FALSE, stored), {}, {})

\* The node is stopped and started again: votes and proposal are forgotten.
Restart(v) ==
  /\ restarts < MaxRestarts
  /\ restarts' = restarts + 1
  /\ eng' = [eng EXCEPT ![v] = NewEngine(chain[v])]
  /\ UNCHANGED <<chain, proposals, released, signed>>

Next ==
  \E v \in Validators :
    \/ CreateProposal(v)
    \/ \E b \in Blocks : HandleProposal(v, b)
    \/ \E vote \in released : HandlePrevote(v, vote) \/ HandlePrecommit(v, vote)
    \/ Restart(v)

Spec == Init /\ [][Next]_vars

-----------------------------------------------------------------------------
(* Properties that hold.                                                   *)

\* Every variable has its type: an engine counts only votes that exist, and a
\* database has one block or none at each height.
TypeOK ==
  /\ eng \in [Validators -> Engines]
  /\ chain \in [Validators -> Chains]
  /\ proposals \in SUBSET Blocks
  /\ released \in SUBSET Votes
  /\ signed \in SUBSET Votes
  /\ restarts \in 0..MaxRestarts

\* The validators that signed a vote of this type for block b.
VotersIn(votes, type, b) ==
  {v \in Validators : \E w \in votes : w.type = type /\ w.from = v /\ w.block = b}
Voters(type, b) == VotersIn(signed, type, b)

\* More than two thirds of the power (not Quorum: stated on its own).
TwoThirds(S) == PowerOf[S] + PowerOf[S] + PowerOf[S] > PowerOf[Validators] + PowerOf[Validators]

\* A block in any database was precommitted by validators with more than two
\* thirds of the power, through repeated, reordered and stale votes, restarts
\* and the double counting of the node's own vote.
CommitBacked ==
  \A v \in Validators, h \in Heights :
    chain[v].at[h] # NoBlock => TwoThirds(Voters("PreCommit", chain[v].at[h]))

\* A validator signs a precommit only for a block that validators with more
\* than two thirds of the power prevoted.
PrecommitBacked ==
  \A w \in signed : w.type = "PreCommit" => TwoThirds(Voters("PreVote", w.block))

\* Accountability: if two databases hold different blocks of one height, then
\* validators with more than one third of the power precommitted both.
AccountableSafety ==
  \A v, w \in Validators, h \in Heights :
    LET a == chain[v].at[h]
        b == chain[w].at[h]
    IN a # NoBlock /\ b # NoBlock /\ a # b
         => LET S == Voters("PreCommit", a) \cap Voters("PreCommit", b)
            IN PowerOf[S] + PowerOf[S] + PowerOf[S] > PowerOf[Validators]

\* Two votes that DoubleSignEvidence::verify takes for double signing.
Evidence(p, q) ==
  p.from = q.from /\ p.height = q.height /\ p.type = q.type /\ p.block # q.block

\* A fork can be prosecuted: if two databases hold different blocks of one
\* height, more than one third of the power has signed evidence for it.  The
\* precommits for the two blocks need not do, as a precommit carries the height
\* of the engine and not that of its block.
ForkConvicts ==
  \A v, w \in Validators, h \in Heights :
    LET a == chain[v].at[h]
        b == chain[w].at[h]
        Convicted == {x \in Validators : \E p, q \in signed :
                        /\ p.from = x /\ p.block = a /\ q.block = b /\ Evidence(p, q)}
    IN a # NoBlock /\ b # NoBlock /\ a # b
         => PowerOf[Convicted] + PowerOf[Convicted] + PowerOf[Convicted] > PowerOf[Validators]

\* A database grows by one block of the next height at a time and keeps every
\* block it has, although neither commit_block nor handle_precommit looks at
\* the height.
ChainExtends ==
  [][\A v \in Validators : chain'[v] # chain[v] =>
       /\ chain'[v].latest = chain[v].latest + 1
       /\ \E b \in proposals :
            /\ b.height = chain'[v].latest
            /\ chain'[v].at = [chain[v].at EXCEPT ![b.height] = b]]_vars

\* "previous block must exist": no proposer panics in create_proposal.
NoOrphan == \A v \in Validators : eng[v].state # "orphan"

-----------------------------------------------------------------------------
(* Claims of the repository that the code does not keep.                   *)

\* Honest validators never store different blocks at one height.
Agreement ==
  \A v, w \in Validators, h \in Heights :
    chain[v].at[h] # NoBlock /\ chain[w].at[h] # NoBlock => chain[v].at[h] = chain[w].at[h]
=============================================================================
