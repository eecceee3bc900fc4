------------------------ MODULE ConsensusEngineProofs ------------------------
(***************************************************************************)
(* For any validators, voting powers, proposer schedule, number of         *)
(* restarts and pattern of failed writes: every stored block is backed by  *)
(* more than two thirds of the power, every precommit by as many prevotes, *)
(* a fork implicates more than one third, and databases grow one height at *)
(* a time.  The handlers are functions of one engine and its database, so  *)
(* the inductive invariant is a predicate on that pair (EngineInv and      *)
(* ChainInv), shown to be kept by each handler for itself.                 *)
(***************************************************************************)
EXTENDS ConsensusEngine, TLAPS

\* An engine e over database c when P are the proposals and S the votes
\* signed so far: it counts only signed votes of the right type, and while it
\* runs it is at the height after its database's, and so is its proposal.
EngineInv(e, c, P, S) ==
  /\ \A w \in e.prevotes : w \in S /\ w.type = "PreVote"
  /\ \A w \in e.precommits : w \in S /\ w.type = "PreCommit"
  /\ e.state = "running" =>
       /\ e.height = c.latest + 1
       /\ e.step # "Commit"
       /\ e.proposed # NoBlock => e.proposed \in P /\ e.proposed.height = e.height
  /\ e.state # "orphan"

\* A database has no gap and only blocks with a quorum of precommits, each at
\* its height.
ChainInv(c, S) ==
  /\ \A h \in Heights : c.at[h] # NoBlock => c.at[h].height = h
  /\ \A h \in Heights : h <= c.latest => c.at[h] # NoBlock
  /\ \A h \in Heights :
       c.at[h] # NoBlock => TwoThirds(VotersIn(S, "PreCommit", c.at[h]))

\* Each precommit among the votes S has a quorum of prevotes there, and each
\* prevote is for a block of its height.
Backed(S) ==
  /\ \A w \in S : w.type = "PreVote" => w.block.height = w.height
  /\ \A w \in S : w.type = "PreCommit" => TwoThirds(VotersIn(S, "PreVote", w.block))

\* Database d is c, or c and one proposed block of the next height.
Extends(c, d, P) ==
  d # c => /\ d.latest = c.latest + 1
           /\ \E b \in P : /\ b.height = d.latest
                           /\ d.at = [c.at EXCEPT ![b.height] = b]

IInv ==
  /\ TypeOK
  /\ released \subseteq signed
  /\ \A v \in Validators : EngineInv(eng[v], chain[v], proposals, signed)
  /\ \A v \in Validators : ChainInv(chain[v], signed)
  /\ Backed(signed)

-----------------------------------------------------------------------------
(* Voting power.                                                           *)

\* Powers are natural numbers.
LEMMA PowerType == \A S \in SUBSET Validators : PowerOf[S] \in Nat
BY PowerAssumption

\* More voters have no less power.
LEMMA PowerMonotone ==
  ASSUME NEW S \in SUBSET Validators, NEW T \in SUBSET Validators, S \subseteq T
  PROVE  PowerOf[S] <= PowerOf[T]
<1> DEFINE D == T \ S
<1>1. D \in SUBSET Validators /\ S \cup D = T /\ S \cap D = {}
  OBVIOUS
<1>2. PowerOf[S \cup D] + PowerOf[S \cap D] = PowerOf[S] + PowerOf[D]
  BY <1>1, PowerAssumption
<1> HIDE DEF D
<1>3. PowerOf[T] + PowerOf[{}] = PowerOf[S] + PowerOf[D]
  BY <1>1, <1>2
<1>4. PowerOf[S] \in Nat /\ PowerOf[T] \in Nat /\ PowerOf[D] \in Nat /\ PowerOf[{}] = 0
  BY <1>1, PowerType, PowerAssumption
<1> QED BY <1>3, <1>4

\* What is more than two thirds stays so with more voters.
LEMMA TwoThirdsMonotone ==
  ASSUME NEW S \in SUBSET Validators, NEW T \in SUBSET Validators, S \subseteq T,
         TwoThirds(S)
  PROVE  TwoThirds(T)
BY PowerMonotone, PowerType DEF TwoThirds

\* Two sets of more than two thirds share more than one third.
LEMMA QuorumsIntersect ==
  ASSUME NEW S \in SUBSET Validators, NEW T \in SUBSET Validators,
         TwoThirds(S), TwoThirds(T)
  PROVE  PowerOf[S \cap T] + PowerOf[S \cap T] + PowerOf[S \cap T] > PowerOf[Validators]
<1> DEFINE U == S \cup T
           I == S \cap T
<1>1. U \in SUBSET Validators /\ I \in SUBSET Validators
  OBVIOUS
<1>2. PowerOf[U] + PowerOf[I] = PowerOf[S] + PowerOf[T]
  BY PowerAssumption
<1>3. PowerOf[U] <= PowerOf[Validators]
  BY <1>1, PowerMonotone
<1> HIDE DEF U, I
<1>4. PowerOf[I] + PowerOf[I] + PowerOf[I] > PowerOf[Validators]
  BY <1>1, <1>2, <1>3, PowerType DEF TwoThirds
<1> QED BY <1>4 DEF I

\* The test of the handlers is that of the properties.
LEMMA QuorumIsTwoThirds ==
  ASSUME NEW S \in SUBSET Validators, Quorum(S)
  PROVE  TwoThirds(S)
BY PowerType DEF Quorum, TwoThirds

-----------------------------------------------------------------------------
(* Votes.                                                                  *)

\* Voters are validators.
LEMMA VotersType ==
  \A S, type, b : VotersIn(S, type, b) \in SUBSET Validators
BY DEF VotersIn

\* More signatures, more voters.
LEMMA VotersMonotone ==
  ASSUME NEW S, NEW T, S \subseteq T, NEW type, NEW b,
         TwoThirds(VotersIn(S, type, b))
  PROVE  TwoThirds(VotersIn(T, type, b))
<1>1. VotersIn(S, type, b) \subseteq VotersIn(T, type, b)
  BY DEF VotersIn
<1> QED BY <1>1, VotersType, TwoThirdsMonotone

\* A quorum counted by an engine is one of signatures.
LEMMA CountedQuorum ==
  ASSUME NEW S \in SUBSET Votes, NEW V \in SUBSET S, NEW type,
         \A w \in V : w.type = type,
         NEW b, Quorum(Signers(V, b))
  PROVE  TwoThirds(VotersIn(S, type, b))
<1>1. Signers(V, b) \subseteq VotersIn(S, type, b)
  BY DEF Signers, VotersIn, Votes
<1>2. Signers(V, b) \in SUBSET Validators
  BY <1>1, VotersType
<1> QED BY <1>1, <1>2, VotersType, QuorumIsTwoThirds, TwoThirdsMonotone

\* The invariants of an engine and of a database keep when more is proposed
\* and signed.
LEMMA MoreSigned ==
  ASSUME NEW e, NEW c, NEW P, NEW Q, P \subseteq Q,
         NEW S \in SUBSET Votes, NEW T \in SUBSET Votes, S \subseteq T,
         EngineInv(e, c, P, S), ChainInv(c, S)
  PROVE  EngineInv(e, c, Q, T) /\ ChainInv(c, T)
<1>1. EngineInv(e, c, Q, T)
  BY DEF EngineInv
<1>2. ChainInv(c, T)
  BY VotersMonotone DEF ChainInv
<1> QED BY <1>1, <1>2

\* What Vote makes is a vote.
LEMMA VoteIsVote ==
  ASSUME NEW type \in VoteTypes, NEW v \in Validators, NEW b \in Blocks,
         NEW h \in 1..MaxHeight + 1
  PROVE  /\ Vote(type, v, b, h) \in Votes
         /\ Vote(type, v, b, h) # NoVote
         /\ Vote(type, v, b, h).type = type
         /\ Vote(type, v, b, h).block = b
BY EngineAssumption DEF Vote, Votes

-----------------------------------------------------------------------------
(* The handlers.                                                           *)

\* A block of the next height keeps a database whole.
LEMMA StoreKeeps ==
  ASSUME NEW c \in Chains, NEW b \in Blocks, NEW S,
         b.height = c.latest + 1, ChainInv(c, S),
         TwoThirds(VotersIn(S, "PreCommit", b))
  PROVE  StoreBlock(c, b) \in Chains /\ ChainInv(StoreBlock(c, b), S)
<1> DEFINE d == StoreBlock(c, b)
<1>1. b.height \in Heights /\ c.latest \in Nat
  BY EngineAssumption DEF Blocks, Chains, Heights
<1>2. d.latest = b.height /\ d.at = [c.at EXCEPT ![b.height] = b]
  BY DEF StoreBlock
<1>3. d \in Chains
  BY <1>1, EngineAssumption DEF StoreBlock, Chains, Heights
<1>4. \A h \in Heights : d.at[h] = IF h = b.height THEN b ELSE c.at[h]
  BY <1>1, <1>2 DEF Chains
<1>5. \A h \in Heights : h <= d.latest => d.at[h] # NoBlock
  BY <1>1, <1>2, <1>4, EngineAssumption DEF ChainInv, Heights
<1>6. \A h \in Heights :
        d.at[h] # NoBlock => TwoThirds(VotersIn(S, "PreCommit", d.at[h]))
  BY <1>4 DEF ChainInv
<1>7. \A h \in Heights : d.at[h] # NoBlock => d.at[h].height = h
  BY <1>4 DEF ChainInv
<1> QED BY <1>3, <1>5, <1>6, <1>7 DEF ChainInv

\* handle_precommit keeps the invariants, and stores nothing but the proposed
\* block, at the next height.
LEMMA PrecommitKeeps ==
  ASSUME NEW e \in Engines, NEW c \in Chains, NEW P, NEW S \in SUBSET Votes,
         NEW vote \in S, vote.type = "PreCommit",
         NEW nested \in BOOLEAN, NEW stored \in BOOLEAN,
         e.state = "running", EngineInv(e, c, P, S), ChainInv(c, S)
  PROVE  LET r == AfterPrecommit(e, c, vote, nested, stored) IN
           /\ r.eng \in Engines /\ r.chain \in Chains
           /\ EngineInv(r.eng, r.chain, P, S) /\ ChainInv(r.chain, S)
           /\ Extends(c, r.chain, P)
<1> DEFINE r      == AfterPrecommit(e, c, vote, nested, stored)
           votes  == AddVote(e.precommits, vote)
           quorum == Quorum(Signers(votes, vote.block)) /\ e.step # "Commit"
           match  == e.proposed = vote.block
           added  == [e EXCEPT !.precommits = votes]
           after  == [added EXCEPT !.height = @ + 1, !.step = "NewRound",
                        !.proposed = NoBlock, !.state = "hung",
                        !.prevotes = IF nested THEN @ ELSE {}]
<1>1. votes \in SUBSET Votes /\ \A w \in votes : w \in S /\ w.type = "PreCommit"
  BY DEF AddVote, EngineInv, Engines
<1>2. added \in Engines /\ EngineInv(added, c, P, S)
  BY <1>1 DEF Engines, EngineInv
<1>3. CASE ~quorum
  <2>1. r = [eng |-> added, chain |-> c]
    BY <1>3 DEF AfterPrecommit
  <2> QED BY <2>1, <1>2 DEF Extends
<1>4. CASE quorum /\ match /\ ~stored
  <2> DEFINE failed == [added EXCEPT !.step = "Commit", !.state = "failed"]
  <2>1. r = [eng |-> failed, chain |-> c]
    BY <1>4 DEF AfterPrecommit
  <2>2. failed \in Engines /\ EngineInv(failed, c, P, S)
    BY <1>1 DEF Engines, EngineInv
  <2> QED BY <2>1, <2>2 DEF Extends
<1>5. CASE quorum /\ ~(match /\ ~stored)
  <2>1. r = [eng |-> after, chain |-> IF match THEN StoreBlock(c, e.proposed) ELSE c]
    BY <1>5 DEF AfterPrecommit
  <2>2. after \in Engines
    <3>1. e.height = c.latest + 1
      BY DEF EngineInv
    <3>2. e.height + 1 \in 1..MaxHeight + 2
      BY <3>1, EngineAssumption DEF Chains
    <3> QED BY <1>1, <3>2 DEF Engines
  <2>3. \A d : EngineInv(after, d, P, S)
    BY <1>1 DEF Engines, EngineInv
  <2>4. CASE ~match
    BY <2>1, <2>2, <2>3, <2>4 DEF Extends
  <2>5. CASE match
    <3> DEFINE b == e.proposed
    <3>1. b \in Blocks /\ b \in P /\ b.height = c.latest + 1
      BY <2>5, EngineAssumption DEF EngineInv, Votes
    <3>2. TwoThirds(VotersIn(S, "PreCommit", b))
      BY <1>1, <1>5, <2>5, CountedQuorum
    <3>3. StoreBlock(c, b) \in Chains /\ ChainInv(StoreBlock(c, b), S)
      BY <3>1, <3>2, StoreKeeps
    <3>4. Extends(c, StoreBlock(c, b), P)
      BY <3>1 DEF Extends, StoreBlock
    <3> QED BY <2>1, <2>2, <2>3, <2>5, <3>3, <3>4
  <2> QED BY <2>4, <2>5
<1> QED BY <1>3, <1>4, <1>5

\* handle_prevote keeps the invariants with the precommit it signs, which the
\* prevotes it counted back.
LEMMA PrevoteKeeps ==
  ASSUME NEW v \in Validators, NEW e \in Engines, NEW c \in Chains, NEW P,
         NEW S \in SUBSET Votes, NEW vote \in S, vote.type = "PreVote",
         NEW stored \in BOOLEAN, e.state = "running",
         EngineInv(e, c, P, S), ChainInv(c, S), Backed(S)
  PROVE  LET r == AfterPrevote(v, e, c, vote, stored)
             T == S \cup Cast(r.vote)
         IN /\ r.eng \in Engines /\ r.chain \in Chains
            /\ T \in SUBSET Votes
            /\ EngineInv(r.eng, r.chain, P, T) /\ ChainInv(r.chain, T) /\ Backed(T)
            /\ Extends(c, r.chain, P)
<1> DEFINE r     == AfterPrevote(v, e, c, vote, stored)
           votes == AddVote(e.prevotes, vote)
           added == [e EXCEPT !.prevotes = votes]
           cast  == Vote("PreCommit", v, vote.block, e.height)
           ready == [added EXCEPT !.step = "PreCommit"]
           next  == AfterPrecommit(ready, c, cast, TRUE, stored)
<1>1. votes \in SUBSET Votes /\ \A w \in votes : w \in S /\ w.type = "PreVote"
  BY DEF AddVote, EngineInv, Engines
<1>2. /\ added \in Engines /\ EngineInv(added, c, P, S)
      /\ ready \in Engines /\ EngineInv(ready, c, P, S) /\ ready.state = "running"
  BY <1>1 DEF Engines, EngineInv
<1>3. CASE ~(Quorum(Signers(votes, vote.block)) /\ e.step = "PreVote")
  <2>1. r = [eng |-> added, chain |-> c, vote |-> NoVote]
    BY <1>3 DEF AfterPrevote
  <2>2. Cast(NoVote) = {}
    BY DEF Cast
  <2> QED BY <2>1, <2>2, <1>2 DEF Extends
<1>4. CASE Quorum(Signers(votes, vote.block)) /\ e.step = "PreVote"
  <2> DEFINE T == S \cup {cast}
  <2>1. r = [eng |-> next.eng, chain |-> next.chain, vote |-> cast]
    BY <1>4 DEF AfterPrevote
  <2>2. vote.block \in Blocks /\ e.height \in 1..MaxHeight + 1
    BY EngineAssumption DEF Votes, EngineInv, Chains
  <2>3. cast \in Votes /\ cast # NoVote /\ cast.type = "PreCommit" /\ cast.block = vote.block
    BY <2>2, VoteIsVote DEF VoteTypes
  <2>4. T \in SUBSET Votes /\ Cast(cast) = {cast}
    BY <2>3 DEF Cast
  <2>5. TwoThirds(VotersIn(S, "PreVote", vote.block))
    BY <1>1, <1>4, CountedQuorum
  <2>6. Backed(T)
    BY <2>3, <2>5, VotersMonotone DEF Backed
  <2>7. EngineInv(ready, c, P, T) /\ ChainInv(c, T)
    BY <1>2, <2>4, MoreSigned
  <2> HIDE DEF cast, ready, next
  <2>8. /\ next.eng \in Engines /\ next.chain \in Chains
        /\ EngineInv(next.eng, next.chain, P, T) /\ ChainInv(next.chain, T)
        /\ Extends(c, next.chain, P)
    BY <1>2, <2>3, <2>4, <2>7, PrecommitKeeps DEF next
  <2> QED BY <2>1, <2>4, <2>6, <2>8
<1> QED BY <1>3, <1>4

-----------------------------------------------------------------------------
(* The steps.                                                              *)

\* What every step does to a validator's database.
Growth == \A v \in Validators : Extends(chain[v], chain'[v], proposals)

\* A handler of v that leads from its engine and database to those of result,
\* signing cast and returning out, is a step of the whole system.
LEMMA ReturnsKeeps ==
  ASSUME IInv, NEW v \in Validators, NEW result, NEW cast, NEW out,
         Returns(v, result, cast, out), out \subseteq cast,
         LET T == signed \cup cast IN
           /\ result.eng \in Engines /\ result.chain \in Chains
           /\ T \in SUBSET Votes
           /\ EngineInv(result.eng, result.chain, proposals, T)
           /\ ChainInv(result.chain, T) /\ Backed(T)
           /\ Extends(chain[v], result.chain, proposals)
  PROVE  IInv' /\ Growth
<1> DEFINE T == signed \cup cast
<1>1. /\ eng' = [eng EXCEPT ![v] = result.eng]
      /\ chain' = [chain EXCEPT ![v] = result.chain]
      /\ signed' = T /\ released' \subseteq released \cup out
      /\ proposals' = proposals /\ restarts' = restarts
  BY DEF Returns
<1>2. eng \in [Validators -> Engines] /\ chain \in [Validators -> Chains]
  BY DEF IInv, TypeOK
<1>3. TypeOK' /\ released' \subseteq signed'
  BY <1>1, <1>2 DEF IInv, TypeOK
<1>4. \A w \in Validators :
        /\ EngineInv(eng'[w], chain'[w], proposals', signed')
        /\ ChainInv(chain'[w], signed')
  <2> SUFFICES ASSUME NEW w \in Validators
               PROVE  /\ EngineInv(eng'[w], chain'[w], proposals, T)
                      /\ ChainInv(chain'[w], T)
    BY <1>1
  <2>1. CASE w = v
    BY <1>1, <1>2, <2>1
  <2>2. CASE w # v
    <3>1. eng'[w] = eng[w] /\ chain'[w] = chain[w]
      BY <1>1, <1>2, <2>2
    <3> QED BY <3>1, MoreSigned DEF IInv, TypeOK
  <2> QED BY <2>1, <2>2
<1>5. Growth
  BY <1>1, <1>2 DEF Growth, Extends
<1> QED BY <1>1, <1>3, <1>4, <1>5 DEF IInv

\* create_proposal: the previous block exists, so only a proposal is added.
LEMMA CreateKeeps ==
  ASSUME IInv, NEW v \in Validators, CreateProposal(v)
  PROVE  IInv' /\ Growth
<1> DEFINE h == eng[v].height
<1>1. /\ eng \in [Validators -> Engines] /\ chain \in [Validators -> Chains]
      /\ EngineInv(eng[v], chain[v], proposals, signed) /\ ChainInv(chain[v], signed)
  BY DEF IInv, TypeOK
<1>2. h = chain[v].latest + 1 /\ h \in Heights
  BY <1>1, EngineAssumption DEF CreateProposal, Running, EngineInv, Chains, Heights
<1>3. ~(h > 1 /\ chain[v].at[h - 1] = NoBlock)
  BY <1>1, <1>2, EngineAssumption DEF ChainInv, Chains, Heights
<1>4. PICK x \in Variants :
        LET b == [height |-> h, variant |-> x] IN
          /\ eng' = [eng EXCEPT ![v].proposed = b, ![v].step = "Propose"]
          /\ proposals' = proposals \cup {b}
  BY <1>3 DEF CreateProposal
<1> DEFINE b == [height |-> h, variant |-> x]
           f == [eng[v] EXCEPT !.proposed = b, !.step = "Propose"]
<1>5. b \in Blocks /\ b.height = h
  BY <1>2 DEF Blocks
<1>6. eng' = [eng EXCEPT ![v] = f] /\ proposals' = proposals \cup {b}
      /\ UNCHANGED <<chain, released, signed, restarts>>
  BY <1>1, <1>4 DEF CreateProposal
<1>7. f \in Engines /\ EngineInv(f, chain[v], proposals', signed)
  BY <1>1, <1>2, <1>5, <1>6 DEF Engines, EngineInv
<1> HIDE DEF b, f, h
<1>8. TypeOK'
  BY <1>5, <1>6, <1>7 DEF IInv, TypeOK
<1>9. \A w \in Validators : EngineInv(eng'[w], chain'[w], proposals', signed')
  <2> SUFFICES ASSUME NEW w \in Validators
               PROVE  EngineInv(eng'[w], chain[w], proposals', signed)
    BY <1>6
  <2>1. CASE w = v
    BY <1>1, <1>6, <1>7, <2>1
  <2>2. CASE w # v
    BY <1>1, <1>6, <2>2, MoreSigned DEF IInv, TypeOK
  <2> QED BY <2>1, <2>2
<1> QED BY <1>6, <1>8, <1>9 DEF IInv, Growth, Extends

\* HandleProposal keeps the invariant (engine.rs:167).
LEMMA ProposalKeeps ==
  ASSUME IInv, NEW v \in Validators, NEW b \in Blocks, HandleProposal(v, b)
  PROVE  IInv' /\ Growth
<1> DEFINE e       == [eng[v] EXCEPT !.proposed = b, !.step = "PreVote"]
           prevote == Vote("PreVote", v, b, eng[v].height)
           S       == signed \cup {prevote}
<1>1. PICK stored \in DiskResults :
        LET r == AfterProposal(v, eng[v], chain[v], b, stored)
        IN Returns(v, r, {prevote} \cup Cast(r.vote), {prevote})
  BY DEF HandleProposal
<1> DEFINE r == AfterPrevote(v, e, chain[v], prevote, stored)
           T == S \cup Cast(r.vote)
<1>2. Returns(v, r, {prevote} \cup Cast(r.vote), {prevote})
  BY <1>1 DEF AfterProposal
<1>3. /\ eng[v] \in Engines /\ chain[v] \in Chains /\ signed \in SUBSET Votes
      /\ EngineInv(eng[v], chain[v], proposals, signed) /\ ChainInv(chain[v], signed)
      /\ eng[v].state = "running" /\ b \in proposals /\ b.height = eng[v].height
      /\ Backed(signed) /\ stored \in BOOLEAN
  BY EngineAssumption DEF IInv, TypeOK, HandleProposal, Running
<1>4. prevote \in Votes /\ prevote.type = "PreVote"
  <2>1. eng[v].height \in 1..MaxHeight + 1
    BY <1>3, EngineAssumption DEF Blocks, Heights
  <2> QED BY <2>1, VoteIsVote DEF VoteTypes
<1>5. S \in SUBSET Votes /\ prevote \in S
  BY <1>3, <1>4
<1>6. EngineInv(eng[v], chain[v], proposals, S) /\ ChainInv(chain[v], S)
  BY <1>3, <1>5, MoreSigned
<1>7. Backed(S)
  <2>1. prevote.block.height = prevote.height
    BY <1>3 DEF Vote
  <2> HIDE DEF prevote
  <2> QED BY <1>3, <1>4, <2>1, VotersMonotone DEF Backed
<1>8. e \in Engines /\ EngineInv(e, chain[v], proposals, S) /\ e.state = "running"
  BY <1>3, <1>6 DEF Engines, EngineInv
<1> HIDE DEF e, prevote
<1>9. /\ r.eng \in Engines /\ r.chain \in Chains /\ T \in SUBSET Votes
      /\ EngineInv(r.eng, r.chain, proposals, T) /\ ChainInv(r.chain, T) /\ Backed(T)
      /\ Extends(chain[v], r.chain, proposals)
  BY <1>3, <1>4, <1>5, <1>6, <1>7, <1>8, PrevoteKeeps
<1>10. T = signed \cup ({prevote} \cup Cast(r.vote))
  OBVIOUS
<1> HIDE DEF r, T
<1> QED BY <1>2, <1>9, <1>10, ReturnsKeeps

\* HandlePrevote keeps the invariant (engine.rs:196).
LEMMA HandlePrevoteKeeps ==
  ASSUME IInv, NEW v \in Validators, NEW vote \in released, HandlePrevote(v, vote)
  PROVE  IInv' /\ Growth
<1>1. PICK stored \in DiskResults :
        LET r == AfterPrevote(v, eng[v], chain[v], vote, stored)
        IN Returns(v, r, Cast(r.vote), Cast(r.vote))
  BY DEF HandlePrevote
<1> DEFINE r == AfterPrevote(v, eng[v], chain[v], vote, stored)
           T == signed \cup Cast(r.vote)
<1>2. /\ eng[v] \in Engines /\ chain[v] \in Chains /\ signed \in SUBSET Votes
      /\ EngineInv(eng[v], chain[v], proposals, signed) /\ ChainInv(chain[v], signed)
      /\ eng[v].state = "running" /\ vote \in signed /\ vote.type = "PreVote"
      /\ Backed(signed) /\ stored \in BOOLEAN
  BY EngineAssumption DEF IInv, TypeOK, HandlePrevote, Running
<1>3. /\ r.eng \in Engines /\ r.chain \in Chains /\ T \in SUBSET Votes
      /\ EngineInv(r.eng, r.chain, proposals, T) /\ ChainInv(r.chain, T) /\ Backed(T)
      /\ Extends(chain[v], r.chain, proposals)
  BY <1>2, PrevoteKeeps
<1> QED BY <1>1, <1>3, ReturnsKeeps

\* HandlePrecommit keeps the invariant (engine.rs:237).
LEMMA HandlePrecommitKeeps ==
  ASSUME IInv, NEW v \in Validators, NEW vote \in released, HandlePrecommit(v, vote)
  PROVE  IInv' /\ Growth
<1>1. PICK stored \in DiskResults :
        Returns(v, AfterPrecommit(eng[v], chain[v], vote, FALSE, stored), {}, {})
  BY DEF HandlePrecommit
<1> DEFINE r == AfterPrecommit(eng[v], chain[v], vote, FALSE, stored)
<1>2. /\ eng[v] \in Engines /\ chain[v] \in Chains /\ signed \in SUBSET Votes
      /\ EngineInv(eng[v], chain[v], proposals, signed) /\ ChainInv(chain[v], signed)
      /\ eng[v].state = "running" /\ vote \in signed /\ vote.type = "PreCommit"
      /\ Backed(signed) /\ stored \in BOOLEAN
  BY EngineAssumption DEF IInv, TypeOK, HandlePrecommit, Running
<1>3. /\ r.eng \in Engines /\ r.chain \in Chains
      /\ EngineInv(r.eng, r.chain, proposals, signed) /\ ChainInv(r.chain, signed)
      /\ Extends(chain[v], r.chain, proposals)
  BY <1>2, PrecommitKeeps
<1>4. Returns(v, r, {}, {})
  BY <1>1
<1> HIDE DEF r
<1>5. LET T == signed \cup {} IN
        /\ T \in SUBSET Votes
        /\ EngineInv(r.eng, r.chain, proposals, T) /\ ChainInv(r.chain, T) /\ Backed(T)
  <2>1. signed \cup {} = signed
    OBVIOUS
  <2> QED BY <1>2, <1>3, <2>1
<1> QED BY <1>3, <1>4, <1>5, ReturnsKeeps

\* A restart forgets votes and comes back at the height of the database.
LEMMA RestartKeeps ==
  ASSUME IInv, NEW v \in Validators, Restart(v)
  PROVE  IInv' /\ Growth
<1> DEFINE e == NewEngine(chain[v])
<1>1. chain[v] \in Chains
  BY DEF IInv, TypeOK
<1>2. e \in Engines /\ EngineInv(e, chain[v], proposals, signed)
  BY <1>1, EngineAssumption DEF NewEngine, Engines, EngineInv, Chains
<1>3. eng' = [eng EXCEPT ![v] = e] /\ UNCHANGED <<chain, proposals, released, signed>>
      /\ restarts' \in 0..MaxRestarts
  BY EngineAssumption DEF Restart, IInv, TypeOK
<1> HIDE DEF e
<1> QED BY <1>2, <1>3 DEF IInv, TypeOK, Growth, Extends

\* Every step keeps the invariant.
LEMMA NextIInv ==
  ASSUME IInv, [Next]_vars
  PROVE  IInv' /\ Growth
<1>1. CASE Next
  BY <1>1, CreateKeeps, ProposalKeeps, HandlePrevoteKeeps, HandlePrecommitKeeps,
     RestartKeeps
  DEF Next
<1>2. CASE UNCHANGED vars
  BY <1>2 DEF vars, IInv, TypeOK, Growth, Extends
<1> QED BY <1>1, <1>2

\* The invariant holds of new engines over empty databases.
LEMMA InitIInv == Init => IInv
<1> SUFFICES ASSUME Init PROVE IInv
  OBVIOUS
<1>1. EmptyChain \in Chains /\ NewEngine(EmptyChain) \in Engines
  BY EngineAssumption DEF EmptyChain, NewEngine, Chains, Engines, Heights
<1>2. TypeOK
  BY <1>1, EngineAssumption DEF Init, TypeOK
<1>3. \A P : EngineInv(NewEngine(EmptyChain), EmptyChain, P, {})
  BY DEF EngineInv, NewEngine, EmptyChain
<1>4. ChainInv(EmptyChain, {})
  BY EngineAssumption DEF ChainInv, EmptyChain, Heights
<1> QED BY <1>2, <1>3, <1>4 DEF Init, IInv, Backed

\* The invariant holds in every behaviour.
LEMMA SpecIInv == Spec => []IInv
BY InitIInv, NextIInv, PTL DEF Spec

-----------------------------------------------------------------------------
(* The theorems.                                                           *)

\* The handlers keep the types of engines, databases and votes.
THEOREM TypeCorrect == Spec => []TypeOK
BY SpecIInv, PTL DEF IInv

\* Every stored block has precommits of more than two thirds of the power.
THEOREM CommitsBacked == Spec => []CommitBacked
<1>1. IInv => CommitBacked
  BY DEF IInv, ChainInv, CommitBacked, Voters
<1> QED BY <1>1, SpecIInv, PTL

\* Every precommit has prevotes of more than two thirds of the power.
THEOREM PrecommitsBacked == Spec => []PrecommitBacked
<1>1. IInv => PrecommitBacked
  BY DEF IInv, Backed, PrecommitBacked, Voters
<1> QED BY <1>1, SpecIInv, PTL

\* Databases that differ at a height implicate more than a third of the power.
THEOREM Accountable == Spec => []AccountableSafety
<1>1. CommitBacked => AccountableSafety
  BY VotersType, QuorumsIntersect DEF CommitBacked, AccountableSafety, Voters
<1> QED BY <1>1, CommitsBacked, PTL

\* Some voter is among more than two thirds of the power.
LEMMA SomeVoter ==
  ASSUME NEW S, NEW type, NEW b, TwoThirds(VotersIn(S, type, b))
  PROVE  \E w \in S : w.type = type /\ w.block = b
<1>1. VotersIn(S, type, b) # {}
  BY PowerType, PowerAssumption DEF TwoThirds
<1> QED BY <1>1 DEF VotersIn

\* A fork leaves evidence against more than a third of the power: the prevotes
\* behind the precommits of its two blocks.
THEOREM ForksConvict == Spec => []ForkConvicts
<1>1. ASSUME IInv PROVE ForkConvicts
  <2> SUFFICES ASSUME NEW v \in Validators, NEW w \in Validators, NEW h \in Heights,
                      chain[v].at[h] # NoBlock, chain[w].at[h] # NoBlock,
                      chain[v].at[h] # chain[w].at[h]
               PROVE  LET a == chain[v].at[h]
                          b == chain[w].at[h]
                          C == {x \in Validators : \E p, q \in signed :
                                  /\ p.from = x /\ p.block = a /\ q.block = b
                                  /\ Evidence(p, q)}
                      IN PowerOf[C] + PowerOf[C] + PowerOf[C] > PowerOf[Validators]
    BY DEF ForkConvicts
  <2> DEFINE a == chain[v].at[h]
             b == chain[w].at[h]
             C == {x \in Validators : \E p, q \in signed :
                     p.from = x /\ p.block = a /\ q.block = b /\ Evidence(p, q)}
             A == VotersIn(signed, "PreVote", a)
             B == VotersIn(signed, "PreVote", b)
  <2>1. /\ a.height = h /\ b.height = h
        /\ TwoThirds(VotersIn(signed, "PreCommit", a))
        /\ TwoThirds(VotersIn(signed, "PreCommit", b))
    BY <1>1 DEF IInv, ChainInv
  <2>2. TwoThirds(A) /\ TwoThirds(B)
    BY <1>1, <2>1, SomeVoter DEF IInv, Backed
  <2>3. A \cap B \subseteq C
    BY <1>1, <2>1 DEF IInv, Backed, VotersIn, Evidence
  <2>4. /\ PowerOf[A \cap B] + PowerOf[A \cap B] + PowerOf[A \cap B] > PowerOf[Validators]
        /\ A \cap B \in SUBSET Validators /\ C \in SUBSET Validators
    BY <2>2, VotersType, QuorumsIntersect
  <2>5. PowerOf[A \cap B] <= PowerOf[C]
    BY <2>3, <2>4, PowerMonotone
  <2> HIDE DEF A, B, C
  <2>6. PowerOf[C] \in Nat /\ PowerOf[A \cap B] \in Nat /\ PowerOf[Validators] \in Nat
    BY <2>4, PowerType
  <2>7. PowerOf[C] + PowerOf[C] + PowerOf[C] > PowerOf[Validators]
    BY <2>4, <2>5, <2>6
  <2> QED BY <2>7 DEF C
<1> QED BY <1>1, SpecIInv, PTL

\* Databases grow by one proposed block of the next height at a time.
THEOREM ChainsExtend == Spec => ChainExtends
<1>1. IInv /\ [Next]_vars => [\A v \in Validators : chain'[v] # chain[v] =>
         /\ chain'[v].latest = chain[v].latest + 1
         /\ \E b \in proposals :
              /\ b.height = chain'[v].latest
              /\ chain'[v].at = [chain[v].at EXCEPT ![b.height] = b]]_vars
  BY NextIInv DEF Growth, Extends
<1> QED BY <1>1, SpecIInv, PTL DEF Spec, ChainExtends

\* create_proposal always finds the previous block.
THEOREM NeverOrphan == Spec => []NoOrphan
<1>1. IInv => NoOrphan
  BY DEF IInv, EngineInv, NoOrphan
<1> QED BY <1>1, SpecIInv, PTL
=============================================================================
