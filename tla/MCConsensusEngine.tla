-------------------------- MODULE MCConsensusEngine --------------------------
(***************************************************************************)
(* Three validators with voting powers 1, 1 and 2, so that one of them and *)
(* either of the others are a quorum; or two with equal powers, which are  *)
(* a quorum only together.                                                 *)
(***************************************************************************)
EXTENDS ConsensusEngine, FiniteSetsExt, TLC

CONSTANTS v1, v2, v3

MCValidators == {v1, v2, v3}
Pair == {v1, v2}

SumOf(power) == [S \in SUBSET Validators |-> MapThenSumSet(LAMBDA v : power[v], S)]
Weighted == SumOf([v \in Validators |-> IF v = v3 THEN 2 ELSE 1])
Equal == SumOf([v \in Validators |-> 1])

FirstProposes == [h \in Heights |-> v1]
HeavyProposes == [h \in Heights |-> v3]

-----------------------------------------------------------------------------
(* What is explored of the three validators: the states of these slices,   *)
(* and the steps that leave them.                                          *)

Silent(v) == eng[v] = NewEngine(EmptyChain) /\ \A w \in signed : w.from # v
OneHeight == \A b \in proposals : b.height = 1
OneBlock == \A b, c \in proposals : b.height = c.height => b = c
\* v has not been restarted after it has voted.
Remembers(v) ==
  Running(v) => \A w \in signed : w.from = v /\ w.type = "PreVote" => w \in eng[v].prevotes

Slices ==
  \/ OneHeight /\ OneBlock /\ restarts = 0                    \* all three
  \/ Silent(v2) /\ OneHeight /\ Remembers(v1) /\ restarts <= 1 \* rival blocks
  \/ Silent(v2) /\ OneBlock                                   \* two heights

\* Blocks of one height are interchangeable.
Variations == Permutations(Variants)

\* Nothing reads the memory of an engine whose task has stopped.
EngineView ==
  <<[v \in Validators |-> IF Running(v) THEN eng[v] ELSE [state |-> eng[v].state]],
    chain, proposals, released, signed, restarts>>
=============================================================================
