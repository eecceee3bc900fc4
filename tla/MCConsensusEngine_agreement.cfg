SPECIFICATION Spec
CHECK_DEADLOCK FALSE
VIEW EngineView
CONSTANTS
  v1 = v1  v2 = v2  v3 = v3
  Validators <- Pair
  PowerOf <- Equal
  Proposer <- FirstProposes
  MaxHeight = 1
  Variants = {1, 2}
  MaxRestarts = 0
  DiskResults = {TRUE}
  NoBlock = NoBlock
  NoVote = NoVote
INVARIANTS
  Agreement
