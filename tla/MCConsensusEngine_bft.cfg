SPECIFICATION Spec
CHECK_DEADLOCK FALSE
VIEW EngineView
CONSTRAINT Slices
SYMMETRY Variations
CONSTANTS
  v1 = v1  v2 = v2  v3 = v3
  Validators <- MCValidators
  PowerOf <- Weighted
  Proposer <- HeavyProposes
  MaxHeight = 2
  Variants = {x1, x2}
  MaxRestarts = 2
  DiskResults = {TRUE, FALSE}
  NoBlock = NoBlock
  NoVote = NoVote
INVARIANTS
  TypeOK
  CommitBacked
  PrecommitBacked
  AccountableSafety
  ForkConvicts
  NoOrphan
PROPERTIES
  ChainExtends
