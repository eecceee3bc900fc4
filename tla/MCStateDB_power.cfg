SPECIFICATION Spec
SYMMETRY ThreadSymmetry
CONSTANTS
  g = g  b1 = b1  c1 = c1  b2 = b2  x = x  y = y
  Blocks <- RivalBlocks
  Addresses <- MCAddresses
  Height <- MCHeight
  Writes <- MCWrites
  MaxHeight = 2
  NoBlock = NoBlock
  Threads = {t1, t2}
  Readers = {r1}
  NoThread = NoThread
  NoFile = NoFile
  Torn = Torn
  PowerFails = TRUE
INVARIANTS
  DiskWhole
  AnswerLinearizable
