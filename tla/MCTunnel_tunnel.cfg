SPECIFICATION FairSpec
\* The connection is over, and the targets wait.
CHECK_DEADLOCK FALSE
CONSTANTS
  Streams = {s1, s2}
  Readers = {s1}
  Capacity = 1
  MaxData = 2
  MaxPings = 1
INVARIANTS
  TypeOK
  PeerNotRefused
PROPERTIES
  ImplementsPipe
  Arrives
