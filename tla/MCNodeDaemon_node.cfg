SPECIFICATION FairSpec
\* The node is not started once more.
CHECK_DEADLOCK FALSE
CONSTANTS
  c1 = c1  c2 = c2  c3 = c3  alice = alice  bob = bob
  Sends = {c1, c2, c3}
  Senders = {alice, bob}
  Sender <- SenderOf
  Size <- SizeOf
  MaxBlockBytes = 3
  Subscribers = {w1}
  Workers = 2
  Backlog = 1
  Elected = {2}
  MaxStarts = 2
INVARIANTS
  TypeOK
  AnswersLoseOneBlock
  FeedWhole
PROPERTIES
  FirstBlockTakesWhatFits
  ReadsAnswered
