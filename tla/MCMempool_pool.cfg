SPECIFICATION FairSpec
\* Threads stop for good in total_bytes.
CHECK_DEADLOCK FALSE
CONSTANTS
  a1 = a1  a1up = a1up  a1lo = a1lo  b1 = b1
  alice = alice  bob = bob
  Txs = {a1, a1up, a1lo, b1}
  Senders = {alice, bob}
  Nonces = {1}
  Sender <- SenderOf
  Nonce <- NonceOf
  Fee <- FeeOf
  Size <- SizeOf
  HashRank <- RankOf
  RpcThreads = {t1, t2}
  Producer = Producer
  MaxTxs = 1
  MaxBytes = 3
  MaxTxSize = 2
  RbfPercent = 10
  NonceWindow = 64
  MaxBlockBytes = 4
  NoTx = NoTx
  NoThread = NoThread
INVARIANTS
  TypeOK
  LenBounded
  BytesBounded
  AcceptedKept
PROPERTY
  ReturnsUnlessJammed
