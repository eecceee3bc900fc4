SPECIFICATION FairSpec
CONSTANTS
  alice = alice  bob = bob
  pay = pay  pass = pass  stake = stake  forged = forged
  g = g  h1 = h1  h2 = h2  h3 = h3  r1 = r1  x2 = x2  f2 = f2  d1 = d1
  Addresses = {alice, bob}
  Txs = {pay, pass, stake, forged}
  Kind <- KindOf
  Sender <- SenderOf
  Recipient <- RecipientOf
  Amount <- AmountOf
  Fee <- FeeOf
  Nonce <- NonceOf
  Width = 16
  ZeroHash = ZeroHash
  Tasks = {t1, t2}
  Blocks = {g, h1, h2, h3, r1, x2, f2, d1}
  Height <- HeightOf
  HeaderHash <- HeaderOf
  PrevHash <- PrevOf
  MerkleRoot <- RootOf
  Body <- BodyOf
  Genuine = {pay, pass, stake}
  GenesisBlock = g
  GenesisAccounts <- AccountsAtGenesis
  MaxHeight = 3
  Batches <- SentBatches
  Honest <- Chain
  MaxFaults = 1
  NoBlock = NoBlock
INVARIANTS
  TypeOK
  NoGap
  Linked
  ReplicaAgrees
  BodiesBound
PROPERTY
  CatchesUp
