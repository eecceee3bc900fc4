SPECIFICATION Spec
CONSTANTS
  alice = alice  bob = bob  val = val
  pay1 = pay1  pay2 = pay2  pass = pass  self = self  unstake = unstake  enroll = enroll
  Addresses = {alice, bob, val}
  Txs = {pay1, pay2, pass, self, unstake, enroll}
  RpcThreads = {t1, t2}
  Kind <- KindOf
  Sender <- SenderOf
  Recipient <- RecipientOf
  Amount <- AmountOf
  Fee <- FeeOf
  Nonce <- NonceOf
  Priority <- PriorityOf
  GenesisBalance <- BalanceOf
  GenesisStake <- StakeOf
  MinFee = 1
  MinStake = 2
  NonceWindow = 64
  Width = 16
  MaxHeight = 3
  NoTx = NoTx
INVARIANTS
  TypeOK
  HarvestValid
  ReplayBounded
PROPERTIES
  SupplyLaw
