SPECIFICATION Spec
CONSTANTS
  Block <- Tree
  NoBlock = NoBlock
  Undefined = Undefined
  Parent <- MCParent
  Height <- MCHeight
  Outpoint <- MCOutpoint
  Address <- MCAddress
  AddressOf <- MCAddressOf
  Satoshis <- MCSatoshis
  Txid <- MCTxid
  Deltas <- MCDeltas
  Requests <- TwoRequests
  RequestTips <- EarlyTips
  Saved <- NothingSaved
  Faults <- EveryFault
  FalsePositives <- OnlyX
  Wallet <- MCWallet
  FirstTip = "a1"
  PruneDepth = 2
  RangeSize = 25000
INVARIANTS TypeOK IndexesAgree MapAgrees OutputsAreOwned BalanceCoversOutputs TipPersisted
CONSTRAINT BalanceBound
CHECK_DEADLOCK FALSE
