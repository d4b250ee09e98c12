SPECIFICATION Spec
CONSTANTS
  Block <- Fork
  NoBlock = NoBlock
  Undefined = Undefined
  Parent <- MCParent
  Height <- MCHeight
  Outpoint <- MCOutpoint
  Address <- MCAddress
  AddressOf <- MCAddressOf
  Satoshis <- MCSatoshis
  Txid <- MCTxid
  Deltas <- MCDeltas
  Requests <- TwoRequests
  RequestTips <- AtA2
  Saved <- NothingSaved
  Faults <- OnlyRequest
  FalsePositives <- OnlyX
  Wallet <- MCWallet
  FirstTip = "a2"
  PruneDepth = 3
  RangeSize = 25000
INVARIANTS NoFault BlocksLinked
PROPERTIES ImplementsLedger PruneKeepsDepth
CHECK_DEADLOCK FALSE
