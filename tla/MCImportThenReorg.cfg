SPECIFICATION Spec
CONSTANTS
  Block <- ShortFork
  NoBlock = NoBlock
  Undefined = Undefined
  Parent <- MCParent
  Height <- MCHeight
  Outpoint <- MCOutpoint
  Address <- MCAddress
  AddressOf <- MCAddressOf
  Satoshis <- MCSatoshis
  Txid <- MCTxid
  Deltas <- MCDeltas
  Requests <- OneRequest
  RequestTips <- ShortFork
  Saved <- NothingSaved
  Faults <- None
  FalsePositives <- None
  Wallet <- OneWallet
  FirstTip = "a2"
  PruneDepth = 3
  RangeSize = 25000
INVARIANT TablesShowTip
CHECK_DEADLOCK FALSE
