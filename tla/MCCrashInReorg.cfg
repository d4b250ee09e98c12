SPECIFICATION Spec
CONSTANTS
  Block <- ShortFork
  NoBlock = NoBlock
  Undefined = Undefined
  Parent <- MCParent
  Height <- MCHeight
  Outpoint <- MCOutpoint
  Address <- MCAddress
  AddressOf <- MCAddressOf
  Satoshis <- MCSatoshis
  Txid <- MCTxid
  Deltas <- MCDeltas
  Requests <- OneRequest
  RequestTips <- AtA2
  Saved <- NothingSaved
  Faults <- OnlyCrash
  FalsePositives <- None
  Wallet <- OneWallet
  FirstTip = "a2"
  PruneDepth = 3
  RangeSize = 25000
INVARIANT NoFault
CHECK_DEADLOCK FALSE
