SPECIFICATION Spec
CONSTANTS
  Block <- ZeroLine
  NoBlock = NoBlock
  Undefined = Undefined
  Parent <- MCParent
  Height <- MCHeight
  Outpoint <- MCOutpoint
  Address <- MCAddress
  AddressOf <- MCAddressOf
  Satoshis <- MCSatoshis
  Txid <- MCTxid
  Deltas <- MCDeltas
  Requests <- TwoRequests
  RequestTips <- AtA2
  Saved <- NothingSaved
  Faults <- None
  FalsePositives <- None
  Wallet <- MCWallet
  FirstTip = "a2"
  PruneDepth = 3
  RangeSize = 25000
INVARIANT NoFault
CHECK_DEADLOCK FALSE
