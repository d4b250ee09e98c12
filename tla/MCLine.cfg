SPECIFICATION Spec
CONSTANTS
  Block <- Line
  NoBlock = NoBlock
  Undefined = Undefined
  Parent <- MCParent
  Height <- MCHeight
  Outpoint <- MCOutpoint
  Address <- MCAddress
  AddressOf <- MCAddressOf
  Satoshis <- MCSatoshis
  Txid <- MCTxid
  Deltas <- MCDeltas
  Requests <- TwoRequests
  RequestTips <- Line
  Saved <- SaveT3
  Faults <- CrashAndRequest
  FalsePositives <- OnlyX
  Wallet <- MCWallet
  FirstTip = "a2"
  PruneDepth = 2
  RangeSize = 2
INVARIANTS NoFault FilterCovers LastBlockIsTip
PROPERTIES ImplementsLedger ImportFlushes
CHECK_DEADLOCK FALSE
