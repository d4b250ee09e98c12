SPECIFICATION Spec
CONSTANTS
  Block = {"g", "a1", "a2", "b2"}
  NoBlock = NoBlock
  Undefined = Undefined
  NoEnd = NoEnd
  Parent <- MCParent
  Height <- MCHeight
  Outpoint = {"o1", "o2"}
  Address = {"p", "q"}
  AddressOf <- MCAddressOf
  Satoshis <- MCSatoshis
  Txid = {"t1", "t2"}
  Deltas <- MCDeltas
  Wallet = {"w1", "w2"}
  FalsePositives = {}
  Reader = {"r"}
  Asks <- ListOfFirst
  WalletRank <- MCWalletRank
  OutRank <- MCOutRank
  MaxIndex = 1
  UtxoLimit = 2
  MaxReaders = 2
  MaxRows = 4
  FirstTips <- AtA1
  Imports <- MCImports
INVARIANT PlaceholderChanges
