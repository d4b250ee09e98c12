------------------------- MODULE WalletWriterProofs -------------------------
(***************************************************************************)
(* Proofs about the writer, for every block tree, every set of wallets and *)
(* requests and every combination of faults: IInv says what each phase of  *)
(* a task keeps, HInv adds the stored blocks and the owners of outputs,    *)
(* and LedgerInv, while bitcoind only adds to its chain and env.sync       *)
(* reports no error, which places of the chain the tables show: the        *)
(* committed ones the whole chain of the last block, and an open           *)
(* transaction those its loops have passed.                                *)
(***************************************************************************)
EXTENDS WalletView, LedgerTablesProofs

----------------------------------------------------------------------------
(* What the operators on a database return.                                *)

\* The tables of outputs agree, and so do those of addresses.
Sound(d) == TablesAgree(d) /\ OwnersAgree(d)

\* Only these tables count for that.
LEMMA SameTablesLemma ==
  ASSUME NEW d, NEW e, Sound(d),
         e.utxos = d.utxos,
         e.utxosBySatoshis = d.utxosBySatoshis,
         e.utxosByHeight = d.utxosByHeight,
         e.addresses = d.addresses,
         e.addressesMap = d.addressesMap
  PROVE  Sound(e)
<1>1. TablesAgree(e)
  BY DEF Sound, TablesAgree
<1>2. OwnersAgree(e)
  <2> DEFINE pairs == d.addresses
             map == d.addressesMap
  <2>1. \A w \in Wallet, a \in Address :
          <<w, a>> \in pairs <=> \E k \in DOMAIN map[a] : map[a][k] = w
    BY DEF Sound, OwnersAgree
  <2>2. e.addresses = pairs /\ e.addressesMap = map
    OBVIOUS
  <2> HIDE DEF pairs, map
  <2> QED
    BY <2>1, <2>2 DEF OwnersAgree
<1> QED
  BY <1>1, <1>2 DEF Sound

\* A database stays a database when outputs are added, and the tables go on
\* to agree.
LEMMA AddUTXOsLemma ==
  ASSUME NEW d \in Database, NEW new \in SUBSET UtxoRow
  PROVE  /\ AddUTXOs(d, new) \in Database
         /\ Sound(d) => Sound(AddUTXOs(d, new))
BY DEF AddUTXOs, Database, Without, Sound, TablesAgree, OwnersAgree

\* Deleting an output from the three tables keeps them in agreement.
LEMMA DeleteUTXOLemma ==
  ASSUME NEW d \in Database, NEW row \in UtxoRow
  PROVE  /\ DeleteUTXO(d, row) \in Database
         /\ Sound(d) => Sound(DeleteUTXO(d, row))
BY DEF DeleteUTXO, Database, Without, SameOutput, Sound, TablesAgree, OwnersAgree

\* The txids, the balances, the saved transactions, the owners and the blocks
\* are not part of those tables.
LEMMA PutTxidLemma ==
  ASSUME NEW d \in Database, NEW row \in TxidRow
  PROVE  /\ PutTxid(d, row) \in Database
         /\ Sound(d) => Sound(PutTxid(d, row))
BY DEF PutTxid, Database, Sound, TablesAgree, OwnersAgree

LEMMA DeleteTxidLemma ==
  ASSUME NEW d \in Database, NEW row \in TxidRow
  PROVE  /\ DeleteTxid(d, row) \in Database
         /\ Sound(d) => Sound(DeleteTxid(d, row))
BY DEF DeleteTxid, Database, Sound, TablesAgree, OwnersAgree

LEMMA AddBalanceLemma ==
  ASSUME NEW d \in Database, NEW w \in Wallet, NEW n \in Int
  PROVE  /\ AddBalance(d, w, n) \in Database
         /\ Sound(d) => Sound(AddBalance(d, w, n))
<1> DEFINE new == [d.balance EXCEPT ![w] = @ + n]
<1>1. new \in [Wallet -> Int]
  BY DEF Database
<1>2. AddBalance(d, w, n) = [d EXCEPT !.balance = new]
  BY DEF AddBalance
<1> HIDE DEF new
<1>3. AddBalance(d, w, n) \in Database
  BY <1>1, <1>2 DEF Database
<1> QED
  BY <1>2, <1>3, SameTablesLemma DEF Database

LEMMA PutBlockLemma ==
  ASSUME NEW d \in Database, NEW b \in WalletBlock
  PROVE  /\ PutBlock(d, b) \in Database
         /\ Sound(d) => Sound(PutBlock(d, b))
BY DEF PutBlock, Database, Sound, TablesAgree, OwnersAgree

LEMMA PruneLemma ==
  ASSUME NEW d \in Database, NEW depth \in Nat
  PROVE  /\ Prune(d, depth) \in Database
         /\ Sound(d) => Sound(Prune(d, depth))
BY DEF Prune, Database, Sound, TablesAgree, OwnersAgree

LEMMA PutOwnerLemma ==
  ASSUME NEW d \in Database, NEW w \in Wallet, NEW a \in Address
  PROVE  /\ PutOwner(d, w, a) \in Database
         /\ Sound(d) => Sound(PutOwner(d, w, a))
<1> DEFINE pairs == d.addresses \cup {<<w, a>>}
           map == [d.addressesMap EXCEPT ![a] = Append(@, w)]
<1>1. pairs \in SUBSET (Wallet \X Address)
  BY DEF Database
<1>2. map \in [Address -> Seq(Wallet)]
  <2>1. d.addressesMap \in [Address -> Seq(Wallet)]
    BY DEF Database
  <2>2. Append(d.addressesMap[a], w) \in Seq(Wallet)
    BY <2>1
  <2> QED
    BY <2>1, <2>2
<1>3. PutOwner(d, w, a) = [d EXCEPT !.addresses = pairs, !.addressesMap = map]
  BY DEF PutOwner
<1>4. ASSUME OwnersAgree(d), NEW v \in Wallet, NEW b \in Address
      PROVE  <<v, b>> \in pairs <=> \E k \in DOMAIN map[b] : map[b][k] = v
  <2>1. d.addressesMap[a] \in Seq(Wallet) /\ d.addressesMap[b] \in Seq(Wallet)
    BY DEF Database
  <2>2. <<v, b>> \in d.addresses <=>
          \E k \in DOMAIN d.addressesMap[b] : d.addressesMap[b][k] = v
    BY <1>4 DEF OwnersAgree
  <2>3. CASE b = a
    <3> DEFINE old == d.addressesMap[a]
               new == Append(old, w)
    <3>1. map[b] = new
      BY <2>3 DEF Database
    <3>2. /\ DOMAIN new = 1 .. Len(old) + 1
          /\ new[Len(old) + 1] = w
          /\ \A k \in 1 .. Len(old) : new[k] = old[k]
          /\ DOMAIN old = 1 .. Len(old)
          /\ Len(old) \in Nat
      BY <2>1
    <3>3. (\E k \in DOMAIN new : new[k] = v) <=>
            \/ v = w
            \/ \E k \in DOMAIN old : old[k] = v
      BY <3>2
    <3>4. <<v, b>> \in pairs <=> v = w \/ <<v, b>> \in d.addresses
      BY <2>3
    <3> QED
      BY <2>2, <2>3, <3>1, <3>3, <3>4
  <2>4. CASE b # a
    <3>1. map[b] = d.addressesMap[b]
      BY <2>4 DEF Database
    <3>2. <<v, b>> \in pairs <=> <<v, b>> \in d.addresses
      BY <2>4
    <3> QED
      BY <2>2, <3>1, <3>2
  <2> QED
    BY <2>3, <2>4
<1> HIDE DEF pairs, map
<1>5. LET e == [d EXCEPT !.addresses = pairs, !.addressesMap = map]
      IN /\ e \in Database
         /\ e.addresses = pairs /\ e.addressesMap = map
         /\ TablesAgree(d) => TablesAgree(e)
  BY <1>1, <1>2 DEF Database, TablesAgree
<1>6. OwnersAgree(d) => OwnersAgree(PutOwner(d, w, a))
  <2>1. /\ PutOwner(d, w, a).addresses = pairs
        /\ PutOwner(d, w, a).addressesMap = map
    BY <1>3, <1>5
  <2>2. ASSUME OwnersAgree(d)
        PROVE  \A v \in Wallet, b \in Address :
                 <<v, b>> \in pairs <=> \E k \in DOMAIN map[b] : map[b][k] = v
    BY <1>4, <2>2
  <2> QED
    BY <2>1, <2>2 DEF OwnersAgree
<1> QED
  BY <1>3, <1>5, <1>6 DEF Sound

LEMMA FlushSavedLemma ==
  ASSUME NEW d \in Database, NEW w \in Wallet, NEW tx \in Txid
  PROVE  /\ FlushSaved(d, w, tx) \in Database
         /\ Sound(d) => Sound(FlushSaved(d, w, tx))
BY DEF FlushSaved, Database, Sound, TablesAgree, OwnersAgree

----------------------------------------------------------------------------
(* What the blocks and the replies of bitcoind hold.                       *)

\* The amount of a delta is an integer, and its address is an address.
LEMMA DeltaLemma ==
  ASSUME NEW d \in Delta
  PROVE  SatoshisOf(d) \in Int /\ AddressOfDelta(d) \in Address
BY ChainAssumption DEF Delta, SatoshisOf, AddressOfDelta

\* The deltas that pass a filter are places in the block.
LEMMA FilterDeltasLemma ==
  ASSUME NEW b \in Block, NEW filter
  PROVE  FilterDeltas(filter, b) \in SUBSET Nat
BY ChainAssumption DEF FilterDeltas

\* Unspent outputs and places of deltas lie in blocks of the tree.
LEMMA UnspentLemma ==
  ASSUME NEW b, NEW A, NEW u \in Unspent(b, A)
  PROVE  u[1] \in Outpoint /\ u[2] \in Block
BY DEF Unspent, ChainOf

LEMMA DeltasBetweenLemma ==
  ASSUME NEW b, NEW A, NEW first, NEW last, NEW e \in DeltasBetween(b, A, first, last)
  PROVE  /\ e \in Block \X Nat
         /\ e[2] \in DOMAIN Deltas[e[1]]
<1>1. PICK c \in ChainOf(b) : e \in {c} \X DOMAIN Deltas[c]
  BY DEF DeltasBetween
<1>2. c \in Block /\ DOMAIN Deltas[c] \subseteq Nat
  BY ChainAssumption DEF ChainOf
<1> QED
  BY <1>1, <1>2

----------------------------------------------------------------------------
(* The inductive invariant: where the task is decides which of its         *)
(* variables hold something.                                               *)

TxnPhases == {"connect", "disconnect", "getAddressUtxos", "getAddressDeltas",
              "addDeltas", "commitAddresses"}

ClonePhases == TxnPhases \cup {"connectSync", "disconnectSync", "importSync"}

PhaseOK ==
  /\ pc \in SyncPhases \cup ImportPhases => walletBlock \in WalletBlock
  /\ pc = "getBlockDeltas" => fetched \in Block
  /\ pc \in TxnPhases => txn \in Database /\ Sound(txn)
  /\ pc \notin TxnPhases => txn = Undefined
  /\ pc \in ClonePhases => clone \in WalletBlock
  /\ pc \in ImportPhases =>
       task \in Task /\ task.places \subseteq DOMAIN task.addresses
  /\ \A e \in todo : e[2][2] \in DOMAIN Deltas[e[2][1]]

IInv == TypeOK /\ PhaseOK /\ Sound(db)

\* The writer starts in the invariant.
LEMMA InitLemma == Init => IInv
<1> SUFFICES ASSUME Init PROVE IInv
  OBVIOUS
<1>1. EmptyDatabase \in Database
  BY DEF EmptyDatabase, Database
<1>2. Sound(EmptyDatabase)
  BY DEF EmptyDatabase, Sound, TablesAgree, OwnersAgree
<1>3. TypeOK
  BY <1>1, WriterAssumption
     DEF Init, TypeOK, Start, FaultKind, SyncPhases, ImportPhases
<1>4. PhaseOK
  BY DEF Init, PhaseOK, TxnPhases, ClonePhases, SyncPhases, ImportPhases
<1> QED
  BY <1>2, <1>3, <1>4 DEF IInv, Init

\* Whatever ends a task, or a block, and leaves nothing open keeps it.
LEMMA EndLemma ==
  ASSUME Clear,
         pc' \in {"idle", "down", "sync"},
         best' \in Block, announced' \in Seq(Block), bitcoinTip' \in Block,
         db' \in Database, Sound(db'),
         walletBlock' \in WalletBlock \cup {Undefined},
         pc' = "sync" => walletBlock' \in WalletBlock,
         fault' \in FaultKind
  PROVE  IInv'
<1>1. TypeOK'
  BY DEF Clear, TypeOK, Start, SyncPhases, ImportPhases
<1>2. PhaseOK'
  BY DEF Clear, PhaseOK, TxnPhases, ClonePhases, SyncPhases, ImportPhases
<1> QED
  BY <1>1, <1>2 DEF IInv

LEMMA DieLemma ==
  ASSUME IInv, NEW reason \in FaultKind, Die(reason)
  PROVE  IInv'
<1>1. /\ Clear /\ pc' = "down" /\ fault' = reason
      /\ announced' = <<>> /\ walletBlock' = Undefined
      /\ best' = best /\ db' = db /\ bitcoinTip' = bitcoinTip
  BY DEF Die
<1>2. best \in Block /\ bitcoinTip \in Block /\ db \in Database /\ Sound(db)
  BY DEF IInv, TypeOK
<1>3. announced' \in Seq(Block)
  BY <1>1
<1>4. Sound(db')
  BY <1>1, <1>2
<1> QED
  BY <1>1, <1>2, <1>3, <1>4, EndLemma

\* The delta and the owner at which the loop stands.
LEMMA OwnerLemma ==
  ASSUME IInv, pc \in {"connect", "disconnect"}, AtOwner
  PROVE  /\ ThisDelta \in Delta
         /\ ThisTxid \in TxidRow
         /\ ThisUtxo \in UtxoRow
         /\ Connected(txn) \in Database /\ Sound(Connected(txn))
         /\ Disconnected(txn) \in Database /\ Sound(Disconnected(txn))
<1>1. /\ txn \in Database /\ Sound(txn)
      /\ clone \in WalletBlock
      /\ at \in [delta: Nat \ {0}, owner: Nat \ {0}]
  BY DEF IInv, TypeOK, PhaseOK, TxnPhases, ClonePhases
<1>2. clone.hash \in Block /\ clone.height \in Nat
  BY <1>1 DEF WalletBlock
<1>3. ThisDelta \in Delta
  <2>1. Deltas[clone.hash] \in Seq(Delta)
    BY <1>2, ChainAssumption
  <2>2. at.delta \in 1 .. Len(Deltas[clone.hash])
    BY <1>1, <2>1 DEF AtOwner, AllDeltasDone
  <2> QED
    BY <2>1, <2>2 DEF ThisDelta
<1>4. ThisOwner \in Wallet
  <2>1. AddressOfDelta(ThisDelta) \in Address
    BY <1>3, DeltaLemma
  <2>2. Owners \in Seq(Wallet)
    BY <1>1, <2>1 DEF Owners, Database
  <2>3. at.owner \in 1 .. Len(Owners)
    BY <1>1, <2>2 DEF AtOwner
  <2> QED
    BY <2>2, <2>3 DEF ThisOwner
<1>5. SatoshisOf(ThisDelta) \in Int /\ -SatoshisOf(ThisDelta) \in Int
  BY <1>3, DeltaLemma
<1>6. ThisTxid \in TxidRow /\ ThisUtxo \in UtxoRow
  BY <1>2, <1>3, <1>4 DEF ThisTxid, ThisUtxo, TxidRow, UtxoRow, Delta
<1>7. PutTxid(txn, ThisTxid) \in Database /\ Sound(PutTxid(txn, ThisTxid))
  BY <1>1, <1>6, PutTxidLemma
<1>8. /\ DeleteTxid(txn, ThisTxid) \in Database
      /\ Sound(DeleteTxid(txn, ThisTxid))
  BY <1>1, <1>6, DeleteTxidLemma
<1>9. Connected(txn) \in Database /\ Sound(Connected(txn))
  BY <1>4, <1>5, <1>7, AddBalanceLemma DEF Connected
<1>10. Disconnected(txn) \in Database /\ Sound(Disconnected(txn))
  BY <1>4, <1>5, <1>8, AddBalanceLemma DEF Disconnected
<1> QED
  BY <1>3, <1>6, <1>9, <1>10

\* The addresses of an import.
LEMMA NewAddressesLemma ==
  ASSUME IInv, pc \in ImportPhases
  PROVE  NewAddresses \in SUBSET Address
<1>1. task \in Task /\ task.places \subseteq DOMAIN task.addresses
  BY DEF IInv, PhaseOK
<1>2. task.addresses \in Seq(Address)
  BY <1>1 DEF Task
<1> QED
  BY <1>1, <1>2 DEF NewAddresses

\* An import that ends early leaves a wallet block.
LEMMA ForgetImportLemma ==
  ASSUME walletBlock \in WalletBlock, clone \in WalletBlock, ForgetImport
  PROVE  walletBlock' \in WalletBlock
<1>1. CASE UNCHANGED walletBlock
  BY <1>1
<1>2. CASE walletBlock' = [walletBlock EXCEPT !.addressFilter = clone.addressFilter]
  <2>1. clone.addressFilter \in SUBSET Address
    BY DEF WalletBlock
  <2> QED
    BY <1>2, <2>1 DEF WalletBlock
<1> QED
  BY <1>1, <1>2 DEF ForgetImport

\* A step of a loop that only moves the open transaction, the clone and the
\* place of the loop.
LEMMA LoopLemma ==
  ASSUME IInv, pc \in TxnPhases,
         UNCHANGED <<chainVars, db, memoryVars, pc, fetched, importVars>>,
         txn' \in Database, Sound(txn'),
         clone' \in WalletBlock,
         at' \in [delta: Nat \ {0}, owner: Nat \ {0}]
  PROVE  IInv'
<1>1. TypeOK'
  BY DEF IInv, TypeOK, chainVars, memoryVars, importVars
<1>2. PhaseOK'
  BY DEF IInv, PhaseOK, chainVars, memoryVars, importVars
<1>3. Sound(db')
  BY DEF IInv
<1> QED
  BY <1>1, <1>2, <1>3 DEF IInv

----------------------------------------------------------------------------
(* Every step keeps the invariant.                                         *)

\* Steps outside a transaction: bitcoind, the process, createWallet,
\* saveTransaction, and the begin of sync.
LEMMA OutsideStep ==
  ASSUME IInv,
         \/ \E b \in Block : NewTip(b)
         \/ \E w \in Wallet : CreateWallet(w)
         \/ \E s \in Saved : SaveTransaction(s[1], s[2])
         \/ Sync \/ SyncDone \/ GetBlockHash \/ Crash \/ Restart
  PROVE  IInv'
<1> USE DEF IInv, TypeOK, PhaseOK
<1>1. CASE \E b \in Block : NewTip(b)
  BY <1>1 DEF NewTip, memoryVars, importVars
<1>2. CASE \E w \in Wallet : CreateWallet(w)
  <2>1. PICK w \in Wallet : CreateWallet(w)
    BY <1>2
  <2> DEFINE d == [db EXCEPT !.wallets = @ \cup {w}]
  <2>2. d \in Database /\ Sound(d)
    <3>1. d \in Database
      BY DEF Database
    <3> QED
      BY <3>1, SameTablesLemma, ZenonT(60) DEF Database
  <2>3. NewWalletBlock(bitcoinTip) \in WalletBlock
    BY ChainAssumption DEF NewWalletBlock, WalletBlock
  <2>4. /\ PutBlock(d, NewWalletBlock(bitcoinTip)) \in Database
        /\ Sound(PutBlock(d, NewWalletBlock(bitcoinTip)))
    BY <2>2, <2>3, PutBlockLemma
  <2>5. db' \in Database /\ Sound(db')
    BY <2>1, <2>2, <2>4 DEF CreateWallet
  <2>6. walletBlock' \in WalletBlock \cup {Undefined}
    BY <2>1, <2>3 DEF CreateWallet
  <2> HIDE DEF d
  <2> QED
    BY <2>1, <2>5, <2>6
       DEF CreateWallet, chainVars, importVars, SyncPhases, ImportPhases
<1>3. CASE \E s \in Saved : SaveTransaction(s[1], s[2])
  <2>1. PICK s \in Saved : SaveTransaction(s[1], s[2])
    BY <1>3
  <2>2. <<s[1], s[2]>> \in Wallet \X Txid
    BY WriterAssumption
  <2>3. db' \in Database /\ Sound(db')
    <3>1. db' = [db EXCEPT !.txs = @ \cup {<<s[1], s[2]>>}]
      BY <2>1 DEF SaveTransaction
    <3>2. db' \in Database
      BY <2>2, <3>1 DEF Database
    <3>3. /\ db'.utxos = db.utxos
          /\ db'.utxosBySatoshis = db.utxosBySatoshis
          /\ db'.utxosByHeight = db.utxosByHeight
          /\ db'.addresses = db.addresses
          /\ db'.addressesMap = db.addressesMap
      BY <3>1 DEF Database
    <3> QED
      BY <3>2, <3>3, SameTablesLemma
  <2> QED
    BY <2>1, <2>3 DEF SaveTransaction, chainVars, memoryVars, importVars
<1>4. CASE Sync
  <2>1. Head(announced) \in Block /\ Tail(announced) \in Seq(Block)
    BY <1>4 DEF Sync
  <2> QED
    BY <1>4, <2>1
       DEF Sync, importVars, SyncPhases, ImportPhases, TxnPhases, ClonePhases
<1>5. CASE SyncDone
  BY <1>5, EndLemma DEF SyncDone, EndTask, chainVars, memoryVars
<1>6. CASE GetBlockHash
  BY <1>6 DEF GetBlockHash, ChainOf, chainVars, memoryVars, importVars,
              SyncPhases, ImportPhases, TxnPhases, ClonePhases
<1>7. CASE Crash
  BY <1>7, DieLemma DEF Crash, FaultKind
<1>8. CASE Restart
  <2>1. walletBlock' \in WalletBlock \cup {Undefined}
    BY <1>8 DEF Restart, Database
  <2>2. announced' \in Seq(Block)
    BY <1>8 DEF Restart
  <2> QED
    BY <1>8, <2>1, <2>2 DEF Restart, importVars, SyncPhases, ImportPhases,
                        TxnPhases, ClonePhases, FaultKind
<1> QED
  BY <1>1, <1>2, <1>3, <1>4, <1>5, <1>6, <1>7, <1>8

\* sync connects a block.
LEMMA ConnectStep ==
  ASSUME IInv,
         \/ StartConnect \/ NextDelta \/ ConnectOutput \/ ConnectInput
         \/ ConnectFails \/ ConnectCommit \/ ConnectSynced
  PROVE  IInv'
<1>1. CASE StartConnect
  <2>1. fetched \in Block /\ walletBlock \in WalletBlock
    BY <1>1 DEF StartConnect, IInv, PhaseOK, SyncPhases
  <2>2. Height[fetched] \in Nat
    BY <2>1, ChainAssumption
  <2>3. clone' \in WalletBlock
    BY <1>1, <2>1, <2>2, FilterDeltasLemma DEF StartConnect, WalletBlock
  <2> QED
    BY <1>1, <2>1, <2>3
       DEF StartConnect, IInv, TypeOK, PhaseOK, Start, chainVars, memoryVars,
           importVars, SyncPhases, ImportPhases, TxnPhases, ClonePhases
<1>2. CASE NextDelta
  BY <1>2, LoopLemma
     DEF NextDelta, IInv, TypeOK, PhaseOK, TxnPhases, ClonePhases
<1>3. CASE ConnectOutput
  <2>1. /\ pc = "connect" /\ AtOwner
        /\ clone \in WalletBlock
        /\ at \in [delta: Nat \ {0}, owner: Nat \ {0}]
    BY <1>3 DEF ConnectOutput, IInv, TypeOK, PhaseOK, TxnPhases, ClonePhases
  <2>2. txn' \in Database /\ Sound(txn')
    BY <1>3, <2>1, OwnerLemma, AddUTXOsLemma DEF ConnectOutput
  <2> QED
    BY <1>3, <2>1, <2>2, LoopLemma DEF ConnectOutput, NextOwner, TxnPhases
<1>4. CASE ConnectInput
  <2>1. /\ pc = "connect" /\ AtOwner
        /\ clone \in WalletBlock
        /\ txn \in Database
        /\ at \in [delta: Nat \ {0}, owner: Nat \ {0}]
    BY <1>4 DEF ConnectInput, IInv, TypeOK, PhaseOK, TxnPhases, ClonePhases
  <2>2. PICK spent \in txn.utxos :
          /\ txn' = DeleteUTXO(Connected(txn), spent)
          /\ clone' = [clone EXCEPT
                         !.spentOutputs = Without(@, {spent}) \cup {spent}]
    BY <1>4 DEF ConnectInput
  <2>3. spent \in UtxoRow
    BY <2>1 DEF Database
  <2>4. txn' \in Database /\ Sound(txn')
    BY <2>1, <2>2, <2>3, OwnerLemma, DeleteUTXOLemma
  <2>5. clone' \in WalletBlock
    BY <2>1, <2>2, <2>3 DEF WalletBlock, Without
  <2> QED
    BY <1>4, <2>1, <2>4, <2>5, LoopLemma DEF ConnectInput, NextOwner, TxnPhases
<1>5. CASE ConnectFails
  BY <1>5, DieLemma DEF ConnectFails, FaultKind
<1>6. CASE ConnectCommit
  <2>1. txn \in Database /\ Sound(txn) /\ clone \in WalletBlock
    BY <1>6 DEF ConnectCommit, IInv, PhaseOK, TxnPhases, ClonePhases
  <2>2. db' \in Database /\ Sound(db')
    BY <1>6, <2>1, PutBlockLemma DEF ConnectCommit
  <2> QED
    BY <1>6, <2>1, <2>2
       DEF ConnectCommit, IInv, TypeOK, PhaseOK, chainVars, memoryVars,
           importVars, SyncPhases, ImportPhases, TxnPhases, ClonePhases
<1>7. CASE ConnectSynced
  <2>1. clone \in WalletBlock
    BY <1>7 DEF ConnectSynced, IInv, PhaseOK, ClonePhases
  <2>2. db' \in Database /\ Sound(db')
    BY <1>7, PruneLemma, WriterAssumption DEF ConnectSynced, IInv, TypeOK
  <2> QED
    BY <1>7, <2>1, <2>2, EndLemma
       DEF ConnectSynced, IInv, TypeOK, chainVars
<1> QED
  BY <1>1, <1>2, <1>3, <1>4, <1>5, <1>6, <1>7

\* sync disconnects its tip.
LEMMA DisconnectStep ==
  ASSUME IInv,
         \/ StartDisconnect \/ NoDeltasToUndo \/ DisconnectOutput
         \/ DisconnectInput \/ DisconnectFails \/ DisconnectCommit
         \/ NoPreviousBlock \/ DisconnectSynced
  PROVE  IInv'
<1>1. CASE StartDisconnect
  <2>1. walletBlock \in WalletBlock
    BY <1>1 DEF StartDisconnect, IInv, PhaseOK, SyncPhases
  <2> QED
    BY <1>1, <2>1
       DEF StartDisconnect, IInv, TypeOK, PhaseOK, Start, chainVars,
           memoryVars, importVars, SyncPhases, ImportPhases, TxnPhases,
           ClonePhases
<1>2. CASE NoDeltasToUndo
  BY <1>2, DieLemma DEF NoDeltasToUndo, FaultKind
<1>3. CASE DisconnectOutput
  <2>1. /\ pc = "disconnect" /\ AtOwner
        /\ clone \in WalletBlock
        /\ at \in [delta: Nat \ {0}, owner: Nat \ {0}]
    BY <1>3 DEF DisconnectOutput, IInv, TypeOK, PhaseOK, TxnPhases, ClonePhases
  <2>2. txn' \in Database /\ Sound(txn')
    BY <1>3, <2>1, OwnerLemma, DeleteUTXOLemma DEF DisconnectOutput
  <2> QED
    BY <1>3, <2>1, <2>2, LoopLemma DEF DisconnectOutput, NextOwner, TxnPhases
<1>4. CASE DisconnectInput
  <2>1. /\ pc = "disconnect" /\ AtOwner
        /\ clone \in WalletBlock
        /\ at \in [delta: Nat \ {0}, owner: Nat \ {0}]
    BY <1>4 DEF DisconnectInput, IInv, TypeOK, PhaseOK, TxnPhases, ClonePhases
  <2>2. PICK spent \in clone.spentOutputs :
          txn' = AddUTXOs(Disconnected(txn), {spent})
    BY <1>4 DEF DisconnectInput
  <2>3. {spent} \in SUBSET UtxoRow
    BY <2>1 DEF WalletBlock
  <2>4. txn' \in Database /\ Sound(txn')
    BY <2>1, <2>2, <2>3, OwnerLemma, AddUTXOsLemma
  <2> QED
    BY <1>4, <2>1, <2>4, LoopLemma DEF DisconnectInput, NextOwner, TxnPhases
<1>5. CASE DisconnectFails
  BY <1>5, DieLemma DEF DisconnectFails, FaultKind
<1>6. CASE DisconnectCommit
  <2>1. txn \in Database /\ Sound(txn) /\ walletBlock \in WalletBlock
        /\ clone' \in WalletBlock
    BY <1>6 DEF DisconnectCommit, IInv, PhaseOK, TxnPhases, SyncPhases, Database
  <2> QED
    BY <1>6, <2>1
       DEF DisconnectCommit, IInv, TypeOK, PhaseOK, chainVars, memoryVars,
           importVars, SyncPhases, ImportPhases, TxnPhases, ClonePhases
<1>7. CASE NoPreviousBlock
  BY <1>7, DieLemma DEF NoPreviousBlock, FaultKind
<1>8. CASE DisconnectSynced
  <2>1. clone \in WalletBlock
    BY <1>8 DEF DisconnectSynced, IInv, PhaseOK, ClonePhases
  <2> QED
    BY <1>8, <2>1, EndLemma DEF DisconnectSynced, IInv, TypeOK, chainVars
<1> QED
  BY <1>1, <1>2, <1>3, <1>4, <1>5, <1>6, <1>7, <1>8

\* An import adds addresses.
LEMMA ImportStepLemma ==
  ASSUME IInv, \/ \E r \in Requests : StartImport(r)
               \/ ImportStep
  PROVE  IInv'
<1>1. CASE \E r \in Requests : StartImport(r)
  <2>1. PICK r \in Requests : StartImport(r)
    BY <1>1
  <2>2. r.wallet \in Wallet /\ r.addresses \in Seq(Address)
    BY WriterAssumption
  <2>3. task' \in Task /\ task'.places \subseteq DOMAIN task'.addresses
    BY <2>1, <2>2 DEF StartImport, NewPlaces, Task
  <2>4. walletBlock \in WalletBlock
    BY <2>1 DEF StartImport, IInv, TypeOK
  <2> QED
    BY <2>1, <2>3, <2>4
       DEF StartImport, IInv, TypeOK, PhaseOK, chainVars, memoryVars,
           SyncPhases, ImportPhases, TxnPhases, ClonePhases
<1>2. CASE ImportUTXOs
  <2>1. task.wallet \in Wallet /\ txn \in Database /\ Sound(txn)
    BY <1>2 DEF ImportUTXOs, IInv, PhaseOK, ImportPhases, TxnPhases, Task
  <2> DEFINE rows == {[wallet |-> task.wallet, out |-> u[1],
                       height |-> Height[u[2]]] :
                        u \in Unspent(best, NewAddresses)}
  <2>2. rows \in SUBSET UtxoRow
    BY <2>1, UnspentLemma, ChainAssumption DEF UtxoRow
  <2>3. txn' \in Database /\ Sound(txn')
    BY <1>2, <2>1, <2>2, AddUTXOsLemma DEF ImportUTXOs
  <2> HIDE DEF rows
  <2> QED
    BY <1>2, <2>3
       DEF ImportUTXOs, IInv, TypeOK, PhaseOK, chainVars, memoryVars,
           SyncPhases, ImportPhases, TxnPhases, ClonePhases
<1>3. CASE TipMoved
  <2>1. announced' \in Seq(Block)
    BY <1>3 DEF TipMoved, IInv, TypeOK
  <2> QED
    BY <1>3, <2>1, EndLemma DEF TipMoved, EndTask, IInv, TypeOK, memoryVars
<1>4. CASE GetAddressDeltas
  <2>1. task \in Task /\ task.places \subseteq DOMAIN task.addresses
        /\ clone \in WalletBlock
    BY <1>4 DEF GetAddressDeltas, IInv, PhaseOK, ImportPhases, TxnPhases,
                ClonePhases
  <2>2. NewAddresses \in SUBSET Address
    BY <1>4, NewAddressesLemma DEF GetAddressDeltas, ImportPhases
  <2>3. clone' \in WalletBlock
    BY <1>4, <2>1, <2>2 DEF GetAddressDeltas, FilterWithNew, WalletBlock
  <2> DEFINE found == DeltasBetween(best, NewAddresses, First(section), Last(section))
  <2>4. todo' \subseteq task.places \X found
    BY <1>4 DEF GetAddressDeltas
  <2>5. task.places \subseteq Nat
    BY <2>1 DEF Task
  <2>6. \A e \in found : e \in Block \X Nat /\ e[2] \in DOMAIN Deltas[e[1]]
    BY DeltasBetweenLemma
  <2> HIDE DEF found
  <2>7. /\ todo' \subseteq Nat \X (Block \X Nat)
        /\ \A e \in todo' : e[2][2] \in DOMAIN Deltas[e[2][1]]
    BY <2>4, <2>5, <2>6
  <2>8. lastHash' \in Block
    BY <1>4 DEF GetAddressDeltas, ChainOf
  <2> QED
    BY <1>4, <2>3, <2>7, <2>8
       DEF GetAddressDeltas, IInv, TypeOK, PhaseOK, chainVars, memoryVars,
           SyncPhases, ImportPhases, TxnPhases, ClonePhases
<1>5. CASE RangeAboveTip
  <2>1. clone \in WalletBlock /\ walletBlock \in WalletBlock
    BY <1>5 DEF RangeAboveTip, IInv, PhaseOK, ImportPhases, TxnPhases,
                ClonePhases
  <2>2. walletBlock' \in WalletBlock
    BY <1>5, <2>1, ForgetImportLemma DEF RangeAboveTip
  <2> QED
    BY <1>5, <2>2, EndLemma DEF RangeAboveTip, EndTask, IInv, TypeOK, chainVars
<1>6. CASE AddDelta
  <2>1. /\ task.wallet \in Wallet /\ txn \in Database /\ Sound(txn)
        /\ todo \subseteq Nat \X (Block \X Nat)
    BY <1>6 DEF AddDelta, IInv, TypeOK, PhaseOK, ImportPhases, TxnPhases, Task
  <2>2. PICK e \in todo :
          LET d == Deltas[e[2][1]][e[2][2]]
              row == [wallet |-> task.wallet, height |-> Height[e[2][1]],
                      index |-> d.index, tx |-> d.tx]
              added == AddBalance(PutTxid(txn, row), task.wallet, SatoshisOf(d))
          IN /\ todo' = todo \ {e}
             /\ txn' = FlushSaved(added, task.wallet, d.tx)
    BY <1>6 DEF AddDelta
  <2> DEFINE d == Deltas[e[2][1]][e[2][2]]
             row == [wallet |-> task.wallet, height |-> Height[e[2][1]],
                     index |-> d.index, tx |-> d.tx]
  <2>3. e[2][1] \in Block /\ e[2][2] \in DOMAIN Deltas[e[2][1]]
    BY <2>1 DEF IInv, PhaseOK
  <2>4. d \in Delta
    BY <2>3, ChainAssumption
  <2>5. d.index \in Nat /\ d.tx \in Txid
    BY <2>4 DEF Delta
  <2>6. row \in TxidRow
    BY <2>1, <2>3, <2>5, ChainAssumption DEF TxidRow
  <2>7. SatoshisOf(d) \in Int
    BY <2>4, DeltaLemma
  <2>8. PutTxid(txn, row) \in Database /\ Sound(PutTxid(txn, row))
    BY <2>1, <2>6, PutTxidLemma
  <2> DEFINE added == AddBalance(PutTxid(txn, row), task.wallet, SatoshisOf(d))
  <2>9. todo' = todo \ {e} /\ txn' = FlushSaved(added, task.wallet, d.tx)
    BY <2>2
  <2> HIDE DEF d, row
  <2>10. added \in Database /\ Sound(added)
    BY <2>1, <2>7, <2>8, AddBalanceLemma
  <2> HIDE DEF added
  <2>11. txn' \in Database /\ Sound(txn')
    BY <2>1, <2>5, <2>9, <2>10, FlushSavedLemma
  <2> QED
    BY <1>6, <2>9, <2>11
       DEF AddDelta, IInv, TypeOK, PhaseOK, chainVars, memoryVars,
           SyncPhases, ImportPhases, TxnPhases, ClonePhases
<1>7. CASE NextRange
  BY <1>7 DEF NextRange, IInv, TypeOK, PhaseOK, chainVars, memoryVars,
              SyncPhases, ImportPhases, TxnPhases, ClonePhases
<1>8. CASE CheckLastHash
  BY <1>8 DEF CheckLastHash, IInv, TypeOK, PhaseOK, chainVars, memoryVars,
              importVars, SyncPhases, ImportPhases, TxnPhases, ClonePhases
<1>9. CASE UnexpectedHash
  <2>1. clone \in WalletBlock /\ walletBlock \in WalletBlock
    BY <1>9 DEF UnexpectedHash, IInv, PhaseOK, ImportPhases, TxnPhases,
                ClonePhases
  <2>2. walletBlock' \in WalletBlock
    BY <1>9, <2>1, ForgetImportLemma DEF UnexpectedHash
  <2> QED
    BY <1>9, <2>2, EndLemma DEF UnexpectedHash, EndTask, IInv, TypeOK, chainVars
<1>10. CASE ImportAddress
  <2>1. /\ pc = "commitAddresses"
        /\ task \in Task /\ txn \in Database /\ Sound(txn)
        /\ clone \in WalletBlock
        /\ at \in [delta: Nat \ {0}, owner: Nat \ {0}]
    BY <1>10 DEF ImportAddress, IInv, TypeOK, PhaseOK, ImportPhases, TxnPhases,
                 ClonePhases
  <2>2. ThisAddress \in Address /\ task.wallet \in Wallet
    <3>1. task.addresses \in Seq(Address) /\ task.wallet \in Wallet
      BY <2>1 DEF Task
    <3>2. at.delta \in 1 .. Len(task.addresses)
      BY <1>10, <2>1, <3>1 DEF ImportAddress, AllImported
    <3> QED
      BY <3>1, <3>2 DEF ThisAddress
  <2>3. txn' \in Database /\ Sound(txn')
    BY <1>10, <2>1, <2>2, PutOwnerLemma DEF ImportAddress
  <2> QED
    BY <1>10, <2>1, <2>3, LoopLemma DEF ImportAddress, TxnPhases
<1>11. CASE ImportCommit
  <2>1. txn \in Database /\ Sound(txn) /\ clone \in WalletBlock
    BY <1>11 DEF ImportCommit, IInv, PhaseOK, TxnPhases, ClonePhases
  <2>2. db' \in Database /\ Sound(db')
    BY <1>11, <2>1, PutBlockLemma DEF ImportCommit
  <2> QED
    BY <1>11, <2>1, <2>2
       DEF ImportCommit, IInv, TypeOK, PhaseOK, chainVars, memoryVars,
           importVars, SyncPhases, ImportPhases, TxnPhases, ClonePhases
<1>12. CASE ImportSynced
  <2>1. clone \in WalletBlock
    BY <1>12 DEF ImportSynced, IInv, PhaseOK, ClonePhases
  <2> QED
    BY <1>12, <2>1, EndLemma DEF ImportSynced, EndTask, IInv, TypeOK, chainVars
<1> QED
  BY <1>1, <1>2, <1>3, <1>4, <1>5, <1>6, <1>7, <1>8, <1>9, <1>10, <1>11, <1>12
     DEF ImportStep

\* Requests and syncs that fail.
LEMMA FailStep ==
  ASSUME IInv, RequestFails \/ SyncFails
  PROVE  IInv'
<1>1. CASE RequestFails
  <2>1. walletBlock' \in WalletBlock \cup {Undefined}
    <3>1. CASE UNCHANGED walletBlock
      BY <3>1 DEF IInv, TypeOK
    <3>2. CASE pc \in {"getAddressUtxos", "getAddressDeltas"} /\ ForgetImport
      <4>1. clone \in WalletBlock /\ walletBlock \in WalletBlock
        BY <3>2 DEF IInv, PhaseOK, ImportPhases, TxnPhases, ClonePhases
      <4> QED
        BY <3>2, <4>1, ForgetImportLemma
    <3> QED
      BY <1>1, <3>1, <3>2 DEF RequestFails
  <2> QED
    BY <1>1, <2>1, EndLemma DEF RequestFails, EndTask, IInv, TypeOK, chainVars
<1>2. CASE SyncFails
  <2>1. CASE pc \in {"connectSync", "disconnectSync"}
    BY <1>2, <2>1, EndLemma
       DEF SyncFails, EndTask, IInv, TypeOK, chainVars, memoryVars
  <2>2. CASE Die("abort of a committed transaction")
    BY <2>2, DieLemma DEF FaultKind
  <2> QED
    BY <1>2, <2>1, <2>2 DEF SyncFails
<1> QED
  BY <1>1, <1>2

LEMMA StutterStep == IInv /\ UNCHANGED vars => IInv'
BY DEF vars, IInv, TypeOK, PhaseOK, Sound, TablesAgree, OwnersAgree

LEMMA InvStep == IInv /\ [Next]_vars => IInv'
BY OutsideStep, ConnectStep, DisconnectStep, ImportStepLemma, FailStep, StutterStep
   DEF Next, SyncStep

\* The invariant holds in every behaviour of the writer.
THEOREM Invariant == Spec => []IInv
BY InitLemma, InvStep, PTL DEF Spec

\* The variables and the tables keep the shape the code gives them, through
\* every connect, disconnect, import, failure, crash and restart.
THEOREM TypeCorrect == Spec => []TypeOK
<1>1. IInv => TypeOK
  BY DEF IInv
<1> QED
  BY <1>1, Invariant, PTL

\* The three tables of outputs agree in the committed database and in an open
\* transaction, whatever is connected, undone, imported, lost or repeated.
THEOREM IndexesAlwaysAgree == Spec => []IndexesAgree
<1>1. IInv => IndexesAgree
  BY DEF IInv, PhaseOK, IndexesAgree, Sound
<1> QED
  BY <1>1, Invariant, PTL

\* The address map and the addresses agree in the committed database: sync
\* serves an address for a wallet exactly when an import gave it to the wallet.
THEOREM MapAlwaysAgrees == Spec => []MapAgrees
<1>1. IInv => MapAgrees
  BY DEF IInv, MapAgrees, Sound
<1> QED
  BY <1>1, Invariant, PTL

----------------------------------------------------------------------------
(* The inductive invariant.                                                *)

\* The wallet of each row has the address of its output.
Owned(rows, pairs) == \A r \in rows : <<r.wallet, AddressOf[r.out]>> \in pairs

\* One entry for each height, and a last one if there is any.
Stack(blocks) ==
  /\ \A b, c \in blocks : b.height = c.height => b = c
  /\ blocks = {} \/ \E last \in blocks : \A b \in blocks : b.height <= last.height

\* The entry of block w is there, or pruning has taken it and all below it.
Kept(w, blocks) ==
  /\ \A b \in blocks : b.height = w.height => b.hash = w.hash
  /\ \/ \E b \in blocks : b.height = w.height
     \/ /\ \E b \in blocks : b.height >= w.height + PruneDepth
        /\ \A b \in blocks : b.height > w.height

BlocksInv ==
  /\ Stack(db.blocks)
  /\ pc # "down" /\ walletBlock = Undefined => db.blocks = {}
  /\ walletBlock # Undefined => Kept(walletBlock, db.blocks)
  /\ pc \in SyncPhases \cup ImportPhases => walletBlock # Undefined
  /\ pc \in TxnPhases => txn.blocks = db.blocks
  /\ pc \in {"connectSync", "disconnectSync", "importSync"} => clone \in db.blocks
  /\ pc = "getBlockDeltas" => Height[fetched] = walletBlock.height + 1
  /\ pc \in {"connect", "connectSync"} =>
       /\ clone.height = walletBlock.height + 1
       /\ Parent[clone.hash] = walletBlock.hash
  /\ pc = "disconnect" => clone.height = walletBlock.height
  /\ pc = "disconnectSync" => clone.height < walletBlock.height
  /\ pc \in ImportPhases =>
       clone.height = walletBlock.height /\ clone.hash = walletBlock.hash

\* The output comes with an address that the import has still to add.
ComesWith(r) ==
  /\ r.wallet = task.wallet
  /\ \E p \in task.places : p >= at.delta /\ AddressOf[r.out] = task.addresses[p]

OwnedInv ==
  /\ Owned(db.utxosByHeight, db.addresses)
  /\ \A b \in db.blocks : Owned(b.spentOutputs, db.addresses)
  /\ walletBlock # Undefined => Owned(walletBlock.spentOutputs, db.addresses)
  /\ pc \in ClonePhases => Owned(clone.spentOutputs, db.addresses)
  /\ pc \in {"connect", "disconnect"} =>
       /\ txn.addresses = db.addresses
       /\ Owned(txn.utxosByHeight, db.addresses)
  /\ pc \in ImportPhases \ {"importSync"} =>
       /\ db.addresses \subseteq txn.addresses
       /\ \A r \in txn.utxosByHeight :
            <<r.wallet, AddressOf[r.out]>> \in txn.addresses \/ ComesWith(r)
  /\ pc \in {"idle", "down", "getAddressUtxos", "getAddressDeltas", "addDeltas",
             "sync", "getBlockDeltas"} =>
       at = Start

HInv == IInv /\ BlocksInv /\ OwnedInv

----------------------------------------------------------------------------
(* What the writes leave of the tables the invariant is about.             *)

\* Nothing but PutBlock and Prune touches blocks, nothing but PutOwner the
\* addresses, and rows come into utxosByHeight with AddUTXOs only.
LEMMA AddUTXOsTables ==
  ASSUME NEW d \in Database, NEW new
  PROVE  /\ AddUTXOs(d, new).blocks = d.blocks
         /\ AddUTXOs(d, new).addresses = d.addresses
         /\ AddUTXOs(d, new).utxosByHeight = d.utxosByHeight \cup new
BY DEF AddUTXOs, Database

LEMMA DeleteUTXOTables ==
  ASSUME NEW d \in Database, NEW row
  PROVE  /\ DeleteUTXO(d, row).blocks = d.blocks
         /\ DeleteUTXO(d, row).addresses = d.addresses
         /\ DeleteUTXO(d, row).utxosByHeight = d.utxosByHeight \ {row}
BY DEF DeleteUTXO, Database

LEMMA TxidTables ==
  ASSUME NEW d \in Database, NEW row
  PROVE  /\ PutTxid(d, row).blocks = d.blocks
         /\ PutTxid(d, row).addresses = d.addresses
         /\ PutTxid(d, row).utxosByHeight = d.utxosByHeight
         /\ DeleteTxid(d, row).blocks = d.blocks
         /\ DeleteTxid(d, row).addresses = d.addresses
         /\ DeleteTxid(d, row).utxosByHeight = d.utxosByHeight
BY DEF PutTxid, DeleteTxid, Database

LEMMA FlushTables ==
  ASSUME NEW d \in Database, NEW w, NEW tx
  PROVE  /\ FlushSaved(d, w, tx).blocks = d.blocks
         /\ FlushSaved(d, w, tx).addresses = d.addresses
         /\ FlushSaved(d, w, tx).utxosByHeight = d.utxosByHeight
BY DEF FlushSaved, Database

LEMMA PutOwnerTables ==
  ASSUME NEW d \in Database, NEW w, NEW a
  PROVE  /\ PutOwner(d, w, a).blocks = d.blocks
         /\ PutOwner(d, w, a).addresses = d.addresses \cup {<<w, a>>}
         /\ PutOwner(d, w, a).utxosByHeight = d.utxosByHeight
BY DEF PutOwner, Database

LEMMA BalanceTables ==
  ASSUME NEW d \in Database, NEW w, NEW n
  PROVE  /\ AddBalance(d, w, n).blocks = d.blocks
         /\ AddBalance(d, w, n).addresses = d.addresses
         /\ AddBalance(d, w, n).utxosByHeight = d.utxosByHeight
<1> DEFINE new == [d.balance EXCEPT ![w] = @ + n]
<1>1. AddBalance(d, w, n) = [d EXCEPT !.balance = new]
  BY DEF AddBalance
<1> HIDE DEF new
<1> QED
  BY <1>1 DEF Database

LEMMA PutBlockTables ==
  ASSUME NEW d \in Database, NEW b
  PROVE  /\ PutBlock(d, b).blocks = {c \in d.blocks : c.height # b.height} \cup {b}
         /\ PutBlock(d, b).addresses = d.addresses
         /\ PutBlock(d, b).utxosByHeight = d.utxosByHeight
BY DEF PutBlock, Database

LEMMA PruneTables ==
  ASSUME NEW d \in Database, NEW depth
  PROVE  /\ Prune(d, depth).blocks =
              {b \in d.blocks : \E last \in d.blocks :
                 IsLastBlock(d, last) /\ b.height > Larger(0, last.height - depth)}
         /\ Prune(d, depth).addresses = d.addresses
         /\ Prune(d, depth).utxosByHeight = d.utxosByHeight
BY DEF Prune, Database

----------------------------------------------------------------------------
(* Blocks that are put and pruned.                                         *)

\* A block that is put replaces the one of its height: there is still one for
\* each height, and a last one.
LEMMA PutKeepsStack ==
  ASSUME NEW blocks \in SUBSET WalletBlock, Stack(blocks), NEW b \in WalletBlock
  PROVE  Stack({c \in blocks : c.height # b.height} \cup {b})
<1> DEFINE new == {c \in blocks : c.height # b.height} \cup {b}
<1>1. \A c \in blocks \cup {b} : c.height \in Nat
  BY DEF WalletBlock
<1>2. \A c, e \in new : c.height = e.height => c = e
  BY DEF Stack
<1>3. \E last \in new : \A c \in new : c.height <= last.height
  <2>1. CASE \E last \in blocks : \A c \in blocks : c.height <= last.height
    <3>1. PICK last \in blocks : \A c \in blocks : c.height <= last.height
      BY <2>1
    <3>2. CASE last.height <= b.height
      BY <1>1, <3>1, <3>2
    <3>3. CASE b.height < last.height
      BY <1>1, <3>1, <3>3
    <3> QED
      BY <1>1, <3>2, <3>3
  <2>2. CASE blocks = {}
    BY <1>1, <2>2
  <2> QED
    BY <2>1, <2>2 DEF Stack
<1> QED
  BY <1>2, <1>3 DEF Stack

\* The block that is put is there, and another tip stays where it was.
LEMMA PutIsKept ==
  ASSUME NEW blocks \in SUBSET WalletBlock, NEW b \in WalletBlock,
         NEW w \in WalletBlock
  PROVE  LET new == {c \in blocks : c.height # b.height} \cup {b}
         IN /\ w.height = b.height /\ w.hash = b.hash => Kept(w, new)
            /\ w.height < b.height /\ Kept(w, blocks) => Kept(w, new)
<1> DEFINE new == {c \in blocks : c.height # b.height} \cup {b}
<1>1. \A c \in blocks \cup {b, w} : c.height \in Nat
  BY DEF WalletBlock
<1>2. ASSUME w.height = b.height, w.hash = b.hash
      PROVE  Kept(w, new)
  BY <1>2 DEF Kept
<1>3. ASSUME w.height < b.height, Kept(w, blocks)
      PROVE  Kept(w, new)
  <2>1. \A c \in new : c.height = w.height => c.hash = w.hash
    BY <1>1, <1>3 DEF Kept
  <2>2. CASE \E c \in blocks : c.height = w.height
    BY <1>1, <1>3, <2>1, <2>2 DEF Kept
  <2>3. CASE /\ \E c \in blocks : c.height >= w.height + PruneDepth
             /\ \A c \in blocks : c.height > w.height
    <3>1. \A c \in new : c.height > w.height
      BY <1>3, <2>3
    <3>2. \E c \in new : c.height >= w.height + PruneDepth
      BY <2>3
    <3> QED
      BY <2>1, <3>1, <3>2 DEF Kept
  <2> QED
    BY <1>3, <2>2, <2>3 DEF Kept
<1> QED
  BY <1>2, <1>3

\* What Prune leaves of the blocks that end with a last one.
LEMMA PruneFromLast ==
  ASSUME NEW d \in Database, NEW last \in d.blocks,
         \A b \in d.blocks : b.height <= last.height
  PROVE  /\ Prune(d, PruneDepth).blocks =
              {b \in d.blocks : b.height > 0 /\ b.height > last.height - PruneDepth}
         /\ last.height > 0 => last \in Prune(d, PruneDepth).blocks
<1>1. /\ \A b \in d.blocks : b.height \in Nat
      /\ PruneDepth \in Nat \ {0}
  BY WriterAssumption DEF Database, WalletBlock
<1>2. \A e \in d.blocks : IsLastBlock(d, e) => e.height = last.height
  BY <1>1 DEF IsLastBlock
<1>3. IsLastBlock(d, last)
  BY DEF IsLastBlock
<1>4. \A b \in d.blocks :
        b.height > Larger(0, last.height - PruneDepth) <=>
          (b.height > 0 /\ b.height > last.height - PruneDepth)
  BY <1>1 DEF Larger
<1>5. Prune(d, PruneDepth).blocks =
        {b \in d.blocks : b.height > Larger(0, last.height - PruneDepth)}
  BY <1>2, <1>3, PruneTables
<1>6. Prune(d, PruneDepth).blocks =
        {b \in d.blocks : b.height > 0 /\ b.height > last.height - PruneDepth}
  BY <1>4, <1>5
<1> QED
  BY <1>1, <1>6

\* A block above the first is kept when older ones are pruned, or outlived.
LEMMA PruneIsKept ==
  ASSUME NEW d \in Database, Stack(d.blocks), NEW w \in d.blocks, w.height > 0
  PROVE  /\ Stack(Prune(d, PruneDepth).blocks)
         /\ Kept(w, Prune(d, PruneDepth).blocks)
<1>1. PICK last \in d.blocks : \A b \in d.blocks : b.height <= last.height
  BY DEF Stack
<1> DEFINE left == Prune(d, PruneDepth).blocks
<1>2. left = {b \in d.blocks : b.height > 0 /\ b.height > last.height - PruneDepth}
  BY <1>1, PruneFromLast
<1>3. /\ \A b \in d.blocks : b.height \in Nat
      /\ PruneDepth \in Nat \ {0}
  BY WriterAssumption DEF Database, WalletBlock
<1>4. last.height > 0
  BY <1>1, <1>3
<1>5. last \in left
  BY <1>1, <1>4, PruneFromLast
<1> HIDE DEF left
<1>6. Stack(left)
  <2>1. \A b, c \in left : b.height = c.height => b = c
    BY <1>2 DEF Stack
  <2>2. \A b \in left : b.height <= last.height
    BY <1>1, <1>2
  <2> QED
    BY <1>5, <2>1, <2>2 DEF Stack
<1>7. Kept(w, left)
  <2>1. \A b \in left : b.height = w.height => b.hash = w.hash
    BY <1>2 DEF Stack
  <2>2. CASE w.height > last.height - PruneDepth
    <3>1. w \in left
      BY <1>2, <2>2
    <3> QED
      BY <2>1, <3>1 DEF Kept
  <2>3. CASE w.height <= last.height - PruneDepth
    <3>1. last.height >= w.height + PruneDepth
      BY <1>3, <2>3
    <3>2. \A b \in left : b.height > w.height
      BY <1>2, <1>3, <2>3
    <3> QED
      BY <1>5, <2>1, <3>1, <3>2 DEF Kept
  <2> QED
    BY <1>3, <2>2, <2>3
<1> QED
  BY <1>6, <1>7 DEF left

----------------------------------------------------------------------------
(* Groups of steps.                                                        *)

History == BlocksInv /\ OwnedInv

\* Nothing that counts here changes.
LEMMA SameHistory ==
  ASSUME HInv,
         db'.blocks = db.blocks,
         db'.addresses = db.addresses,
         db'.utxosByHeight = db.utxosByHeight,
         UNCHANGED <<walletBlock, pc, txn, clone, fetched, at, task>>
  PROVE  History'
<1>1. BlocksInv'
  BY DEF HInv, BlocksInv
<1>2. OwnedInv'
  BY DEF HInv, OwnedInv, ComesWith, Owned
<1> QED
  BY <1>1, <1>2 DEF History

\* A task, or a block of one, ends and nothing is open; the database is of the
\* last commit.
LEMMA EndHistory ==
  ASSUME Clear,
         pc' \in {"idle", "down", "sync"},
         Stack(db'.blocks),
         pc' # "down" =>
           /\ walletBlock' # Undefined
           /\ Kept(walletBlock', db'.blocks),
         walletBlock' # Undefined =>
           /\ Kept(walletBlock', db'.blocks)
           /\ Owned(walletBlock'.spentOutputs, db'.addresses),
         Owned(db'.utxosByHeight, db'.addresses),
         \A b \in db'.blocks : Owned(b.spentOutputs, db'.addresses)
  PROVE  History'
<1>1. BlocksInv'
  BY DEF Clear, BlocksInv, SyncPhases, ImportPhases, TxnPhases
<1>2. OwnedInv'
  BY DEF Clear, OwnedInv, ImportPhases, ClonePhases, TxnPhases
<1> QED
  BY <1>1, <1>2 DEF History

\* The same, when the database is what it was.
LEMMA EndSame ==
  ASSUME HInv, Clear, UNCHANGED db,
         pc' \in {"idle", "down", "sync"},
         pc' # "down" => walletBlock' # Undefined,
         walletBlock' # Undefined =>
           /\ Kept(walletBlock', db.blocks)
           /\ Owned(walletBlock'.spentOutputs, db.addresses)
  PROVE  History'
BY EndHistory DEF HInv, BlocksInv, OwnedInv

\* The tip stays, or only its filter grows.
LEMMA EndWithTip ==
  ASSUME HInv, Clear, UNCHANGED db,
         pc \in SyncPhases \cup ImportPhases,
         pc' \in {"idle", "sync"},
         \/ UNCHANGED walletBlock
         \/ pc \in ImportPhases /\ ForgetImport
  PROVE  History'
<1>1. /\ walletBlock # Undefined /\ walletBlock \in WalletBlock
      /\ Kept(walletBlock, db.blocks)
      /\ Owned(walletBlock.spentOutputs, db.addresses)
  BY DEF HInv, BlocksInv, OwnedInv, IInv, PhaseOK
<1>2. CASE UNCHANGED walletBlock
  BY <1>1, <1>2, EndSame
<1>3. CASE /\ pc \in ImportPhases
           /\ walletBlock' = [walletBlock EXCEPT !.addressFilter = clone.addressFilter]
  <2>1. clone \in WalletBlock
    BY <1>3 DEF HInv, IInv, PhaseOK, ImportPhases, ClonePhases, TxnPhases
  <2>2. walletBlock' \in WalletBlock
    BY <1>1, <1>3, <2>1 DEF WalletBlock
  <2>3. /\ walletBlock'.height = walletBlock.height
        /\ walletBlock'.hash = walletBlock.hash
        /\ walletBlock'.spentOutputs = walletBlock.spentOutputs
    BY <1>1, <1>3 DEF WalletBlock
  <2>4. walletBlock' # Undefined
    BY <2>2, DatabaseAssumption
  <2>5. Kept(walletBlock', db.blocks)
    BY <1>1, <2>3 DEF Kept
  <2> QED
    BY <1>1, <2>3, <2>4, <2>5, EndSame
<1> QED
  BY <1>2, <1>3 DEF ForgetImport

LEMMA DieHistory ==
  ASSUME HInv, NEW reason, Die(reason)
  PROVE  History'
BY EndSame DEF Die

\* The loop over deltas and owners.
LEMMA LoopHistory ==
  ASSUME HInv, pc \in {"connect", "disconnect"},
         UNCHANGED <<db, walletBlock, pc, fetched, task>>,
         txn'.blocks = txn.blocks,
         txn'.addresses = txn.addresses,
         Owned(txn'.utxosByHeight, db.addresses),
         clone'.height = clone.height,
         clone'.hash = clone.hash,
         Owned(clone'.spentOutputs, db.addresses)
  PROVE  History'
<1>1. BlocksInv'
  BY DEF HInv, BlocksInv, SyncPhases, ImportPhases, TxnPhases
<1>2. OwnedInv'
  BY DEF HInv, OwnedInv, ImportPhases, ClonePhases, TxnPhases
<1> QED
  BY <1>1, <1>2 DEF History

\* An import before its commit.
LEMMA ImportHistory ==
  ASSUME HInv, pc \in ImportPhases \ {"importSync"},
         pc' \in ImportPhases \ {"importSync"},
         UNCHANGED <<db, walletBlock, task>>,
         pc' # "commitAddresses" => at' = Start,
         txn'.blocks = txn.blocks,
         db.addresses \subseteq txn'.addresses,
         \A r \in txn'.utxosByHeight :
           <<r.wallet, AddressOf[r.out]>> \in txn'.addresses \/ ComesWith(r)',
         clone'.height = clone.height,
         clone'.hash = clone.hash,
         clone'.spentOutputs = clone.spentOutputs
  PROVE  History'
<1>1. BlocksInv'
  BY DEF HInv, BlocksInv, SyncPhases, ImportPhases, TxnPhases
<1>2. OwnedInv'
  BY DEF HInv, OwnedInv, ImportPhases, ClonePhases, TxnPhases
<1> QED
  BY <1>1, <1>2 DEF History

\* Whatever an import has open before its commit.
LEMMA ImportOpen ==
  ASSUME HInv, pc \in ImportPhases \ {"importSync"}
  PROVE  /\ txn \in Database /\ clone \in WalletBlock /\ db \in Database
         /\ task \in Task /\ task.places \subseteq DOMAIN task.addresses
         /\ txn.blocks = db.blocks
         /\ db.addresses \subseteq txn.addresses
         /\ \A r \in txn.utxosByHeight :
              <<r.wallet, AddressOf[r.out]>> \in txn.addresses \/ ComesWith(r)
         /\ pc # "commitAddresses" => at = Start
<1>1. pc \in TxnPhases /\ pc \in ClonePhases /\ pc \in ImportPhases
  BY DEF ImportPhases, TxnPhases, ClonePhases
<1>2. /\ txn \in Database /\ clone \in WalletBlock /\ db \in Database
      /\ task \in Task /\ task.places \subseteq DOMAIN task.addresses
  BY <1>1 DEF HInv, IInv, TypeOK, PhaseOK
<1>3. txn.blocks = db.blocks
  BY <1>1 DEF HInv, BlocksInv
<1>4. /\ db.addresses \subseteq txn.addresses
      /\ \A r \in txn.utxosByHeight :
           <<r.wallet, AddressOf[r.out]>> \in txn.addresses \/ ComesWith(r)
  BY DEF HInv, OwnedInv
<1>5. pc # "commitAddresses" => at = Start
  BY DEF HInv, OwnedInv, ImportPhases
<1> QED
  BY <1>2, <1>3, <1>4, <1>5

----------------------------------------------------------------------------
(* Every step keeps the invariant.                                         *)

LEMMA StartsWithHistory == Init => History
<1> SUFFICES ASSUME Init PROVE History
  OBVIOUS
<1>1. BlocksInv
  BY DEF Init, BlocksInv, EmptyDatabase, Stack, SyncPhases, ImportPhases,
         TxnPhases
<1>2. OwnedInv
  BY DEF Init, OwnedInv, EmptyDatabase, Owned, ClonePhases, TxnPhases,
         ImportPhases
<1> QED
  BY <1>1, <1>2 DEF History

\* bitcoind, the process, createWallet, saveTransaction, and the begin of sync
LEMMA OutsideHistory ==
  ASSUME HInv,
         \/ \E b \in Block : NewTip(b)
         \/ \E w \in Wallet : CreateWallet(w)
         \/ \E s \in Saved : SaveTransaction(s[1], s[2])
         \/ Sync \/ SyncDone \/ GetBlockHash \/ Crash \/ Restart
         \/ UNCHANGED vars
  PROVE  History'
<1>0. /\ db \in Database /\ db.blocks \in SUBSET WalletBlock
      /\ \A b \in WalletBlock : b.height \in Nat
  BY DEF HInv, IInv, TypeOK, Database, WalletBlock
<1>1. CASE (\E b \in Block : NewTip(b)) \/ UNCHANGED vars
  BY <1>1, SameHistory DEF NewTip, memoryVars, importVars, vars
<1>2. CASE \E w \in Wallet : CreateWallet(w)
  <2>1. PICK w \in Wallet : CreateWallet(w)
    BY <1>2
  <2> DEFINE d == [db EXCEPT !.wallets = @ \cup {w}]
  <2>2. /\ d \in Database /\ d.blocks = db.blocks
        /\ d.addresses = db.addresses /\ d.utxosByHeight = db.utxosByHeight
    BY <1>0 DEF Database
  <2>3. /\ pc = "idle" /\ at = Start
        /\ UNCHANGED <<pc, txn, clone, fetched, at, task>>
        /\ \/ walletBlock # Undefined /\ db' = d /\ UNCHANGED walletBlock
           \/ /\ walletBlock = Undefined
              /\ walletBlock' = NewWalletBlock(bitcoinTip)
              /\ db' = PutBlock(d, NewWalletBlock(bitcoinTip))
    BY <2>1 DEF CreateWallet, importVars, HInv, OwnedInv
  <2> HIDE DEF d
  <2>4. CASE db' = d /\ UNCHANGED walletBlock
    BY <2>2, <2>3, <2>4, SameHistory
  <2>5. CASE /\ walletBlock = Undefined
             /\ walletBlock' = NewWalletBlock(bitcoinTip)
             /\ db' = PutBlock(d, NewWalletBlock(bitcoinTip))
    <3> DEFINE new == NewWalletBlock(bitcoinTip)
    <3>1. new \in WalletBlock /\ new.spentOutputs = {}
      BY ChainAssumption DEF NewWalletBlock, WalletBlock, HInv, IInv, TypeOK
    <3> HIDE DEF new
    <3>2. walletBlock' = new /\ new # Undefined
      BY <2>5, <3>1, DatabaseAssumption DEF new
    <3>3. /\ db'.blocks = {c \in db.blocks : c.height # new.height} \cup {new}
          /\ db'.addresses = db.addresses
          /\ db'.utxosByHeight = db.utxosByHeight
      BY <2>2, <2>5, PutBlockTables DEF new
    <3>4. Stack(db'.blocks) /\ Kept(new, db'.blocks)
      BY <1>0, <3>1, <3>3, PutKeepsStack, PutIsKept DEF HInv, BlocksInv
    <3>5. /\ Owned(db.utxosByHeight, db.addresses)
          /\ \A b \in db'.blocks : Owned(b.spentOutputs, db.addresses)
      BY <3>1, <3>3 DEF HInv, OwnedInv, Owned
    <3>6. Owned(new.spentOutputs, db.addresses)
      BY <3>1 DEF Owned
    <3>7. BlocksInv'
      BY <2>3, <3>2, <3>4 DEF BlocksInv, SyncPhases, ImportPhases, TxnPhases
    <3>8. OwnedInv'
      BY <2>3, <3>2, <3>3, <3>5, <3>6
         DEF OwnedInv, ImportPhases, ClonePhases, TxnPhases
    <3> QED
      BY <3>7, <3>8 DEF History
  <2> QED
    BY <2>3, <2>4, <2>5
<1>3. CASE \E s \in Saved : SaveTransaction(s[1], s[2])
  <2>1. PICK s \in Saved : SaveTransaction(s[1], s[2])
    BY <1>3
  <2>2. db' = [db EXCEPT !.txs = @ \cup {<<s[1], s[2]>>}]
    BY <2>1 DEF SaveTransaction
  <2>3. /\ db'.blocks = db.blocks /\ db'.addresses = db.addresses
        /\ db'.utxosByHeight = db.utxosByHeight
    BY <1>0, <2>2 DEF Database
  <2> QED
    BY <2>1, <2>3, SameHistory DEF SaveTransaction, memoryVars, importVars
<1>4. CASE Sync
  <2>1. /\ pc = "idle" /\ pc' = (IF walletBlock = Undefined THEN "idle" ELSE "sync")
        /\ UNCHANGED <<db, walletBlock, txn, clone, fetched, at, task>>
    BY <1>4 DEF Sync, importVars
  <2>2. BlocksInv'
    BY <2>1 DEF HInv, BlocksInv, SyncPhases, ImportPhases, TxnPhases
  <2>3. OwnedInv'
    BY <2>1 DEF HInv, OwnedInv, ImportPhases, ClonePhases, TxnPhases
  <2> QED
    BY <2>2, <2>3 DEF History
<1>5. CASE SyncDone
  BY <1>5, EndWithTip DEF SyncDone, EndTask, memoryVars, SyncPhases
<1>6. CASE GetBlockHash
  <2>1. /\ pc = "sync" /\ pc' = "getBlockDeltas"
        /\ Height[fetched'] = walletBlock.height + 1
        /\ UNCHANGED <<db, walletBlock, txn, clone, at, task>>
    BY <1>6 DEF GetBlockHash, memoryVars, importVars
  <2>2. BlocksInv'
    BY <2>1 DEF HInv, BlocksInv, SyncPhases, ImportPhases, TxnPhases
  <2>3. OwnedInv'
    BY <2>1 DEF HInv, OwnedInv, ImportPhases, ClonePhases, TxnPhases
  <2> QED
    BY <2>2, <2>3 DEF History
<1>7. CASE Crash
  BY <1>7, DieHistory DEF Crash
<1>8. CASE Restart
  <2>1. /\ pc = "down" /\ pc' = "idle"
        /\ UNCHANGED <<db, txn, clone, fetched, at, task>>
        /\ \/ db.blocks = {} /\ walletBlock' = Undefined
           \/ walletBlock' \in db.blocks
    BY <1>8 DEF Restart, importVars
  <2>2. walletBlock' # Undefined =>
          /\ Kept(walletBlock', db.blocks)
          /\ Owned(walletBlock'.spentOutputs, db.addresses)
    <3>1. CASE walletBlock' \in db.blocks
      BY <3>1 DEF HInv, BlocksInv, OwnedInv, Stack, Kept
    <3> QED
      BY <2>1, <3>1
  <2>3. walletBlock' = Undefined => db.blocks = {}
    BY <1>0, <2>1, DatabaseAssumption
  <2>4. BlocksInv'
    BY <2>1, <2>2, <2>3
       DEF HInv, BlocksInv, SyncPhases, ImportPhases, TxnPhases
  <2>5. OwnedInv'
    BY <2>1, <2>2 DEF HInv, OwnedInv, ImportPhases, ClonePhases, TxnPhases
  <2> QED
    BY <2>4, <2>5 DEF History
<1> QED
  BY <1>1, <1>2, <1>3, <1>4, <1>5, <1>6, <1>7, <1>8

\* What the loop over deltas has open.
LEMMA LoopOpen ==
  ASSUME HInv, pc \in {"connect", "disconnect"}
  PROVE  /\ txn \in Database /\ clone \in WalletBlock /\ db \in Database
         /\ walletBlock \in WalletBlock /\ walletBlock # Undefined
         /\ Sound(txn)
         /\ txn.blocks = db.blocks
         /\ txn.addresses = db.addresses
         /\ Owned(txn.utxosByHeight, db.addresses)
         /\ Owned(clone.spentOutputs, db.addresses)
<1>1. pc \in TxnPhases /\ pc \in ClonePhases /\ pc \in SyncPhases
  BY DEF SyncPhases, TxnPhases, ClonePhases
<1>2. /\ txn \in Database /\ clone \in WalletBlock /\ db \in Database
      /\ walletBlock \in WalletBlock /\ Sound(txn)
  BY <1>1 DEF HInv, IInv, TypeOK, PhaseOK
<1>3. txn.blocks = db.blocks /\ walletBlock # Undefined
  BY <1>1 DEF HInv, BlocksInv
<1>4. /\ txn.addresses = db.addresses
      /\ Owned(txn.utxosByHeight, db.addresses)
      /\ Owned(clone.spentOutputs, db.addresses)
  BY <1>1 DEF HInv, OwnedInv
<1> QED
  BY <1>2, <1>3, <1>4

\* The wallet at which the loop stands has the address of the delta.
LEMMA OwnerHasAddress ==
  ASSUME HInv, pc \in {"connect", "disconnect"}, AtOwner
  PROVE  <<ThisUtxo.wallet, AddressOf[ThisUtxo.out]>> \in db.addresses
<1>1. ThisDelta \in Delta /\ ThisUtxo \in UtxoRow
  BY OwnerLemma DEF HInv
<1>2. /\ txn \in Database /\ Sound(txn)
      /\ txn.addresses = db.addresses
      /\ at \in [delta: Nat \ {0}, owner: Nat \ {0}]
  BY LoopOpen DEF HInv, IInv, TypeOK
<1> DEFINE a == AddressOfDelta(ThisDelta)
<1>3. a \in Address
  BY <1>1, DeltaLemma
<1>4. /\ ThisUtxo.wallet = txn.addressesMap[a][at.owner]
      /\ AddressOf[ThisUtxo.out] = a
  BY DEF ThisUtxo, ThisOwner, Owners, AddressOfDelta
<1>5. ThisUtxo.wallet \in Wallet
  BY <1>1 DEF UtxoRow
<1>6. at.owner \in DOMAIN txn.addressesMap[a]
  <2>1. txn.addressesMap[a] \in Seq(Wallet)
    BY <1>2, <1>3 DEF Database
  <2>2. at.owner <= Len(txn.addressesMap[a])
    BY DEF AtOwner, Owners
  <2> QED
    BY <1>2, <2>1, <2>2
<1> HIDE DEF a
<1>7. <<ThisUtxo.wallet, a>> \in txn.addresses
  BY <1>2, <1>3, <1>4, <1>5, <1>6 DEF Sound, OwnersAgree
<1> QED
  BY <1>2, <1>4, <1>7

\* The tables of the loop's working copy.
LEMMA LoopTables ==
  ASSUME HInv, pc \in {"connect", "disconnect"}, AtOwner
  PROVE  /\ Connected(txn) \in Database /\ Disconnected(txn) \in Database
         /\ Connected(txn).blocks = txn.blocks
         /\ Connected(txn).addresses = txn.addresses
         /\ Connected(txn).utxosByHeight = txn.utxosByHeight
         /\ Disconnected(txn).blocks = txn.blocks
         /\ Disconnected(txn).addresses = txn.addresses
         /\ Disconnected(txn).utxosByHeight = txn.utxosByHeight
<1>1. txn \in Database
  BY LoopOpen
<1>2. /\ ThisTxid \in TxidRow
      /\ Connected(txn) \in Database /\ Disconnected(txn) \in Database
  BY OwnerLemma DEF HInv
<1>3. PutTxid(txn, ThisTxid) \in Database /\ DeleteTxid(txn, ThisTxid) \in Database
  BY <1>1, <1>2, PutTxidLemma, DeleteTxidLemma
<1>4. /\ Connected(txn).blocks = txn.blocks
      /\ Connected(txn).addresses = txn.addresses
      /\ Connected(txn).utxosByHeight = txn.utxosByHeight
  BY <1>1, <1>3, BalanceTables, TxidTables DEF Connected
<1>5. /\ Disconnected(txn).blocks = txn.blocks
      /\ Disconnected(txn).addresses = txn.addresses
      /\ Disconnected(txn).utxosByHeight = txn.utxosByHeight
  BY <1>1, <1>3, BalanceTables, TxidTables DEF Disconnected
<1> QED
  BY <1>2, <1>4, <1>5

\* sync connects a block.
LEMMA ConnectHistory ==
  ASSUME HInv,
         \/ StartConnect \/ NextDelta \/ ConnectOutput \/ ConnectInput
         \/ ConnectFails \/ ConnectCommit \/ ConnectSynced
  PROVE  History'
<1>1. CASE StartConnect
  <2>1. /\ pc = "getBlockDeltas" /\ pc' = "connect"
        /\ Parent[fetched] = walletBlock.hash
        /\ txn' = db /\ UNCHANGED <<db, walletBlock>>
        /\ walletBlock \in WalletBlock
    BY <1>1 DEF StartConnect, ExtendsTip, memoryVars, HInv, IInv, PhaseOK,
                SyncPhases
  <2>2. /\ clone'.height = Height[fetched]
        /\ clone'.hash = fetched
        /\ clone'.spentOutputs = {}
    BY <1>1, <2>1 DEF StartConnect, WalletBlock
  <2>3. BlocksInv'
    BY <2>1, <2>2 DEF HInv, BlocksInv, SyncPhases, ImportPhases, TxnPhases
  <2>4. OwnedInv'
    BY <2>1, <2>2 DEF HInv, OwnedInv, ImportPhases, ClonePhases, TxnPhases,
                      Owned
  <2> QED
    BY <2>3, <2>4 DEF History
<1>2. CASE NextDelta
  BY <1>2, LoopOpen, LoopHistory DEF NextDelta, memoryVars, importVars
<1>3. CASE ConnectOutput
  <2>1. /\ pc = "connect" /\ AtOwner
        /\ txn' = AddUTXOs(Connected(txn), {ThisUtxo})
        /\ UNCHANGED <<db, walletBlock, pc, clone, fetched, task>>
    BY <1>3 DEF ConnectOutput, memoryVars, importVars
  <2>2. /\ txn'.blocks = txn.blocks
        /\ txn'.addresses = txn.addresses
        /\ txn'.utxosByHeight = txn.utxosByHeight \cup {ThisUtxo}
    BY <2>1, LoopTables, AddUTXOsTables
  <2>3. Owned(txn'.utxosByHeight, db.addresses)
    BY <2>1, <2>2, LoopOpen, OwnerHasAddress DEF Owned
  <2> QED
    BY <2>1, <2>2, <2>3, LoopOpen, LoopHistory
<1>4. CASE ConnectInput
  <2>1. /\ pc = "connect" /\ AtOwner
        /\ UNCHANGED <<db, walletBlock, pc, fetched, task>>
    BY <1>4 DEF ConnectInput, memoryVars, importVars
  <2>2. PICK spent \in txn.utxos :
          /\ CanDeleteUTXO(txn, spent)
          /\ txn' = DeleteUTXO(Connected(txn), spent)
          /\ clone' = [clone EXCEPT
                         !.spentOutputs = Without(@, {spent}) \cup {spent}]
    BY <1>4 DEF ConnectInput
  <2>3. /\ txn'.blocks = txn.blocks
        /\ txn'.addresses = txn.addresses
        /\ txn'.utxosByHeight = txn.utxosByHeight \ {spent}
    BY <2>1, <2>2, LoopTables, DeleteUTXOTables
  <2>4. /\ clone'.height = clone.height /\ clone'.hash = clone.hash
        /\ clone'.spentOutputs = Without(clone.spentOutputs, {spent}) \cup {spent}
    BY <2>1, <2>2, LoopOpen DEF WalletBlock
  <2>5. spent \in txn.utxosByHeight
    BY <2>2 DEF CanDeleteUTXO
  <2>6. /\ Owned(txn'.utxosByHeight, db.addresses)
        /\ Owned(clone'.spentOutputs, db.addresses)
    BY <2>1, <2>3, <2>4, <2>5, LoopOpen DEF Owned, Without
  <2> QED
    BY <2>1, <2>3, <2>4, <2>6, LoopHistory
<1>5. CASE ConnectFails
  BY <1>5, DieHistory DEF ConnectFails
<1>6. CASE ConnectCommit
  <2>1. /\ pc = "connect" /\ pc' = "connectSync"
        /\ db' = PutBlock(txn, clone)
        /\ UNCHANGED <<walletBlock, clone, at>>
    BY <1>6 DEF ConnectCommit, memoryVars
  <2>2. /\ db'.blocks = {c \in db.blocks : c.height # clone.height} \cup {clone}
        /\ db'.addresses = db.addresses
        /\ Owned(db'.utxosByHeight, db.addresses)
    BY <2>1, LoopOpen, PutBlockTables
  <2>3. /\ db.blocks \in SUBSET WalletBlock /\ clone \in WalletBlock
        /\ walletBlock \in WalletBlock /\ walletBlock # Undefined
        /\ walletBlock.height < clone.height
    BY <2>1, LoopOpen DEF Database, HInv, BlocksInv, WalletBlock
  <2>4. /\ Stack(db'.blocks) /\ clone \in db'.blocks
        /\ Kept(walletBlock, db'.blocks)
    BY <2>2, <2>3, PutKeepsStack, PutIsKept DEF HInv, BlocksInv
  <2>5. BlocksInv'
    BY <2>1, <2>3, <2>4 DEF HInv, BlocksInv, SyncPhases, ImportPhases, TxnPhases
  <2>6. /\ \A b \in db'.blocks : Owned(b.spentOutputs, db.addresses)
        /\ Owned(clone.spentOutputs, db.addresses)
    BY <2>1, <2>2, LoopOpen DEF HInv, OwnedInv
  <2>7. OwnedInv'
    BY <2>1, <2>2, <2>6 DEF HInv, OwnedInv, ImportPhases, ClonePhases, TxnPhases
  <2> QED
    BY <2>5, <2>7 DEF History
<1>7. CASE ConnectSynced
  <2>1. /\ pc = "connectSync" /\ pc' = "sync" /\ Clear
        /\ walletBlock' = clone
        /\ db' = Prune(db, PruneDepth)
    BY <1>7 DEF ConnectSynced
  <2>2. /\ db \in Database /\ clone \in WalletBlock /\ clone # Undefined
        /\ clone \in db.blocks
        /\ walletBlock \in WalletBlock
        /\ clone.height = walletBlock.height + 1
        /\ Stack(db.blocks)
    BY <2>1, DatabaseAssumption
       DEF HInv, IInv, TypeOK, PhaseOK, BlocksInv, SyncPhases, ClonePhases
  <2>3. clone.height > 0
    BY <2>2 DEF WalletBlock
  <2>4. Stack(db'.blocks) /\ Kept(clone, db'.blocks)
    BY <2>1, <2>2, <2>3, PruneIsKept
  <2>5. /\ db'.blocks \subseteq db.blocks
        /\ db'.addresses = db.addresses
        /\ db'.utxosByHeight = db.utxosByHeight
    BY <2>1, <2>2, PruneTables
  <2>6. /\ Owned(db'.utxosByHeight, db'.addresses)
        /\ \A b \in db'.blocks : Owned(b.spentOutputs, db'.addresses)
        /\ Owned(clone.spentOutputs, db'.addresses)
    BY <2>1, <2>5 DEF HInv, OwnedInv, ClonePhases
  <2> QED
    BY <2>1, <2>2, <2>4, <2>6, EndHistory
<1> QED
  BY <1>1, <1>2, <1>3, <1>4, <1>5, <1>6, <1>7

\* sync disconnects its tip.
LEMMA DisconnectHistory ==
  ASSUME HInv,
         \/ StartDisconnect \/ NoDeltasToUndo \/ DisconnectOutput
         \/ DisconnectInput \/ DisconnectFails \/ DisconnectCommit
         \/ NoPreviousBlock \/ DisconnectSynced
  PROVE  History'
<1>1. CASE StartDisconnect
  <2>1. /\ pc = "getBlockDeltas" /\ pc' = "disconnect"
        /\ txn' = db /\ clone' = walletBlock
        /\ UNCHANGED <<db, walletBlock>>
    BY <1>1 DEF StartDisconnect, memoryVars
  <2>2. BlocksInv'
    BY <2>1 DEF HInv, BlocksInv, SyncPhases, ImportPhases, TxnPhases
  <2>3. walletBlock # Undefined
    BY <2>1 DEF HInv, BlocksInv, SyncPhases
  <2>4. OwnedInv'
    BY <2>1, <2>3 DEF HInv, OwnedInv, ImportPhases, ClonePhases, TxnPhases
  <2> QED
    BY <2>2, <2>4 DEF History
<1>2. CASE NoDeltasToUndo
  BY <1>2, DieHistory DEF NoDeltasToUndo
<1>3. CASE DisconnectOutput
  <2>1. /\ pc = "disconnect" /\ AtOwner
        /\ txn' = DeleteUTXO(Disconnected(txn), ThisUtxo)
        /\ UNCHANGED <<db, walletBlock, pc, clone, fetched, task>>
    BY <1>3 DEF DisconnectOutput, memoryVars, importVars
  <2>2. /\ txn'.blocks = txn.blocks
        /\ txn'.addresses = txn.addresses
        /\ txn'.utxosByHeight = txn.utxosByHeight \ {ThisUtxo}
    BY <2>1, LoopTables, DeleteUTXOTables
  <2>3. Owned(txn'.utxosByHeight, db.addresses)
    BY <2>1, <2>2, LoopOpen DEF Owned
  <2> QED
    BY <2>1, <2>2, <2>3, LoopOpen, LoopHistory
<1>4. CASE DisconnectInput
  <2>1. /\ pc = "disconnect" /\ AtOwner
        /\ UNCHANGED <<db, walletBlock, pc, clone, fetched, task>>
    BY <1>4 DEF DisconnectInput, memoryVars, importVars
  <2>2. PICK spent \in clone.spentOutputs :
          txn' = AddUTXOs(Disconnected(txn), {spent})
    BY <1>4 DEF DisconnectInput
  <2>3. /\ txn'.blocks = txn.blocks
        /\ txn'.addresses = txn.addresses
        /\ txn'.utxosByHeight = txn.utxosByHeight \cup {spent}
    BY <2>1, <2>2, LoopTables, AddUTXOsTables
  <2>4. Owned(txn'.utxosByHeight, db.addresses)
    BY <2>1, <2>2, <2>3, LoopOpen DEF Owned
  <2> QED
    BY <2>1, <2>3, <2>4, LoopOpen, LoopHistory
<1>5. CASE DisconnectFails
  BY <1>5, DieHistory DEF DisconnectFails
<1>6. CASE DisconnectCommit
  <2>1. /\ pc = "disconnect" /\ pc' = "disconnectSync"
        /\ db' = txn /\ clone' \in txn.blocks
        /\ clone'.height = clone.height - 1
        /\ UNCHANGED <<walletBlock, at>>
    BY <1>6 DEF DisconnectCommit, memoryVars
  <2>2. /\ db'.blocks = db.blocks
        /\ db'.addresses = db.addresses
        /\ Owned(db'.utxosByHeight, db.addresses)
    BY <2>1, LoopOpen
  <2>3. clone'.height < walletBlock.height
    <3>1. clone.height = walletBlock.height
      BY <2>1 DEF HInv, BlocksInv
    <3>2. walletBlock.height \in Nat
      BY <2>1, LoopOpen DEF WalletBlock
    <3> QED
      BY <2>1, <3>1, <3>2
  <2>4. BlocksInv'
    BY <2>1, <2>2, <2>3 DEF HInv, BlocksInv, SyncPhases, ImportPhases, TxnPhases
  <2>5. OwnedInv'
    BY <2>1, <2>2 DEF HInv, OwnedInv, ImportPhases, ClonePhases, TxnPhases
  <2> QED
    BY <2>4, <2>5 DEF History
<1>7. CASE NoPreviousBlock
  BY <1>7, DieHistory DEF NoPreviousBlock
<1>8. CASE DisconnectSynced
  <2>1. /\ pc = "disconnectSync" /\ pc' = "sync" /\ Clear
        /\ walletBlock' = clone /\ UNCHANGED db
    BY <1>8 DEF DisconnectSynced
  <2>2. /\ clone \in WalletBlock /\ clone # Undefined /\ clone \in db.blocks
        /\ Owned(clone.spentOutputs, db.addresses)
    BY <2>1, DatabaseAssumption
       DEF HInv, IInv, PhaseOK, BlocksInv, OwnedInv, ClonePhases
  <2>3. Kept(clone, db.blocks)
    BY <2>2 DEF HInv, BlocksInv, Stack, Kept
  <2> QED
    BY <2>1, <2>2, <2>3, EndSame
<1> QED
  BY <1>1, <1>2, <1>3, <1>4, <1>5, <1>6, <1>7, <1>8

\* An import adds addresses.
LEMMA ImportStepHistory ==
  ASSUME HInv, \/ \E r \in Requests : StartImport(r)
               \/ ImportStep
  PROVE  History'
<1>1. CASE \E r \in Requests : StartImport(r)
  <2>1. /\ pc = "idle" /\ pc' = "getAddressUtxos"
        /\ walletBlock # Undefined
        /\ txn' = db /\ clone' = walletBlock
        /\ UNCHANGED <<db, walletBlock, at>>
    BY <1>1 DEF StartImport, memoryVars
  <2>2. BlocksInv'
    BY <2>1 DEF HInv, BlocksInv, SyncPhases, ImportPhases, TxnPhases
  <2>3. OwnedInv'
    BY <2>1 DEF HInv, OwnedInv, Owned, ImportPhases, ClonePhases, TxnPhases
  <2> QED
    BY <2>2, <2>3 DEF History
<1>2. CASE ImportUTXOs
  <2> DEFINE rows == {[wallet |-> task.wallet, out |-> u[1],
                       height |-> Height[u[2]]] :
                        u \in Unspent(best, NewAddresses)}
  <2>1. /\ pc = "getAddressUtxos" /\ pc' = "getAddressDeltas"
        /\ txn' = AddUTXOs(txn, rows)
        /\ UNCHANGED <<db, walletBlock, task, clone, at>>
    BY <1>2 DEF ImportUTXOs, memoryVars
  <2>2. /\ txn \in Database /\ at = Start /\ db.addresses \subseteq txn.addresses
        /\ task \in Task /\ task.places \subseteq DOMAIN task.addresses
        /\ \A r \in txn.utxosByHeight :
             <<r.wallet, AddressOf[r.out]>> \in txn.addresses \/ ComesWith(r)
    BY <2>1, ImportOpen DEF ImportPhases
  <2>3. \A r \in rows : ComesWith(r)
    <3> SUFFICES ASSUME NEW u \in Unspent(best, NewAddresses)
                 PROVE  ComesWith([wallet |-> task.wallet, out |-> u[1],
                                   height |-> Height[u[2]]])
      OBVIOUS
    <3>1. AddressOf[u[1]] \in NewAddresses
      BY DEF Unspent
    <3>2. PICK p \in task.places : AddressOf[u[1]] = task.addresses[p]
      BY <3>1 DEF NewAddresses
    <3>3. p >= 1
      BY <2>2 DEF Task
    <3> QED
      BY <2>2, <3>2, <3>3 DEF ComesWith, Start
  <2> HIDE DEF rows
  <2>4. /\ txn'.blocks = txn.blocks
        /\ txn'.addresses = txn.addresses
        /\ txn'.utxosByHeight = txn.utxosByHeight \cup rows
    BY <2>1, <2>2, AddUTXOsTables
  <2>5. \A r \in txn'.utxosByHeight :
          <<r.wallet, AddressOf[r.out]>> \in txn'.addresses \/ ComesWith(r)'
    BY <2>1, <2>2, <2>3, <2>4 DEF ComesWith
  <2> QED
    BY <2>1, <2>2, <2>4, <2>5, ImportHistory DEF ImportPhases
<1>3. CASE TipMoved
  BY <1>3, EndWithTip DEF TipMoved, EndTask, memoryVars, ImportPhases
<1>4. CASE GetAddressDeltas
  <2>1. /\ pc = "getAddressDeltas" /\ pc' = "addDeltas"
        /\ clone' = [clone EXCEPT !.addressFilter = FilterWithNew]
        /\ UNCHANGED <<db, walletBlock, task, txn, at>>
    BY <1>4 DEF GetAddressDeltas, memoryVars
  <2>2. /\ at = Start /\ clone \in WalletBlock
        /\ db.addresses \subseteq txn.addresses
        /\ \A r \in txn.utxosByHeight :
             <<r.wallet, AddressOf[r.out]>> \in txn.addresses \/ ComesWith(r)
    BY <2>1, ImportOpen DEF ImportPhases
  <2>3. /\ clone'.height = clone.height /\ clone'.hash = clone.hash
        /\ clone'.spentOutputs = clone.spentOutputs
    BY <2>1, <2>2 DEF WalletBlock
  <2> QED
    BY <2>1, <2>2, <2>3, ImportHistory DEF ImportPhases, ComesWith
<1>5. CASE RangeAboveTip
  BY <1>5, EndWithTip DEF RangeAboveTip, EndTask, ImportPhases
<1>6. CASE AddDelta
  <2>1. /\ pc = "addDeltas" /\ task \in Task /\ task.wallet \in Wallet
        /\ txn \in Database /\ at = Start
        /\ todo \subseteq Nat \X (Block \X Nat)
        /\ \A e \in todo : e[2][2] \in DOMAIN Deltas[e[2][1]]
        /\ db.addresses \subseteq txn.addresses
        /\ \A r \in txn.utxosByHeight :
             <<r.wallet, AddressOf[r.out]>> \in txn.addresses \/ ComesWith(r)
        /\ UNCHANGED <<db, walletBlock, pc, clone, at, task>>
    BY <1>6, ImportOpen DEF AddDelta, HInv, IInv, TypeOK, PhaseOK, ImportPhases,
                            Task, memoryVars
  <2>2. PICK e \in todo :
          LET d == Deltas[e[2][1]][e[2][2]]
              row == [wallet |-> task.wallet, height |-> Height[e[2][1]],
                      index |-> d.index, tx |-> d.tx]
              added == AddBalance(PutTxid(txn, row), task.wallet, SatoshisOf(d))
          IN txn' = FlushSaved(added, task.wallet, d.tx)
    BY <1>6 DEF AddDelta
  <2> DEFINE d == Deltas[e[2][1]][e[2][2]]
             row == [wallet |-> task.wallet, height |-> Height[e[2][1]],
                     index |-> d.index, tx |-> d.tx]
             added == AddBalance(PutTxid(txn, row), task.wallet, SatoshisOf(d))
  <2>3. e[2][1] \in Block /\ e[2][2] \in DOMAIN Deltas[e[2][1]]
    BY <2>1
  <2>4. d \in Delta
    BY <2>3, ChainAssumption
  <2>5. row \in TxidRow /\ SatoshisOf(d) \in Int
    BY <2>1, <2>3, <2>4, DeltaLemma, ChainAssumption DEF TxidRow, Delta
  <2>6. txn' = FlushSaved(added, task.wallet, d.tx)
    BY <2>2
  <2> HIDE DEF d, row
  <2>7. /\ PutTxid(txn, row) \in Database
        /\ PutTxid(txn, row).blocks = txn.blocks
        /\ PutTxid(txn, row).addresses = txn.addresses
        /\ PutTxid(txn, row).utxosByHeight = txn.utxosByHeight
    BY <2>1, <2>5, PutTxidLemma, TxidTables
  <2>8. /\ added \in Database
        /\ added.blocks = txn.blocks
        /\ added.addresses = txn.addresses
        /\ added.utxosByHeight = txn.utxosByHeight
    BY <2>1, <2>5, <2>7, AddBalanceLemma, BalanceTables
  <2> HIDE DEF added
  <2>9. /\ txn'.blocks = txn.blocks
        /\ txn'.addresses = txn.addresses
        /\ txn'.utxosByHeight = txn.utxosByHeight
    BY <2>6, <2>8, FlushTables
  <2> QED
    BY <2>1, <2>9, ImportHistory DEF ImportPhases, ComesWith
<1>7. CASE NextRange
  <2>1. /\ pc = "addDeltas" /\ pc' = "getAddressDeltas"
        /\ UNCHANGED <<db, walletBlock, txn, clone, at, task>>
    BY <1>7 DEF NextRange, memoryVars
  <2> QED
    BY <2>1, ImportOpen, ImportHistory DEF ImportPhases, ComesWith
<1>8. CASE CheckLastHash
  <2>1. /\ pc = "addDeltas" /\ pc' = "commitAddresses"
        /\ UNCHANGED <<db, walletBlock, txn, clone, at, task>>
    BY <1>8 DEF CheckLastHash, memoryVars, importVars
  <2> QED
    BY <2>1, ImportOpen, ImportHistory DEF ImportPhases, ComesWith
<1>9. CASE UnexpectedHash
  BY <1>9, EndWithTip DEF UnexpectedHash, EndTask, ImportPhases
<1>10. CASE ImportAddress
  <2>1. /\ pc = "commitAddresses" /\ ~AllImported
        /\ UNCHANGED <<db, walletBlock, pc, clone, task>>
        /\ txn' = IF at.delta \in task.places
                    THEN PutOwner(txn, task.wallet, ThisAddress)
                    ELSE txn
        /\ at' = [at EXCEPT !.delta = @ + 1]
    BY <1>10 DEF ImportAddress, memoryVars, importVars
  <2>2. /\ at \in [delta: Nat \ {0}, owner: Nat \ {0}]
        /\ at'.delta = at.delta + 1
    BY <2>1 DEF HInv, IInv, TypeOK
  <2>3. /\ txn \in Database /\ task \in Task
        /\ task.places \subseteq Nat
        /\ db.addresses \subseteq txn.addresses
        /\ \A r \in txn.utxosByHeight :
             <<r.wallet, AddressOf[r.out]>> \in txn.addresses \/ ComesWith(r)
    BY <2>1, ImportOpen DEF ImportPhases, Task
  <2>4. /\ txn'.blocks = txn.blocks
        /\ txn'.utxosByHeight = txn.utxosByHeight
        /\ txn.addresses \subseteq txn'.addresses
        /\ at.delta \in task.places =>
             <<task.wallet, task.addresses[at.delta]>> \in txn'.addresses
    BY <2>1, <2>3, PutOwnerTables DEF ThisAddress
  <2>5. ASSUME NEW r \in txn.utxosByHeight, ComesWith(r)
        PROVE  <<r.wallet, AddressOf[r.out]>> \in txn'.addresses \/ ComesWith(r)'
    <3>1. PICK p \in task.places :
            p >= at.delta /\ AddressOf[r.out] = task.addresses[p]
      BY <2>5 DEF ComesWith
    <3>2. r.wallet = task.wallet
      BY <2>5 DEF ComesWith
    <3>3. CASE p = at.delta
      BY <2>4, <3>1, <3>2, <3>3
    <3>4. CASE p # at.delta
      <4>1. p >= at'.delta
        BY <2>2, <2>3, <3>1, <3>4
      <4> QED
        BY <2>1, <3>1, <3>2, <4>1 DEF ComesWith
    <3> QED
      BY <3>3, <3>4
  <2>6. \A r \in txn'.utxosByHeight :
          <<r.wallet, AddressOf[r.out]>> \in txn'.addresses \/ ComesWith(r)'
    BY <2>3, <2>4, <2>5
  <2> QED
    BY <2>1, <2>3, <2>4, <2>6, ImportHistory DEF ImportPhases
<1>11. CASE ImportCommit
  <2>1. /\ pc = "commitAddresses" /\ pc' = "importSync" /\ AllImported
        /\ db' = PutBlock(txn, clone)
        /\ UNCHANGED <<walletBlock, clone, at>>
    BY <1>11 DEF ImportCommit, memoryVars
  <2>2. /\ txn \in Database /\ clone \in WalletBlock /\ db \in Database
        /\ txn.blocks = db.blocks
        /\ db.addresses \subseteq txn.addresses
        /\ task \in Task /\ task.places \subseteq DOMAIN task.addresses
        /\ \A r \in txn.utxosByHeight :
             <<r.wallet, AddressOf[r.out]>> \in txn.addresses \/ ComesWith(r)
    BY <2>1, ImportOpen DEF ImportPhases
  <2>3. /\ db'.blocks = {c \in db.blocks : c.height # clone.height} \cup {clone}
        /\ db'.addresses = txn.addresses
        /\ db'.utxosByHeight = txn.utxosByHeight
    BY <2>1, <2>2, PutBlockTables
  <2>4. /\ walletBlock # Undefined /\ walletBlock \in WalletBlock
        /\ walletBlock.height = clone.height /\ walletBlock.hash = clone.hash
    BY <2>1 DEF HInv, BlocksInv, IInv, PhaseOK, ImportPhases
  <2>5. Stack(db'.blocks) /\ Kept(walletBlock, db'.blocks)
    <3>1. db.blocks \in SUBSET WalletBlock /\ Stack(db.blocks)
      BY <2>2 DEF Database, HInv, BlocksInv
    <3> QED
      BY <2>2, <2>3, <2>4, <3>1, PutKeepsStack, PutIsKept
  <2>6. BlocksInv'
    BY <2>1, <2>3, <2>4, <2>5 DEF BlocksInv, SyncPhases, ImportPhases, TxnPhases
  <2>7. \A r \in txn.utxosByHeight : ~ComesWith(r)
    <3>1. \A p \in task.places : ~(p >= at.delta)
      <4>1. task.addresses \in Seq(Address)
        BY <2>2 DEF Task
      <4>2. at.delta \in Nat /\ Len(task.addresses) \in Nat
        BY <4>1 DEF HInv, IInv, TypeOK
      <4>3. at.delta > Len(task.addresses)
        BY <2>1 DEF AllImported
      <4>4. \A p \in task.places : p \in Nat /\ p <= Len(task.addresses)
        BY <2>2, <4>1, <4>2
      <4> QED
        BY <4>2, <4>3, <4>4
    <3> QED
      BY <3>1 DEF ComesWith
  <2>8. /\ Owned(db'.utxosByHeight, db'.addresses)
        /\ \A b \in db'.blocks : Owned(b.spentOutputs, db'.addresses)
        /\ Owned(walletBlock.spentOutputs, db'.addresses)
        /\ Owned(clone.spentOutputs, db'.addresses)
    <3>1. Owned(db'.utxosByHeight, db'.addresses)
      BY <2>2, <2>3, <2>7 DEF Owned
    <3>2. /\ \A b \in db.blocks : Owned(b.spentOutputs, db.addresses)
          /\ Owned(walletBlock.spentOutputs, db.addresses)
          /\ Owned(clone.spentOutputs, db.addresses)
      BY <2>1, <2>4 DEF HInv, OwnedInv, ClonePhases, TxnPhases
    <3>3. \A rows : Owned(rows, db.addresses) => Owned(rows, db'.addresses)
      BY <2>2, <2>3 DEF Owned
    <3> QED
      BY <2>3, <3>1, <3>2, <3>3
  <2>9. OwnedInv'
    BY <2>1, <2>8 DEF OwnedInv, ImportPhases, ClonePhases, TxnPhases
  <2> QED
    BY <2>6, <2>9 DEF History
<1>12. CASE ImportSynced
  <2>1. /\ pc = "importSync" /\ pc' = "idle" /\ Clear
        /\ walletBlock' = clone /\ UNCHANGED db
    BY <1>12 DEF ImportSynced, EndTask
  <2>2. /\ clone \in WalletBlock /\ clone # Undefined /\ clone \in db.blocks
        /\ Owned(clone.spentOutputs, db.addresses)
    BY <2>1, DatabaseAssumption
       DEF HInv, IInv, PhaseOK, BlocksInv, OwnedInv, ClonePhases
  <2>3. Kept(clone, db.blocks)
    BY <2>2 DEF HInv, BlocksInv, Stack, Kept
  <2> QED
    BY <2>1, <2>2, <2>3, EndSame
<1> QED
  BY <1>1, <1>2, <1>3, <1>4, <1>5, <1>6, <1>7, <1>8, <1>9, <1>10, <1>11, <1>12
     DEF ImportStep

\* Requests and syncs that fail.
LEMMA FailHistory ==
  ASSUME HInv, RequestFails \/ SyncFails
  PROVE  History'
<1>1. CASE RequestFails
  <2>1. /\ pc \in SyncPhases \cup ImportPhases
        /\ pc' = "idle" /\ Clear /\ UNCHANGED db
        /\ \/ UNCHANGED walletBlock
           \/ pc \in ImportPhases /\ ForgetImport
    BY <1>1 DEF RequestFails, EndTask, SyncPhases, ImportPhases
  <2> QED
    BY <2>1, EndWithTip
<1>2. CASE SyncFails
  <2>1. CASE pc \in {"connectSync", "disconnectSync"} /\ pc' = "idle"
    <3>1. Clear /\ UNCHANGED <<db, walletBlock>>
      BY <1>2, <2>1 DEF SyncFails, EndTask, memoryVars, Die
    <3> QED
      BY <2>1, <3>1, EndWithTip DEF SyncPhases
  <2>2. CASE Die("abort of a committed transaction")
    BY <2>2, DieHistory
  <2> QED
    BY <1>2, <2>1, <2>2 DEF SyncFails, EndTask
<1> QED
  BY <1>1, <1>2

LEMMA HInvStep == HInv /\ [Next]_vars => HInv'
<1> SUFFICES ASSUME HInv, [Next]_vars PROVE HInv'
  OBVIOUS
<1>1. IInv'
  BY InvStep DEF HInv
<1>2. History'
  BY OutsideHistory, ConnectHistory, DisconnectHistory, ImportStepHistory,
     FailHistory DEF Next, SyncStep
<1> QED
  BY <1>1, <1>2 DEF HInv, History

\* What the writer keeps of the past holds in every behaviour.
THEOREM HistoryInvariant == Spec => []HInv
<1>1. Init => HInv
  BY InitLemma, StartsWithHistory DEF HInv, History
<1> QED
  BY <1>1, HInvStep, PTL DEF Spec

----------------------------------------------------------------------------
(* What follows from it.                                                   *)

\* No wallet is ever shown an output of an address it does not have: neither
\* an import that ends early, nor undoing, nor a restart leaves one behind.
THEOREM OutputsAlwaysOwned == Spec => []OutputsAreOwned
<1>1. HInv => OutputsAreOwned
  BY DEF HInv, OwnedInv, Owned, OutputsAreOwned
<1> QED
  BY <1>1, HistoryInvariant, PTL

\* The database has the block of the tip unless pruning outran it.
THEOREM TipAlwaysPersisted == Spec => []TipPersisted
<1>1. HInv => TipPersisted
  BY DEF HInv, BlocksInv, Kept, TipPersisted
<1> QED
  BY <1>1, HistoryInvariant, PTL

\* What a step does to blocks: it puts one block, it prunes, or it does nothing.
LEMMA BlocksStep ==
  ASSUME HInv, [Next]_vars
  PROVE  \/ db'.blocks = db.blocks
         \/ \E new \in WalletBlock :
              db'.blocks = {b \in db.blocks : b.height # new.height} \cup {new}
         \/ db' = Prune(db, PruneDepth)
<1>0. db \in Database
  BY DEF HInv, IInv, TypeOK
<1>1. CASE UNCHANGED db
  BY <1>1
<1>2. CASE \E w \in Wallet : CreateWallet(w)
  <2>1. PICK w \in Wallet : CreateWallet(w)
    BY <1>2
  <2> DEFINE d == [db EXCEPT !.wallets = @ \cup {w}]
             new == NewWalletBlock(bitcoinTip)
  <2>2. d \in Database /\ d.blocks = db.blocks
    BY <1>0 DEF Database
  <2>3. new \in WalletBlock
    BY ChainAssumption DEF NewWalletBlock, WalletBlock, HInv, IInv, TypeOK
  <2>4. db' = d \/ db' = PutBlock(d, new)
    BY <2>1 DEF CreateWallet
  <2> HIDE DEF d, new
  <2> QED
    BY <2>2, <2>3, <2>4, PutBlockTables
<1>3. CASE \E s \in Saved : SaveTransaction(s[1], s[2])
  <2>1. db'.blocks = db.blocks
    BY <1>0, <1>3 DEF SaveTransaction, Database
  <2> QED
    BY <2>1
<1>4. CASE ConnectCommit
  <2>1. pc = "connect" /\ db' = PutBlock(txn, clone)
    BY <1>4 DEF ConnectCommit
  <2>2. txn \in Database /\ clone \in WalletBlock /\ txn.blocks = db.blocks
    BY <2>1, LoopOpen
  <2> QED
    BY <2>1, <2>2, PutBlockTables
<1>5. CASE ConnectSynced
  BY <1>5 DEF ConnectSynced
<1>6. CASE DisconnectCommit
  <2>1. pc = "disconnect" /\ db' = txn
    BY <1>6 DEF DisconnectCommit
  <2> QED
    BY <2>1, LoopOpen
<1>7. CASE ImportCommit
  <2>1. pc = "commitAddresses" /\ db' = PutBlock(txn, clone)
    BY <1>7 DEF ImportCommit
  <2> QED
    BY <2>1, ImportOpen, PutBlockTables DEF ImportPhases
<1>8. \/ UNCHANGED db \/ (\E w \in Wallet : CreateWallet(w))
      \/ (\E s \in Saved : SaveTransaction(s[1], s[2]))
      \/ ConnectCommit \/ ConnectSynced \/ DisconnectCommit \/ ImportCommit
  BY DEF Next, vars, SyncStep, ImportStep, NewTip, Sync, StartImport, SyncDone,
         GetBlockHash, StartConnect, NextDelta, ConnectOutput, ConnectInput,
         ConnectFails, StartDisconnect, NoDeltasToUndo, DisconnectOutput,
         DisconnectInput, DisconnectFails, NoPreviousBlock, DisconnectSynced,
         ImportUTXOs, TipMoved, GetAddressDeltas, RangeAboveTip, AddDelta,
         NextRange, CheckLastHash, UnexpectedHash, ImportAddress, ImportSynced,
         RequestFails, SyncFails, Crash, Restart, Die
<1> QED
  BY <1>1, <1>2, <1>3, <1>4, <1>5, <1>6, <1>7, <1>8

\* Whatever fails, a block leaves the database only for one of its height or
\* because it lies PruneDepth below the last one, but for the first block.
THEOREM PruningKeepsDepth == Spec => PruneKeepsDepth
<1> DEFINE Rule == \A b \in db.blocks \ db'.blocks :
                     \/ b.height = 0
                     \/ \E c \in db'.blocks : c.height = b.height
                     \/ \E c \in db'.blocks : b.height + PruneDepth <= c.height
<1>1. ASSUME HInv, [Next]_vars
      PROVE  Rule
  <2>1. CASE db'.blocks = db.blocks
    BY <2>1
  <2>2. CASE \E new \in WalletBlock :
               db'.blocks = {b \in db.blocks : b.height # new.height} \cup {new}
    BY <2>2
  <2>3. CASE db' = Prune(db, PruneDepth)
    <3> SUFFICES ASSUME NEW b \in db.blocks, b \notin db'.blocks, b.height # 0
                 PROVE  \E c \in db'.blocks : b.height + PruneDepth <= c.height
      OBVIOUS
    <3>1. /\ db \in Database /\ Stack(db.blocks)
          /\ \A c \in db.blocks : c.height \in Nat
          /\ PruneDepth \in Nat \ {0}
      BY <1>1, WriterAssumption
         DEF HInv, IInv, TypeOK, BlocksInv, Database, WalletBlock
    <3>2. PICK last \in db.blocks : \A c \in db.blocks : c.height <= last.height
      BY <3>1 DEF Stack
    <3>3. /\ db'.blocks = {c \in db.blocks :
                             c.height > 0 /\ c.height > last.height - PruneDepth}
          /\ last.height > 0 => last \in db'.blocks
      BY <2>3, <3>1, <3>2, PruneFromLast
    <3>4. b.height > 0 /\ last.height > 0
      BY <3>1, <3>2
    <3>5. b.height <= last.height - PruneDepth
      BY <3>1, <3>3, <3>4
    <3> QED
      BY <3>1, <3>3, <3>4, <3>5
  <2> QED
    BY <1>1, <2>1, <2>2, <2>3, BlocksStep
<1>2. HInv /\ [Next]_vars => [Rule]_vars
  BY <1>1
<1> HIDE DEF Rule
<1>3. Spec => [][Rule]_vars
  BY <1>2, HistoryInvariant, PTL DEF Spec
<1> QED
  BY <1>3 DEF PruneKeepsDepth, Rule

----------------------------------------------------------------------------
(* The chain that undo walks back, as long as the process is not started   *)
(* again: a restart takes the last entry for the tip, and that may be a    *)
(* block that was undone.                                                  *)

Linked(blocks, height) ==
  \A b, c \in blocks :
    c.height = b.height + 1 /\ c.height <= height => Parent[c.hash] = b.hash

LinkInv == walletBlock # Undefined => Linked(db.blocks, walletBlock.height)

\* The steps that move the tip or put or prune blocks.
LEMMA TipStep ==
  ASSUME HInv, [Next]_vars
  PROVE  \/ /\ db'.blocks = db.blocks
            /\ \/ walletBlock' = Undefined
               \/ walletBlock # Undefined /\ walletBlock'.height = walletBlock.height
         \/ \E w \in Wallet : CreateWallet(w)
         \/ ConnectCommit \/ ConnectSynced \/ DisconnectSynced
         \/ ImportCommit \/ ImportSynced \/ Restart
<1>0. db \in Database /\ walletBlock \in WalletBlock \cup {Undefined}
  BY DEF HInv, IInv, TypeOK
<1>1. CASE \/ UNCHANGED <<db, walletBlock>>
           \/ UNCHANGED db /\ walletBlock' = Undefined
  BY <1>1
<1>2. CASE UNCHANGED db /\ pc \in ImportPhases /\ ForgetImport
  <2>1. walletBlock \in WalletBlock /\ walletBlock # Undefined
    BY <1>2 DEF HInv, IInv, PhaseOK, BlocksInv
  <2>2. walletBlock'.height = walletBlock.height
    BY <1>2, <2>1 DEF ForgetImport, WalletBlock
  <2> QED
    BY <1>2, <2>1, <2>2
<1>3. CASE \E s \in Saved : SaveTransaction(s[1], s[2])
  <2>1. db'.blocks = db.blocks
    BY <1>0, <1>3 DEF SaveTransaction, Database
  <2> QED
    BY <1>3, <2>1 DEF SaveTransaction, memoryVars
<1>4. CASE DisconnectCommit
  <2>1. pc = "disconnect" /\ db' = txn /\ UNCHANGED walletBlock
    BY <1>4 DEF DisconnectCommit, memoryVars
  <2> QED
    BY <2>1, LoopOpen
<1>5. CASE RequestFails
  <2>1. /\ UNCHANGED db
        /\ UNCHANGED walletBlock \/ (pc \in ImportPhases /\ ForgetImport)
    BY <1>5 DEF RequestFails, ImportPhases
  <2> QED
    BY <1>1, <1>2, <2>1
<1>6. \/ UNCHANGED <<db, walletBlock>>
      \/ UNCHANGED db /\ walletBlock' = Undefined
      \/ UNCHANGED db /\ pc \in ImportPhases /\ ForgetImport
      \/ (\E w \in Wallet : CreateWallet(w))
      \/ (\E s \in Saved : SaveTransaction(s[1], s[2]))
      \/ ConnectCommit \/ ConnectSynced \/ DisconnectCommit \/ DisconnectSynced
      \/ ImportCommit \/ ImportSynced \/ RequestFails \/ Restart
  BY DEF Next, vars, SyncStep, ImportStep, NewTip, Sync, StartImport, SyncDone,
         GetBlockHash, StartConnect, NextDelta, ConnectOutput, ConnectInput,
         ConnectFails, StartDisconnect, NoDeltasToUndo, DisconnectOutput,
         DisconnectInput, DisconnectFails, NoPreviousBlock,
         ImportUTXOs, TipMoved, GetAddressDeltas, RangeAboveTip, AddDelta,
         NextRange, CheckLastHash, UnexpectedHash, ImportAddress,
         SyncFails, Crash, Die, memoryVars, ImportPhases
<1> QED
  BY <1>1, <1>2, <1>3, <1>4, <1>5, <1>6

LEMMA LinkStep ==
  ASSUME HInv, LinkInv, [Next]_vars, [~Restart]_vars
  PROVE  LinkInv'
<1>0. /\ db \in Database /\ \A b \in db.blocks : b.height \in Nat
      /\ Stack(db.blocks)
  BY DEF HInv, IInv, TypeOK, BlocksInv, Database, WalletBlock
<1>1. CASE /\ db'.blocks = db.blocks
           /\ \/ walletBlock' = Undefined
              \/ walletBlock # Undefined /\ walletBlock'.height = walletBlock.height
  BY <1>1 DEF LinkInv
<1>2. CASE \E w \in Wallet : CreateWallet(w)
  <2>1. PICK w \in Wallet : CreateWallet(w)
    BY <1>2
  <2> DEFINE d == [db EXCEPT !.wallets = @ \cup {w}]
             new == NewWalletBlock(bitcoinTip)
  <2>2. d \in Database /\ d.blocks = db.blocks
    BY <1>0 DEF Database
  <2>3. /\ pc = "idle"
        /\ \/ walletBlock # Undefined /\ db' = d /\ UNCHANGED walletBlock
           \/ walletBlock = Undefined /\ db' = PutBlock(d, new)
    BY <2>1 DEF CreateWallet
  <2>4. new.height \in Nat
    BY ChainAssumption DEF NewWalletBlock, HInv, IInv, TypeOK
  <2> HIDE DEF d, new
  <2>5. CASE db' = d /\ UNCHANGED walletBlock
    BY <2>2, <2>5 DEF LinkInv
  <2>6. CASE walletBlock = Undefined /\ db' = PutBlock(d, new)
    <3>1. db.blocks = {}
      BY <2>3, <2>6 DEF HInv, BlocksInv
    <3>2. db'.blocks = {new}
      BY <2>2, <2>6, <3>1, PutBlockTables
    <3> QED
      BY <2>4, <3>2 DEF LinkInv, Linked
  <2> QED
    BY <2>3, <2>5, <2>6
<1>3. CASE ConnectCommit
  <2>1. pc = "connect" /\ db' = PutBlock(txn, clone) /\ UNCHANGED walletBlock
    BY <1>3 DEF ConnectCommit, memoryVars
  <2>2. /\ txn \in Database /\ txn.blocks = db.blocks
        /\ walletBlock # Undefined /\ walletBlock.height \in Nat
        /\ clone.height = walletBlock.height + 1
    BY <2>1, LoopOpen DEF HInv, BlocksInv, WalletBlock
  <2>3. db'.blocks = {c \in db.blocks : c.height # clone.height} \cup {clone}
    BY <2>1, <2>2, PutBlockTables
  <2>4. \A b, c \in db'.blocks :
          c.height = b.height + 1 /\ c.height <= walletBlock.height =>
            b \in db.blocks /\ c \in db.blocks
    BY <1>0, <2>2, <2>3
  <2> QED
    BY <2>1, <2>2, <2>4 DEF LinkInv, Linked
<1>4. CASE ConnectSynced
  <2>1. /\ pc = "connectSync" /\ walletBlock' = clone
        /\ db' = Prune(db, PruneDepth)
    BY <1>4 DEF ConnectSynced
  <2>2. /\ clone \in db.blocks /\ walletBlock # Undefined
        /\ walletBlock.height \in Nat
        /\ clone.height = walletBlock.height + 1
        /\ Parent[clone.hash] = walletBlock.hash
        /\ Kept(walletBlock, db.blocks)
    BY <2>1 DEF HInv, IInv, PhaseOK, BlocksInv, SyncPhases, WalletBlock
  <2>3. db'.blocks \subseteq db.blocks
    BY <1>0, <2>1, PruneTables
  <2>4. ASSUME NEW b \in db.blocks, NEW c \in db.blocks,
               c.height = b.height + 1, c.height <= clone.height
        PROVE  Parent[c.hash] = b.hash
    <3>1. CASE c.height <= walletBlock.height
      BY <2>2, <2>4, <3>1 DEF LinkInv, Linked
    <3>2. CASE c.height = clone.height
      <4>1. c = clone
        BY <1>0, <2>2, <3>2 DEF Stack
      <4>2. b.height = walletBlock.height
        BY <1>0, <2>2, <2>4, <3>2
      <4>3. b.hash = walletBlock.hash
        BY <2>2, <4>2 DEF Kept
      <4> QED
        BY <2>2, <4>1, <4>3
    <3> QED
      BY <1>0, <2>2, <2>4, <3>1, <3>2
  <2> QED
    BY <2>1, <2>3, <2>4 DEF LinkInv, Linked
<1>5. CASE DisconnectSynced
  <2>1. /\ pc = "disconnectSync" /\ walletBlock' = clone /\ UNCHANGED db
    BY <1>5 DEF DisconnectSynced
  <2>2. /\ walletBlock # Undefined /\ walletBlock.height \in Nat
        /\ clone.height \in Nat /\ clone.height < walletBlock.height
    BY <2>1 DEF HInv, IInv, PhaseOK, BlocksInv, SyncPhases, ClonePhases, WalletBlock
  <2>3. \A n \in Nat : n <= clone.height => n <= walletBlock.height
    BY <2>2
  <2> QED
    BY <1>0, <2>1, <2>2, <2>3 DEF LinkInv, Linked
<1>6. CASE ImportCommit
  <2>1. /\ pc = "commitAddresses" /\ db' = PutBlock(txn, clone)
        /\ UNCHANGED walletBlock
    BY <1>6 DEF ImportCommit, memoryVars
  <2>2. txn \in Database /\ clone \in WalletBlock /\ txn.blocks = db.blocks
    BY <2>1, ImportOpen DEF ImportPhases
  <2>3. /\ walletBlock # Undefined /\ walletBlock.height \in Nat
        /\ clone.height = walletBlock.height /\ clone.hash = walletBlock.hash
        /\ Kept(walletBlock, db.blocks)
    BY <2>1 DEF HInv, IInv, PhaseOK, BlocksInv, ImportPhases, WalletBlock
  <2>4. db'.blocks = {c \in db.blocks : c.height # clone.height} \cup {clone}
    BY <2>1, <2>2, PutBlockTables
  <2>5. ASSUME NEW b \in db'.blocks, NEW c \in db'.blocks,
               c.height = b.height + 1, c.height <= walletBlock.height
        PROVE  Parent[c.hash] = b.hash
    <3>1. b \in db.blocks /\ b.height < walletBlock.height
      BY <1>0, <2>3, <2>4, <2>5
    <3>2. PICK e \in db.blocks : e.height = walletBlock.height
      BY <1>0, <2>3, <3>1 DEF Kept
    <3>3. e.hash = walletBlock.hash
      BY <2>3, <3>2 DEF Kept
    <3>4. CASE c \in db.blocks
      BY <2>3, <2>5, <3>1, <3>4 DEF LinkInv, Linked
    <3>5. CASE c = clone
      <4>1. e.height = b.height + 1 /\ e.height <= walletBlock.height
        BY <1>0, <2>3, <2>5, <3>2, <3>5
      <4>2. Parent[e.hash] = b.hash
        BY <2>3, <3>1, <3>2, <4>1 DEF LinkInv, Linked
      <4> QED
        BY <2>3, <3>3, <3>5, <4>2
    <3> QED
      BY <2>4, <3>4, <3>5
  <2> QED
    BY <2>1, <2>5 DEF LinkInv, Linked
<1>7. CASE ImportSynced
  <2>1. /\ pc = "importSync" /\ walletBlock' = clone /\ UNCHANGED db
    BY <1>7 DEF ImportSynced
  <2> QED
    BY <2>1 DEF HInv, BlocksInv, SyncPhases, ImportPhases, LinkInv
<1>8. CASE Restart
  <2>1. pc = "down" /\ pc' = "idle"
    BY <1>8 DEF Restart
  <2> QED
    BY <1>8, <2>1 DEF vars
<1> QED
  BY <1>1, <1>2, <1>3, <1>4, <1>5, <1>6, <1>7, <1>8, TipStep

\* Until the process is started again, the entries up to the tip are a chain:
\* what a disconnect takes for the previous block is the parent of the tip,
\* however many blocks were undone, failed to sync or were connected twice.
THEOREM LinkedUntilRestart == Spec /\ [][~Restart]_vars => []BlocksLinked
<1>1. Init => LinkInv
  BY DEF Init, LinkInv
<1>2. HInv /\ LinkInv /\ [Next]_vars /\ [~Restart]_vars => LinkInv'
  BY LinkStep
<1>3. LinkInv => BlocksLinked
  BY DEF LinkInv, Linked, BlocksLinked
<1> QED
  BY <1>1, <1>2, <1>3, HistoryInvariant, PTL DEF Spec

----------------------------------------------------------------------------
(* The filter and the last entry, as long as no block is undone and every  *)
(* env.sync succeeds, through crashes, restarts and requests that fail.    *)
(* Undoing goes back to the filter of an older block, and after a sync     *)
(* that fails the last entry is ahead of the tip in memory.                *)

Covers(filter, pairs) == \A x \in pairs : Passes(filter, x[2])

\* Block w stands on top of the entries.
OnTop(w, blocks) ==
  /\ \E b \in blocks : b.height = w.height /\ b.hash = w.hash
  /\ \A b \in blocks : b.height <= w.height

LastCovers(blocks, pairs) ==
  \A b \in blocks : OnTop(b, blocks) => Covers(b.addressFilter, pairs)

FilterInv ==
  /\ pc # "disconnectSync"
  /\ LastCovers(db.blocks, db.addresses)
  /\ db.blocks = {} => db.addresses = {}
  /\ walletBlock # Undefined =>
       /\ pc # "importSync" => Covers(walletBlock.addressFilter, db.addresses)
       /\ pc # "connectSync" => OnTop(walletBlock, db.blocks)
  /\ pc = "connectSync" => OnTop(clone, db.blocks)
  /\ pc \in {"connect", "connectSync", "importSync"} =>
       Covers(clone.addressFilter, db.addresses)
  /\ pc \in ImportPhases \ {"importSync"} =>
       /\ walletBlock.addressFilter \subseteq clone.addressFilter
       /\ txn.addresses \subseteq db.addresses \cup ({task.wallet} \X NewAddresses)
  /\ pc \in {"addDeltas", "commitAddresses"} =>
       NewAddresses \subseteq clone.addressFilter

\* A larger filter covers what a smaller one covers.
LEMMA CoversMore ==
  ASSUME NEW filter, NEW pairs, Covers(filter, pairs), NEW more, filter \subseteq more
  PROVE  Covers(more, pairs)
BY DEF Covers, Passes

\* A task, or a block of one, ends; the tip stays but its filter may grow.
LEMMA FilterEnd ==
  ASSUME HInv, FilterInv, Clear, UNCHANGED db,
         pc' \in {"idle", "down", "sync"},
         walletBlock' # Undefined =>
           /\ OnTop(walletBlock', db.blocks)
           /\ Covers(walletBlock'.addressFilter, db.addresses)
  PROVE  FilterInv'
BY DEF Clear, FilterInv, ImportPhases

LEMMA FilterEndWithTip ==
  ASSUME HInv, FilterInv, Clear, UNCHANGED db,
         pc \in (SyncPhases \cup ImportPhases) \ {"connectSync", "importSync"},
         pc' \in {"idle", "sync"},
         \/ UNCHANGED walletBlock
         \/ pc \in ImportPhases /\ ForgetImport
  PROVE  FilterInv'
<1>1. /\ walletBlock # Undefined /\ walletBlock \in WalletBlock
      /\ OnTop(walletBlock, db.blocks)
      /\ Covers(walletBlock.addressFilter, db.addresses)
  BY DEF HInv, BlocksInv, IInv, PhaseOK, FilterInv
<1>2. CASE UNCHANGED walletBlock
  BY <1>1, <1>2, FilterEnd
<1>3. CASE /\ pc \in ImportPhases
           /\ walletBlock' = [walletBlock EXCEPT !.addressFilter = clone.addressFilter]
  <2>1. walletBlock.addressFilter \subseteq clone.addressFilter
    BY <1>3 DEF FilterInv
  <2>2. /\ walletBlock'.height = walletBlock.height
        /\ walletBlock'.hash = walletBlock.hash
        /\ walletBlock'.addressFilter = clone.addressFilter
    BY <1>1, <1>3 DEF WalletBlock
  <2>3. Covers(walletBlock'.addressFilter, db.addresses)
    BY <1>1, <2>1, <2>2, CoversMore
  <2>4. OnTop(walletBlock', db.blocks)
    BY <1>1, <2>2 DEF OnTop
  <2> QED
    BY <2>3, <2>4, FilterEnd
<1> QED
  BY <1>2, <1>3 DEF ForgetImport

LEMMA FilterDies ==
  ASSUME HInv, FilterInv, NEW reason, Die(reason)
  PROVE  FilterInv'
BY FilterEnd DEF Die

\* Steps within a connect or a disconnect, and the first ones of a sync.
LEMMA FilterLoop ==
  ASSUME FilterInv,
         UNCHANGED <<db, walletBlock>>,
         pc' \in {"idle", "sync", "getBlockDeltas", "connect", "disconnect"},
         pc # "importSync" /\ pc # "connectSync",
         pc' = "connect" => Covers(clone'.addressFilter, db.addresses)
  PROVE  FilterInv'
BY DEF FilterInv, ImportPhases

\* Steps of an import before its commit.
LEMMA FilterImport ==
  ASSUME FilterInv,
         UNCHANGED <<db, walletBlock, task>>,
         pc \in ImportPhases \ {"importSync"},
         pc' \in ImportPhases \ {"importSync"},
         clone.addressFilter \subseteq clone'.addressFilter,
         pc' \in {"addDeltas", "commitAddresses"} =>
           NewAddresses \subseteq clone'.addressFilter,
         txn'.addresses \subseteq txn.addresses \cup ({task.wallet} \X NewAddresses)
  PROVE  FilterInv'
BY DEF FilterInv, ImportPhases, NewAddresses

\* The new block on top of the entries
LEMMA PutOnTop ==
  ASSUME NEW blocks \in SUBSET WalletBlock, NEW b \in WalletBlock,
         \A c \in blocks : c.height <= b.height,
         NEW pairs, Covers(b.addressFilter, pairs)
  PROVE  LET new == {c \in blocks : c.height # b.height} \cup {b}
         IN OnTop(b, new) /\ LastCovers(new, pairs)
<1> DEFINE new == {c \in blocks : c.height # b.height} \cup {b}
<1>1. \A c \in blocks \cup {b} : c.height \in Nat
  BY DEF WalletBlock
<1>2. OnTop(b, new)
  BY <1>1 DEF OnTop
<1>3. ASSUME NEW c \in new, OnTop(c, new)
      PROVE  c = b
  <2>1. b.height <= c.height
    BY <1>3 DEF OnTop
  <2>2. CASE c \in blocks /\ c.height # b.height
    BY <1>1, <2>1, <2>2
  <2> QED
    BY <2>2
<1> QED
  BY <1>2, <1>3 DEF LastCovers

LEMMA FilterOutside ==
  ASSUME HInv, FilterInv,
         \/ \E b \in Block : NewTip(b)
         \/ \E w \in Wallet : CreateWallet(w)
         \/ \E s \in Saved : SaveTransaction(s[1], s[2])
         \/ Sync \/ SyncDone \/ GetBlockHash \/ Crash \/ Restart
         \/ UNCHANGED vars
  PROVE  FilterInv'
<1>0. db \in Database /\ db.blocks \in SUBSET WalletBlock
  BY DEF HInv, IInv, TypeOK, Database
<1>1. CASE (\E b \in Block : NewTip(b)) \/ UNCHANGED vars
  BY <1>1 DEF NewTip, memoryVars, importVars, vars, FilterInv, NewAddresses
<1>2. CASE \E w \in Wallet : CreateWallet(w)
  <2>1. PICK w \in Wallet : CreateWallet(w)
    BY <1>2
  <2> DEFINE d == [db EXCEPT !.wallets = @ \cup {w}]
             new == NewWalletBlock(bitcoinTip)
  <2>2. d \in Database /\ d.blocks = db.blocks /\ d.addresses = db.addresses
    BY <1>0 DEF Database
  <2>3. /\ pc = "idle" /\ UNCHANGED pc
        /\ \/ walletBlock # Undefined /\ db' = d /\ UNCHANGED walletBlock
           \/ walletBlock = Undefined /\ db' = PutBlock(d, new) /\ walletBlock' = new
    BY <2>1 DEF CreateWallet
  <2>4. new \in WalletBlock
    BY ChainAssumption DEF NewWalletBlock, WalletBlock, HInv, IInv, TypeOK
  <2> HIDE DEF d, new
  <2>5. CASE db' = d /\ UNCHANGED walletBlock
    BY <2>2, <2>3, <2>5 DEF FilterInv, ImportPhases
  <2>6. CASE walletBlock = Undefined /\ db' = PutBlock(d, new) /\ walletBlock' = new
    <3>1. db.blocks = {} /\ db.addresses = {}
      BY <2>3, <2>6 DEF HInv, BlocksInv, FilterInv
    <3>2. db'.blocks = {c \in db.blocks : c.height # new.height} \cup {new}
          /\ db'.addresses = {}
      BY <2>2, <2>6, <3>1, PutBlockTables
    <3>3. Covers(new.addressFilter, db'.addresses)
      BY <3>2 DEF Covers
    <3>4. OnTop(new, db'.blocks) /\ LastCovers(db'.blocks, db'.addresses)
      BY <1>0, <2>4, <3>1, <3>2, <3>3, PutOnTop
    <3> QED
      BY <2>3, <2>6, <3>2, <3>3, <3>4 DEF FilterInv, ImportPhases
  <2> QED
    BY <2>3, <2>5, <2>6
<1>3. CASE \E s \in Saved : SaveTransaction(s[1], s[2])
  <2>1. /\ db'.blocks = db.blocks /\ db'.addresses = db.addresses
        /\ pc = "idle" /\ UNCHANGED <<walletBlock, pc>>
    BY <1>0, <1>3 DEF SaveTransaction, Database, memoryVars
  <2> QED
    BY <2>1 DEF FilterInv, ImportPhases
<1>4. CASE Sync
  BY <1>4, FilterLoop DEF Sync
<1>5. CASE SyncDone
  BY <1>5, FilterEndWithTip DEF SyncDone, EndTask, memoryVars, SyncPhases
<1>6. CASE GetBlockHash
  BY <1>6, FilterLoop DEF GetBlockHash, memoryVars
<1>7. CASE Crash
  BY <1>7, FilterDies DEF Crash
<1>8. CASE Restart
  <2>1. /\ pc' = "idle" /\ UNCHANGED db
        /\ \/ db.blocks = {} /\ walletBlock' = Undefined
           \/ walletBlock' \in db.blocks /\ IsLastBlock(db, walletBlock')
    BY <1>8 DEF Restart
  <2>2. CASE walletBlock' \in db.blocks /\ IsLastBlock(db, walletBlock')
    <3>1. OnTop(walletBlock', db.blocks)
      BY <2>2 DEF OnTop, IsLastBlock
    <3>2. Covers(walletBlock'.addressFilter, db.addresses)
      BY <2>2, <3>1 DEF FilterInv, LastCovers
    <3> QED
      BY <2>1, <3>1, <3>2 DEF FilterInv, ImportPhases
  <2> QED
    BY <2>1, <2>2 DEF FilterInv, ImportPhases
<1> QED
  BY <1>1, <1>2, <1>3, <1>4, <1>5, <1>6, <1>7, <1>8

LEMMA FilterSync ==
  ASSUME HInv, FilterInv,
         \/ StartConnect \/ NextDelta \/ ConnectOutput \/ ConnectInput
         \/ ConnectFails \/ ConnectCommit \/ ConnectSynced
         \/ StartDisconnect \/ NoDeltasToUndo \/ DisconnectOutput
         \/ DisconnectInput \/ DisconnectFails
         \/ NoPreviousBlock \/ DisconnectSynced
  PROVE  FilterInv'
<1>1. CASE StartConnect
  <2>1. /\ pc = "getBlockDeltas" /\ pc' = "connect"
        /\ UNCHANGED <<db, walletBlock>>
        /\ walletBlock \in WalletBlock /\ walletBlock # Undefined
    BY <1>1 DEF StartConnect, memoryVars, HInv, IInv, PhaseOK, BlocksInv,
                SyncPhases
  <2>2. clone'.addressFilter = walletBlock.addressFilter
    BY <1>1, <2>1 DEF StartConnect, WalletBlock
  <2>3. Covers(clone'.addressFilter, db.addresses)
    BY <2>1, <2>2 DEF FilterInv
  <2> QED
    BY <2>1, <2>3, FilterLoop
<1>2. CASE NextDelta \/ ConnectOutput \/ DisconnectOutput \/ DisconnectInput
  <2>1. /\ pc \in {"connect", "disconnect"} /\ pc' = pc
        /\ UNCHANGED <<db, walletBlock, clone>>
    BY <1>2 DEF NextDelta, ConnectOutput, DisconnectOutput, DisconnectInput,
                memoryVars
  <2> QED
    BY <2>1, FilterLoop DEF FilterInv
<1>3. CASE ConnectInput
  <2>1. /\ pc = "connect" /\ pc' = pc
        /\ UNCHANGED <<db, walletBlock>>
    BY <1>3 DEF ConnectInput, memoryVars
  <2>2. PICK spent \in txn.utxos :
          clone' = [clone EXCEPT
                      !.spentOutputs = Without(@, {spent}) \cup {spent}]
    BY <1>3 DEF ConnectInput
  <2>3. clone'.addressFilter = clone.addressFilter
    BY <2>1, <2>2, LoopOpen DEF WalletBlock
  <2> QED
    BY <2>1, <2>3, FilterLoop DEF FilterInv
<1>4. CASE ConnectFails \/ NoDeltasToUndo \/ DisconnectFails \/ NoPreviousBlock
  BY <1>4, FilterDies DEF ConnectFails, NoDeltasToUndo, DisconnectFails,
                          NoPreviousBlock
<1>5. CASE ConnectCommit
  <2>1. /\ pc = "connect" /\ pc' = "connectSync"
        /\ db' = PutBlock(txn, clone) /\ UNCHANGED <<walletBlock, clone>>
    BY <1>5 DEF ConnectCommit, memoryVars
  <2>2. /\ txn \in Database /\ clone \in WalletBlock
        /\ db.blocks \in SUBSET WalletBlock
        /\ txn.blocks = db.blocks /\ txn.addresses = db.addresses
        /\ walletBlock # Undefined /\ walletBlock \in WalletBlock
    BY <2>1, LoopOpen DEF Database
  <2>3. /\ db'.blocks = {c \in db.blocks : c.height # clone.height} \cup {clone}
        /\ db'.addresses = db.addresses
    BY <2>1, <2>2, PutBlockTables
  <2>4. Covers(clone.addressFilter, db.addresses)
    BY <2>1 DEF FilterInv
  <2>5. \A c \in db.blocks : c.height <= clone.height
    <3>1. OnTop(walletBlock, db.blocks)
      BY <2>1, <2>2 DEF FilterInv
    <3>2. clone.height = walletBlock.height + 1
      BY <2>1 DEF HInv, BlocksInv
    <3>3. \A c \in db.blocks \cup {walletBlock} : c.height \in Nat
      BY <2>2 DEF WalletBlock
    <3> QED
      BY <3>1, <3>2, <3>3 DEF OnTop
  <2>6. OnTop(clone, db'.blocks) /\ LastCovers(db'.blocks, db.addresses)
    BY <2>2, <2>3, <2>4, <2>5, PutOnTop
  <2>7. Covers(walletBlock.addressFilter, db.addresses)
    BY <2>1, <2>2 DEF FilterInv
  <2> QED
    BY <2>1, <2>3, <2>4, <2>6, <2>7 DEF FilterInv, ImportPhases
<1>6. CASE ConnectSynced
  <2>1. /\ pc = "connectSync" /\ pc' = "sync" /\ walletBlock' = clone
        /\ db' = Prune(db, PruneDepth)
    BY <1>6 DEF ConnectSynced
  <2>2. /\ db \in Database /\ clone \in db.blocks /\ Stack(db.blocks)
        /\ clone.height > 0
        /\ OnTop(clone, db.blocks)
        /\ Covers(clone.addressFilter, db.addresses)
    <3>1. /\ walletBlock.height \in Nat
          /\ clone.height = walletBlock.height + 1
      BY <2>1 DEF HInv, IInv, PhaseOK, BlocksInv, SyncPhases, WalletBlock
    <3>2. clone.height > 0
      BY <3>1
    <3> QED
      BY <2>1, <3>2 DEF HInv, IInv, TypeOK, BlocksInv, FilterInv
  <2>3. /\ clone \in db'.blocks
        /\ db'.blocks \subseteq db.blocks
        /\ db'.addresses = db.addresses
    <3>1. \A b \in db.blocks : b.height <= clone.height
      BY <2>2 DEF OnTop
    <3> QED
      BY <2>1, <2>2, <3>1, PruneFromLast, PruneTables
  <2>4. OnTop(clone, db'.blocks)
    BY <2>2, <2>3 DEF OnTop
  <2>5. ASSUME NEW b \in db'.blocks, OnTop(b, db'.blocks)
        PROVE  b = clone
    <3>1. b.height \in Nat /\ clone.height \in Nat
      BY <2>2, <2>3 DEF Database, WalletBlock
    <3>2. clone.height <= b.height /\ b.height <= clone.height
      BY <2>3, <2>4, <2>5 DEF OnTop
    <3>3. b.height = clone.height
      BY <3>1, <3>2
    <3> QED
      BY <2>2, <2>3, <3>3 DEF Stack
  <2>6. LastCovers(db'.blocks, db.addresses)
    BY <2>2, <2>5 DEF LastCovers
  <2> QED
    BY <2>1, <2>2, <2>3, <2>4, <2>6 DEF FilterInv, ImportPhases
<1>7. CASE StartDisconnect
  BY <1>7, FilterLoop DEF StartDisconnect, memoryVars
<1>8. CASE DisconnectSynced
  BY <1>8 DEF DisconnectSynced, FilterInv
<1> QED
  BY <1>1, <1>2, <1>3, <1>4, <1>5, <1>6, <1>7, <1>8

LEMMA FilterImportStep ==
  ASSUME HInv, FilterInv,
         \/ \E r \in Requests : StartImport(r)
         \/ ImportStep
  PROVE  FilterInv'
<1>1. CASE \E r \in Requests : StartImport(r)
  <2>1. /\ pc = "idle" /\ pc' = "getAddressUtxos"
        /\ walletBlock # Undefined
        /\ txn' = db /\ clone' = walletBlock
        /\ UNCHANGED <<db, walletBlock>>
    BY <1>1 DEF StartImport, memoryVars
  <2> QED
    BY <2>1 DEF FilterInv, ImportPhases
<1>2. CASE ImportUTXOs
  <2>1. /\ pc = "getAddressUtxos" /\ pc' = "getAddressDeltas"
        /\ UNCHANGED <<db, walletBlock, task, clone>>
        /\ txn \in Database
    BY <1>2, ImportOpen DEF ImportUTXOs, memoryVars, ImportPhases
  <2>2. txn'.addresses = txn.addresses
    BY <1>2, <2>1, AddUTXOsTables DEF ImportUTXOs
  <2> QED
    BY <2>1, <2>2, FilterImport DEF ImportPhases
<1>3. CASE TipMoved
  BY <1>3, FilterEndWithTip DEF TipMoved, EndTask, memoryVars, ImportPhases
<1>4. CASE GetAddressDeltas
  <2>1. /\ pc = "getAddressDeltas" /\ pc' = "addDeltas"
        /\ clone' = [clone EXCEPT !.addressFilter = FilterWithNew]
        /\ clone \in WalletBlock
        /\ UNCHANGED <<db, walletBlock, task, txn>>
    BY <1>4, ImportOpen DEF GetAddressDeltas, memoryVars, ImportPhases
  <2>2. clone'.addressFilter = clone.addressFilter \cup NewAddresses
    BY <2>1 DEF FilterWithNew, WalletBlock
  <2> QED
    BY <2>1, <2>2, FilterImport DEF ImportPhases
<1>5. CASE RangeAboveTip
  BY <1>5, FilterEndWithTip DEF RangeAboveTip, EndTask, ImportPhases
<1>6. CASE AddDelta
  <2>1. /\ pc = "addDeltas" /\ task \in Task /\ task.wallet \in Wallet
        /\ txn \in Database
        /\ todo \subseteq Nat \X (Block \X Nat)
        /\ \A e \in todo : e[2][2] \in DOMAIN Deltas[e[2][1]]
        /\ UNCHANGED <<db, walletBlock, pc, clone, task>>
    BY <1>6, ImportOpen DEF AddDelta, HInv, IInv, TypeOK, PhaseOK, ImportPhases,
                            Task, memoryVars
  <2>2. PICK e \in todo :
          LET d == Deltas[e[2][1]][e[2][2]]
              row == [wallet |-> task.wallet, height |-> Height[e[2][1]],
                      index |-> d.index, tx |-> d.tx]
              added == AddBalance(PutTxid(txn, row), task.wallet, SatoshisOf(d))
          IN txn' = FlushSaved(added, task.wallet, d.tx)
    BY <1>6 DEF AddDelta
  <2> DEFINE d == Deltas[e[2][1]][e[2][2]]
             row == [wallet |-> task.wallet, height |-> Height[e[2][1]],
                     index |-> d.index, tx |-> d.tx]
             added == AddBalance(PutTxid(txn, row), task.wallet, SatoshisOf(d))
  <2>3. d \in Delta
    BY <2>1, ChainAssumption
  <2>4. row \in TxidRow /\ SatoshisOf(d) \in Int
    BY <2>1, <2>3, DeltaLemma, ChainAssumption DEF TxidRow, Delta
  <2>5. txn' = FlushSaved(added, task.wallet, d.tx)
    BY <2>2
  <2> HIDE DEF d, row
  <2>6. /\ PutTxid(txn, row) \in Database
        /\ PutTxid(txn, row).addresses = txn.addresses
    BY <2>1, <2>4, PutTxidLemma, TxidTables
  <2>7. added \in Database /\ added.addresses = txn.addresses
    BY <2>1, <2>4, <2>6, AddBalanceLemma, BalanceTables
  <2> HIDE DEF added
  <2>8. txn'.addresses = txn.addresses
    BY <2>5, <2>7, FlushTables
  <2> QED
    BY <2>1, <2>8, FilterImport DEF FilterInv, ImportPhases
<1>7. CASE NextRange \/ CheckLastHash
  <2>1. /\ pc = "addDeltas" /\ pc' \in {"getAddressDeltas", "commitAddresses"}
        /\ UNCHANGED <<db, walletBlock, txn, clone, task>>
    BY <1>7 DEF NextRange, CheckLastHash, memoryVars, importVars
  <2> QED
    BY <2>1, FilterImport DEF FilterInv, ImportPhases
<1>8. CASE UnexpectedHash
  BY <1>8, FilterEndWithTip DEF UnexpectedHash, EndTask, ImportPhases
<1>9. CASE ImportAddress
  <2>1. /\ pc = "commitAddresses" /\ txn \in Database
        /\ UNCHANGED <<db, walletBlock, pc, clone, task>>
        /\ txn' = IF at.delta \in task.places
                    THEN PutOwner(txn, task.wallet, ThisAddress)
                    ELSE txn
    BY <1>9, ImportOpen DEF ImportAddress, memoryVars, importVars, ImportPhases
  <2>2. txn'.addresses \subseteq txn.addresses \cup ({task.wallet} \X NewAddresses)
    BY <2>1, PutOwnerTables DEF ThisAddress, NewAddresses
  <2> QED
    BY <2>1, <2>2, FilterImport DEF FilterInv, ImportPhases
<1>10. CASE ImportCommit
  <2>1. /\ pc = "commitAddresses" /\ pc' = "importSync"
        /\ db' = PutBlock(txn, clone)
        /\ UNCHANGED <<walletBlock, clone>>
    BY <1>10 DEF ImportCommit, memoryVars
  <2>2. /\ txn \in Database /\ clone \in WalletBlock
        /\ txn.blocks = db.blocks /\ db.blocks \in SUBSET WalletBlock
    BY <2>1, ImportOpen DEF ImportPhases, Database
  <2>3. /\ db'.blocks = {c \in db.blocks : c.height # clone.height} \cup {clone}
        /\ db'.addresses = txn.addresses
    BY <2>1, <2>2, PutBlockTables
  <2>4. /\ walletBlock # Undefined
        /\ clone.height = walletBlock.height /\ clone.hash = walletBlock.hash
        /\ OnTop(walletBlock, db.blocks)
    BY <2>1 DEF HInv, BlocksInv, ImportPhases, FilterInv
  <2>5. Covers(clone.addressFilter, db'.addresses)
    <3>1. /\ Covers(walletBlock.addressFilter, db.addresses)
          /\ walletBlock.addressFilter \subseteq clone.addressFilter
          /\ NewAddresses \subseteq clone.addressFilter
          /\ db'.addresses \subseteq db.addresses \cup ({task.wallet} \X NewAddresses)
      BY <2>1, <2>3, <2>4 DEF FilterInv, ImportPhases
    <3> QED
      BY <3>1 DEF Covers, Passes
  <2>6. OnTop(clone, db'.blocks) /\ LastCovers(db'.blocks, db'.addresses)
    BY <2>2, <2>3, <2>4, <2>5, PutOnTop DEF OnTop
  <2>7. OnTop(walletBlock, db'.blocks)
    BY <2>4, <2>6 DEF OnTop
  <2> QED
    BY <2>1, <2>3, <2>5, <2>6, <2>7 DEF FilterInv, ImportPhases
<1>11. CASE ImportSynced
  <2>1. /\ pc = "importSync" /\ pc' = "idle" /\ Clear
        /\ walletBlock' = clone /\ UNCHANGED db
    BY <1>11 DEF ImportSynced, EndTask
  <2>2. /\ walletBlock # Undefined
        /\ clone.height = walletBlock.height /\ clone.hash = walletBlock.hash
        /\ OnTop(walletBlock, db.blocks)
        /\ Covers(clone.addressFilter, db.addresses)
    BY <2>1 DEF HInv, BlocksInv, ImportPhases, FilterInv
  <2>3. OnTop(clone, db.blocks)
    BY <2>2 DEF OnTop
  <2> QED
    BY <2>1, <2>2, <2>3, FilterEnd
<1> QED
  BY <1>1, <1>2, <1>3, <1>4, <1>5, <1>6, <1>7, <1>8, <1>9, <1>10, <1>11
     DEF ImportStep

\* No block is undone, and env.sync reports no error.
OnlyForward == ~DisconnectCommit /\ ~SyncFails

LEMMA FilterStep ==
  ASSUME HInv, FilterInv, [Next]_vars, [OnlyForward]_vars
  PROVE  FilterInv'
<1>1. CASE DisconnectCommit \/ SyncFails
  <2>1. UNCHANGED vars
    BY <1>1 DEF OnlyForward
  <2> QED
    BY <2>1, FilterOutside
<1>2. CASE RequestFails
  <2>1. /\ pc \in (SyncPhases \cup ImportPhases) \ {"connectSync", "importSync"}
        /\ pc' = "idle" /\ Clear /\ UNCHANGED db
        /\ \/ UNCHANGED walletBlock
           \/ pc \in ImportPhases /\ ForgetImport
    BY <1>2 DEF RequestFails, EndTask, SyncPhases, ImportPhases
  <2> QED
    BY <2>1, FilterEndWithTip
<1> QED
  BY <1>1, <1>2, FilterOutside, FilterSync, FilterImportStep DEF Next, SyncStep

LEMMA FilterAlways == Spec /\ [][OnlyForward]_vars => []FilterInv
<1>1. Init => FilterInv
  BY DEF Init, FilterInv, EmptyDatabase, LastCovers, ImportPhases
<1>2. HInv /\ FilterInv /\ [Next]_vars /\ [OnlyForward]_vars => FilterInv'
  BY FilterStep
<1> QED
  BY <1>1, <1>2, HistoryInvariant, PTL DEF Spec

\* Until a block is undone or a sync fails, every address of every wallet is in
\* the filter for the next block, whatever crashes, restarts and failed
\* requests come between: only undoing goes back to an older filter.
THEOREM FilterCoversForward == Spec /\ [][OnlyForward]_vars => []FilterCovers
<1>1. FilterInv => FilterCovers
  BY DEF FilterInv, Covers, FilterCovers
<1> QED
  BY <1>1, FilterAlways, PTL

\* Until then, the last entry of blocks is the tip whenever no task runs.
THEOREM LastIsTipForward == Spec /\ [][OnlyForward]_vars => []LastBlockIsTip
<1>1. HInv /\ FilterInv => LastBlockIsTip
  <2> SUFFICES ASSUME HInv, FilterInv, pc = "idle", walletBlock # Undefined
               PROVE  \E b \in db.blocks :
                        IsLastBlock(db, b) /\ b.hash = walletBlock.hash
    BY DEF LastBlockIsTip
  <2>1. OnTop(walletBlock, db.blocks)
    BY DEF FilterInv
  <2> QED
    BY <2>1 DEF OnTop, IsLastBlock
<1> QED
  BY <1>1, FilterAlways, HistoryInvariant, PTL

----------------------------------------------------------------------------
(* While bitcoind only adds to its chain: which places the tables show     *)

NoTwice(seq) == \A i, j \in DOMAIN seq : seq[i] = seq[j] => i = j

Ordinary ==
  /\ ValidChain
  /\ NoZeroOutputs
  /\ \A r \in Requests : NoTwice(r.addresses)

\* bitcoind only adds to its chain, and env.sync reports no error.
Steady == best \in ChainOf(best') /\ ~SyncFails

OwnersOnce(d) == \A a \in Address : NoTwice(d.addressesMap[a])

InChain(w) == w.hash \in ChainOf(best) /\ w.height = Height[w.hash]

ChainInv ==
  /\ \A k \in DOMAIN announced : announced[k] \in ChainOf(best)
  /\ bitcoinTip \in ChainOf(best)
  /\ walletBlock # Undefined => InChain(walletBlock)
  /\ \A b \in db.blocks : InChain(b)
  /\ pc \in ClonePhases => InChain(clone)
  /\ pc = "getBlockDeltas" => fetched \in ChainOf(best)
  /\ pc \notin {"disconnect", "disconnectSync"}
  /\ fault = "none"

DbInv ==
  /\ db.blocks = {} =>
       db.utxos = {} /\ db.txids = {} /\ \A w \in Wallet : db.balance[w] = 0
  /\ \A b \in db.blocks :
       OnTop(b, db.blocks) => Shows(db, Everywhere(b.hash), db.addresses)
  /\ OwnersOnce(db)

\* The places that the loop has been at, for each wallet
DoneAt(b, delta, owners, owner) ==
  [w \in Wallet |->
     PlacesOf(Parent[b]) \cup
       ({b} \X {i \in DOMAIN Deltas[b] :
                  i < delta \/ (i = delta /\ \E k \in DOMAIN owners :
                                               k < owner /\ owners[k] = w)})]

Done == DoneAt(clone.hash, at.delta, Owners, at.owner)

ConnectInv ==
  pc = "connect" =>
    /\ Shows(txn, Done, db.addresses)
    /\ OwnersOnce(txn)
    /\ clone.deltas = FilterDeltas(clone.addressFilter, clone.hash)

Touched == TouchedAt(clone.hash, NewAddresses)

Collected(S) ==
  /\ Imported(txn, db, clone.hash, task.wallet, NewAddresses, S)
  /\ \A e \in S : <<task.wallet, DeltaAt(e).tx>> \notin txn.txs

Added == {<<task.wallet, task.addresses[p]>> : p \in {q \in task.places : q < at.delta}}

RequestInv ==
  /\ NoTwice(task.addresses)
  /\ task.places # {}
  /\ \A p \in task.places : <<task.wallet, task.addresses[p]>> \notin db.addresses
  /\ OwnersOnce(txn)
  /\ txn.addresses = db.addresses \cup Added

OutputsInv ==
  /\ txn.utxos = UtxoRows(Everywhere(clone.hash),
                      db.addresses \cup ({task.wallet} \X NewAddresses))
  /\ section \in 1 .. WholeRanges + 1

\* The entries of the reply that are still to add.
TodoInv ==
  \A f \in todo :
    /\ f[1] \in task.places /\ f[2] \in Touched
    /\ Height[f[2][1]] <= Last(section)
    /\ AddressOfDelta(DeltaAt(f[2])) = task.addresses[f[1]]

ImportInv ==
  pc \in ImportPhases \ {"importSync"} =>
    /\ RequestInv
    /\ pc = "getAddressUtxos" => txn = db
    /\ pc # "getAddressUtxos" => OutputsInv
    /\ pc = "getAddressDeltas" =>
         (clone.height >= 2 => Collected({e \in Touched : Height[e[1]] < First(section)}))
    /\ pc = "addDeltas" =>
         /\ lastHash \in ChainOf(best) /\ Height[lastHash] = Last(section)
         /\ clone.height >= 2 =>
              /\ Collected({e \in Touched : Height[e[1]] <= Last(section)}
                             \ {f[2] : f \in todo})
              /\ TodoInv
    /\ pc = "commitAddresses" => clone.height >= 2 /\ Collected(Touched)

LedgerInv == ChainInv /\ DbInv /\ ConnectInv /\ ImportInv

----------------------------------------------------------------------------
(* Where the writer is in the chain                                        *)

\* What was on the chain of bitcoind stays on it.
LEMMA GrowingChain ==
  ASSUME best \in Block, best' \in Block, best \in ChainOf(best')
  PROVE  ChainOf(best) \subseteq ChainOf(best')
BY ChainTransitive

\* The next block extends the tip.
LEMMA Forward ==
  ASSUME HInv, ChainInv, pc = "getBlockDeltas"
  PROVE  ExtendsTip
<1>1. /\ best \in Block /\ walletBlock \in WalletBlock /\ walletBlock # Undefined
      /\ Height[fetched] = walletBlock.height + 1
  BY DEF HInv, IInv, TypeOK, PhaseOK, BlocksInv, SyncPhases
<1>2. /\ fetched \in ChainOf(best) /\ walletBlock.hash \in ChainOf(best)
      /\ walletBlock.height = Height[walletBlock.hash]
  BY <1>1 DEF ChainInv, InChain
<1>3. Parent[fetched] = walletBlock.hash
  BY <1>1, <1>2, ChainUnique
<1> QED
  BY <1>3 DEF ExtendsTip

\* So no block is undone.
LEMMA OnlyForwardSteps ==
  ASSUME HInv, ChainInv
  PROVE  /\ ~StartDisconnect /\ ~NoDeltasToUndo /\ ~DisconnectOutput /\ ~DisconnectInput
         /\ ~DisconnectFails /\ ~DisconnectCommit /\ ~NoPreviousBlock /\ ~DisconnectSynced
<1>1. ~StartDisconnect /\ ~NoDeltasToUndo
  BY Forward DEF StartDisconnect, NoDeltasToUndo
<1>2. pc # "disconnect" /\ pc # "disconnectSync"
  BY DEF ChainInv
<1> QED
  BY <1>1, <1>2 DEF DisconnectOutput, DisconnectInput, DisconnectFails,
                    DisconnectCommit, NoPreviousBlock, DisconnectSynced

\* A block that joins those of the database
LEMMA PutInChain ==
  ASSUME NEW d \in Database, NEW c \in WalletBlock, \A b \in d.blocks : InChain(b),
         InChain(c)
  PROVE  \A b \in PutBlock(d, c).blocks : InChain(b)
BY PutBlockTables

\* Steps between the tasks keep the invariant.
LEMMA ChainOutside ==
  ASSUME HInv, ChainInv, best \in ChainOf(best'),
         \/ \E b \in Block : NewTip(b)
         \/ \E w \in Wallet : CreateWallet(w)
         \/ \E s \in Saved : SaveTransaction(s[1], s[2])
         \/ Sync \/ SyncDone \/ GetBlockHash \/ Crash \/ Restart
  PROVE  ChainInv'
<1>1. /\ best \in Block /\ announced \in Seq(Block) /\ db \in Database
      /\ bitcoinTip \in Block /\ best \in ChainOf(best)
      /\ walletBlock \in WalletBlock \cup {Undefined}
  BY ChainStep DEF HInv, IInv, TypeOK
<1>2. ASSUME NEW b \in Block, NewTip(b)
      PROVE  ChainInv'
  <2>1. best' = b /\ b \in ChainOf(best')
    BY <1>2, ChainStep DEF NewTip
  <2>2. ChainOf(best) \subseteq ChainOf(best')
    BY <1>1, <2>1, GrowingChain
  <2>3. \A k \in DOMAIN announced' : announced'[k] \in ChainOf(best')
    <3>1. announced' = announced \/ announced' = Append(announced, b)
      BY <1>2 DEF NewTip
    <3>2. \A k \in DOMAIN announced : announced[k] \in ChainOf(best')
      BY <2>2 DEF ChainInv
    <3> QED
      BY <1>1, <2>1, <3>1, <3>2
  <2>4. UNCHANGED <<db, bitcoinTip, walletBlock, fault, pc, clone, fetched>>
    BY <1>2 DEF NewTip, memoryVars
  <2> QED
    BY <2>2, <2>3, <2>4 DEF ChainInv, InChain
<1>3. ASSUME NEW w \in Wallet, CreateWallet(w)
      PROVE  ChainInv'
  <2>1. UNCHANGED <<best, announced, bitcoinTip, fault, pc, clone, fetched>> /\ pc = "idle"
    BY <1>3 DEF CreateWallet, chainVars
  <2>2. CASE walletBlock # Undefined
    <3>1. walletBlock' = walletBlock /\ db' = [db EXCEPT !.wallets = @ \cup {w}]
      BY <1>3, <2>2 DEF CreateWallet
    <3>2. db'.blocks = db.blocks
      BY <1>1, <3>1 DEF Database
    <3> QED
      BY <2>1, <3>1, <3>2 DEF ChainInv, InChain
  <2>3. CASE walletBlock = Undefined
    <3> DEFINE c == NewWalletBlock(bitcoinTip)
               d == [db EXCEPT !.wallets = @ \cup {w}]
    <3>1. walletBlock' = c /\ db' = PutBlock(d, c)
      BY <1>3, <2>3 DEF CreateWallet
    <3>2. c \in WalletBlock /\ InChain(c)
      BY <1>1, ChainAssumption DEF NewWalletBlock, WalletBlock, ChainInv, InChain
    <3>3. d \in Database /\ d.blocks = db.blocks
      BY <1>1 DEF Database
    <3> HIDE DEF c, d
    <3>4. \A b \in db'.blocks : InChain(b)
      BY <3>1, <3>2, <3>3, PutInChain DEF ChainInv
    <3> QED
      BY <2>1, <3>1, <3>2, <3>4 DEF ChainInv, InChain, ClonePhases, TxnPhases
  <2> QED
    BY <2>2, <2>3
<1>4. ASSUME NEW s \in Saved, SaveTransaction(s[1], s[2])
      PROVE  ChainInv'
  <2>1. db'.blocks = db.blocks
    BY <1>1, <1>4 DEF SaveTransaction, Database
  <2> QED
    BY <1>4, <2>1 DEF SaveTransaction, chainVars, memoryVars, ChainInv, InChain
<1>5. CASE Sync
  <2>1. /\ announced' = Tail(announced) /\ announced # <<>>
        /\ bitcoinTip' = announced[1] /\ pc' \in {"idle", "sync"}
        /\ UNCHANGED <<best, db, walletBlock, fault>>
    BY <1>1, <1>5 DEF Sync
  <2>2. 1 \in DOMAIN announced
    BY <1>1, <2>1
  <2>3. \A k \in DOMAIN announced' : announced'[k] \in ChainOf(best)
    BY <1>1, <2>1 DEF ChainInv
  <2> QED
    BY <2>1, <2>2, <2>3 DEF ChainInv, InChain, ClonePhases, TxnPhases
<1>6. CASE SyncDone
  <2>1. pc' = "idle" /\ UNCHANGED <<best, announced, db, walletBlock, bitcoinTip, fault>>
    BY <1>6 DEF SyncDone, EndTask, chainVars, memoryVars
  <2> QED
    BY <2>1 DEF ChainInv, InChain, ClonePhases, TxnPhases
<1>7. CASE GetBlockHash
  <2>1. /\ pc' = "getBlockDeltas" /\ fetched' \in ChainOf(best)
        /\ UNCHANGED <<best, announced, db, walletBlock, bitcoinTip, fault>>
    BY <1>7 DEF GetBlockHash, chainVars, memoryVars
  <2> QED
    BY <2>1 DEF ChainInv, InChain, ClonePhases, TxnPhases
<1>8. CASE Crash
  <2>1. /\ pc' = "down" /\ fault' = "none" /\ walletBlock' = Undefined /\ announced' = <<>>
        /\ UNCHANGED <<best, db, bitcoinTip>>
    BY <1>8 DEF Crash, Die
  <2> QED
    BY <2>1 DEF ChainInv, InChain, ClonePhases, TxnPhases
<1>9. CASE Restart
  <2>1. /\ pc' = "idle" /\ fault' = "none" /\ bitcoinTip' = best /\ announced' = <<best>>
        /\ walletBlock' = Undefined \/ walletBlock' \in db.blocks
        /\ UNCHANGED <<best, db>>
    BY <1>9 DEF Restart, IsLastBlock
  <2>2. \A k \in DOMAIN announced' : announced'[k] \in ChainOf(best)
    BY <1>1, <2>1
  <2> QED
    BY <1>1, <2>1, <2>2 DEF ChainInv, InChain, ClonePhases, TxnPhases
<1> QED
  BY <1>2, <1>3, <1>4, <1>5, <1>6, <1>7, <1>8, <1>9

\* Connecting a block keeps it.
LEMMA ChainConnect ==
  ASSUME HInv, ChainInv,
         \/ StartConnect \/ NextDelta \/ ConnectOutput \/ ConnectInput
         \/ ConnectCommit \/ ConnectSynced
  PROVE  ChainInv'
<1>1. /\ best \in Block /\ db \in Database
      /\ (pc = "getBlockDeltas" => fetched \in Block /\ walletBlock \in WalletBlock)
      /\ pc \in {"connect", "connectSync"} => clone \in WalletBlock
      /\ pc = "connect" => txn \in Database
  BY DEF HInv, IInv, TypeOK, PhaseOK, SyncPhases, ClonePhases, TxnPhases
<1>2. CASE StartConnect
  <2>1. /\ pc = "getBlockDeltas" /\ pc' = "connect"
        /\ clone' = [walletBlock EXCEPT
                 !.height = Height[fetched],
                 !.hash = fetched,
                 !.deltas = FilterDeltas(walletBlock.addressFilter, fetched),
                 !.spentOutputs = {}]
        /\ UNCHANGED <<best, announced, db, walletBlock, bitcoinTip, fault>>
    BY <1>2 DEF StartConnect, chainVars, memoryVars
  <2>2. clone'.hash = fetched /\ clone'.height = Height[fetched]
    BY <1>1, <2>1 DEF WalletBlock
  <2> QED
    BY <2>1, <2>2 DEF ChainInv, InChain
<1>3. CASE NextDelta \/ ConnectOutput
  BY <1>3 DEF NextDelta, ConnectOutput, chainVars, memoryVars, ChainInv, InChain
<1>4. CASE ConnectInput
  <2>1. /\ pc = "connect" /\ pc' = pc
        /\ UNCHANGED <<best, announced, db, walletBlock, bitcoinTip, fault, fetched>>
        /\ \E s : clone' = [clone EXCEPT !.spentOutputs = s]
    BY <1>4 DEF ConnectInput, chainVars, memoryVars
  <2>2. clone'.hash = clone.hash /\ clone'.height = clone.height
    BY <1>1, <2>1 DEF WalletBlock
  <2> QED
    BY <2>1, <2>2 DEF ChainInv, InChain
<1>5. CASE ConnectCommit
  <2>1. /\ pc = "connect" /\ pc' = "connectSync" /\ db' = PutBlock(txn, clone)
        /\ UNCHANGED <<best, announced, walletBlock, bitcoinTip, fault, clone>>
    BY <1>5 DEF ConnectCommit, chainVars, memoryVars
  <2>2. txn.blocks = db.blocks /\ InChain(clone)
    BY <2>1 DEF HInv, BlocksInv, ChainInv, TxnPhases, ClonePhases
  <2>3. \A b \in db'.blocks : InChain(b)
    BY <1>1, <2>1, <2>2, PutInChain DEF ChainInv
  <2> QED
    BY <2>1, <2>2, <2>3 DEF ChainInv, InChain
<1>6. CASE ConnectSynced
  <2>1. /\ pc = "connectSync" /\ pc' = "sync" /\ db' = Prune(db, PruneDepth)
        /\ walletBlock' = clone /\ UNCHANGED <<best, announced, bitcoinTip, fault>>
    BY <1>6 DEF ConnectSynced, chainVars
  <2>2. InChain(clone)
    BY <2>1 DEF ChainInv, ClonePhases
  <2>3. db'.blocks \subseteq db.blocks
    BY <1>1, <2>1, PruneTables
  <2> QED
    BY <2>1, <2>2, <2>3 DEF ChainInv, InChain, ClonePhases, TxnPhases
<1> QED
  BY <1>2, <1>3, <1>4, <1>5, <1>6

\* A forgotten import leaves the tip where it is.
LEMMA ForgetInChain ==
  ASSUME walletBlock \in WalletBlock, InChain(walletBlock), ForgetImport
  PROVE  walletBlock' # Undefined => InChain(walletBlock')
<1>1. walletBlock' = walletBlock
      \/ (walletBlock'.hash = walletBlock.hash /\ walletBlock'.height = walletBlock.height)
  BY DEF ForgetImport, WalletBlock
<1> QED
  BY <1>1 DEF InChain

\* An import keeps it.
LEMMA ChainImport ==
  ASSUME HInv, ChainInv,
         \/ \E r \in Requests : StartImport(r)
         \/ ImportStep \/ RequestFails
  PROVE  ChainInv'
<1>1. /\ best \in Block /\ db \in Database /\ announced \in Seq(Block)
      /\ best \in ChainOf(best)
      /\ (pc \in ImportPhases \cup SyncPhases => walletBlock \in WalletBlock /\ walletBlock # Undefined)
      /\ pc \in ImportPhases => clone \in WalletBlock
      /\ pc \in ImportPhases \ {"importSync"} => txn \in Database
      /\ pc \in ImportPhases => InChain(clone)
  BY ChainStep DEF HInv, BlocksInv, IInv, TypeOK, PhaseOK, SyncPhases, ImportPhases, ClonePhases,
                   TxnPhases, ChainInv
<1>2. ASSUME NEW r \in Requests, StartImport(r)
      PROVE  ChainInv'
  BY <1>2 DEF StartImport, chainVars, memoryVars, ChainInv, InChain
<1>3. CASE ImportUTXOs \/ AddDelta \/ NextRange \/ CheckLastHash \/ ImportAddress
  <2>1. /\ pc \in ImportPhases /\ pc' \in ImportPhases
        /\ UNCHANGED <<best, announced, db, walletBlock, bitcoinTip, fault, clone>>
    BY <1>3 DEF ImportUTXOs, AddDelta, NextRange, CheckLastHash, ImportAddress,
                chainVars, memoryVars, ImportPhases
  <2> QED
    BY <1>1, <2>1 DEF ChainInv, InChain, ImportPhases
<1>4. CASE GetAddressDeltas
  <2>1. /\ pc \in ImportPhases /\ pc' = "addDeltas"
        /\ UNCHANGED <<best, announced, db, walletBlock, bitcoinTip, fault>>
        /\ clone' = [clone EXCEPT !.addressFilter = FilterWithNew]
    BY <1>4 DEF GetAddressDeltas, chainVars, memoryVars, ImportPhases
  <2>2. clone'.hash = clone.hash /\ clone'.height = clone.height
    BY <1>1, <2>1 DEF WalletBlock
  <2> QED
    BY <1>1, <2>1, <2>2 DEF ChainInv, InChain
<1>5. CASE TipMoved
  <2>1. /\ pc' = "idle"
        /\ announced' = announced \/ announced' = <<best>> \o announced
        /\ UNCHANGED <<best, db, walletBlock, bitcoinTip, fault>>
    BY <1>5 DEF TipMoved, EndTask, memoryVars
  <2>2. \A k \in DOMAIN announced' : announced'[k] \in ChainOf(best)
    BY <1>1, <2>1 DEF ChainInv
  <2> QED
    BY <2>1, <2>2 DEF ChainInv, InChain, ClonePhases, TxnPhases
<1>6. CASE RangeAboveTip \/ UnexpectedHash \/ RequestFails
  <2>1. /\ pc \in ImportPhases \cup SyncPhases /\ pc' = "idle"
        /\ UNCHANGED <<best, announced, db, bitcoinTip, fault>>
        /\ walletBlock' = walletBlock \/ ForgetImport
    BY <1>6 DEF RangeAboveTip, UnexpectedHash, RequestFails, EndTask, chainVars,
                ImportPhases, SyncPhases
  <2>2. walletBlock' # Undefined => InChain(walletBlock')
    BY <1>1, <2>1, ForgetInChain DEF ChainInv
  <2> QED
    BY <2>1, <2>2 DEF ChainInv, InChain, ClonePhases, TxnPhases
<1>7. CASE ImportCommit
  <2>1. /\ pc = "commitAddresses" /\ pc' = "importSync" /\ db' = PutBlock(txn, clone)
        /\ UNCHANGED <<best, announced, walletBlock, bitcoinTip, fault, clone>>
    BY <1>7 DEF ImportCommit, chainVars, memoryVars
  <2>2. txn.blocks = db.blocks
    BY <2>1 DEF HInv, BlocksInv, TxnPhases
  <2>3. \A b \in db'.blocks : InChain(b)
    BY <1>1, <2>1, <2>2, PutInChain DEF ChainInv, ImportPhases
  <2> QED
    BY <1>1, <2>1, <2>3 DEF ChainInv, InChain, ImportPhases
<1>8. CASE ImportSynced
  <2>1. /\ pc = "importSync" /\ pc' = "idle" /\ walletBlock' = clone
        /\ UNCHANGED <<best, announced, db, bitcoinTip, fault>>
    BY <1>8 DEF ImportSynced, EndTask, chainVars
  <2> QED
    BY <1>1, <2>1 DEF ChainInv, InChain, ClonePhases, TxnPhases, ImportPhases
<1> QED
  BY <1>2, <1>3, <1>4, <1>5, <1>6, <1>7, <1>8 DEF ImportStep

----------------------------------------------------------------------------
(* What is committed                                                       *)

\* A database of the same tables shows the same.
LEMMA SameShown ==
  ASSUME NEW d, NEW e, NEW done, NEW pairs,
         e.utxos = d.utxos, e.txids = d.txids, e.balance = d.balance, Shows(d, done, pairs)
  PROVE  Shows(e, done, pairs)
BY DEF Shows

\* The tables show the chain that ends in the last stored block.
LEMMA TopShown ==
  ASSUME NEW w, OnTop(w, db.blocks), DbInv
  PROVE  Shows(db, Everywhere(w.hash), db.addresses)
BY DEF OnTop, DbInv

\* That is the tip in memory, except between a commit and its env.sync.
LEMMA TipShown ==
  ASSUME HInv, FilterInv, DbInv, walletBlock # Undefined, pc # "connectSync"
  PROVE  Shows(db, Everywhere(walletBlock.hash), db.addresses)
BY TopShown DEF FilterInv

\* Nothing that counts here is committed.
LEMMA DbSame ==
  ASSUME DbInv, db'.blocks = db.blocks, db'.utxos = db.utxos, db'.txids = db.txids,
         db'.balance = db.balance, db'.addresses = db.addresses,
         db'.addressesMap = db.addressesMap
  PROVE  DbInv'
BY DEF DbInv, Shows, OwnersOnce, OnTop

\* A new last block is committed together with the tables that show it.
LEMMA DbPut ==
  ASSUME NEW d \in Database, NEW c \in WalletBlock,
         d.blocks = db.blocks, \A b \in db.blocks : b.height <= c.height,
         db' = PutBlock(d, c),
         Shows(d, Everywhere(c.hash), d.addresses), OwnersOnce(d)
  PROVE  DbInv'
<1>1. /\ db'.utxos = d.utxos /\ db'.txids = d.txids /\ db'.balance = d.balance
      /\ db'.addresses = d.addresses /\ db'.addressesMap = d.addressesMap
      /\ db'.blocks = {b \in d.blocks : b.height # c.height} \cup {c}
  BY DEF PutBlock, Database
<1>2. \A b \in d.blocks : b.height \in Nat /\ c.height \in Nat
  BY DEF Database, WalletBlock
<1>3. ASSUME NEW b \in db'.blocks, OnTop(b, db'.blocks)
      PROVE  b = c
  <2>1. c.height <= b.height
    BY <1>1, <1>3 DEF OnTop
  <2> QED
    BY <1>1, <1>2, <2>1
<1>4. Shows(db', Everywhere(c.hash), db'.addresses)
  BY <1>1, SameShown
<1>5. db'.blocks # {}
  BY <1>1
<1>6. OwnersOnce(db')
  BY <1>1 DEF OwnersOnce
<1> QED
  BY <1>3, <1>4, <1>5, <1>6 DEF DbInv

\* Pruning leaves the last block.
LEMMA PruneLeavesTop ==
  ASSUME HInv, FilterInv, ChainInv, pc = "connectSync"
  PROVE  LET pruned == Prune(db, PruneDepth).blocks
         IN /\ clone \in pruned /\ clone \in db.blocks
            /\ pruned \subseteq db.blocks
            /\ \A b \in pruned : OnTop(b, pruned) => OnTop(b, db.blocks)
<1> DEFINE pruned == Prune(db, PruneDepth).blocks
<1>1. /\ db \in Database /\ clone \in WalletBlock /\ clone \in db.blocks
      /\ clone.height = walletBlock.height + 1
      /\ walletBlock \in WalletBlock
      /\ OnTop(clone, db.blocks)
  BY DEF HInv, IInv, TypeOK, PhaseOK, BlocksInv, FilterInv, ClonePhases, SyncPhases
<1>2. /\ clone.height > 0
      /\ \A b \in db.blocks : b.height <= clone.height
      /\ \A b \in db.blocks : b.height \in Nat
  BY <1>1 DEF WalletBlock, OnTop, Database
<1>3. clone \in pruned /\ pruned \subseteq db.blocks
  BY <1>1, <1>2, PruneFromLast
<1> HIDE DEF pruned
<1>4. ASSUME NEW b \in pruned, OnTop(b, pruned)
      PROVE  OnTop(b, db.blocks)
  <2>1. clone.height <= b.height
    BY <1>3, <1>4 DEF OnTop
  <2>2. b.height = clone.height
    BY <1>2, <1>3, <2>1
  <2> QED
    BY <1>2, <1>3, <2>2 DEF OnTop
<1> QED
  BY <1>1, <1>3, <1>4 DEF pruned

\* Pruning changes nothing that counts.
LEMMA DbPruned ==
  ASSUME HInv, FilterInv, ChainInv, DbInv, pc = "connectSync", db' = Prune(db, PruneDepth)
  PROVE  DbInv'
<1>1. /\ db'.utxos = db.utxos /\ db'.txids = db.txids /\ db'.balance = db.balance
      /\ db'.addresses = db.addresses /\ db'.addressesMap = db.addressesMap
  BY DEF HInv, IInv, TypeOK, Prune, Database
<1>2. /\ db'.blocks # {}
      /\ db'.blocks \subseteq db.blocks
      /\ \A b \in db'.blocks : OnTop(b, db'.blocks) => OnTop(b, db.blocks)
  BY PruneLeavesTop
<1>3. ASSUME NEW b \in db'.blocks, OnTop(b, db'.blocks)
      PROVE  Shows(db', Everywhere(b.hash), db'.addresses)
  <2>1. Shows(db, Everywhere(b.hash), db.addresses)
    BY <1>2, <1>3, TopShown
  <2> QED
    BY <1>1, <2>1, SameShown
<1>4. OwnersOnce(db')
  BY <1>1 DEF OwnersOnce, DbInv
<1> QED
  BY <1>2, <1>3, <1>4 DEF DbInv

----------------------------------------------------------------------------
(* The loop of a connect                                                   *)

Here == <<clone.hash, at.delta>>

\* What is known while a block is connected
LEMMA ConnectOpen ==
  ASSUME HInv, ChainInv, pc = "connect"
  PROVE  /\ clone.hash \in Block /\ Parent[clone.hash] \in Block
         /\ Parent[clone.hash] # NoBlock
         /\ clone.height = Height[clone.hash] /\ clone \in WalletBlock
         /\ at.delta \in Nat \ {0} /\ at.owner \in Nat \ {0}
         /\ Deltas[clone.hash] \in Seq(Delta)
         /\ DOMAIN Deltas[clone.hash] = 1 .. Len(Deltas[clone.hash])
         /\ Len(Deltas[clone.hash]) \in Nat
<1>1. /\ clone \in WalletBlock /\ clone.hash \in Block
      /\ walletBlock \in WalletBlock
      /\ Parent[clone.hash] = walletBlock.hash /\ walletBlock.hash \in Block
      /\ at \in [delta: Nat \ {0}, owner: Nat \ {0}]
      /\ clone.height = Height[clone.hash]
  BY DEF HInv, IInv, TypeOK, PhaseOK, BlocksInv, ClonePhases, TxnPhases, SyncPhases,
         WalletBlock, ChainInv, InChain
<1>2. Deltas[clone.hash] \in Seq(Delta)
  BY <1>1, ChainAssumption
<1>3. Parent[clone.hash] # NoBlock
  BY <1>1, ChainAssumption
<1> QED
  BY <1>1, <1>2, <1>3

\* The places that the loop has been at are a part of the chain.
LEMMA DoneIs ==
  ASSUME NEW b \in Block, Parent[b] \in Block, NEW delta, NEW owners, NEW owner
  PROVE  /\ DoneAt(b, delta, owners, owner) \in PartsOf(b)
         /\ \A w \in Wallet : DoneAt(b, delta, owners, owner)[w] =
              PlacesOf(Parent[b]) \cup
              ({b} \X {i \in DOMAIN Deltas[b] :
                  i < delta \/ (i = delta /\ \E k \in DOMAIN owners :
                                               k < owner /\ owners[k] = w)})
<1>1. Parent[b] # NoBlock
  BY ChainAssumption
<1>2. PlacesOf(b) = PlacesOf(Parent[b]) \cup ({b} \X DOMAIN Deltas[b])
  BY <1>1, PlacesStep
<1> QED
  BY <1>2 DEF DoneAt, PartsOf

\* The loop stands at a place it has not been at for this wallet; it has been at
\* all that come before it, and at none that comes after it.
LEMMA StandsAt ==
  ASSUME HInv, ChainInv, ConnectInv, pc = "connect", AtOwner
  PROVE  /\ Here \in PlacesOf(clone.hash) /\ DeltaAt(Here) = ThisDelta
         /\ ThisOwner \in Wallet
         /\ Done \in PartsOf(clone.hash)
         /\ Here \notin Done[ThisOwner]
         /\ \A f \in Done[ThisOwner] : ~Precedes(Here, f)
         /\ \A f \in PlacesOf(clone.hash) : Precedes(f, Here) => f \in Done[ThisOwner]
         /\ DoneAt(clone.hash, at.delta, Owners, at.owner + 1) = Visited(Done, ThisOwner, Here)
<1> DEFINE b == clone.hash
           w == ThisOwner
<1>1. /\ b \in Block /\ Parent[b] \in Block /\ Parent[b] # NoBlock
      /\ at.delta \in Nat \ {0} /\ at.owner \in Nat \ {0}
      /\ DOMAIN Deltas[b] = 1 .. Len(Deltas[b]) /\ Len(Deltas[b]) \in Nat
  BY ConnectOpen
<1>2. at.delta \in DOMAIN Deltas[b]
  BY <1>1 DEF AtOwner, AllDeltasDone
<1>3. w \in Wallet
  BY OwnerLemma DEF HInv, ThisUtxo, UtxoRow
<1>4. Here \in PlacesOf(b) /\ DeltaAt(Here) = ThisDelta
  BY <1>1, <1>2, PlaceIn, ChainStep DEF Here, ThisDelta
<1>5. /\ PlacesOf(b) = PlacesOf(Parent[b]) \cup ({b} \X DOMAIN Deltas[b])
      /\ \A e \in PlacesOf(Parent[b]) : e[1] # b
  BY <1>1, PlacesStep
<1>6. Owners \in Seq(Wallet) /\ at.owner \in DOMAIN Owners /\ NoTwice(Owners)
  <2>1. txn \in Database
    BY LoopOpen
  <2>2. AddressOfDelta(ThisDelta) \in Address
    BY <1>4, PlaceFacts, <1>1
  <2>3. Owners \in Seq(Wallet)
    BY <2>1, <2>2 DEF Owners, Database
  <2>4. at.owner <= Len(Owners)
    BY DEF AtOwner
  <2>5. NoTwice(Owners)
    BY <2>2 DEF ConnectInv, OwnersOnce, Owners
  <2> QED
    BY <1>1, <2>3, <2>4, <2>5
<1>7. /\ Done \in PartsOf(b)
      /\ DoneAt(b, at.delta, Owners, at.owner + 1) \in PartsOf(b)
      /\ \A v \in Wallet : Done[v] =
           PlacesOf(Parent[b]) \cup
              ({b} \X {i \in DOMAIN Deltas[b] :
                  i < at.delta \/ (i = at.delta /\ \E k \in DOMAIN Owners :
                                                    k < at.owner /\ Owners[k] = v)})
      /\ \A v \in Wallet : DoneAt(b, at.delta, Owners, at.owner + 1)[v] =
           PlacesOf(Parent[b]) \cup
              ({b} \X {i \in DOMAIN Deltas[b] :
                  i < at.delta \/ (i = at.delta /\ \E k \in DOMAIN Owners :
                                                    k < at.owner + 1 /\ Owners[k] = v)})
  BY <1>1, DoneIs DEF Done
<1>8. Owners[at.owner] = w
  BY DEF ThisOwner
<1>9. \A k \in DOMAIN Owners : k < at.owner => Owners[k] # w
  BY <1>1, <1>6, <1>8 DEF NoTwice
<1> HIDE DEF b, w
<1>10. Here[1] = b /\ Here[2] = at.delta
  BY DEF Here, b
<1>11. Here \notin Done[w]
  BY <1>1, <1>3, <1>5, <1>7, <1>9, <1>10
<1>12. ASSUME NEW f \in Done[w], Precedes(Here, f)
       PROVE  FALSE
  <2>1. CASE f \in PlacesOf(Parent[b])
    <3>1. f[1] \in ChainOf(Parent[b])
      BY <1>1, <2>1, PlaceFacts
    <3>2. PlacesOf(f[1]) \subseteq PlacesOf(Parent[b])
      BY <1>1, <3>1, PlacesTransitive
    <3> QED
      BY <1>5, <1>10, <1>12, <3>2 DEF Precedes
  <2>2. CASE f \notin PlacesOf(Parent[b])
    <3>1. f[1] = b /\ f[2] \in DOMAIN Deltas[b] /\ f[2] <= at.delta
      BY <1>1, <1>3, <1>7, <2>2
    <3> QED
      BY <1>1, <1>10, <1>12, <3>1 DEF Precedes
  <2> QED
    BY <2>1, <2>2
<1>13. ASSUME NEW f \in PlacesOf(b), Precedes(f, Here)
       PROVE  f \in Done[w]
  <2>1. CASE f \in PlacesOf(Parent[b])
    BY <1>3, <1>7, <2>1
  <2>2. CASE f \notin PlacesOf(Parent[b])
    <3>1. f \in {b} \X DOMAIN Deltas[b]
      BY <1>5, <2>2
    <3>2. f[1] = b /\ f[2] \in DOMAIN Deltas[b] /\ f[2] < at.delta /\ f = <<f[1], f[2]>>
      BY <1>10, <1>13, <3>1 DEF Precedes
    <3> QED
      BY <1>3, <1>7, <3>2
  <2> QED
    BY <2>1, <2>2
<1>14. DoneAt(b, at.delta, Owners, at.owner + 1) = Visited(Done, w, Here)
  <2> DEFINE next == DoneAt(b, at.delta, Owners, at.owner + 1)
             more == Visited(Done, w, Here)
  <2>1. /\ more \in PartsOf(b) /\ more[w] = Done[w] \cup {Here}
        /\ \A v \in Wallet : v # w => more[v] = Done[v]
    BY <1>1, <1>3, <1>4, <1>7, VisitedIs DEF b
  <2> HIDE DEF more
  <2>2. ASSUME NEW v \in Wallet, v # w
        PROVE  next[v] = Done[v]
    <3>1. \A k \in DOMAIN Owners : k < at.owner + 1 /\ Owners[k] = v
                                   <=> k < at.owner /\ Owners[k] = v
      BY <1>1, <1>6, <1>8, <2>2
    <3> DEFINE New(i) == \E k \in DOMAIN Owners : k < at.owner + 1 /\ Owners[k] = v
               Old(i) == \E k \in DOMAIN Owners : k < at.owner /\ Owners[k] = v
    <3>2. \A i : New(i) <=> Old(i)
      BY <3>1
    <3>3. next[v] = PlacesOf(Parent[b]) \cup
                      ({b} \X {i \in DOMAIN Deltas[b] : i < at.delta \/ (i = at.delta /\ New(i))})
      BY <1>7
    <3>4. Done[v] = PlacesOf(Parent[b]) \cup
                      ({b} \X {i \in DOMAIN Deltas[b] : i < at.delta \/ (i = at.delta /\ Old(i))})
      BY <1>7
    <3> HIDE DEF New, Old, next
    <3>5. {i \in DOMAIN Deltas[b] : i < at.delta \/ (i = at.delta /\ New(i))}
            = {i \in DOMAIN Deltas[b] : i < at.delta \/ (i = at.delta /\ Old(i))}
      BY <3>2
    <3> QED
      BY <3>3, <3>4, <3>5
  <2>3. next[w] = Done[w] \cup {Here}
    <3>1. at.owner \in DOMAIN Owners /\ at.owner < at.owner + 1 /\ Owners[at.owner] = w
      BY <1>1, <1>6, <1>8
    <3>2. next[w] = PlacesOf(Parent[b]) \cup
                      ({b} \X {i \in DOMAIN Deltas[b] : i < at.delta \/ i = at.delta})
      BY <1>3, <1>7, <3>1
    <3>3. Done[w] = PlacesOf(Parent[b]) \cup ({b} \X {i \in DOMAIN Deltas[b] : i < at.delta})
      BY <1>3, <1>7, <1>9
    <3>4. Here = <<b, at.delta>> /\ at.delta \in DOMAIN Deltas[b]
      BY <1>2, <1>10 DEF Here, b
    <3> QED
      BY <3>2, <3>3, <3>4
  <2>4. next \in [Wallet -> SUBSET PlacesOf(b)] /\ more \in [Wallet -> SUBSET PlacesOf(b)]
    BY <1>7, <2>1 DEF PartsOf
  <2> HIDE DEF next
  <2>5. next = more
    BY <2>1, <2>2, <2>3, <2>4
  <2> QED
    BY <2>5 DEF next, more
<1> QED
  BY <1>3, <1>4, <1>7, <1>11, <1>12, <1>13, <1>14 DEF b, w

\* The rows that the loop writes
LEMMA RowsHere ==
  ASSUME HInv, ChainInv, ConnectInv, pc = "connect", AtOwner
  PROVE  /\ ThisTxid = TxRowAt(ThisOwner, Here)
         /\ ThisUtxo = RowAt(ThisOwner, Here)
         /\ <<ThisOwner, AddressOfDelta(DeltaAt(Here))>> \in db.addresses
         /\ ThisUtxo.wallet = ThisOwner /\ ThisUtxo.out = DeltaAt(Here).out
         /\ ThisUtxo \in UtxoRow
         /\ SatoshisOf(DeltaAt(Here)) \in Int
         /\ DeltaAt(Here).kind \in {"input", "output"}
         /\ Satoshis[DeltaAt(Here).out] \in Nat
<1>1. Here \in PlacesOf(clone.hash) /\ DeltaAt(Here) = ThisDelta /\ ThisOwner \in Wallet
  BY StandsAt
<1>2. clone.hash \in Block /\ clone.height = Height[clone.hash]
  BY ConnectOpen
<1>3. Here[1] = clone.hash
  BY DEF Here
<1>4. ThisTxid = TxRowAt(ThisOwner, Here) /\ ThisUtxo = RowAt(ThisOwner, Here)
  BY <1>1, <1>2, <1>3 DEF ThisTxid, ThisUtxo, TxRowAt, RowAt
<1>5. /\ ThisUtxo.wallet = ThisOwner /\ ThisUtxo.out = DeltaAt(Here).out
      /\ ThisUtxo \in UtxoRow
  BY <1>1, <1>2, <1>4, RowAtIs
<1>6. AddressOfDelta(DeltaAt(Here)) = AddressOf[ThisUtxo.out]
  BY <1>5 DEF AddressOfDelta
<1>7. <<ThisOwner, AddressOfDelta(DeltaAt(Here))>> \in db.addresses
  BY <1>5, <1>6, OwnerHasAddress
<1>8. DeltaAt(Here) \in Delta /\ Satoshis[DeltaAt(Here).out] \in Nat
  BY <1>1, <1>2, PlaceFacts, ChainAssumption
<1>9. SatoshisOf(DeltaAt(Here)) \in Int
  BY <1>8, DeltaLemma
<1> QED
  BY <1>4, <1>5, <1>7, <1>8, <1>9 DEF Delta

\* The loop connects an output.
LEMMA OutputApplies ==
  ASSUME ValidChain, HInv, ChainInv, ConnectInv, pc = "connect", AtOwner, IsOutput
  PROVE  Shows(AddUTXOs(Connected(txn), {ThisUtxo}),
               DoneAt(clone.hash, at.delta, Owners, at.owner + 1), db.addresses)
<1>1. DeltaAt(Here).kind = "output"
  <2>1. ThisDelta = DeltaAt(Here) /\ SatoshisOf(DeltaAt(Here)) > 0
    BY StandsAt DEF IsOutput
  <2> QED
    BY <2>1, RowsHere DEF SatoshisOf
<1>2. clone.hash \in Block /\ txn \in Database /\ Shows(txn, Done, db.addresses)
  BY ConnectOpen, LoopOpen DEF ConnectInv
<1>3. /\ Here \in PlacesOf(clone.hash) /\ DeltaAt(Here) = ThisDelta
      /\ ThisOwner \in Wallet
      /\ Done \in PartsOf(clone.hash)
      /\ Here \notin Done[ThisOwner]
      /\ \A f \in Done[ThisOwner] : ~Precedes(Here, f)
  BY StandsAt
<1>4. <<ThisOwner, AddressOfDelta(DeltaAt(Here))>> \in db.addresses
  BY RowsHere
<1>5. Shows(AddUTXOs(AddBalance(PutTxid(txn, TxRowAt(ThisOwner, Here)), ThisOwner,
                                SatoshisOf(DeltaAt(Here))),
                     {RowAt(ThisOwner, Here)}),
            Visited(Done, ThisOwner, Here), db.addresses)
  BY <1>1, <1>2, <1>3, <1>4, OutputShown
<1>6. Connected(txn) = AddBalance(PutTxid(txn, TxRowAt(ThisOwner, Here)), ThisOwner,
                                  SatoshisOf(DeltaAt(Here)))
  BY <1>3, RowsHere DEF Connected
<1>7. /\ ThisUtxo = RowAt(ThisOwner, Here)
      /\ DoneAt(clone.hash, at.delta, Owners, at.owner + 1) = Visited(Done, ThisOwner, Here)
  BY RowsHere, StandsAt
<1> QED
  BY <1>5, <1>6, <1>7

\* The loop connects an input: its output is found and can be deleted.
LEMMA InputApplies ==
  ASSUME ValidChain, HInv, ChainInv, ConnectInv, pc = "connect", AtOwner, IsInput
  PROVE  /\ \E spent \in txn.utxos :
              SameOutput(spent, ThisUtxo) /\ CanDeleteUTXO(txn, spent)
         /\ \A spent \in txn.utxos : SameOutput(spent, ThisUtxo) =>
              Shows(DeleteUTXO(Connected(txn), spent),
                    DoneAt(clone.hash, at.delta, Owners, at.owner + 1), db.addresses)
<1>1. DeltaAt(Here).kind = "input"
  BY StandsAt DEF IsInput
<1>2. clone.hash \in Block /\ txn \in Database /\ Shows(txn, Done, db.addresses)
      /\ Sound(txn)
  BY ConnectOpen, LoopOpen DEF ConnectInv
<1>3. /\ Here \in PlacesOf(clone.hash) /\ DeltaAt(Here) = ThisDelta
      /\ ThisOwner \in Wallet
      /\ Done \in PartsOf(clone.hash)
      /\ Here \notin Done[ThisOwner]
      /\ \A f \in PlacesOf(clone.hash) : Precedes(f, Here) => f \in Done[ThisOwner]
  BY StandsAt
<1>4. <<ThisOwner, AddressOfDelta(DeltaAt(Here))>> \in db.addresses
  BY RowsHere
<1>5. /\ \E r \in txn.utxos : r.wallet = ThisOwner /\ r.out = DeltaAt(Here).out
      /\ \A r \in txn.utxos : r.wallet = ThisOwner /\ r.out = DeltaAt(Here).out =>
           Shows(DeleteUTXO(AddBalance(PutTxid(txn, TxRowAt(ThisOwner, Here)), ThisOwner,
                                       SatoshisOf(DeltaAt(Here))), r),
                 Visited(Done, ThisOwner, Here), db.addresses)
  BY <1>1, <1>2, <1>3, <1>4, InputShown
<1>6. Connected(txn) = AddBalance(PutTxid(txn, TxRowAt(ThisOwner, Here)), ThisOwner,
                                  SatoshisOf(DeltaAt(Here)))
  BY <1>3, RowsHere DEF Connected
<1>7. /\ DoneAt(clone.hash, at.delta, Owners, at.owner + 1) = Visited(Done, ThisOwner, Here)
      /\ \A r : SameOutput(r, ThisUtxo) <=> r.wallet = ThisOwner /\ r.out = DeltaAt(Here).out
  BY RowsHere, StandsAt DEF SameOutput
<1>8. \A r \in txn.utxos : CanDeleteUTXO(txn, r)
  BY <1>2 DEF Sound, TablesAgree, CanDeleteUTXO, HasUTXO, SameOutput
<1> QED
  BY <1>5, <1>6, <1>7, <1>8

\* The assertions of the code hold.
LEMMA NeverFails ==
  ASSUME Ordinary, HInv, ChainInv, ConnectInv
  PROVE  ~ConnectFails
<1> SUFFICES ASSUME ConnectFails PROVE FALSE
  OBVIOUS
<1>1. pc = "connect" /\ AtOwner /\ ValidChain
  BY DEF ConnectFails, Ordinary
<1>2. ~IsZeroOutput
  <2> SUFFICES ASSUME IsZeroOutput PROVE FALSE
    OBVIOUS
  <2>1. DeltaAt(Here) = ThisDelta /\ DeltaAt(Here).kind = "output" /\ SatoshisOf(DeltaAt(Here)) <= 0
    BY <1>1, StandsAt DEF IsZeroOutput
  <2>2. Here \in PlacesOf(clone.hash) /\ clone.hash \in Block
    BY <1>1, StandsAt, ConnectOpen
  <2>3. Satoshis[DeltaAt(Here).out] > 0
    <3>1. Here[1] \in Block /\ Here[2] \in DOMAIN Deltas[Here[1]]
      BY <2>2, PlaceFacts
    <3> QED
      BY <2>1, <3>1 DEF DeltaAt, Ordinary, NoZeroOutputs
  <2>4. Satoshis[DeltaAt(Here).out] \in Nat
    BY <1>1, RowsHere
  <2> QED
    BY <2>1, <2>3, <2>4 DEF SatoshisOf
<1>3. IsInput => \E spent \in txn.utxos :
                   SameOutput(spent, ThisUtxo) /\ CanDeleteUTXO(txn, spent)
  BY <1>1, InputApplies
<1> QED
  BY <1>2, <1>3 DEF ConnectFails

----------------------------------------------------------------------------
(* sync                                                                    *)

\* The loop reads the owners of an address from the working copy, which it does
\* not change.
LEMMA OwnersSame ==
  ASSUME clone'.hash = clone.hash, at'.delta = at.delta, txn'.addressesMap = txn.addressesMap
  PROVE  Owners' = Owners
BY DEF Owners, ThisDelta

\* The writes of the loop leave addressesMap as it is.
LEMMA LoopMaps ==
  ASSUME HInv, pc = "connect", AtOwner
  PROVE  /\ Connected(txn).addressesMap = txn.addressesMap
         /\ AddUTXOs(Connected(txn), {ThisUtxo}).addressesMap = txn.addressesMap
         /\ \A spent : DeleteUTXO(Connected(txn), spent).addressesMap = txn.addressesMap
<1>1. txn \in Database
  BY LoopOpen
<1>2. /\ ThisTxid \in TxidRow /\ Connected(txn) \in Database
  BY OwnerLemma DEF HInv
<1> DEFINE p == PutTxid(txn, ThisTxid)
<1>3. p \in Database /\ p.addressesMap = txn.addressesMap
  BY <1>1, <1>2, PutTxidLemma DEF PutTxid, Database
<1> HIDE DEF p
<1>4. \A f : [p EXCEPT !.balance = f].addressesMap = p.addressesMap
  BY <1>3 DEF Database
<1>5. Connected(txn).addressesMap = txn.addressesMap
  BY <1>3, <1>4 DEF Connected, AddBalance, p
<1> QED
  BY <1>2, <1>5 DEF AddUTXOs, DeleteUTXO, Database

\* A connect begins where the committed tables are.
LEMMA ConnectBegins ==
  ASSUME HInv, FilterInv, ChainInv, DbInv, StartConnect
  PROVE  ConnectInv'
<1>1. /\ pc = "getBlockDeltas" /\ walletBlock # Undefined /\ walletBlock \in WalletBlock
      /\ fetched \in Block /\ db \in Database
  BY DEF StartConnect, HInv, BlocksInv, IInv, TypeOK, PhaseOK, SyncPhases
<1>2. /\ Parent[fetched] = walletBlock.hash
      /\ txn' = db /\ at' = Start /\ db' = db
      /\ clone' = [walletBlock EXCEPT
                 !.height = Height[fetched],
                 !.hash = fetched,
                 !.deltas = FilterDeltas(walletBlock.addressFilter, fetched),
                 !.spentOutputs = {}]
  BY DEF StartConnect, ExtendsTip
<1>3. /\ clone'.hash = fetched /\ clone'.addressFilter = walletBlock.addressFilter
      /\ clone'.deltas = FilterDeltas(walletBlock.addressFilter, fetched)
  BY <1>1, <1>2 DEF WalletBlock
<1>4. Shows(db, Everywhere(walletBlock.hash), db.addresses)
  BY <1>1, TipShown
<1>5. /\ at'.delta = 1 /\ at'.owner = 1 /\ walletBlock.hash \in Block
      /\ Deltas[fetched] \in Seq(Delta)
  BY <1>1, <1>2, ChainAssumption DEF Start, WalletBlock
<1>6. Done' = DoneAt(fetched, 1, Owners', 1)
  BY <1>3, <1>5 DEF Done
<1>7. ASSUME NEW owners,
             1 \in DOMAIN Deltas[fetched] => \A k \in DOMAIN owners : ~(k < 1)
      PROVE  DoneAt(fetched, 1, owners, 1) = Everywhere(walletBlock.hash)
  <2>1. \A i \in DOMAIN Deltas[fetched] : ~(i < 1)
    BY <1>5
  <2>3. \A w \in Wallet : {i \in DOMAIN Deltas[fetched] :
                  i < 1 \/ (i = 1 /\ \E k \in DOMAIN owners :
                                               k < 1 /\ owners[k] = w)} = {}
    BY <1>7, <2>1
  <2>4. {fetched} \X {} = {}
    OBVIOUS
  <2>5. \A w \in Wallet : PlacesOf(Parent[fetched]) \cup
       ({fetched} \X {i \in DOMAIN Deltas[fetched] :
                  i < 1 \/ (i = 1 /\ \E k \in DOMAIN owners :
                                               k < 1 /\ owners[k] = w)})
         = PlacesOf(walletBlock.hash)
    BY <1>2, <2>3, <2>4
  <2> QED
    BY <2>5 DEF DoneAt, Everywhere
<1>8. 1 \in DOMAIN Deltas[fetched] => \A k \in DOMAIN Owners' : ~(k < 1)
  <2> SUFFICES ASSUME 1 \in DOMAIN Deltas[fetched]
               PROVE  \A k \in DOMAIN Owners' : ~(k < 1)
    OBVIOUS
  <2> DEFINE d == Deltas[fetched][1]
  <2>1. d \in Delta
    BY <1>5
  <2>2. AddressOfDelta(d) \in Address
    BY <2>1, DeltaLemma
  <2>3. Owners' = db.addressesMap[AddressOfDelta(d)]
    BY <1>2, <1>3, <1>5 DEF Owners, ThisDelta, AddressOfDelta
  <2>4. Owners' \in Seq(Wallet)
    BY <1>1, <2>2, <2>3 DEF Database
  <2> QED
    BY <2>4
<1> QED
  BY <1>2, <1>3, <1>4, <1>6, <1>7, <1>8 DEF ConnectInv, DbInv

\* To go on to the next delta leaves nothing out.
LEMMA ConnectNextDelta ==
  ASSUME HInv, FilterInv, ChainInv, ConnectInv, pc = "connect", NextDelta
  PROVE  ConnectInv'
<1> DEFINE b == clone.hash
           next == DoneAt(b, at.delta + 1, Owners', 1)
<1>1. /\ b \in Block /\ Parent[b] \in Block
      /\ at.delta \in Nat \ {0} /\ at.owner \in Nat \ {0}
      /\ DOMAIN Deltas[b] = 1 .. Len(Deltas[b]) /\ Len(Deltas[b]) \in Nat
      /\ Deltas[b] \in Seq(Delta)
  BY ConnectOpen
<1>2. /\ at' = [delta |-> at.delta + 1, owner |-> 1]
      /\ txn' = txn /\ clone' = clone /\ db' = db /\ pc' = pc
      /\ ~AllDeltasDone /\ ~AtOwner
  BY DEF NextDelta
<1>3. at.delta \in DOMAIN Deltas[b]
  BY <1>1, <1>2 DEF AllDeltasDone
<1>4. txn \in Database /\ Sound(txn) /\ txn.addresses = db.addresses
  BY LoopOpen
<1>5. /\ Shows(txn, Done, db.addresses) /\ OwnersOnce(txn)
      /\ clone.deltas = FilterDeltas(clone.addressFilter, b)
      /\ Covers(clone.addressFilter, db.addresses)
  BY DEF ConnectInv, FilterInv
<1>6. Done' = next
  BY <1>2 DEF Done
<1>7. Here \in PlacesOf(b) /\ DeltaAt(Here) = ThisDelta /\ Here[1] = b /\ Here[2] = at.delta
  BY <1>1, <1>3, PlaceIn, ChainStep DEF Here, ThisDelta
<1>8. /\ Done \in PartsOf(b) /\ next \in PartsOf(b)
      /\ \A v \in Wallet : Done[v] =
           PlacesOf(Parent[b]) \cup
              ({b} \X {i \in DOMAIN Deltas[b] :
                  i < at.delta \/ (i = at.delta /\ \E k \in DOMAIN Owners :
                                                    k < at.owner /\ Owners[k] = v)})
      /\ \A v \in Wallet : next[v] =
           PlacesOf(Parent[b]) \cup
              ({b} \X {i \in DOMAIN Deltas[b] :
                  i < at.delta + 1 \/ (i = at.delta + 1 /\ \E k \in DOMAIN Owners' :
                                                    k < 1 /\ (Owners')[k] = v)})
  BY <1>1, DoneIs DEF Done
<1>9. at.delta + 1 \in DOMAIN Deltas[b] => \A k \in DOMAIN Owners' : ~(k < 1)
  <2> SUFFICES ASSUME at.delta + 1 \in DOMAIN Deltas[b]
               PROVE  \A k \in DOMAIN Owners' : ~(k < 1)
    OBVIOUS
  <2> DEFINE d == Deltas[b][at.delta + 1]
  <2>1. d \in Delta
    BY <1>1
  <2>2. AddressOfDelta(d) \in Address
    BY <2>1, DeltaLemma
  <2>3. Owners' = txn.addressesMap[AddressOfDelta(d)]
    BY <1>2 DEF Owners, ThisDelta, AddressOfDelta
  <2>4. Owners' \in Seq(Wallet)
    BY <1>4, <2>2, <2>3 DEF Database
  <2> QED
    BY <2>4
<1>10. ASSUME NEW w \in Wallet, <<w, AddressOfDelta(ThisDelta)>> \in db.addresses
       PROVE  \E k \in DOMAIN Owners : k < at.owner /\ Owners[k] = w
  <2>1. ThisDelta \in Delta /\ AddressOfDelta(ThisDelta) \in Address
    BY <1>1, <1>3, DeltaLemma DEF ThisDelta
  <2>2. at.delta \in clone.deltas
    <3>1. Passes(clone.addressFilter, AddressOfDelta(ThisDelta))
      BY <1>5, <1>10 DEF Covers
    <3> QED
      BY <1>3, <1>5, <3>1 DEF FilterDeltas, ThisDelta
  <2>3. Owners \in Seq(Wallet)
    BY <1>4, <2>1 DEF Owners, Database
  <2>4. ~(at.owner <= Len(Owners))
    BY <1>2, <2>2 DEF AtOwner
  <2>5. PICK k \in DOMAIN Owners : Owners[k] = w
    BY <1>4, <1>10, <2>1 DEF Sound, OwnersAgree, Owners
  <2> QED
    BY <1>1, <2>3, <2>4, <2>5
<1> HIDE DEF b, next
<1>11. ASSUME NEW w \in Wallet, NEW e \in PlacesOf(b),
              <<w, AddressOfDelta(DeltaAt(e))>> \in db.addresses
       PROVE  e \in Done[w] <=> e \in next[w]
  <2>1. /\ PlacesOf(b) = PlacesOf(Parent[b]) \cup ({b} \X DOMAIN Deltas[b])
        /\ \A f \in PlacesOf(Parent[b]) : f[1] # b
    BY <1>1, PlacesStep, ChainAssumption
  <2>2. CASE e \in PlacesOf(Parent[b])
    BY <1>8, <2>2
  <2>3. CASE e \notin PlacesOf(Parent[b])
    <3>1. e[1] = b /\ e[2] \in DOMAIN Deltas[b] /\ e = <<b, e[2]>>
      BY <2>1, <2>3
    <3>2. e \in next[w] <=> e[2] < at.delta + 1
      BY <1>1, <1>8, <1>9, <2>3, <3>1
    <3>3. e \in Done[w] <=> e[2] < at.delta \/ (e[2] = at.delta /\ \E k \in DOMAIN Owners :
                                                    k < at.owner /\ Owners[k] = w)
      BY <1>8, <2>3, <3>1
    <3>4. e[2] = at.delta => DeltaAt(e) = ThisDelta
      BY <3>1 DEF DeltaAt, ThisDelta, b
    <3> QED
      BY <1>1, <1>10, <1>11, <3>1, <3>2, <3>3, <3>4
  <2> QED
    BY <2>2, <2>3
<1>12. /\ UtxoRows(Done, db.addresses) = UtxoRows(next, db.addresses)
       /\ TxRows(Done, db.addresses) = TxRows(next, db.addresses)
  BY <1>1, <1>8, <1>11, SameTracked
<1>13. Shows(txn, next, db.addresses)
  BY <1>5, <1>12 DEF Shows
<1> QED
  BY <1>2, <1>5, <1>6, <1>13 DEF ConnectInv, OwnersOnce, b

\* One delta of one wallet is connected.
LEMMA ConnectOne ==
  ASSUME ValidChain, HInv, ChainInv, ConnectInv, ConnectOutput \/ ConnectInput
  PROVE  ConnectInv'
<1>1. /\ pc = "connect" /\ AtOwner /\ pc' = pc /\ db' = db
      /\ at' = [at EXCEPT !.owner = @ + 1]
      /\ at \in [delta: Nat \ {0}, owner: Nat \ {0}]
      /\ clone \in WalletBlock
  BY ConnectOpen DEF ConnectOutput, ConnectInput, NextOwner, HInv, IInv, TypeOK
<1>2. at'.delta = at.delta /\ at'.owner = at.owner + 1
  BY <1>1
<1>3. /\ clone.deltas = FilterDeltas(clone.addressFilter, clone.hash)
      /\ OwnersOnce(txn)
  BY <1>1 DEF ConnectInv
<1>4. CASE ConnectOutput
  <2>1. txn' = AddUTXOs(Connected(txn), {ThisUtxo}) /\ clone' = clone /\ IsOutput
    BY <1>4 DEF ConnectOutput
  <2>2. Shows(txn', DoneAt(clone.hash, at.delta, Owners, at.owner + 1), db.addresses)
    BY <1>1, <2>1, OutputApplies
  <2>3. txn'.addressesMap = txn.addressesMap
    BY <1>1, <2>1, LoopMaps
  <2>4. Owners' = Owners
    BY <1>2, <2>1, <2>3, OwnersSame
  <2>5. Done' = DoneAt(clone.hash, at.delta, Owners, at.owner + 1)
    BY <1>2, <2>1, <2>4 DEF Done
  <2> QED
    BY <1>1, <1>3, <2>1, <2>2, <2>3, <2>5 DEF ConnectInv, OwnersOnce
<1>5. CASE ConnectInput
  <2>1. PICK spent \in txn.utxos :
          /\ SameOutput(spent, ThisUtxo)
          /\ txn' = DeleteUTXO(Connected(txn), spent)
          /\ clone' = [clone EXCEPT !.spentOutputs = Without(@, {spent}) \cup {spent}]
    BY <1>5 DEF ConnectInput
  <2>2. clone'.hash = clone.hash /\ clone'.deltas = clone.deltas
        /\ clone'.addressFilter = clone.addressFilter
    BY <1>1, <2>1 DEF WalletBlock
  <2>3. IsInput
    BY <1>5 DEF ConnectInput
  <2>4. Shows(txn', DoneAt(clone.hash, at.delta, Owners, at.owner + 1), db.addresses)
    BY <1>1, <2>1, <2>3, InputApplies
  <2>5. txn'.addressesMap = txn.addressesMap
    BY <1>1, <2>1, LoopMaps
  <2>6. Owners' = Owners
    BY <1>2, <2>2, <2>5, OwnersSame
  <2>7. Done' = DoneAt(clone.hash, at.delta, Owners, at.owner + 1)
    BY <1>2, <2>2, <2>6 DEF Done
  <2> QED
    BY <1>1, <1>3, <2>2, <2>4, <2>5, <2>7 DEF ConnectInv, OwnersOnce
<1> QED
  BY <1>4, <1>5

\* When the loop is done it has been everywhere.
LEMMA AllDone ==
  ASSUME HInv, ChainInv, ConnectInv, pc = "connect", AllDeltasDone
  PROVE  Shows(txn, Everywhere(clone.hash), db.addresses)
<1> DEFINE b == clone.hash
<1>1. /\ b \in Block /\ Parent[b] \in Block
      /\ at.delta \in Nat \ {0} /\ at.owner \in Nat \ {0}
      /\ DOMAIN Deltas[b] = 1 .. Len(Deltas[b]) /\ Len(Deltas[b]) \in Nat
  BY ConnectOpen
<1>2. \A i \in DOMAIN Deltas[b] : i < at.delta
  BY <1>1 DEF AllDeltasDone
<1>3. PlacesOf(b) = PlacesOf(Parent[b]) \cup ({b} \X DOMAIN Deltas[b])
  BY <1>1, PlacesStep, ChainAssumption
<1>4. \A w \in Wallet :
        {i \in DOMAIN Deltas[b] :
                  i < at.delta \/ (i = at.delta /\ \E k \in DOMAIN Owners :
                                                    k < at.owner /\ Owners[k] = w)}
          = DOMAIN Deltas[b]
  BY <1>2
<1>5. Done = Everywhere(b)
  BY <1>3, <1>4 DEF Done, DoneAt, Everywhere
<1> QED
  BY <1>5 DEF ConnectInv

\* Connecting a block keeps the invariant.
LEMMA ConnectLedger ==
  ASSUME Ordinary, HInv, FilterInv, LedgerInv,
         \/ StartConnect \/ NextDelta \/ ConnectOutput \/ ConnectInput
         \/ ConnectCommit \/ ConnectSynced
  PROVE  DbInv' /\ ConnectInv' /\ ImportInv'
<1>1. ChainInv /\ DbInv /\ ConnectInv /\ ImportInv /\ ValidChain
  BY DEF LedgerInv, Ordinary
<1>2. ASSUME pc' = "connect", UNCHANGED db, ConnectInv'
      PROVE  DbInv' /\ ConnectInv' /\ ImportInv'
  <2>1. ImportInv'
    BY <1>2 DEF ImportInv, ImportPhases
  <2>2. DbInv'
    BY <1>1, <1>2, DbSame
  <2> QED
    BY <1>2, <2>1, <2>2
<1>3. ASSUME pc' \in {"connectSync", "sync"}
      PROVE  ConnectInv' /\ ImportInv'
  BY <1>3 DEF ImportInv, ConnectInv, ImportPhases
<1>4. CASE StartConnect
  BY <1>1, <1>2, <1>4, ConnectBegins DEF StartConnect
<1>5. CASE NextDelta
  <2>1. pc = "connect" /\ pc' = pc /\ UNCHANGED db
    BY <1>1, <1>5 DEF NextDelta, ChainInv
  <2> QED
    BY <1>1, <1>2, <1>5, <2>1, ConnectNextDelta
<1>6. CASE ConnectOutput \/ ConnectInput
  <2>1. pc = "connect" /\ pc' = pc /\ UNCHANGED db
    BY <1>6 DEF ConnectOutput, ConnectInput
  <2> QED
    BY <1>1, <1>2, <1>6, <2>1, ConnectOne
<1>7. CASE ConnectCommit
  <2>1. /\ pc = "connect" /\ pc' = "connectSync" /\ AllDeltasDone
        /\ db' = PutBlock(txn, clone)
    BY <1>7 DEF ConnectCommit
  <2>2. /\ txn \in Database /\ clone \in WalletBlock /\ txn.blocks = db.blocks
        /\ txn.addresses = db.addresses /\ OwnersOnce(txn)
    BY <1>1, <2>1, LoopOpen DEF ConnectInv
  <2>3. Shows(txn, Everywhere(clone.hash), db.addresses)
    BY <1>1, <2>1, AllDone
  <2>4. \A b \in db.blocks : b.height <= clone.height
    <3>1. /\ OnTop(walletBlock, db.blocks) /\ clone.height = walletBlock.height + 1
          /\ walletBlock \in WalletBlock
      BY <2>1 DEF FilterInv, HInv, BlocksInv, IInv, PhaseOK, SyncPhases
    <3>2. \A b \in db.blocks : b.height \in Nat
      BY <2>2 DEF Database, WalletBlock
    <3> QED
      BY <3>1, <3>2 DEF OnTop, WalletBlock
  <2>5. DbInv'
    BY <2>1, <2>2, <2>3, <2>4, DbPut
  <2> QED
    BY <1>3, <2>1, <2>5
<1>8. CASE ConnectSynced
  <2>1. pc = "connectSync" /\ pc' = "sync" /\ db' = Prune(db, PruneDepth)
    BY <1>8 DEF ConnectSynced
  <2>2. DbInv'
    BY <1>1, <2>1, DbPruned
  <2> QED
    BY <1>3, <2>1, <2>2
<1> QED
  BY <1>4, <1>5, <1>6, <1>7, <1>8

----------------------------------------------------------------------------
(* The ranges of an import                                                 *)

\* Whole division
LEMMA DivisionIs ==
  ASSUME NEW m \in Nat, NEW k \in Nat \ {0}
  PROVE  m \div k \in Nat /\ (m \div k) * k <= m
OBVIOUS

\* Multiplication is monotonic.
LEMMA MoreTimes ==
  ASSUME NEW m \in Nat, NEW n \in Nat, NEW k \in Nat, m <= n
  PROVE  m * k <= n * k
OBVIOUS

\* The ranges follow one another from 1 up to the height of the tip.
LEMMA Ranges ==
  ASSUME clone.height \in Nat, NEW n \in 1 .. WholeRanges + 1
  PROVE  /\ WholeRanges \in Nat /\ n \in Nat
         /\ First(n) \in Nat /\ Last(n) \in Nat
         /\ First(n) <= Last(n) + 1
         /\ n <= WholeRanges => First(n + 1) = Last(n) + 1
         /\ n > WholeRanges => Last(n) = RangeMax
         /\ clone.height >= 2 => RangeMax = clone.height /\ Last(n) <= clone.height
<1>1. RangeMax \in Nat /\ RangeMax >= 2 /\ RangeMax - 1 \in Nat
      /\ (clone.height >= 2 => RangeMax = clone.height)
  BY DEF RangeMax, Larger
<1>2. RangeSize \in Nat \ {0}
  BY WriterAssumption
<1>3. WholeRanges \in Nat /\ WholeRanges * RangeSize <= RangeMax - 1
  BY <1>1, <1>2, DivisionIs DEF WholeRanges
<1> HIDE DEF WholeRanges, RangeMax
<1>4. n \in Nat /\ n - 1 \in Nat /\ n - 1 <= WholeRanges
  BY <1>3
<1>5. (n - 1) * RangeSize <= WholeRanges * RangeSize /\ (n - 1) * RangeSize <= n * RangeSize
      /\ (n - 1) * RangeSize \in Nat /\ n * RangeSize \in Nat
      /\ (n <= WholeRanges => n * RangeSize <= WholeRanges * RangeSize)
      /\ WholeRanges * RangeSize \in Nat
  BY <1>2, <1>3, <1>4, MoreTimes
<1>6. First(n) = 1 + (n - 1) * RangeSize /\ First(n) \in Nat
  BY <1>5 DEF First
<1>7. CASE n <= WholeRanges
  <2>1. Last(n) = n * RangeSize
    BY <1>7 DEF Last
  <2>2. First(n + 1) = 1 + n * RangeSize
    <3>1. (n + 1) - 1 = n
      BY <1>4
    <3> QED
      BY <3>1 DEF First
  <2> QED
    BY <1>1, <1>3, <1>4, <1>5, <1>6, <1>7, <2>1, <2>2
<1>8. CASE ~(n <= WholeRanges)
  <2>1. Last(n) = RangeMax
    BY <1>8 DEF Last
  <2> QED
    BY <1>1, <1>3, <1>4, <1>5, <1>6, <1>8, <2>1
<1> QED
  BY <1>7, <1>8

\* The first range begins at height 1, and there is one.
LEMMA FirstRange ==
  ASSUME clone.height \in Nat
  PROVE  First(1) = 1 /\ 1 \in 1 .. WholeRanges + 1
<1>1. RangeMax - 1 \in Nat /\ RangeSize \in Nat \ {0}
  BY WriterAssumption DEF RangeMax, Larger
<1>2. WholeRanges \in Nat
  BY <1>1, DivisionIs DEF WholeRanges
<1>3. (1 - 1) * RangeSize = 0
  BY <1>1
<1> QED
  BY <1>2, <1>3 DEF First

\* Nothing moves them while the tip stays.
LEMMA SameRanges ==
  ASSUME clone'.height = clone.height
  PROVE  /\ WholeRanges' = WholeRanges
         /\ section' = section => First(section)' = First(section) /\ Last(section)' = Last(section)
         /\ First(section)' = First(section')
BY DEF WholeRanges, RangeMax, First, Last

----------------------------------------------------------------------------
(* The places of an import                                                 *)

\* The deltas an import looks for are above the first block and not above the
\* tip.
LEMMA TouchedIs ==
  ASSUME ValidChain, NEW b \in Block, NEW A
  PROVE  /\ TouchedAt(b, A) \in SUBSET PlacesOf(b)
         /\ \A e \in TouchedAt(b, A) : Height[e[1]] \in 1 .. Height[b]
<1> SUFFICES ASSUME NEW e \in TouchedAt(b, A)
             PROVE  Height[e[1]] \in 1 .. Height[b]
  BY DEF TouchedAt
<1>1. e \in PlacesOf(b)
  BY DEF TouchedAt
<1>2. e[1] \in Block /\ e[1] \in ChainOf(b) /\ e[2] \in DOMAIN Deltas[e[1]]
      /\ Height[e[1]] \in Nat
  BY <1>1, PlaceFacts
<1>3. Height[e[1]] <= Height[b] /\ Height[b] \in Nat
  BY <1>2, ChainHeight, ChainAssumption
<1>4. Parent[e[1]] # NoBlock
  <2> SUFFICES ASSUME Parent[e[1]] = NoBlock PROVE FALSE
    OBVIOUS
  <2>1. Deltas[e[1]] = <<>>
    BY <1>2 DEF ValidChain
  <2> QED
    BY <1>2, <2>1
<1>5. Height[e[1]] # 0
  BY <1>2, <1>4, ChainStep, ChainAssumption
<1> QED
  BY <1>2, <1>3, <1>5

\* The reply about a range is what the wallet's chain has there, if bitcoind has
\* only added to it.
LEMMA ReplyIs ==
  ASSUME NEW top \in Block, NEW b \in ChainOf(top), NEW A, NEW first \in Nat, NEW last \in Nat,
         last <= Height[b]
  PROVE  DeltasBetween(top, A, first, last) =
           {e \in TouchedAt(b, A) : Height[e[1]] \in first .. last}
<1>1. b \in Block
  BY ChainHeight
<1>2. \A e : e \in DeltasBetween(top, A, first, last) <=>
               e \in PlacesOf(top) /\ AddressOfDelta(DeltaAt(e)) \in A
               /\ Height[e[1]] \in first .. last
  BY DEF DeltasBetween, PlacesOf, DeltaAt
<1>3. ASSUME NEW e \in PlacesOf(top), Height[e[1]] \in first .. last
      PROVE  e \in PlacesOf(b)
  <2>1. e[1] \in ChainOf(top) /\ e[2] \in DOMAIN Deltas[e[1]] /\ e = <<e[1], e[2]>>
        /\ Height[e[1]] \in Nat
    BY <1>3, PlaceFacts
  <2>2. Height[e[1]] <= Height[b]
    BY <1>1, <1>3, <2>1, ChainAssumption
  <2>3. e[1] \in ChainOf(b)
    BY <2>1, <2>2, ChainOrder
  <2>4. <<e[1], e[2]>> \in PlacesOf(b)
    BY <1>1, <2>1, <2>3, PlaceIn
  <2> QED
    BY <2>1, <2>4
<1>4. PlacesOf(b) \subseteq PlacesOf(top)
  BY PlacesTransitive
<1> QED
  BY <1>2, <1>3, <1>4 DEF TouchedAt

----------------------------------------------------------------------------
(* importWalletAddresses                                                   *)

\* What is known while an import is open
LEMMA ImportAt ==
  ASSUME HInv, FilterInv, ChainInv, DbInv, ImportInv, pc \in ImportPhases \ {"importSync"}
  PROVE  /\ best \in Block /\ clone.hash \in Block /\ clone.hash \in ChainOf(best)
         /\ clone \in WalletBlock
         /\ clone.height = Height[clone.hash] /\ clone.height \in Nat
         /\ txn \in Database /\ db \in Database /\ Sound(txn) /\ txn.blocks = db.blocks
         /\ task.wallet \in Wallet /\ task.addresses \in Seq(Address)
         /\ task.places \subseteq DOMAIN task.addresses
         /\ NewAddresses \in SUBSET Address
         /\ \A a \in NewAddresses : <<task.wallet, a>> \notin db.addresses
         /\ Shows(db, Everywhere(clone.hash), db.addresses)
         /\ pc # "commitAddresses" => at = Start
<1>1. /\ best \in Block /\ db \in Database /\ txn \in Database /\ Sound(txn)
      /\ task \in Task /\ task.places \subseteq DOMAIN task.addresses
      /\ clone \in WalletBlock
  BY DEF HInv, IInv, TypeOK, PhaseOK, ImportPhases, TxnPhases, ClonePhases
<1>2. /\ walletBlock # Undefined /\ clone.hash = walletBlock.hash /\ txn.blocks = db.blocks
      /\ (pc # "commitAddresses" => at = Start)
  BY DEF HInv, BlocksInv, OwnedInv, ImportPhases, TxnPhases
<1>3. InChain(clone)
  BY DEF ChainInv, ClonePhases, TxnPhases, ImportPhases
<1>4. clone.hash \in Block /\ clone.height \in Nat
  BY <1>1 DEF WalletBlock
<1>5. task.wallet \in Wallet /\ task.addresses \in Seq(Address)
  BY <1>1 DEF Task
<1>6. NewAddresses \in SUBSET Address
  BY NewAddressesLemma DEF HInv
<1>7. \A a \in NewAddresses : <<task.wallet, a>> \notin db.addresses
  BY DEF ImportInv, RequestInv, NewAddresses
<1>8. Shows(db, Everywhere(clone.hash), db.addresses)
  BY <1>2, TipShown DEF ImportPhases
<1> QED
  BY <1>1, <1>2, <1>3, <1>4, <1>5, <1>6, <1>7, <1>8 DEF InChain

\* The request stays as it is until the last loop.
LEMMA OpenSame ==
  ASSUME RequestInv, UNCHANGED <<db, task, at>>,
         txn'.addresses = txn.addresses, txn'.addressesMap = txn.addressesMap
  PROVE  RequestInv'
BY DEF RequestInv, OwnersOnce, Added

\* So do the deltas it looks for.
LEMMA PlacesSame ==
  ASSUME UNCHANGED task, clone'.hash = clone.hash
  PROVE  NewAddresses' = NewAddresses /\ Touched' = Touched
BY DEF NewAddresses, Touched

\* And the outputs it has found.
LEMMA OutputsSame ==
  ASSUME OutputsInv, UNCHANGED <<db, task>>, txn'.utxos = txn.utxos,
         clone'.hash = clone.hash, clone'.height = clone.height,
         section' \in 1 .. WholeRanges + 1
  PROVE  OutputsInv'
<1>1. WholeRanges' = WholeRanges /\ NewAddresses' = NewAddresses
  BY SameRanges, PlacesSame
<1> QED
  BY <1>1 DEF OutputsInv

\* An import begins with what is committed.
LEMMA LedgerStartImport ==
  ASSUME Ordinary, HInv, LedgerInv, NEW r \in Requests, StartImport(r)
  PROVE  ImportInv'
<1>1. /\ pc = "idle" /\ pc' = "getAddressUtxos" /\ txn' = db /\ UNCHANGED <<db, at>>
      /\ task' = [wallet |-> r.wallet, addresses |-> r.addresses, places |-> NewPlaces(r)]
      /\ NewPlaces(r) # {}
  BY DEF StartImport
<1>2. /\ task'.wallet = r.wallet /\ task'.addresses = r.addresses /\ task'.places = NewPlaces(r)
      /\ r.addresses \in Seq(Address) /\ NoTwice(r.addresses)
  BY <1>1, WriterAssumption DEF Ordinary
<1>3. /\ task'.places \subseteq DOMAIN task'.addresses
      /\ \A p \in task'.places : <<task'.wallet, task'.addresses[p]>> \notin db'.addresses
  BY <1>1, <1>2 DEF NewPlaces
<1>4. at = Start
  BY <1>1 DEF HInv, OwnedInv
<1>5. Added' = {}
  <2>1. at'.delta = 1
    BY <1>1, <1>4 DEF Start
  <2>2. \A q \in task'.places : ~(q < at'.delta)
    BY <1>2, <1>3, <2>1
  <2> QED
    BY <2>2 DEF Added
<1>6. OwnersOnce(txn') /\ txn'.addresses = db'.addresses
  BY <1>1 DEF LedgerInv, DbInv
<1>7. RequestInv'
  BY <1>1, <1>2, <1>3, <1>5, <1>6 DEF RequestInv
<1> QED
  BY <1>1, <1>7 DEF ImportInv

\* It adds the unspent outputs of the tip, which bitcoind has just then.
LEMMA LedgerImportUTXOs ==
  ASSUME ValidChain, HInv, FilterInv, LedgerInv, ImportUTXOs
  PROVE  ImportInv'
<1> DEFINE b == clone.hash
           w == task.wallet
           A == NewAddresses
           new == {[wallet |-> w, out |-> u[1], height |-> Height[u[2]]] : u \in Unspent(b, A)}
<1>1. /\ pc = "getAddressUtxos" /\ pc' = "getAddressDeltas" /\ best = b
      /\ txn' = AddUTXOs(txn, new) /\ section' = 1
      /\ UNCHANGED <<db, clone, task, at>>
  BY DEF ImportUTXOs, SameTip
<1>2. /\ b \in Block /\ w \in Wallet /\ A \in SUBSET Address /\ db \in Database
      /\ \A a \in A : <<w, a>> \notin db.addresses
      /\ Shows(db, Everywhere(b), db.addresses)
      /\ clone.height \in Nat
  BY <1>1, ImportAt DEF LedgerInv, ImportPhases
<1>3. txn = db /\ RequestInv
  BY <1>1 DEF LedgerInv, ImportInv, ImportPhases
<1>4. db.utxos = UtxoRows(Everywhere(b), db.addresses)
  BY <1>2 DEF Shows
<1>5. AddUTXOs(db, new).utxos = UtxoRows(Everywhere(b), db.addresses \cup ({w} \X A))
  BY <1>2, <1>4, ImportOutputs
<1>6. /\ txn'.addresses = txn.addresses /\ txn'.addressesMap = txn.addressesMap
      /\ txn'.txids = db.txids /\ txn'.balance = db.balance
  BY <1>1, <1>2, <1>3 DEF AddUTXOs, Database
<1>7. RequestInv'
  BY <1>1, <1>3, <1>6, OpenSame
<1>8. NewAddresses' = A /\ Touched' = Touched /\ WholeRanges' = WholeRanges
      /\ First(section)' = First(section')
  BY <1>1, PlacesSame, SameRanges
<1>9. First(1) = 1 /\ 1 \in 1 .. WholeRanges + 1
  BY <1>2, FirstRange
<1>10. OutputsInv'
  BY <1>1, <1>3, <1>5, <1>8, <1>9 DEF OutputsInv
<1>11. {e \in Touched' : Height[e[1]] < First(section)'} = {}
  <2>1. \A e \in Touched : Height[e[1]] \in 1 .. Height[b]
    BY <1>2, TouchedIs DEF Touched
  <2>2. \A e \in Touched : ~(Height[e[1]] < 1)
    BY <1>2, <2>1, ChainAssumption
  <2> QED
    BY <1>1, <1>8, <1>9, <2>2
<1>12. Imported(txn', db', clone'.hash, task'.wallet, NewAddresses', {})
  <2> HIDE DEF b, w, A, new
  <2>1. Imported(txn', db, b, w, A, {})
    BY <1>2, <1>6, ImportBegins
  <2> QED
    BY <1>1, <1>8, <2>1 DEF b, w
<1>13. Collected({e \in Touched : Height[e[1]] < First(section)})'
  BY <1>11, <1>12 DEF Collected
<1> QED
  BY <1>1, <1>7, <1>10, <1>13 DEF ImportInv

\* The entries of a reply are the deltas of its range: with those of the ranges
\* before nothing is missing and nothing comes twice.
LEMMA LedgerGetDeltas ==
  ASSUME ValidChain, HInv, FilterInv, LedgerInv, GetAddressDeltas
  PROVE  ImportInv'
<1> DEFINE b == clone.hash
           A == NewAddresses
           D == DeltasBetween(best, A, First(section), Last(section))
<1>1. /\ pc = "getAddressDeltas" /\ pc' = "addDeltas"
      /\ lastHash' \in ChainOf(best) /\ Height[lastHash'] = Last(section)
      /\ todo' = {e \in task.places \X D :
                    AddressOfDelta(Deltas[e[2][1]][e[2][2]]) = task.addresses[e[1]]}
      /\ clone' = [clone EXCEPT !.addressFilter = FilterWithNew]
      /\ UNCHANGED <<best, db, txn, at, task, section>>
  BY DEF GetAddressDeltas, chainVars
<1>2. /\ best \in Block /\ b \in Block /\ b \in ChainOf(best) /\ clone \in WalletBlock
      /\ clone.height = Height[b] /\ clone.height \in Nat
      /\ task.places \subseteq DOMAIN task.addresses
  BY <1>1, ImportAt DEF LedgerInv, ImportPhases
<1>3. clone'.hash = b /\ clone'.height = clone.height
  BY <1>1, <1>2 DEF WalletBlock
<1>4. /\ RequestInv /\ OutputsInv
      /\ clone.height >= 2 => Collected({e \in Touched : Height[e[1]] < First(section)})
  BY <1>1 DEF LedgerInv, ImportInv, ImportPhases
<1>5. RequestInv' /\ OutputsInv'
  BY <1>1, <1>3, <1>4, OpenSame, OutputsSame DEF OutputsInv
<1>6. NewAddresses' = A /\ Touched' = Touched /\ Last(section)' = Last(section)
  BY <1>1, <1>3, PlacesSame, SameRanges
<1>7. lastHash' \in ChainOf(best') /\ Height[lastHash'] = Last(section)'
  BY <1>1, <1>6
<1>8. ASSUME clone.height >= 2
      PROVE  Collected({e \in Touched : Height[e[1]] <= Last(section)}
                         \ {f[2] : f \in todo})' /\ TodoInv'
  <2>1. /\ section \in 1 .. WholeRanges + 1
        /\ First(section) \in Nat /\ Last(section) \in Nat
        /\ First(section) <= Last(section) + 1 /\ Last(section) <= clone.height
    BY <1>2, <1>4, <1>8, Ranges DEF OutputsInv
  <2>2. D = {e \in Touched : Height[e[1]] \in First(section) .. Last(section)}
    BY <1>2, <2>1, ReplyIs DEF Touched
  <2> HIDE DEF D
  <2>3. \A f \in todo' : /\ f[1] \in task.places /\ f[2] \in D
                         /\ AddressOfDelta(DeltaAt(f[2])) = task.addresses[f[1]]
    BY <1>1 DEF DeltaAt
  <2>4. \A e \in D : \E f \in todo' : f[2] = e
    <3> SUFFICES ASSUME NEW e \in D PROVE \E f \in todo' : f[2] = e
      OBVIOUS
    <3>1. AddressOfDelta(DeltaAt(e)) \in A
      BY <2>2 DEF Touched, TouchedAt
    <3>2. PICK p \in task.places : task.addresses[p] = AddressOfDelta(DeltaAt(e))
      BY <3>1 DEF NewAddresses
    <3>3. <<p, e>> \in todo' /\ <<p, e>>[2] = e
      BY <1>1, <3>2 DEF DeltaAt
    <3> QED
      BY <3>3
  <2>5. {f[2] : f \in todo'} = D
    BY <2>3, <2>4
  <2>6. \A e \in Touched : Height[e[1]] \in Nat
    <3>1. \A e \in Touched : Height[e[1]] \in 1 .. Height[b]
      BY <1>2, TouchedIs DEF Touched
    <3> QED
      BY <1>2, <3>1
  <2>7. {e \in Touched : Height[e[1]] <= Last(section)} \ D
          = {e \in Touched : Height[e[1]] < First(section)}
    BY <2>1, <2>2, <2>6
  <2>8. Collected({e \in Touched : Height[e[1]] < First(section)})
    BY <1>4, <1>8
  <2> DEFINE S == {e \in Touched : Height[e[1]] < First(section)}
  <2>9. Imported(txn', db', clone'.hash, task'.wallet, NewAddresses', S)
        /\ \A e \in S : <<task'.wallet, DeltaAt(e).tx>> \notin txn'.txs
    BY <1>1, <1>3, <1>6, <2>8 DEF Collected
  <2>10. ({e \in Touched : Height[e[1]] <= Last(section)} \ {f[2] : f \in todo})' = S
    BY <1>6, <2>5, <2>7
  <2>11. TodoInv'
    <3>1. \A f \in todo' : f[2] \in Touched' /\ Height[f[2][1]] <= Last(section)'
      BY <1>6, <2>1, <2>2, <2>3
    <3> QED
      BY <1>1, <2>3, <3>1 DEF TodoInv
  <2> QED
    BY <2>9, <2>10, <2>11 DEF Collected
<1> QED
  BY <1>1, <1>3, <1>5, <1>7, <1>8 DEF ImportInv

\* What adding one delta of the reply writes
LEMMA DeltaAdded ==
  ASSUME NEW d \in Database, NEW row \in TxidRow, NEW w \in Wallet, NEW n \in Int, NEW tx
  PROVE  LET added == AddBalance(PutTxid(d, row), w, n)
             new == FlushSaved(added, w, tx)
         IN /\ new.utxos = d.utxos
            /\ new.txids = {r \in d.txids : ~SameTxidKey(r, row)} \cup {row}
            /\ \A v \in Wallet : new.balance[v] = IF v = w THEN d.balance[v] + n ELSE d.balance[v]
            /\ new.addresses = d.addresses
            /\ new.addressesMap = d.addressesMap
            /\ new.txs = d.txs \ {<<w, tx>>}
<1> DEFINE put == PutTxid(d, row)
           added == AddBalance(put, w, n)
<1>1. /\ added \in Database
      /\ added.utxos = d.utxos
      /\ added.txids = {r \in d.txids : ~SameTxidKey(r, row)} \cup {row}
      /\ \A v \in Wallet : added.balance[v] = IF v = w THEN d.balance[v] + n ELSE d.balance[v]
  BY AppliedTables
<1>2. /\ put \in Database /\ put.txs = d.txs
      /\ put.addresses = d.addresses /\ put.addressesMap = d.addressesMap
  BY PutTxidLemma DEF PutTxid, Database
<1> HIDE DEF put
<1>3. \A f : /\ [put EXCEPT !.balance = f].txs = put.txs
             /\ [put EXCEPT !.balance = f].addresses = put.addresses
             /\ [put EXCEPT !.balance = f].addressesMap = put.addressesMap
  BY <1>2 DEF Database
<1>4. /\ added.txs = d.txs
      /\ added.addresses = d.addresses /\ added.addressesMap = d.addressesMap
  BY <1>2, <1>3 DEF AddBalance
<1> HIDE DEF added
<1>5. LET new == FlushSaved(added, w, tx)
      IN /\ new.utxos = added.utxos /\ new.txids = added.txids /\ new.balance = added.balance
         /\ new.addresses = added.addresses /\ new.addressesMap = added.addressesMap
         /\ new.txs = added.txs \ {<<w, tx>>}
  BY <1>1 DEF FlushSaved, Database
<1> QED
  BY <1>1, <1>4, <1>5 DEF added, put

\* One entry is added; no other entry is for the same delta, as no address is
\* asked for twice.
LEMMA LedgerAddDelta ==
  ASSUME ValidChain, HInv, FilterInv, LedgerInv, AddDelta
  PROVE  ImportInv'
<1> DEFINE b == clone.hash
           A == NewAddresses
           w == task.wallet
<1>1. /\ pc = "addDeltas" /\ pc' = pc
      /\ UNCHANGED <<best, db, clone, at, task, section, lastHash>>
  BY DEF AddDelta, chainVars
<1>2. PICK e \in todo :
        LET d == Deltas[e[2][1]][e[2][2]]
            row == [wallet |-> task.wallet, height |-> Height[e[2][1]],
                    index |-> d.index, tx |-> d.tx]
            added == AddBalance(PutTxid(txn, row), task.wallet, SatoshisOf(d))
        IN todo' = todo \ {e} /\ txn' = FlushSaved(added, task.wallet, d.tx)
  BY DEF AddDelta
<1> DEFINE f == e[2]
           row == TxRowAt(w, f)
           n == SatoshisOf(DeltaAt(f))
<1>3. /\ todo' = todo \ {e}
      /\ txn' = FlushSaved(AddBalance(PutTxid(txn, row), w, n), w, DeltaAt(f).tx)
  BY <1>2 DEF DeltaAt, TxRowAt
<1>4. /\ b \in Block /\ w \in Wallet /\ A \in SUBSET Address /\ db \in Database
      /\ txn \in Database /\ clone.height \in Nat /\ task.addresses \in Seq(Address)
      /\ task.places \subseteq DOMAIN task.addresses
  BY <1>1, ImportAt DEF LedgerInv, ImportPhases
<1>5. /\ todo \subseteq Nat \X (Block \X Nat)
      /\ \A x \in todo : x[2][2] \in DOMAIN Deltas[x[2][1]]
  BY DEF HInv, IInv, TypeOK, PhaseOK
<1>6. DeltaAt(f) \in Delta /\ Height[f[1]] \in Nat
  <2>1. f[1] \in Block /\ f[2] \in DOMAIN Deltas[f[1]]
    BY <1>5
  <2> QED
    BY <2>1, ChainAssumption DEF DeltaAt
<1>7. row \in TxidRow /\ n \in Int
  BY <1>4, <1>6, DeltaLemma DEF TxRowAt, TxidRow, Delta
<1> HIDE DEF row, n, f, w
<1>8. /\ txn'.utxos = txn.utxos
      /\ txn'.txids = {r \in txn.txids : ~SameTxidKey(r, row)} \cup {row}
      /\ \A v \in Wallet : txn'.balance[v] = IF v = w THEN txn.balance[v] + n ELSE txn.balance[v]
      /\ txn'.addresses = txn.addresses
      /\ txn'.addressesMap = txn.addressesMap
      /\ txn'.txs = txn.txs \ {<<w, DeltaAt(f).tx>>}
  BY <1>3, <1>4, <1>7, DeltaAdded
<1>9. /\ RequestInv /\ OutputsInv
      /\ lastHash \in ChainOf(best) /\ Height[lastHash] = Last(section)
      /\ clone.height >= 2 =>
              /\ Collected({x \in Touched : Height[x[1]] <= Last(section)}
                             \ {x[2] : x \in todo})
              /\ TodoInv
  BY <1>1 DEF LedgerInv, ImportInv, ImportPhases
<1>10. RequestInv' /\ OutputsInv'
  BY <1>1, <1>8, <1>9, OpenSame, OutputsSame DEF OutputsInv
<1>11. NewAddresses' = A /\ Touched' = Touched /\ Last(section)' = Last(section)
  BY <1>1, PlacesSame, SameRanges
<1>12. ASSUME clone.height >= 2
       PROVE  Collected({x \in Touched : Height[x[1]] <= Last(section)}
                         \ {x[2] : x \in todo})' /\ TodoInv'
  <2> DEFINE U == {x \in Touched : Height[x[1]] <= Last(section)}
             S == U \ {x[2] : x \in todo}
             T == U \ {x[2] : x \in todo'}
  <2>1. f \in Touched /\ Height[f[1]] <= Last(section) /\ f \in U /\ f \notin S
    BY <1>9, <1>12 DEF TodoInv, f
  <2>2. ASSUME NEW x \in todo, x[2] = f
        PROVE  x = e
    <3>1. /\ x[1] \in task.places /\ e[1] \in task.places
          /\ task.addresses[x[1]] = task.addresses[e[1]]
      BY <1>9, <1>12, <2>2 DEF TodoInv, f
    <3>2. x[1] = e[1]
      BY <1>4, <1>9, <3>1 DEF RequestInv, NoTwice
    <3>3. x \in Nat \X (Block \X Nat) /\ e \in Nat \X (Block \X Nat)
      BY <1>5
    <3> QED
      BY <2>2, <3>2, <3>3 DEF f
  <2>3. f \notin {x[2] : x \in todo'}
    BY <1>3, <2>2
  <2>4. T = S \cup {f}
    <3>1. {x[2] : x \in todo} = {x[2] : x \in todo'} \cup {f}
      BY <1>3 DEF f
    <3> HIDE DEF U
    <3> QED
      BY <2>1, <2>3, <3>1
  <2>5. S \in SUBSET PlacesOf(b) /\ f \in TouchedAt(b, A)
    BY <2>1 DEF Touched, TouchedAt
  <2>6. Imported(txn, db, b, w, A, S) /\ \A x \in S : <<w, DeltaAt(x).tx>> \notin txn.txs
    BY <1>9, <1>12 DEF Collected, w
  <2> HIDE DEF S, T, U
  <2> HIDE DEF b, A
  <2>7. Imported(txn', db, b, w, A, S \cup {f})
    BY <1>4, <1>8, <2>1, <2>5, <2>6, ImportAdds DEF row, n
  <2>8. \A x \in S \cup {f} : <<w, DeltaAt(x).tx>> \notin txn'.txs
    BY <1>8, <2>6
  <2>9. ({x \in Touched : Height[x[1]] <= Last(section)} \ {x[2] : x \in todo})' = T
    BY <1>11 DEF T, U
  <2>10. Collected({x \in Touched : Height[x[1]] <= Last(section)}
                         \ {x[2] : x \in todo})'
    BY <1>1, <1>11, <2>4, <2>7, <2>8, <2>9 DEF Collected, w, b
  <2>11. TodoInv'
    <3>1. todo' \subseteq todo
      BY <1>3
    <3> QED
      BY <1>1, <1>9, <1>11, <1>12, <3>1 DEF TodoInv
  <2> QED
    BY <2>10, <2>11
<1> QED
  BY <1>1, <1>9, <1>10, <1>11, <1>12 DEF ImportInv

\* The next range begins where this one ended.
LEMMA LedgerNextRange ==
  ASSUME ValidChain, HInv, FilterInv, LedgerInv, NextRange
  PROVE  ImportInv'
<1>1. /\ pc = "addDeltas" /\ pc' = "getAddressDeltas" /\ todo = {}
      /\ section <= WholeRanges /\ section' = section + 1
      /\ UNCHANGED <<db, txn, clone, at, task>>
  BY DEF NextRange
<1>2. clone.height \in Nat /\ clone.hash \in Block
  BY <1>1, ImportAt DEF LedgerInv, ImportPhases
<1>3. /\ RequestInv /\ OutputsInv
      /\ clone.height >= 2 =>
           Collected({e \in Touched : Height[e[1]] <= Last(section)} \ {f[2] : f \in todo})
  BY <1>1 DEF LedgerInv, ImportInv, ImportPhases
<1>4. /\ section \in 1 .. WholeRanges + 1 /\ WholeRanges \in Nat
      /\ Last(section) \in Nat /\ First(section + 1) = Last(section) + 1
  BY <1>1, <1>2, <1>3, Ranges DEF OutputsInv
<1>5. section' \in 1 .. WholeRanges + 1
  BY <1>1, <1>4
<1>6. RequestInv' /\ OutputsInv'
  BY <1>1, <1>3, <1>5, OpenSame, OutputsSame
<1>7. Touched' = Touched /\ First(section)' = First(section + 1)
  BY <1>1, PlacesSame, SameRanges
<1>8. ASSUME clone.height >= 2
      PROVE  Collected({e \in Touched : Height[e[1]] < First(section)})'
  <2> DEFINE S == {e \in Touched : Height[e[1]] <= Last(section)} \ {f[2] : f \in todo}
  <2>1. \A e \in Touched : Height[e[1]] \in Nat
    <3>1. \A e \in Touched : Height[e[1]] \in 1 .. Height[clone.hash]
      BY <1>2, TouchedIs DEF Touched
    <3> QED
      BY <1>2, <3>1, ChainAssumption
  <2>2. \A e \in Touched : Height[e[1]] < First(section + 1) <=> Height[e[1]] <= Last(section)
    BY <1>4, <2>1
  <2>3. ({e \in Touched : Height[e[1]] < First(section)})' = S
    BY <1>1, <1>7, <2>2
  <2>4. Collected(S)
    BY <1>3, <1>8
  <2> HIDE DEF S
  <2>5. Imported(txn', db', clone'.hash, task'.wallet, NewAddresses', S)
        /\ \A e \in S : <<task'.wallet, DeltaAt(e).tx>> \notin txn'.txs
    BY <1>1, <2>4, PlacesSame DEF Collected
  <2> QED
    BY <2>3, <2>5 DEF Collected
<1> QED
  BY <1>1, <1>6, <1>8 DEF ImportInv

\* After the last range all deltas up to the tip are collected.
LEMMA LedgerCheckLast ==
  ASSUME ValidChain, HInv, FilterInv, LedgerInv, CheckLastHash
  PROVE  ImportInv'
<1>1. /\ pc = "addDeltas" /\ pc' = "commitAddresses" /\ todo = {}
      /\ section > WholeRanges /\ lastHash = clone.hash
      /\ UNCHANGED <<db, txn, clone, at, task, section, todo>>
  BY DEF CheckLastHash, importVars
<1>2. clone.height \in Nat /\ clone.hash \in Block /\ clone.height = Height[clone.hash]
  BY <1>1, ImportAt DEF LedgerInv, ImportPhases
<1>3. /\ RequestInv /\ OutputsInv /\ Height[lastHash] = Last(section)
      /\ clone.height >= 2 =>
           Collected({e \in Touched : Height[e[1]] <= Last(section)} \ {f[2] : f \in todo})
  BY <1>1 DEF LedgerInv, ImportInv, ImportPhases
<1>4. section \in 1 .. WholeRanges + 1 /\ Last(section) = RangeMax
  BY <1>1, <1>2, <1>3, Ranges DEF OutputsInv
<1>5. clone.height >= 2
  BY <1>1, <1>2, <1>3, <1>4 DEF RangeMax, Larger
<1>6. RequestInv' /\ OutputsInv'
  BY <1>1, <1>3, <1>4, OpenSame, OutputsSame
<1>7. {e \in Touched : Height[e[1]] <= Last(section)} \ {f[2] : f \in todo} = Touched
  <2>1. \A e \in Touched : Height[e[1]] \in 1 .. Height[clone.hash]
    BY <1>2, TouchedIs DEF Touched
  <2>2. \A e \in Touched : Height[e[1]] <= Last(section)
    BY <1>1, <1>2, <1>3, <2>1
  <2> QED
    BY <1>1, <2>2
<1>8. Collected(Touched)
  BY <1>3, <1>5, <1>7
<1>9. Touched' = Touched /\ NewAddresses' = NewAddresses
  BY <1>1, PlacesSame
<1>10. Collected(Touched)'
  BY <1>1, <1>8, <1>9 DEF Collected
<1> QED
  BY <1>1, <1>5, <1>6, <1>10 DEF ImportInv

\* A sequence of owners gets one that it does not have.
LEMMA AppendOnce ==
  ASSUME NEW s \in Seq(Wallet), NoTwice(s), NEW w \in Wallet, \A k \in DOMAIN s : s[k] # w
  PROVE  NoTwice(Append(s, w))
<1>1. /\ Append(s, w) \in Seq(Wallet) /\ Len(s) \in Nat
      /\ DOMAIN s = 1 .. Len(s) /\ DOMAIN Append(s, w) = 1 .. Len(s) + 1
      /\ \A k \in 1 .. Len(s) : Append(s, w)[k] = s[k]
      /\ Append(s, w)[Len(s) + 1] = w
  OBVIOUS
<1> SUFFICES ASSUME NEW i \in DOMAIN Append(s, w), NEW j \in DOMAIN Append(s, w),
                    Append(s, w)[i] = Append(s, w)[j]
             PROVE  i = j
  BY DEF NoTwice
<1> DEFINE t == Append(s, w)
<1> HIDE DEF t
<1>2. CASE i \in 1 .. Len(s) /\ j \in 1 .. Len(s)
  BY <1>1, <1>2 DEF NoTwice, t
<1>3. CASE i = Len(s) + 1 /\ j = Len(s) + 1
  BY <1>3
<1>4. CASE i \in 1 .. Len(s) /\ j = Len(s) + 1
  BY <1>1, <1>4
<1>5. CASE i = Len(s) + 1 /\ j \in 1 .. Len(s)
  BY <1>1, <1>5
<1> QED
  BY <1>1, <1>2, <1>3, <1>4, <1>5

\* A new owner comes once.
LEMMA PutOwnerOnce ==
  ASSUME NEW d \in Database, Sound(d), OwnersOnce(d),
         NEW w \in Wallet, NEW a \in Address, <<w, a>> \notin d.addresses
  PROVE  /\ OwnersOnce(PutOwner(d, w, a))
         /\ PutOwner(d, w, a).addresses = d.addresses \cup {<<w, a>>}
         /\ PutOwner(d, w, a).utxos = d.utxos
         /\ PutOwner(d, w, a).txids = d.txids
         /\ PutOwner(d, w, a).balance = d.balance
         /\ PutOwner(d, w, a).txs = d.txs
<1> DEFINE map == [d.addressesMap EXCEPT ![a] = Append(@, w)]
<1>1. /\ PutOwner(d, w, a).addresses = d.addresses \cup {<<w, a>>}
      /\ PutOwner(d, w, a).utxos = d.utxos
      /\ PutOwner(d, w, a).txids = d.txids
      /\ PutOwner(d, w, a).balance = d.balance
      /\ PutOwner(d, w, a).txs = d.txs
      /\ PutOwner(d, w, a).addressesMap = map
  BY DEF PutOwner, Database
<1>2. d.addressesMap \in [Address -> Seq(Wallet)]
  BY DEF Database
<1>3. map[a] = Append(d.addressesMap[a], w) /\ \A x \in Address : x # a => map[x] = d.addressesMap[x]
  BY <1>2
<1> HIDE DEF map
<1>4. \A k \in DOMAIN d.addressesMap[a] : d.addressesMap[a][k] # w
  BY DEF Sound, OwnersAgree
<1>5. NoTwice(map[a])
  BY <1>2, <1>3, <1>4, AppendOnce DEF OwnersOnce
<1>6. \A x \in Address : NoTwice(map[x])
  BY <1>3, <1>5 DEF OwnersOnce
<1> QED
  BY <1>1, <1>6 DEF OwnersOnce

\* One address is added, and its owner.
LEMMA LedgerAddress ==
  ASSUME HInv, FilterInv, LedgerInv, ImportAddress
  PROVE  ImportInv'
<1> DEFINE w == task.wallet
           p == at.delta
<1>1. /\ pc = "commitAddresses" /\ pc' = pc
      /\ ~(p > Len(task.addresses))
      /\ txn' = IF p \in task.places THEN PutOwner(txn, w, task.addresses[p]) ELSE txn
      /\ at' = [at EXCEPT !.delta = @ + 1]
      /\ UNCHANGED <<db, clone, task, section>>
  BY DEF ImportAddress, AllImported, ThisAddress, importVars
<1>2. /\ w \in Wallet /\ txn \in Database /\ Sound(txn) /\ task.addresses \in Seq(Address)
      /\ task.places \subseteq DOMAIN task.addresses
      /\ at \in [delta: Nat \ {0}, owner: Nat \ {0}]
  BY <1>1, ImportAt DEF LedgerInv, ImportPhases, HInv, IInv, TypeOK
<1>3. RequestInv /\ OutputsInv /\ clone.height >= 2 /\ Collected(Touched)
  BY <1>1 DEF LedgerInv, ImportInv, ImportPhases
<1>4. at'.delta = p + 1 /\ p \in Nat
  BY <1>1, <1>2
<1>5. task.places \subseteq Nat
  BY <1>2
<1>6. /\ OwnersOnce(txn') /\ txn'.addresses = db.addresses \cup Added'
      /\ txn'.utxos = txn.utxos /\ txn'.txids = txn.txids
      /\ txn'.balance = txn.balance /\ txn'.txs = txn.txs
  <2>1. CASE p \notin task.places
    <3>1. \A q \in task.places : q < p + 1 <=> q < p
      BY <1>4, <1>5, <2>1
    <3>2. {q \in task.places : q < p + 1} = {q \in task.places : q < p}
      BY <3>1
    <3>3. Added' = Added
      BY <1>1, <1>4, <3>2 DEF Added
    <3> QED
      BY <1>1, <1>3, <2>1, <3>3 DEF RequestInv
  <2>2. CASE p \in task.places
    <3> DEFINE a == task.addresses[p]
    <3>1. a \in Address /\ p \in DOMAIN task.addresses
      BY <1>2, <2>2
    <3>2. <<w, a>> \notin db.addresses
      BY <1>3, <2>2 DEF RequestInv
    <3>3. <<w, a>> \notin Added
      <4> SUFFICES ASSUME <<w, a>> \in Added PROVE FALSE
        OBVIOUS
      <4>1. PICK q \in task.places : q < p /\ task.addresses[q] = a
        BY DEF Added
      <4>2. q = p
        BY <1>2, <1>3, <3>1, <4>1 DEF RequestInv, NoTwice
      <4> QED
        BY <1>4, <4>1, <4>2
    <3>4. <<w, a>> \notin txn.addresses
      BY <1>3, <3>2, <3>3 DEF RequestInv
    <3>5. Added' = Added \cup {<<w, a>>}
      <4>1. {q \in task.places : q < p + 1} = {q \in task.places : q < p} \cup {p}
        BY <1>4, <1>5, <2>2
      <4> DEFINE Q == {q \in task.places : q < p}
      <4>2. Added' = {<<w, task.addresses[q]>> : q \in Q \cup {p}}
        BY <1>1, <1>4, <4>1 DEF Added
      <4>3. Added = {<<w, task.addresses[q]>> : q \in Q}
        BY DEF Added
      <4> HIDE DEF Q, w, p
      <4> QED
        BY <4>2, <4>3
    <3>6. txn' = PutOwner(txn, w, a)
      BY <1>1, <2>2
    <3> HIDE DEF a, w
    <3>7. /\ OwnersOnce(txn') /\ txn'.addresses = txn.addresses \cup {<<w, a>>}
          /\ txn'.utxos = txn.utxos /\ txn'.txids = txn.txids
          /\ txn'.balance = txn.balance /\ txn'.txs = txn.txs
      BY <1>2, <1>3, <3>1, <3>4, <3>6, PutOwnerOnce DEF RequestInv
    <3> QED
      BY <1>3, <3>5, <3>7 DEF RequestInv
  <2> QED
    BY <2>1, <2>2
<1>7. RequestInv'
  BY <1>1, <1>3, <1>6 DEF RequestInv
<1>8. OutputsInv'
  BY <1>1, <1>3, <1>6, OutputsSame DEF OutputsInv
<1>9. Touched' = Touched /\ NewAddresses' = NewAddresses
  BY <1>1, PlacesSame
<1>10. Collected(Touched)'
  BY <1>1, <1>3, <1>6, <1>9 DEF Collected, Imported
<1> QED
  BY <1>1, <1>3, <1>7, <1>8, <1>10 DEF ImportInv

\* The whole import is committed at once.
LEMMA ImportComplete ==
  ASSUME ValidChain, HInv, FilterInv, LedgerInv, ImportCommit
  PROVE  /\ txn.addresses = db.addresses \cup ({task.wallet} \X NewAddresses)
         /\ Shows(txn, Everywhere(clone.hash), txn.addresses)
         /\ OwnersOnce(txn)
<1>1. pc = "commitAddresses" /\ at.delta > Len(task.addresses)
  BY DEF ImportCommit, AllImported
<1>2. /\ clone.hash \in Block /\ task.wallet \in Wallet /\ db \in Database
      /\ NewAddresses \in SUBSET Address
      /\ \A a \in NewAddresses : <<task.wallet, a>> \notin db.addresses
      /\ Shows(db, Everywhere(clone.hash), db.addresses)
      /\ task.addresses \in Seq(Address)
      /\ task.places \subseteq DOMAIN task.addresses
      /\ at \in [delta: Nat \ {0}, owner: Nat \ {0}]
  BY <1>1, ImportAt DEF LedgerInv, ImportPhases, HInv, IInv, TypeOK
<1>3. RequestInv /\ OutputsInv /\ Collected(Touched)
  BY <1>1 DEF LedgerInv, ImportInv, ImportPhases
<1>4. \A q \in task.places : q < at.delta
  BY <1>1, <1>2
<1>5. Added = {task.wallet} \X NewAddresses
  <2>1. {q \in task.places : q < at.delta} = task.places
    BY <1>4
  <2>2. Added = {<<task.wallet, task.addresses[p]>> : p \in task.places}
    BY <2>1 DEF Added
  <2> QED
    BY <2>2 DEF NewAddresses
<1>6. txn.addresses = db.addresses \cup ({task.wallet} \X NewAddresses)
  BY <1>3, <1>5 DEF RequestInv
<1>7. /\ txn.utxos = UtxoRows(Everywhere(clone.hash),
                          db.addresses \cup ({task.wallet} \X NewAddresses))
      /\ Imported(txn, db, clone.hash, task.wallet, NewAddresses,
                   TouchedAt(clone.hash, NewAddresses))
  BY <1>3 DEF OutputsInv, Collected, Touched
<1>8. Shows(txn, Everywhere(clone.hash), db.addresses \cup ({task.wallet} \X NewAddresses))
  BY <1>2, <1>7, ImportShown
<1> QED
  BY <1>3, <1>6, <1>8 DEF RequestInv

\* The commit of an import shows the tip for one wallet with more addresses.
LEMMA LedgerImportCommit ==
  ASSUME ValidChain, HInv, FilterInv, LedgerInv, ImportCommit
  PROVE  DbInv'
<1>1. pc = "commitAddresses" /\ db' = PutBlock(txn, clone)
  BY DEF ImportCommit
<1>2. txn \in Database /\ clone \in WalletBlock /\ txn.blocks = db.blocks /\ db \in Database
  BY <1>1, ImportAt DEF LedgerInv, ImportPhases
<1>3. OnTop(walletBlock, db.blocks) /\ clone.height = walletBlock.height
  BY <1>1 DEF HInv, BlocksInv, FilterInv, ImportPhases
<1>4. \A b \in db.blocks : b.height <= clone.height
  BY <1>3 DEF OnTop
<1> QED
  BY <1>1, <1>2, <1>4, ImportComplete, DbPut

\* An import keeps the invariant.
LEMMA ImportLedger ==
  ASSUME Ordinary, HInv, FilterInv, LedgerInv,
         \/ \E r \in Requests : StartImport(r)
         \/ ImportStep \/ RequestFails
  PROVE  DbInv' /\ ConnectInv' /\ ImportInv'
<1>1. ValidChain /\ DbInv /\ ConnectInv
  BY DEF Ordinary, LedgerInv
<1>2. ASSUME pc' = "idle", UNCHANGED db
      PROVE  DbInv' /\ ConnectInv' /\ ImportInv'
  BY <1>1, <1>2, DbSame DEF ConnectInv, ImportInv, ImportPhases
<1>3. ASSUME pc' # "connect", UNCHANGED db, ImportInv'
      PROVE  DbInv' /\ ConnectInv' /\ ImportInv'
  BY <1>1, <1>3, DbSame DEF ConnectInv
<1>4. ASSUME NEW r \in Requests, StartImport(r)
      PROVE  DbInv' /\ ConnectInv' /\ ImportInv'
  BY <1>3, <1>4, LedgerStartImport DEF StartImport
<1>5. CASE ImportUTXOs
  BY <1>1, <1>3, <1>5, LedgerImportUTXOs DEF ImportUTXOs
<1>6. CASE GetAddressDeltas
  BY <1>1, <1>3, <1>6, LedgerGetDeltas DEF GetAddressDeltas
<1>7. CASE AddDelta
  BY <1>1, <1>3, <1>7, LedgerAddDelta DEF AddDelta
<1>8. CASE NextRange
  BY <1>1, <1>3, <1>8, LedgerNextRange DEF NextRange
<1>9. CASE CheckLastHash
  BY <1>1, <1>3, <1>9, LedgerCheckLast DEF CheckLastHash
<1>10. CASE ImportAddress
  BY <1>1, <1>3, <1>10, LedgerAddress DEF ImportAddress
<1>11. CASE ImportCommit
  <2>1. pc' = "importSync"
    BY <1>11 DEF ImportCommit
  <2>2. ConnectInv' /\ ImportInv'
    BY <2>1 DEF ConnectInv, ImportInv
  <2> QED
    BY <1>1, <1>11, <2>2, LedgerImportCommit
<1>12. CASE TipMoved \/ RangeAboveTip \/ UnexpectedHash \/ ImportSynced \/ RequestFails
  <2>1. pc' = "idle" /\ UNCHANGED db
    BY <1>12 DEF TipMoved, RangeAboveTip, UnexpectedHash, ImportSynced, RequestFails, EndTask
  <2> QED
    BY <1>2, <2>1
<1> QED
  BY <1>4, <1>5, <1>6, <1>7, <1>8, <1>9, <1>10, <1>11, <1>12 DEF ImportStep

----------------------------------------------------------------------------
(* The invariant                                                           *)

\* The writer starts in the invariant.
LEMMA LedgerStarts == Init => LedgerInv
<1> SUFFICES ASSUME Init PROVE LedgerInv
  OBVIOUS
<1>1. FirstTip \in Block /\ FirstTip \in ChainOf(FirstTip)
  BY WriterAssumption, ChainStep
<1>2. ChainInv
  BY <1>1 DEF Init, ChainInv, EmptyDatabase, ClonePhases, TxnPhases
<1>3. OwnersOnce(db)
  BY DEF Init, EmptyDatabase, OwnersOnce, NoTwice
<1>4. DbInv
  BY <1>3 DEF Init, EmptyDatabase, DbInv
<1>5. ConnectInv /\ ImportInv
  BY DEF Init, ConnectInv, ImportInv, ImportPhases
<1> QED
  BY <1>2, <1>4, <1>5 DEF LedgerInv

\* The first wallet comes with the first block, and no addresses.
LEMMA FirstWallet ==
  ASSUME HInv, FilterInv, ChainInv, DbInv, NEW w \in Wallet, CreateWallet(w),
         walletBlock = Undefined
  PROVE  DbInv'
<1> DEFINE c == NewWalletBlock(bitcoinTip)
           d == [db EXCEPT !.wallets = @ \cup {w}]
<1>1. db' = PutBlock(d, c) /\ pc = "idle"
  BY DEF CreateWallet
<1>2. db \in Database /\ bitcoinTip \in Block
  BY DEF HInv, IInv, TypeOK
<1>3. db.blocks = {} /\ db.addresses = {}
  BY <1>1 DEF HInv, BlocksInv, FilterInv
<1>4. db.utxos = {} /\ db.txids = {} /\ (\A v \in Wallet : db.balance[v] = 0) /\ OwnersOnce(db)
  BY <1>3 DEF DbInv
<1>5. /\ d \in Database /\ d.blocks = {} /\ d.addresses = {} /\ d.utxos = {} /\ d.txids = {}
      /\ d.balance = db.balance /\ d.addressesMap = db.addressesMap
  BY <1>2, <1>3, <1>4 DEF Database
<1>6. c \in WalletBlock
  BY <1>2, ChainAssumption DEF NewWalletBlock, WalletBlock
<1> HIDE DEF c, d
<1>7. Shows(d, Everywhere(c.hash), {})
  BY <1>4, <1>5, RowsOfPairs, ValueEmpty DEF Shows
<1>8. OwnersOnce(d)
  BY <1>4, <1>5 DEF OwnersOnce
<1> QED
  BY <1>1, <1>3, <1>5, <1>6, <1>7, <1>8, DbPut

\* Steps between the tasks keep the invariant.
LEMMA OutsideLedger ==
  ASSUME HInv, FilterInv, LedgerInv, best \in ChainOf(best'),
         \/ \E b \in Block : NewTip(b)
         \/ \E w \in Wallet : CreateWallet(w)
         \/ \E s \in Saved : SaveTransaction(s[1], s[2])
         \/ Sync \/ SyncDone \/ GetBlockHash \/ Crash \/ Restart
  PROVE  DbInv' /\ ConnectInv' /\ ImportInv'
<1>1. ChainInv /\ DbInv /\ ConnectInv /\ ImportInv /\ db \in Database /\ best \in Block
  BY DEF LedgerInv, HInv, IInv, TypeOK
<1>2. ASSUME pc' \notin {"connect"} \cup ImportPhases
      PROVE  ConnectInv' /\ ImportInv'
  BY <1>2 DEF ConnectInv, ImportInv
<1>3. ASSUME pc' \notin {"connect"} \cup ImportPhases, UNCHANGED db
      PROVE  DbInv' /\ ConnectInv' /\ ImportInv'
  BY <1>1, <1>2, <1>3, DbSame
<1>4. ASSUME NEW b \in Block, NewTip(b)
      PROVE  DbInv' /\ ConnectInv' /\ ImportInv'
  <2>1. /\ UNCHANGED <<db, walletBlock, pc, txn, clone, fetched, at, task, todo, section, lastHash>>
        /\ best' = b
    BY <1>4 DEF NewTip, memoryVars, importVars
  <2>2. ChainOf(best) \subseteq ChainOf(best')
    BY <1>1, <2>1, GrowingChain
  <2>3. DbInv'
    BY <1>1, <2>1, DbSame
  <2>4. ConnectInv'
    BY <1>1, <2>1 DEF ConnectInv, Done, Owners, ThisDelta
  <2>5. Touched' = Touched /\ NewAddresses' = NewAddresses /\ WholeRanges' = WholeRanges
        /\ First(section)' = First(section) /\ Last(section)' = Last(section)
    BY <2>1, PlacesSame, SameRanges
  <2>6. \A S : Collected(S)' <=> Collected(S)
    BY <2>1, <2>5 DEF Collected
  <2>7. (RequestInv' <=> RequestInv) /\ (OutputsInv' <=> OutputsInv) /\ (TodoInv' <=> TodoInv)
    BY <2>1, <2>5 DEF RequestInv, OutputsInv, TodoInv, OwnersOnce, Added
  <2>8. /\ Collected(Touched)' <=> Collected(Touched)
        /\ Collected({e \in Touched : Height[e[1]] < First(section)})'
             <=> Collected({e \in Touched : Height[e[1]] < First(section)})
        /\ Collected({e \in Touched : Height[e[1]] <= Last(section)}
                             \ {f[2] : f \in todo})'
             <=> Collected({e \in Touched : Height[e[1]] <= Last(section)}
                             \ {f[2] : f \in todo})
    BY <2>1, <2>5 DEF Collected
  <2>9. ImportInv'
    BY <1>1, <2>1, <2>2, <2>5, <2>7, <2>8 DEF ImportInv
  <2> QED
    BY <2>3, <2>4, <2>9
<1>5. ASSUME NEW w \in Wallet, CreateWallet(w)
      PROVE  DbInv' /\ ConnectInv' /\ ImportInv'
  <2>1. pc' = "idle"
    BY <1>5 DEF CreateWallet
  <2>2. CASE walletBlock = Undefined
    BY <1>1, <1>2, <1>5, <2>1, <2>2, FirstWallet DEF ImportPhases
  <2>3. CASE walletBlock # Undefined
    <3>1. db' = [db EXCEPT !.wallets = @ \cup {w}]
      BY <1>5, <2>3 DEF CreateWallet
    <3>2. DbInv'
      BY <1>1, <3>1, DbSame DEF Database
    <3> QED
      BY <1>2, <2>1, <3>2 DEF ImportPhases
  <2> QED
    BY <2>2, <2>3
<1>6. ASSUME NEW s \in Saved, SaveTransaction(s[1], s[2])
      PROVE  DbInv' /\ ConnectInv' /\ ImportInv'
  <2>1. pc = "idle" /\ pc' = pc /\ db' = [db EXCEPT !.txs = @ \cup {<<s[1], s[2]>>}]
    BY <1>6 DEF SaveTransaction
  <2>2. DbInv'
    BY <1>1, <2>1, DbSame DEF Database
  <2> QED
    BY <1>2, <2>1, <2>2 DEF ImportPhases
<1>7. CASE Sync \/ SyncDone \/ GetBlockHash \/ Crash \/ Restart
  <2>1. pc' \in {"idle", "sync", "getBlockDeltas", "down"} /\ UNCHANGED db
    BY <1>7 DEF Sync, SyncDone, GetBlockHash, Crash, Restart, Die, EndTask
  <2> QED
    BY <1>3, <2>1 DEF ImportPhases
<1> QED
  BY <1>4, <1>5, <1>6, <1>7

\* Every step keeps it.
LEMMA LedgerStep ==
  ASSUME Ordinary, HInv, FilterInv, LedgerInv, [Next]_vars, [Steady]_vars
  PROVE  LedgerInv' /\ FilterInv'
<1>1. CASE UNCHANGED vars
  <2>1. FilterInv'
    BY <1>1, FilterStep
  <2>2. LedgerInv'
    <3>1. UNCHANGED <<best, announced, db, walletBlock, bitcoinTip, fault, pc, txn, clone,
                      fetched, at, task, todo, section, lastHash>>
      BY <1>1 DEF vars, memoryVars
    <3>2. ChainInv' /\ DbInv'
      BY <3>1, DbSame DEF LedgerInv, ChainInv, InChain
    <3>3. ConnectInv'
      BY <3>1 DEF LedgerInv, ConnectInv, Done, Owners, ThisDelta, OwnersOnce
    <3>4. /\ Touched' = Touched /\ First(section)' = First(section)
          /\ Last(section)' = Last(section) /\ WholeRanges' = WholeRanges
      BY <3>1, PlacesSame, SameRanges
    <3>5. RequestInv => RequestInv'
      BY <3>1, OpenSame
    <3>6. OutputsInv => OutputsInv'
      BY <3>1, <3>4, OutputsSame DEF OutputsInv
    <3>7. TodoInv => TodoInv'
      BY <3>1, <3>4 DEF TodoInv
    <3>8. ASSUME NEW S
          PROVE  Collected(S)' = Collected(S)
      BY <3>1 DEF Collected, NewAddresses
    <3>9. ImportInv'
      BY <3>1, <3>4, <3>5, <3>6, <3>7, <3>8 DEF LedgerInv, ImportInv
    <3> QED
      BY <3>2, <3>3, <3>9 DEF LedgerInv
  <2> QED
    BY <2>1, <2>2
<1>2. CASE Next /\ Steady
  <2>1. best \in ChainOf(best') /\ ~SyncFails
    BY <1>2 DEF Steady
  <2>2. ~ConnectFails
    BY NeverFails DEF LedgerInv
  <2>3. /\ ~StartDisconnect /\ ~NoDeltasToUndo /\ ~DisconnectOutput /\ ~DisconnectInput
        /\ ~DisconnectFails /\ ~DisconnectCommit /\ ~NoPreviousBlock /\ ~DisconnectSynced
    BY OnlyForwardSteps DEF LedgerInv
  <2>4. \/ \E b \in Block : NewTip(b)
        \/ \E w \in Wallet : CreateWallet(w)
        \/ \E s \in Saved : SaveTransaction(s[1], s[2])
        \/ Sync \/ SyncDone \/ GetBlockHash \/ Crash \/ Restart
        \/ StartConnect \/ NextDelta \/ ConnectOutput \/ ConnectInput
        \/ ConnectCommit \/ ConnectSynced
        \/ \E r \in Requests : StartImport(r)
        \/ ImportStep \/ RequestFails
    BY <1>2, <2>1, <2>2, <2>3 DEF Next, SyncStep
  <2>5. ChainInv'
    BY <2>1, <2>4, ChainOutside, ChainConnect, ChainImport DEF LedgerInv
  <2>6. DbInv' /\ ConnectInv' /\ ImportInv'
    BY <2>1, <2>4, OutsideLedger, ConnectLedger, ImportLedger
  <2>7. FilterInv'
    BY <2>1, <2>3, FilterStep DEF OnlyForward
  <2> QED
    BY <2>5, <2>6, <2>7 DEF LedgerInv
<1> QED
  BY <1>1, <1>2

----------------------------------------------------------------------------
(* The definitions of WalletLedger are those of LedgerTables.              *)

\* What a wallet has in rows
LEMMA LedgerValue ==
  ASSUME NEW rows, NEW w PROVE Ledger!ValueOf(rows, w) = ValueOf(rows, w)
BY DEF Ledger!ValueOf, ValueOf, Ledger!MapThenSumSet, MapThenSumSet,
       Ledger!MapThenFoldSet, MapThenFoldSet

\* The chain of a block
LEMMA LedgerChain ==
  ASSUME NEW b PROVE Ledger!ChainOf(b) = ChainOf(b)
<1>1. Ledger!Ancestors = Ancestors
  BY DEF Ledger!Ancestors, Ancestors
<1> QED
  BY <1>1 DEF Ledger!ChainOf, ChainOf

\* The outputs of the tip
LEMMA LedgerOutputs ==
  ASSUME NEW b, NEW pairs PROVE Ledger!OutputsAt(b, pairs) = OutputsAt(b, pairs)
<1>1. \A A : Ledger!Unspent(b, A) = Unspent(b, A)
  BY LedgerChain DEF Ledger!Unspent, Unspent, Ledger!Created, Created, Ledger!Spent, Spent
<1> QED
  BY <1>1 DEF Ledger!OutputsAt, OutputsAt, Ledger!AddressesOf, AddressesOf

\* The transactions of the tip
LEMMA LedgerTxids ==
  ASSUME NEW b, NEW pairs PROVE Ledger!TxidsAt(b, pairs) = TxidsAt(b, pairs)
<1>1. \A A, first, last :
        Ledger!DeltasBetween(b, A, first, last) = DeltasBetween(b, A, first, last)
  BY LedgerChain DEF Ledger!DeltasBetween, DeltasBetween, Ledger!AddressOfDelta, AddressOfDelta
<1>2. \A w : Ledger!AddressesOf(w, pairs) = AddressesOf(w, pairs)
  BY DEF Ledger!AddressesOf, AddressesOf
<1>3. Ledger!TxidsAt(b, pairs) =
        UNION {{[wallet |-> w, height |-> Height[e[1]],
                 index |-> Deltas[e[1]][e[2]].index, tx |-> Deltas[e[1]][e[2]].tx] :
                  e \in Ledger!DeltasBetween(b, Ledger!AddressesOf(w, pairs), 1, Height[b])} :
               w \in Wallet}
  BY DEF Ledger!TxidsAt
<1>4. ASSUME NEW w
      PROVE  Ledger!DeltasBetween(b, Ledger!AddressesOf(w, pairs), 1, Height[b])
               = DeltasBetween(b, AddressesOf(w, pairs), 1, Height[b])
  BY <1>1, <1>2
<1> QED
  BY <1>3, <1>4 DEF TxidsAt

\* The balances of the tip
LEMMA LedgerBalance ==
  ASSUME NEW b, NEW pairs PROVE Ledger!BalanceAt(b, pairs) = BalanceAt(b, pairs)
BY LedgerValue, LedgerOutputs DEF Ledger!BalanceAt, BalanceAt

----------------------------------------------------------------------------
(* The committed tables                                                    *)

\* The committed tip is the top of the stored blocks.
TipOnTop ==
  \/ db.blocks = {} /\ CommittedTip = Undefined
  \/ /\ CommittedTip \in Block /\ CommittedTip # Undefined
     /\ \E b \in db.blocks : OnTop(b, db.blocks) /\ b.hash = CommittedTip

\* In memory or after a restart, the tip is the last stored block.
LEMMA TipIsOnTop ==
  ASSUME HInv, FilterInv
  PROVE  TipOnTop
<1>1. db \in Database /\ Undefined \notin Block /\ \A b \in db.blocks : b.hash \in Block
  BY DatabaseAssumption DEF HInv, IInv, TypeOK, Database, WalletBlock
<1>2. ASSUME NEW w, OnTop(w, db.blocks), CommittedTip = w.hash
      PROVE  TipOnTop
  <2>1. PICK b \in db.blocks : b.height = w.height /\ b.hash = w.hash
    BY <1>2 DEF OnTop
  <2>2. OnTop(b, db.blocks)
    BY <1>2, <2>1 DEF OnTop
  <2> QED
    BY <1>1, <1>2, <2>1, <2>2 DEF TipOnTop
<1>3. CASE pc = "connectSync"
  BY <1>2, <1>3 DEF FilterInv, CommittedTip
<1>4. CASE pc # "connectSync" /\ walletBlock # Undefined
  BY <1>2, <1>4 DEF FilterInv, CommittedTip
<1>5. CASE pc # "connectSync" /\ walletBlock = Undefined /\ db.blocks = {}
  BY <1>5 DEF FilterInv, CommittedTip, TipOnTop
<1>6. CASE pc # "connectSync" /\ walletBlock = Undefined /\ db.blocks # {}
  <2> DEFINE last == CHOOSE b \in db.blocks : IsLastBlock(db, b)
  <2>1. \E b \in db.blocks : IsLastBlock(db, b)
    BY <1>6 DEF HInv, BlocksInv, Stack, IsLastBlock
  <2>2. last \in db.blocks /\ IsLastBlock(db, last)
    BY <2>1
  <2>3. CommittedTip = last.hash
    BY <1>6 DEF FilterInv, CommittedTip
  <2> HIDE DEF last
  <2>4. OnTop(last, db.blocks)
    BY <2>2 DEF OnTop, IsLastBlock
  <2> QED
    BY <1>2, <2>3, <2>4
<1> QED
  BY <1>3, <1>4, <1>5, <1>6

\* The committed tables are those of the ledger at the tip.
LEMMA TablesShown ==
  ASSUME Ordinary, HInv, FilterInv, LedgerInv
  PROVE  TablesShowTip
<1> SUFFICES ASSUME CommittedTip # Undefined
             PROVE  /\ db.utxos = OutputsAt(CommittedTip, db.addresses)
                    /\ db.txids = TxidsAt(CommittedTip, db.addresses)
                    /\ db.balance = BalanceAt(CommittedTip, db.addresses)
  BY LedgerOutputs, LedgerTxids, LedgerBalance DEF TablesShowTip
<1>1. PICK b \in db.blocks : OnTop(b, db.blocks) /\ b.hash = CommittedTip
  BY TipIsOnTop DEF TipOnTop
<1>2. Shows(db, Everywhere(b.hash), db.addresses)
  BY <1>1 DEF LedgerInv, DbInv
<1>3. /\ db \in Database /\ b.hash \in Block
      /\ db.addresses \in SUBSET (Wallet \X Address) /\ ValidChain
  BY DEF HInv, IInv, TypeOK, Database, WalletBlock, Ordinary
<1>4. /\ OutputsAt(b.hash, db.addresses) = UtxoRows(Everywhere(b.hash), db.addresses)
      /\ TxidsAt(b.hash, db.addresses) = TxRows(Everywhere(b.hash), db.addresses)
  BY <1>3, OutputsAtRows, TxidsAtRows
<1>5. db.balance = [w \in Wallet |-> ValueOf(UtxoRows(Everywhere(b.hash), db.addresses), w)]
  BY <1>2, <1>3 DEF Shows, Database
<1> QED
  BY <1>1, <1>2, <1>4, <1>5 DEF Shows, BalanceAt

\* A balance is what the outputs are worth, so it covers them.
LEMMA BalancesCover ==
  ASSUME HInv, LedgerInv
  PROVE  BalanceCoversOutputs
<1> SUFFICES ASSUME NEW w \in Wallet
             PROVE  ValueOf(db.utxos, w) <= db.balance[w]
  BY LedgerValue DEF BalanceCoversOutputs
<1>1. db.balance[w] \in Int
  BY DEF HInv, IInv, TypeOK, Database
<1>2. CASE db.blocks = {}
  <2>1. db.utxos = {} /\ db.balance[w] = 0
    BY <1>2 DEF LedgerInv, DbInv
  <2> QED
    BY <2>1, ValueEmpty
<1>3. CASE db.blocks # {}
  <2>1. PICK b \in db.blocks : OnTop(b, db.blocks)
    BY <1>3 DEF HInv, BlocksInv, Stack, OnTop
  <2>2. Shows(db, Everywhere(b.hash), db.addresses)
    BY <2>1 DEF LedgerInv, DbInv
  <2>3. ValueOf(db.utxos, w) = db.balance[w]
    BY <2>2 DEF Shows
  <2> QED
    BY <1>1, <2>3
<1> QED
  BY <1>2, <1>3

----------------------------------------------------------------------------
(* The commits                                                             *)

\* Only these steps commit something that counts.
LEMMA Commits ==
  ASSUME HInv, FilterInv, LedgerInv, [Next]_vars
  PROVE  \/ /\ db'.utxos = db.utxos /\ db'.txids = db.txids /\ db'.balance = db.balance
            /\ db'.addresses = db.addresses /\ db'.blocks = db.blocks
         \/ \E w \in Wallet : CreateWallet(w) /\ walletBlock = Undefined
         \/ ConnectCommit \/ ConnectSynced \/ ImportCommit
<1>1. db \in Database
  BY DEF HInv, IInv, TypeOK
<1>2. CASE UNCHANGED db
  BY <1>2
<1>3. ASSUME NEW w \in Wallet, CreateWallet(w), walletBlock # Undefined
      PROVE  /\ db'.utxos = db.utxos /\ db'.txids = db.txids /\ db'.balance = db.balance
             /\ db'.addresses = db.addresses /\ db'.blocks = db.blocks
  <2>1. db' = [db EXCEPT !.wallets = @ \cup {w}]
    BY <1>3 DEF CreateWallet
  <2> QED
    BY <1>1, <2>1 DEF Database
<1>4. ASSUME NEW s \in Saved, SaveTransaction(s[1], s[2])
      PROVE  /\ db'.utxos = db.utxos /\ db'.txids = db.txids /\ db'.balance = db.balance
             /\ db'.addresses = db.addresses /\ db'.blocks = db.blocks
  BY <1>1, <1>4 DEF SaveTransaction, Database
<1>5. ~DisconnectCommit
  BY OnlyForwardSteps DEF LedgerInv
<1>6. (\E b \in Block : NewTip(b)) \/ Sync \/ Crash \/ Restart \/ RequestFails \/ SyncFails
        \/ (\E r \in Requests : StartImport(r)) \/ UNCHANGED vars
      => UNCHANGED db
  BY DEF NewTip, Sync, Crash, Restart, RequestFails, SyncFails, Die, StartImport, vars
<1>7. SyncStep => UNCHANGED db \/ ConnectCommit \/ ConnectSynced
  BY <1>5 DEF SyncStep, SyncDone, GetBlockHash, StartConnect, NextDelta, ConnectOutput,
         ConnectInput, ConnectFails, StartDisconnect, NoDeltasToUndo, DisconnectOutput,
         DisconnectInput, DisconnectFails, NoPreviousBlock, DisconnectSynced, Die
<1>8. ImportStep => UNCHANGED db \/ ImportCommit
  BY DEF ImportStep, ImportUTXOs, TipMoved, GetAddressDeltas, RangeAboveTip, AddDelta,
         NextRange, CheckLastHash, UnexpectedHash, ImportAddress, ImportSynced
<1> QED
  BY <1>2, <1>3, <1>4, <1>6, <1>7, <1>8 DEF Next

\* The tip is the same while the same block is on top.
LEMMA SameTop ==
  ASSUME HInv, TipOnTop, TipOnTop',
         db'.blocks # {} <=> db.blocks # {},
         db'.blocks \subseteq db.blocks,
         \A b \in db'.blocks : OnTop(b, db'.blocks) => OnTop(b, db.blocks)
  PROVE  CommittedTip' = CommittedTip
<1>1. CASE db.blocks = {}
  BY <1>1 DEF TipOnTop
<1>2. CASE db.blocks # {}
  <2>1. PICK b \in db.blocks : OnTop(b, db.blocks) /\ b.hash = CommittedTip
    BY <1>2 DEF TipOnTop
  <2>2. PICK c \in db'.blocks : OnTop(c, db'.blocks) /\ c.hash = CommittedTip'
    BY <1>2 DEF TipOnTop
  <2>3. c \in db.blocks /\ OnTop(c, db.blocks)
    BY <2>2
  <2>4. b.height \in Nat /\ c.height \in Nat
    BY <2>1, <2>3 DEF HInv, IInv, TypeOK, Database, WalletBlock
  <2>5. b.height = c.height
    BY <2>1, <2>3, <2>4 DEF OnTop
  <2>6. b = c
    BY <2>1, <2>3, <2>5 DEF HInv, BlocksInv, Stack
  <2> QED
    BY <2>1, <2>2, <2>6
<1> QED
  BY <1>1, <1>2

\* Every step is a step of the ledger or none.
LEMMA RefinementStep ==
  ASSUME Ordinary, HInv, FilterInv, LedgerInv, [Next]_vars,
         TipOnTop, TipOnTop', TablesShowTip'
  PROVE  [Ledger!Next]_(Ledger!ledger)
<1>1. CommittedTip' # Undefined => Ledger!ShowsChain'
  BY DEF TablesShowTip, Ledger!ShowsChain
<1>2. db \in Database
  BY DEF HInv, IInv, TypeOK
<1>3. CASE /\ db'.utxos = db.utxos /\ db'.txids = db.txids /\ db'.balance = db.balance
           /\ db'.addresses = db.addresses /\ db'.blocks = db.blocks
  <2>1. CommittedTip' = CommittedTip
    BY <1>3, SameTop
  <2> QED
    BY <1>3, <2>1 DEF Ledger!ledger
<1>4. CASE \E w \in Wallet : CreateWallet(w) /\ walletBlock = Undefined
  <2>1. PICK w \in Wallet : CreateWallet(w) /\ walletBlock = Undefined
    BY <1>4
  <2> DEFINE c == NewWalletBlock(bitcoinTip)
             d == [db EXCEPT !.wallets = @ \cup {w}]
  <2>2. db' = PutBlock(d, c) /\ pc = "idle"
    BY <2>1 DEF CreateWallet
  <2>3. db.blocks = {}
    BY <2>1, <2>2 DEF HInv, BlocksInv
  <2>4. d \in Database /\ d.addresses = db.addresses
    BY <1>2 DEF Database
  <2> HIDE DEF c, d
  <2>5. db'.addresses = db.addresses /\ db'.blocks # {}
    BY <2>2, <2>4, PutBlockTables
  <2>6. CommittedTip = Undefined /\ CommittedTip' \in Block /\ CommittedTip' # Undefined
    BY <2>3, <2>5 DEF TipOnTop
  <2>7. Ledger!Begin(CommittedTip')
    BY <2>5, <2>6 DEF Ledger!Begin
  <2> QED
    BY <1>1, <2>6, <2>7 DEF Ledger!Next
<1>5. CASE ConnectCommit
  <2>1. /\ pc = "connect" /\ pc' = "connectSync" /\ db' = PutBlock(txn, clone)
        /\ UNCHANGED <<walletBlock, clone>>
    BY <1>5 DEF ConnectCommit, memoryVars
  <2>2. /\ txn \in Database /\ txn.addresses = db.addresses
        /\ walletBlock # Undefined /\ walletBlock.hash = Parent[clone.hash]
        /\ clone.hash \in Block /\ Undefined \notin Block /\ walletBlock.hash \in Block
    BY <2>1, LoopOpen, DatabaseAssumption DEF HInv, BlocksInv, WalletBlock
  <2>3. db'.addresses = db.addresses
    BY <2>1, <2>2, PutBlockTables
  <2>4. CommittedTip = walletBlock.hash /\ CommittedTip' = clone.hash
    BY <2>1, <2>2 DEF CommittedTip
  <2>5. Ledger!Extend(clone.hash) /\ CommittedTip' # Undefined
    BY <2>2, <2>3, <2>4 DEF Ledger!Extend
  <2> QED
    BY <1>1, <2>2, <2>5 DEF Ledger!Next
<1>6. CASE ConnectSynced
  <2>1. pc = "connectSync" /\ db' = Prune(db, PruneDepth)
    BY <1>6 DEF ConnectSynced
  <2>2. /\ db'.utxos = db.utxos /\ db'.txids = db.txids /\ db'.balance = db.balance
        /\ db'.addresses = db.addresses
    BY <1>2, <2>1 DEF Prune, Database
  <2>3. /\ db'.blocks # {} /\ db.blocks # {} /\ db'.blocks \subseteq db.blocks
        /\ \A b \in db'.blocks : OnTop(b, db'.blocks) => OnTop(b, db.blocks)
    BY <2>1, PruneLeavesTop DEF LedgerInv
  <2>4. CommittedTip' = CommittedTip
    BY <2>3, SameTop
  <2> QED
    BY <2>2, <2>4 DEF Ledger!ledger
<1>7. CASE ImportCommit
  <2>1. /\ pc = "commitAddresses" /\ pc' = "importSync" /\ db' = PutBlock(txn, clone)
        /\ UNCHANGED walletBlock
    BY <1>7 DEF ImportCommit, memoryVars
  <2>2. /\ txn \in Database /\ task.wallet \in Wallet /\ NewAddresses \in SUBSET Address
        /\ \A a \in NewAddresses : <<task.wallet, a>> \notin db.addresses
        /\ walletBlock # Undefined
    BY <2>1, ImportAt DEF LedgerInv, ImportPhases, HInv, BlocksInv
  <2>3. NewAddresses # {}
    BY <2>1 DEF LedgerInv, ImportInv, RequestInv, ImportPhases, NewAddresses
  <2>4. db'.addresses = db.addresses \cup ({task.wallet} \X NewAddresses)
    BY <1>7, <2>1, <2>2, PutBlockTables, ImportComplete DEF Ordinary
  <2>5. CommittedTip = walletBlock.hash /\ CommittedTip' = CommittedTip
    BY <2>1, <2>2 DEF CommittedTip
  <2>6. CommittedTip # Undefined
    <3>1. clone \in db'.blocks
      BY <2>1, <2>2, PutBlockTables
    <3> QED
      BY <2>5, <3>1 DEF TipOnTop
  <2>7. db'.addresses = db.addresses \cup {<<task.wallet, a>> : a \in NewAddresses}
    BY <2>4
  <2>8. db'.addresses # db.addresses
    BY <2>2, <2>3, <2>7
  <2>9. Ledger!Track(task.wallet, NewAddresses)
    BY <2>5, <2>6, <2>7, <2>8 DEF Ledger!Track
  <2> QED
    BY <1>1, <2>2, <2>5, <2>6, <2>9 DEF Ledger!Next
<1> QED
  BY <1>3, <1>4, <1>5, <1>6, <1>7, Commits

\* The commit of an import has flushed every transaction it found.
LEMMA FlushStep ==
  ASSUME Ordinary, HInv, FilterInv, LedgerInv, [Next]_vars,
         db'.addresses # db.addresses,
         NEW e \in DeltasBetween(clone.hash, NewAddresses, 1, clone.height)
  PROVE  <<task.wallet, Deltas[e[1]][e[2]].tx>> \notin db'.txs
<1>1. db \in Database
  BY DEF HInv, IInv, TypeOK
<1>2. ASSUME NEW w \in Wallet, CreateWallet(w), walletBlock = Undefined
      PROVE  db'.addresses = db.addresses
  <2> DEFINE d == [db EXCEPT !.wallets = @ \cup {w}]
  <2>1. db' = PutBlock(d, NewWalletBlock(bitcoinTip))
    BY <1>2 DEF CreateWallet
  <2>2. d \in Database /\ d.addresses = db.addresses
    BY <1>1 DEF Database
  <2> QED
    BY <2>1, <2>2, PutBlockTables
<1>3. ASSUME ConnectCommit
      PROVE  db'.addresses = db.addresses
  <2>1. pc = "connect" /\ db' = PutBlock(txn, clone)
    BY <1>3 DEF ConnectCommit
  <2>2. txn \in Database /\ txn.addresses = db.addresses
    BY <2>1, LoopOpen
  <2> QED
    BY <2>1, <2>2, PutBlockTables
<1>4. ConnectSynced => db'.addresses = db.addresses
  BY <1>1, PruneTables DEF ConnectSynced
<1>5. ImportCommit
  BY <1>2, <1>3, <1>4, Commits
<1>6. pc = "commitAddresses" /\ db' = PutBlock(txn, clone)
  BY <1>5 DEF ImportCommit
<1>7. /\ txn \in Database /\ clone.hash \in Block /\ clone.height = Height[clone.hash]
      /\ clone.height \in Nat /\ Collected(Touched)
  BY <1>6, ImportAt DEF LedgerInv, ImportInv, ImportPhases
<1>8. db'.txs = txn.txs
  BY <1>6, <1>7 DEF PutBlock, Database
<1>9. e \in Touched
  BY <1>7, ReplyIs, ChainStep DEF Touched
<1> QED
  BY <1>7, <1>8, <1>9 DEF Collected, DeltaAt

----------------------------------------------------------------------------

\* The invariant holds as long as bitcoind only adds to its chain.
LEMMA LedgerAlways ==
  ASSUME Ordinary
  PROVE  Spec /\ [][Steady]_vars => [](LedgerInv /\ FilterInv)
<1>1. Init => LedgerInv /\ FilterInv
  BY LedgerStarts DEF Init, FilterInv, EmptyDatabase, LastCovers, ImportPhases
<1>2. HInv /\ (LedgerInv /\ FilterInv) /\ [Next]_vars /\ [Steady]_vars
      => (LedgerInv /\ FilterInv)'
  BY LedgerStep
<1> QED
  BY <1>1, <1>2, HistoryInvariant, PTL DEF Spec

\* As long as bitcoind only adds to its chain and env.sync reports no error, no
\* exception ends the writer: every spent output is found in utxos and its
\* indexes, whatever crashes, restarts, failed requests and imports come between
\* (_connectUTXO, _removeUTXO in lib/writer-worker.js).
THEOREM NoFaultForward ==
  ASSUME Ordinary
  PROVE  Spec /\ [][Steady]_vars => []NoFault
<1>1. LedgerInv => NoFault
  BY DEF LedgerInv, ChainInv, NoFault
<1> QED
  BY <1>1, LedgerAlways, PTL

\* Until then no wallet has more satoshis in outputs than in its balance; so no
\* balance is negative.
THEOREM BalanceCoversForward ==
  ASSUME Ordinary
  PROVE  Spec /\ [][Steady]_vars => []BalanceCoversOutputs
<1>1. HInv /\ LedgerInv => BalanceCoversOutputs
  BY BalancesCover
<1> QED
  BY <1>1, LedgerAlways, HistoryInvariant, PTL

\* Until then the committed utxos, txids and balances are exactly those that the
\* chain of the committed tip gives the addresses of each wallet.
THEOREM TablesShowForward ==
  ASSUME Ordinary
  PROVE  Spec /\ [][Steady]_vars => []TablesShowTip
<1>1. HInv /\ LedgerInv /\ FilterInv => TablesShowTip
  BY TablesShown
<1> QED
  BY <1>1, LedgerAlways, HistoryInvariant, PTL

\* Until then the writer implements the ledger: each commit connects one block
\* or imports addresses of one wallet with their whole history, as one step.
THEOREM LedgerForward ==
  ASSUME Ordinary
  PROVE  Spec /\ [][Steady]_vars => ImplementsLedger
<1>1. Init => Ledger!Init
  BY DEF Init, Ledger!Init, EmptyDatabase, CommittedTip
<1>2. HInv /\ FilterInv => TipOnTop
  BY TipIsOnTop
<1>3. /\ HInv /\ FilterInv /\ LedgerInv /\ TipOnTop
      /\ [Next]_vars /\ TipOnTop' /\ TablesShowTip'
      => [Ledger!Next]_(Ledger!ledger)
  BY RefinementStep
<1> QED
  BY <1>1, <1>2, <1>3, LedgerAlways, TablesShowForward, HistoryInvariant, PTL
     DEF Spec, ImplementsLedger, Ledger!Spec

\* Until then an import that commits leaves no saved copy of a transaction that
\* it found.
THEOREM ImportFlushesForward ==
  ASSUME Ordinary
  PROVE  Spec /\ [][Steady]_vars => ImportFlushes
<1>1. HInv /\ FilterInv /\ LedgerInv /\ [Next]_vars =>
        (db'.addresses # db.addresses =>
           \A e \in DeltasBetween(clone.hash, NewAddresses, 1, clone.height) :
             <<task.wallet, Deltas[e[1]][e[2]].tx>> \notin db'.txs)
  BY FlushStep
<1> QED
  BY <1>1, LedgerAlways, HistoryInvariant, PTL DEF Spec, ImportFlushes
=============================================================================
