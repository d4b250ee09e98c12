---------------------------- MODULE WalletWriter ----------------------------
(***************************************************************************)
(* The writer process (lib/writer-worker.js): the one process that writes  *)
(* the wallet database.  It runs one task at a time: sync follows the      *)
(* chain of bitcoind block by block, importWalletAddresses adds addresses  *)
(* to a wallet together with their history, createWallet and               *)
(* saveTransaction write one row.                                          *)
(*                                                                         *)
(* A task is cut where the code waits for a reply of bitcoind or for       *)
(* env.sync, because bitcoind may change its chain there and the process   *)
(* may die there, and in its loops: one step is one delta of one wallet,   *)
(* or one address.  An exception that nothing catches kills the process;   *)
(* "fault" remembers which one.                                            *)
(***************************************************************************)
EXTENDS WalletDatabase

CONSTANTS PruneDepth,   \* pruneDepth
          RangeSize,    \* longest range of one getaddressdeltas query
          FirstTip,     \* the tip of bitcoind when the service first starts
          Requests,     \* the importWalletAddresses tasks of this scenario
          RequestTips,  \* the tips at which clients begin to use wallets here
          Saved,        \* the <<wallet, txid>> that readers save
          Faults        \* what goes wrong in this scenario

ASSUME WriterAssumption ==
  /\ PruneDepth \in Nat \ {0}
  /\ RangeSize \in Nat \ {0}
  /\ FirstTip \in Block
  /\ Requests \subseteq [wallet: Wallet, addresses: Seq(Address)]
  /\ Saved \subseteq Wallet \X Txid
  /\ Faults \subseteq {"rpc", "sync", "crash"}

VARIABLES
  best,         \* the tip of bitcoind
  announced,    \* the tips of the queued sync tasks, in their order
  db,           \* the committed database
  walletBlock,  \* the current wallet block, in memory
  bitcoinTip,   \* bitcoinHeight and bitcoinHash, in memory
  fault,        \* the exception that killed the process
  pc,           \* where the current task is
  txn,          \* working copy of the open write transaction
  clone,        \* the wallet block the task is about to install, or to undo
  fetched,      \* the reply of getblockhash
  at,           \* place of the loop over deltas and owners, or addresses
  task,         \* the import request, and which of its addresses are new
  todo,         \* deltas of the current getaddressdeltas reply still to add
  section,      \* the current range of the import
  lastHash      \* the last block of that reply

chainVars == <<best, announced>>
memoryVars == <<walletBlock, bitcoinTip, fault>>
importVars == <<task, todo, section, lastHash>>
vars == <<best, announced, db, walletBlock, bitcoinTip, fault,
          pc, txn, clone, fetched, at, task, todo, section, lastHash>>

\* Mutant: places counted from zero.
StartAtZero == [delta |-> 0, owner |-> 0]

\* The first place of a loop.
Start == [delta |-> 1, owner |-> 1]

\* No task keeps anything in its closures.
Clear ==
  /\ txn' = Undefined
  /\ clone' = Undefined
  /\ fetched' = Undefined
  /\ at' = Start
  /\ task' = Undefined
  /\ todo' = {}
  /\ section' = 0
  /\ lastHash' = Undefined

Init ==
  /\ best = FirstTip
  /\ announced = <<FirstTip>>
  /\ db = EmptyDatabase
  /\ walletBlock = Undefined
  /\ bitcoinTip = FirstTip
  /\ fault = "none"
  /\ pc = "idle"
  /\ txn = Undefined
  /\ clone = Undefined
  /\ fetched = Undefined
  /\ at = Start
  /\ task = Undefined
  /\ todo = {}
  /\ section = 0
  /\ lastHash = Undefined

----------------------------------------------------------------------------
(* bitcoind, and the end of a process *)

\* bitcoind moves to a longer chain; the service queues a sync task, unless it
\* is down.
NewTip(b) ==
  /\ Height[b] > Height[best]
  /\ best' = b
  /\ announced' = IF pc = "down" THEN announced
                                   ELSE Append(announced, b)
  /\ UNCHANGED <<db, memoryVars, pc, txn, clone, fetched, at, importVars>>

\* The process dies: its memory and its open transaction are lost, what was
\* committed stays.  The service stops when its writer exits.
Die(reason) ==
  /\ pc' = "down"
  /\ fault' = reason
  /\ walletBlock' = Undefined
  /\ announced' = <<>>
  /\ Clear
  /\ UNCHANGED <<best, db, bitcoinTip>>

Crash ==
  /\ "crash" \in Faults
  /\ pc # "down"
  /\ Die("none")

\* start and _loadLatestWalletBlock
Restart ==
  /\ pc = "down"
  /\ pc' = "idle"
  /\ fault' = "none"
  /\ bitcoinTip' = best
  /\ announced' = <<best>>
  /\ \/ db.blocks = {} /\ walletBlock' = Undefined
     \/ \E b \in db.blocks : IsLastBlock(db, b) /\ walletBlock' = b
  /\ UNCHANGED <<best, db, txn, clone, fetched, at, importVars>>

EndTask ==
  /\ pc' = "idle"
  /\ Clear

----------------------------------------------------------------------------
(* createWallet, saveTransaction *)

NewWalletBlock(b) ==
  [height |-> Height[b], hash |-> b, addressFilter |-> {},
   deltas |-> Undefined, spentOutputs |-> {}]

\* The first wallet also creates the wallet block, at the tip bitcoind has.
CreateWallet(w) ==
  /\ pc = "idle"
  /\ w \notin db.wallets
  /\ \/ /\ walletBlock # Undefined
        /\ db' = [db EXCEPT !.wallets = @ \cup {w}]
        /\ UNCHANGED walletBlock
     \/ /\ walletBlock = Undefined
        /\ bitcoinTip \in RequestTips
        /\ walletBlock' = NewWalletBlock(bitcoinTip)
        /\ db' = PutBlock([db EXCEPT !.wallets = @ \cup {w}],
                          NewWalletBlock(bitcoinTip))
  /\ UNCHANGED <<chainVars, bitcoinTip, fault, pc, txn, clone, fetched, at,
                 importVars>>

SaveTransaction(w, tx) ==
  /\ pc = "idle"
  /\ db' = [db EXCEPT !.txs = @ \cup {<<w, tx>>}]
  /\ UNCHANGED <<chainVars, memoryVars, pc, txn, clone, fetched, at,
                 importVars>>

----------------------------------------------------------------------------
(* sync *)

\* A sync task carries the tip its sender knew when it queued it.
Sync ==
  /\ pc = "idle"
  /\ announced # <<>>
  /\ announced' = Tail(announced)
  /\ bitcoinTip' = Head(announced)
  /\ pc' = IF walletBlock = Undefined THEN "idle" ELSE "sync"
  /\ UNCHANGED <<best, db, walletBlock, fault, txn, clone, fetched, at,
                 importVars>>

\* Mutant: the last block is never fetched.
BehindByTwo == walletBlock.height + 1 < Height[bitcoinTip]

Behind == walletBlock.height < Height[bitcoinTip]

SyncDone ==
  /\ pc = "sync"
  /\ ~Behind
  /\ EndTask
  /\ UNCHANGED <<chainVars, db, memoryVars>>

\* _updateTip: getblockhash of the next height, on the chain of this moment.
GetBlockHash ==
  /\ pc = "sync"
  /\ Behind
  /\ \E b \in ChainOf(best) :
       /\ Height[b] = walletBlock.height + 1
       /\ fetched' = b
  /\ pc' = "getBlockDeltas"
  /\ UNCHANGED <<chainVars, db, memoryVars, txn, clone, at, importVars>>

\* Mutant: any block of the next height will do.
IsNextHeight == Height[fetched] = walletBlock.height + 1

\* previousblockhash is our tip.
ExtendsTip == Parent[fetched] = walletBlock.hash

\* getblockdeltas of that hash replies with a block on our tip.
StartConnect ==
  /\ pc = "getBlockDeltas"
  /\ ExtendsTip
  /\ txn' = db
  /\ clone' = [walletBlock EXCEPT
                 !.height = Height[fetched],
                 !.hash = fetched,
                 !.deltas = FilterDeltas(walletBlock.addressFilter, fetched),
                 !.spentOutputs = {}]
  /\ at' = Start
  /\ pc' = "connect"
  /\ UNCHANGED <<chainVars, db, memoryVars, fetched, importVars>>

\* It does not extend our tip: our tip is to be undone.  The block that
\* createWallet made has no deltas to walk.
StartDisconnect ==
  /\ pc = "getBlockDeltas"
  /\ ~ExtendsTip
  /\ walletBlock.deltas # Undefined
  /\ txn' = db
  /\ clone' = walletBlock
  /\ at' = Start
  /\ pc' = "disconnect"
  /\ UNCHANGED <<chainVars, db, memoryVars, fetched, importVars>>

NoDeltasToUndo ==
  /\ pc = "getBlockDeltas"
  /\ ~ExtendsTip
  /\ walletBlock.deltas = Undefined
  /\ Die("no deltas to undo")

\* Any request to bitcoind may fail on every client: the task ends.  An import
\* that fails later than its first range may leave its addresses in the filter
\* in memory: clone() passes the bits of the filter on by reference.
ForgetImport == \/ UNCHANGED walletBlock
                \/ walletBlock' = [walletBlock EXCEPT
                                     !.addressFilter = clone.addressFilter]

RequestFails ==
  /\ "rpc" \in Faults
  /\ \/ /\ (pc = "sync" /\ Behind) \/ pc = "getBlockDeltas"
        /\ UNCHANGED walletBlock
     \/ /\ pc \in {"getAddressUtxos", "getAddressDeltas"}
        /\ ForgetImport
  /\ EndTask
  /\ UNCHANGED <<chainVars, db, bitcoinTip, fault>>

----------------------------------------------------------------------------
(* The loop over the deltas of clone and the wallets that own the address  *)

ThisDelta == Deltas[clone.hash][at.delta]
Owners == txn.addressesMap[AddressOfDelta(ThisDelta)]
ThisOwner == Owners[at.owner]

AllDeltasDone == at.delta > Len(Deltas[clone.hash])

AtOwner == /\ ~AllDeltasDone
           /\ at.delta \in clone.deltas
           /\ at.owner <= Len(Owners)

NextOwner == at' = [at EXCEPT !.owner = @ + 1]

\* No (more) wallet has the address of this delta: the address only passed the
\* filter, or did not pass it.
NextDelta ==
  /\ pc \in {"connect", "disconnect"}
  /\ ~AllDeltasDone
  /\ ~AtOwner
  /\ at' = [delta |-> at.delta + 1, owner |-> 1]
  /\ UNCHANGED <<chainVars, db, memoryVars, pc, txn, clone, fetched,
                 importVars>>

ThisTxid == [wallet |-> ThisOwner, height |-> clone.height,
             index |-> ThisDelta.index, tx |-> ThisDelta.tx]

ThisUtxo == [wallet |-> ThisOwner, out |-> ThisDelta.out,
             height |-> clone.height]

IsOutput == SatoshisOf(ThisDelta) > 0
IsInput == SatoshisOf(ThisDelta) <= 0 /\ ThisDelta.kind = "input"
\* An output of no satoshis is taken for an input.
IsZeroOutput == SatoshisOf(ThisDelta) <= 0 /\ ThisDelta.kind = "output"

----------------------------------------------------------------------------
(* _connectTransaction, _connectUTXO, _connectBlockCommit *)

\* Mutant: the balance does not follow.
ConnectedWithoutBalance(d) == PutTxid(d, ThisTxid)

Connected(d) ==
  AddBalance(PutTxid(d, ThisTxid), ThisOwner, SatoshisOf(ThisDelta))

ConnectOutput ==
  /\ pc = "connect"
  /\ AtOwner
  /\ IsOutput
  /\ txn' = AddUTXOs(Connected(txn), {ThisUtxo})
  /\ NextOwner
  /\ UNCHANGED <<chainVars, db, memoryVars, pc, clone, fetched, importVars>>

ConnectInput ==
  /\ pc = "connect"
  /\ AtOwner
  /\ IsInput
  /\ \E spent \in txn.utxos :
       /\ SameOutput(spent, ThisUtxo)
       /\ CanDeleteUTXO(txn, spent)
       /\ txn' = DeleteUTXO(Connected(txn), spent)
       /\ clone' = [clone EXCEPT
                      !.spentOutputs = Without(@, {spent}) \cup {spent}]
  /\ NextOwner
  /\ UNCHANGED <<chainVars, db, memoryVars, pc, fetched, importVars>>

ConnectFails ==
  /\ pc = "connect"
  /\ AtOwner
  /\ \/ IsZeroOutput /\ Die("key of a zero output")
     \/ /\ IsInput
        /\ ~\E spent \in txn.utxos :
              SameOutput(spent, ThisUtxo) /\ CanDeleteUTXO(txn, spent)
        /\ Die("utxo not found")

ConnectCommit ==
  /\ pc = "connect"
  /\ AllDeltasDone
  /\ db' = PutBlock(txn, clone)
  /\ txn' = Undefined
  /\ pc' = "connectSync"
  /\ UNCHANGED <<chainVars, memoryVars, clone, fetched, at, importVars>>

\* env.sync calls back: memory follows, then old blocks are pruned in a
\* transaction of their own.
ConnectSynced ==
  /\ pc = "connectSync"
  /\ walletBlock' = clone
  /\ db' = Prune(db, PruneDepth)
  /\ pc' = "sync"
  /\ Clear
  /\ UNCHANGED <<chainVars, bitcoinTip, fault>>

----------------------------------------------------------------------------
(* _disconnectTransaction, _disconnectUTXO, _disconnectBlockCommit.  The   *)
(* deltas are undone in the order in which they were done.                 *)

\* Mutant: the transaction stays listed.
DisconnectedKeepsTxid(d) == AddBalance(d, ThisOwner, -SatoshisOf(ThisDelta))

Disconnected(d) ==
  AddBalance(DeleteTxid(d, ThisTxid), ThisOwner, -SatoshisOf(ThisDelta))

DisconnectOutput ==
  /\ pc = "disconnect"
  /\ AtOwner
  /\ IsOutput
  /\ CanDeleteUTXO(txn, ThisUtxo)
  /\ txn' = DeleteUTXO(Disconnected(txn), ThisUtxo)
  /\ NextOwner
  /\ UNCHANGED <<chainVars, db, memoryVars, pc, clone, fetched, importVars>>

DisconnectInput ==
  /\ pc = "disconnect"
  /\ AtOwner
  /\ IsInput
  /\ \E spent \in clone.spentOutputs :
       /\ SameOutput(spent, ThisUtxo)
       /\ txn' = AddUTXOs(Disconnected(txn), {spent})
  /\ NextOwner
  /\ UNCHANGED <<chainVars, db, memoryVars, pc, clone, fetched, importVars>>

DisconnectFails ==
  /\ pc = "disconnect"
  /\ AtOwner
  /\ \/ /\ IsOutput
        /\ ~CanDeleteUTXO(txn, ThisUtxo)
        /\ Die("MDB_NOTFOUND")
     \/ IsZeroOutput /\ Die("key of a zero output")
     \/ /\ IsInput
        /\ ~\E spent \in clone.spentOutputs : SameOutput(spent, ThisUtxo)
        /\ Die("no undo information")

\* blocks keeps the entry of the block that is undone.
DisconnectCommit ==
  /\ pc = "disconnect"
  /\ AllDeltasDone
  /\ \E previous \in txn.blocks :
       /\ previous.height = clone.height - 1
       /\ clone' = previous
  /\ db' = txn
  /\ txn' = Undefined
  /\ pc' = "disconnectSync"
  /\ UNCHANGED <<chainVars, memoryVars, fetched, at, importVars>>

NoPreviousBlock ==
  /\ pc = "disconnect"
  /\ AllDeltasDone
  /\ ~\E previous \in txn.blocks : previous.height = clone.height - 1
  /\ Die("previous wallet block not found")

DisconnectSynced ==
  /\ pc = "disconnectSync"
  /\ walletBlock' = clone
  /\ pc' = "sync"
  /\ Clear
  /\ UNCHANGED <<chainVars, db, bitcoinTip, fault>>

----------------------------------------------------------------------------
(* importWalletAddresses *)

\* Mutant: known addresses are imported again.
AllPlaces(r) == DOMAIN r.addresses

\* _filterNewAddresses: the places of the request that are new to the wallet.
\* Nothing removes an address that the request names twice.
NewPlaces(r) ==
  {p \in DOMAIN r.addresses : <<r.wallet, r.addresses[p]>> \notin db.addresses}

StartImport(r) ==
  /\ pc = "idle"
  /\ walletBlock # Undefined
  /\ r.wallet \in db.wallets
  /\ NewPlaces(r) # {}
  /\ walletBlock.hash \in RequestTips
  /\ task' = [wallet |-> r.wallet, addresses |-> r.addresses,
              places |-> NewPlaces(r)]
  /\ txn' = db
  /\ clone' = walletBlock
  /\ pc' = "getAddressUtxos"
  /\ UNCHANGED <<chainVars, db, memoryVars, fetched, at, todo, section,
                 lastHash>>

NewAddresses == {task.addresses[p] : p \in task.places}

\* Mutant: bitcoind may be ahead.
TipReached == Height[best] >= clone.height

\* The reply describes the chain the wallet is at.
SameTip == best = clone.hash

\* _addUTXOSToWallet, when bitcoind has our tip
ImportUTXOs ==
  /\ pc = "getAddressUtxos"
  /\ SameTip
  /\ txn' = AddUTXOs(txn, {[wallet |-> task.wallet, out |-> u[1],
                            height |-> Height[u[2]]] :
                             u \in Unspent(best, NewAddresses)})
  /\ section' = 1
  /\ pc' = "getAddressDeltas"
  /\ UNCHANGED <<chainVars, db, memoryVars, clone, fetched, at, task, todo,
                 lastHash>>

\* Otherwise the task ends.  When bitcoind is ahead a sync is queued before all
\* others (a second one for the same tip would find nothing to do), and the
\* same task once more, which this model leaves to StartImport.
TipMoved ==
  /\ pc = "getAddressUtxos"
  /\ ~SameTip
  /\ announced' =
       IF /\ Height[best] > clone.height
          /\ announced = <<>> \/ Head(announced) # best
       THEN <<best>> \o announced ELSE announced
  /\ EndTask
  /\ UNCHANGED <<best, db, memoryVars>>

\* utils.splitRange(1, rangeMax, RangeSize): whole ranges, then the rest
RangeMax == Larger(clone.height, 2)
WholeRanges == (RangeMax - 1) \div RangeSize
First(n) == 1 + (n - 1) * RangeSize
Last(n) == IF n <= WholeRanges THEN n * RangeSize ELSE RangeMax

\* Mutant: only one address gets in.
FilterWithFirst == clone.addressFilter \cup {task.addresses[1]}

FilterWithNew == clone.addressFilter \cup NewAddresses

\* One getaddressdeltas reply.  The filters get the addresses with each.
GetAddressDeltas ==
  /\ pc = "getAddressDeltas"
  /\ \E b \in ChainOf(best) : Height[b] = Last(section) /\ lastHash' = b
  /\ todo' = {e \in task.places \X
                DeltasBetween(best, NewAddresses, First(section), Last(section)) :
                  AddressOfDelta(Deltas[e[2][1]][e[2][2]]) = task.addresses[e[1]]}
  /\ clone' = [clone EXCEPT !.addressFilter = FilterWithNew]
  /\ pc' = "addDeltas"
  /\ UNCHANGED <<chainVars, db, memoryVars, txn, fetched, at, task, section>>

\* bitcoind refuses a range that ends above its tip.
RangeAboveTip ==
  /\ pc = "getAddressDeltas"
  /\ Last(section) > Height[best]
  /\ ForgetImport
  /\ EndTask
  /\ UNCHANGED <<chainVars, db, bitcoinTip, fault>>

\* The reply is walked in its order: by address, then by height.
Before(e, f) ==
  \/ e[1] < f[1]
  \/ e[1] = f[1] /\ Height[e[2][1]] < Height[f[2][1]]
  \/ e[1] = f[1] /\ Height[e[2][1]] = Height[f[2][1]] /\ e[2][2] < f[2][2]

AddDelta ==
  /\ pc = "addDeltas"
  /\ \E e \in todo :
       LET d == Deltas[e[2][1]][e[2][2]]
           row == [wallet |-> task.wallet, height |-> Height[e[2][1]],
                   index |-> d.index, tx |-> d.tx]
           added == AddBalance(PutTxid(txn, row), task.wallet, SatoshisOf(d))
       IN /\ \A f \in todo \ {e} : Before(e, f)
          /\ todo' = todo \ {e}
          /\ txn' = FlushSaved(added, task.wallet, d.tx)
  /\ UNCHANGED <<chainVars, db, memoryVars, pc, clone, fetched, at, task,
                 section, lastHash>>

NextRange ==
  /\ pc = "addDeltas"
  /\ todo = {}
  /\ section <= WholeRanges
  /\ section' = section + 1
  /\ pc' = "getAddressDeltas"
  /\ UNCHANGED <<chainVars, db, memoryVars, txn, clone, fetched, at, task,
                 todo, lastHash>>

\* Only the last range is compared with our tip.
CheckLastHash ==
  /\ pc = "addDeltas"
  /\ todo = {}
  /\ section > WholeRanges
  /\ lastHash = clone.hash
  /\ pc' = "commitAddresses"
  /\ UNCHANGED <<chainVars, db, memoryVars, txn, clone, fetched, at, importVars>>

UnexpectedHash ==
  /\ pc = "addDeltas"
  /\ todo = {}
  /\ section > WholeRanges
  /\ lastHash # clone.hash
  /\ ForgetImport
  /\ EndTask
  /\ UNCHANGED <<chainVars, db, bitcoinTip, fault>>

\* _commitWalletAddresses
ThisAddress == task.addresses[at.delta]

\* Mutant: the last address is left out.
AllButOneImported == at.delta >= Len(task.addresses)

AllImported == at.delta > Len(task.addresses)

ImportAddress ==
  /\ pc = "commitAddresses"
  /\ ~AllImported
  /\ txn' = IF at.delta \in task.places
              THEN PutOwner(txn, task.wallet, ThisAddress)
              ELSE txn
  /\ at' = [at EXCEPT !.delta = @ + 1]
  /\ UNCHANGED <<chainVars, db, memoryVars, pc, clone, fetched, importVars>>

ImportCommit ==
  /\ pc = "commitAddresses"
  /\ AllImported
  /\ db' = PutBlock(txn, clone)
  /\ txn' = Undefined
  /\ pc' = "importSync"
  /\ UNCHANGED <<chainVars, memoryVars, clone, fetched, at, importVars>>

ImportSynced ==
  /\ pc = "importSync"
  /\ walletBlock' = clone
  /\ EndTask
  /\ UNCHANGED <<chainVars, db, bitcoinTip, fault>>

\* env.sync reports an error after the commit.  The block paths end the task
\* with memory as it was; the import aborts its committed transaction.
SyncFails ==
  /\ "sync" \in Faults
  /\ \/ /\ pc \in {"connectSync", "disconnectSync"}
        /\ EndTask
        /\ UNCHANGED <<chainVars, db, memoryVars>>
     \/ /\ pc = "importSync"
        /\ Die("abort of a committed transaction")

----------------------------------------------------------------------------
SyncStep ==
  \/ SyncDone \/ GetBlockHash
  \/ StartConnect \/ NextDelta \/ ConnectOutput \/ ConnectInput
  \/ ConnectFails \/ ConnectCommit \/ ConnectSynced
  \/ StartDisconnect \/ NoDeltasToUndo \/ DisconnectOutput \/ DisconnectInput
  \/ DisconnectFails \/ DisconnectCommit \/ NoPreviousBlock \/ DisconnectSynced

ImportStep ==
  \/ ImportUTXOs \/ TipMoved \/ GetAddressDeltas \/ RangeAboveTip \/ AddDelta
  \/ NextRange \/ CheckLastHash \/ UnexpectedHash \/ ImportAddress
  \/ ImportCommit \/ ImportSynced

Next ==
  \/ \E b \in Block : NewTip(b)
  \/ Sync
  \/ \E w \in Wallet : CreateWallet(w)
  \/ \E s \in Saved : SaveTransaction(s[1], s[2])
  \/ \E r \in Requests : StartImport(r)
  \/ SyncStep \/ ImportStep
  \/ RequestFails \/ SyncFails \/ Crash \/ Restart

Spec == Init /\ [][Next]_vars

\* The process runs on and bitcoind answers; the queue serves a sync task
\* after finitely many others.
FairSpec ==
  /\ Spec
  /\ WF_vars(SyncStep)
  /\ WF_vars(ImportStep)
  /\ SF_vars(Sync)

----------------------------------------------------------------------------
SyncPhases == {"sync", "getBlockDeltas", "connect", "connectSync",
               "disconnect", "disconnectSync"}
ImportPhases == {"getAddressUtxos", "getAddressDeltas", "addDeltas",
                 "commitAddresses", "importSync"}

FaultKind == {"none", "no deltas to undo", "key of a zero output",
              "utxo not found", "MDB_NOTFOUND", "no undo information",
              "previous wallet block not found",
              "abort of a committed transaction"}

Task == [wallet: Wallet, addresses: Seq(Address), places: SUBSET Nat]

\* The state is of the shape the code gives it.
TypeOK ==
  /\ best \in Block
  /\ announced \in Seq(Block)
  /\ db \in Database
  /\ walletBlock \in WalletBlock \cup {Undefined}
  /\ bitcoinTip \in Block
  /\ fault \in FaultKind
  /\ pc \in {"idle", "down"} \cup SyncPhases \cup ImportPhases
  /\ txn \in Database \cup {Undefined}
  /\ clone \in WalletBlock \cup {Undefined}
  /\ fetched \in Block \cup {Undefined}
  /\ at \in [delta: Nat \ {0}, owner: Nat \ {0}]
  /\ task \in Task \cup {Undefined}
  /\ todo \subseteq Nat \X (Block \X Nat)
  /\ section \in Nat
  /\ lastHash \in Block \cup {Undefined}

\* utxos and its two indexes in one database
TablesAgree(d) ==
  d.utxosBySatoshis = d.utxos /\ d.utxos \subseteq d.utxosByHeight

\* An output is listed by amount exactly when it is listed at all, and it is
\* then listed by height too: whatever is undone, redone or imported, a wallet
\* query never misses an output that the bookkeeping table has
\* (_addUTXO, _undoAddUTXO, _removeUTXO, _undoRemoveUTXO).
IndexesAgree ==
  /\ TablesAgree(db)
  /\ txn # Undefined => TablesAgree(txn)

\* addresses and addressesMap in one database
OwnersAgree(d) ==
  \A w \in Wallet, a \in Address :
    <<w, a>> \in d.addresses <=>
      \E k \in DOMAIN d.addressesMap[a] : d.addressesMap[a][k] = w

\* The reverse map that sync reads and the addresses that import reads agree
\* in what is committed: an address of a wallet is always served by sync
\* (_commitWalletAddresses, _filterNewAddresses).
MapAgrees == OwnersAgree(db)

\* No wallet shows an output of an address it does not have.
OutputsAreOwned ==
  \A r \in db.utxosByHeight : <<r.wallet, AddressOf[r.out]>> \in db.addresses

\* The database has the block of the tip, so that a restart would not lose it,
\* unless that block is at least PruneDepth below the last one: blocks keeps
\* the entries of blocks that were undone, pruning counts from the last entry,
\* and after a crash between a commit and its pruning more blocks can be undone
\* than PruneDepth (_connectBlockCommit, _pruneWalletBlocks).
TipPersisted ==
  walletBlock # Undefined =>
    \E b \in db.blocks :
      \/ b.height = walletBlock.height /\ b.hash = walletBlock.hash
      \/ b.height >= walletBlock.height + PruneDepth

\* No exception ends the process: the assertions of the code hold.
NoFault == fault = "none"

\* Every address that a wallet tracks is in the filter that sync applies to the
\* next block ("a bloom filter is kept updated that has all addresses that are
\* being tracked for all wallets", lib/models/block.js).
FilterCovers ==
  (walletBlock # Undefined /\ pc # "importSync") =>
    \A x \in db.addresses : Passes(walletBlock.addressFilter, x[2])

\* The stored blocks up to the tip are the chain that undo walks back.
BlocksLinked ==
  walletBlock # Undefined =>
    \A b, c \in db.blocks :
      c.height = b.height + 1 /\ c.height <= walletBlock.height =>
        Parent[c.hash] = b.hash

\* The last entry of blocks is the tip (README: "a query to determine the
\* current block chain height is a query to the last entry in blocks").
LastBlockIsTip ==
  (pc = "idle" /\ walletBlock # Undefined) =>
    \E b \in db.blocks : IsLastBlock(db, b) /\ b.hash = walletBlock.hash

\* A block goes out of the database only when a block replaces it at its height
\* or when it is at least PruneDepth below the last one; but the entry of the
\* block at height 0 always goes (Math.max in _pruneWalletBlocks).
PruneKeepsDepth ==
  [][\A b \in db.blocks \ db'.blocks :
       \/ b.height = 0
       \/ \E c \in db'.blocks : c.height = b.height
       \/ \E c \in db'.blocks : b.height + PruneDepth <= c.height]_vars

\* An import that commits leaves no saved copy of a transaction it found: the
\* saved copy was made before the wallet had the address.
ImportFlushes ==
  [][db'.addresses # db.addresses =>
       \A e \in DeltasBetween(clone.hash, NewAddresses, 1, clone.height) :
         <<task.wallet, Deltas[e[1]][e[2]].tx>> \notin db'.txs]_vars

\* The wallet ends at the tip of bitcoind (sync "will continously update the
\* block tip of the chain until it matches the bitcoin height").
CatchesUp == <>[](walletBlock # Undefined => walletBlock.hash = best)
=============================================================================
