--------------------------- MODULE WalletDatabase ---------------------------
(***************************************************************************)
(* The LMDB tables of the wallet (lib/db.js) and the reads and writes      *)
(* lib/writer-worker.js makes in them.  A table is the set of its rows; a  *)
(* put replaces the row with the same key, and a delete of a key that is   *)
(* not there throws MDB_NOTFOUND.  A database value is either what is      *)
(* committed or the working copy of an open write transaction.             *)
(***************************************************************************)
EXTENDS Chain

CONSTANTS Wallet,
          FalsePositives,  \* addresses that pass every bloom filter
          Undefined        \* the JavaScript undefined

\* A row of utxos, utxosBySatoshis and utxosByHeight.  The keys are the
\* wallet and the outpoint; the wallet, the amount and the outpoint; and the
\* wallet, the height and the outpoint.
UtxoRow == [wallet: Wallet, out: Outpoint, height: Nat]

\* A row of txids, with the key wallet, height, index.
TxidRow == [wallet: Wallet, height: Nat, index: Nat, tx: Txid]

\* A row of blocks, with the key height; "deltas" are the places of the deltas
\* of the block that passed the filter when it was connected.
WalletBlock == [height: Nat, hash: Block, addressFilter: SUBSET Address,
                deltas: (SUBSET Nat) \cup {Undefined},
                spentOutputs: SUBSET UtxoRow]

ASSUME DatabaseAssumption ==
  /\ FalsePositives \subseteq Address
  /\ Undefined \notin WalletBlock
  /\ Undefined \notin Block

Database == [utxos: SUBSET UtxoRow,
             utxosBySatoshis: SUBSET UtxoRow,
             utxosByHeight: SUBSET UtxoRow,
             txids: SUBSET TxidRow,
             balance: [Wallet -> Int],
             wallets: SUBSET Wallet,
             addresses: SUBSET (Wallet \X Address),
             addressesMap: [Address -> Seq(Wallet)],
             txs: SUBSET (Wallet \X Txid),
             blocks: SUBSET WalletBlock]

EmptyDatabase == [utxos |-> {}, utxosBySatoshis |-> {}, utxosByHeight |-> {},
                  txids |-> {}, balance |-> [w \in Wallet |-> 0],
                  wallets |-> {}, addresses |-> {},
                  addressesMap |-> [a \in Address |-> <<>>],
                  txs |-> {}, blocks |-> {}]

----------------------------------------------------------------------------
(* utxos and its two indexes *)

SameOutput(r, s) == r.wallet = s.wallet /\ r.out = s.out

Without(rows, new) == {r \in rows : \A s \in new : ~SameOutput(r, s)}

\* _addUTXO, for a set of outputs
AddUTXOs(d, new) ==
  [d EXCEPT !.utxos = Without(@, new) \cup new,
            !.utxosBySatoshis = Without(@, new) \cup new,
            !.utxosByHeight = @ \cup new]

HasUTXO(rows, row) == \E r \in rows : SameOutput(r, row)

\* The three deletes of one output find their keys.
CanDeleteUTXO(d, row) ==
  /\ HasUTXO(d.utxos, row)
  /\ HasUTXO(d.utxosBySatoshis, row)
  /\ row \in d.utxosByHeight

\* Mutant: one index is forgotten.
DeleteUTXOButOneIndex(d, row) ==
  [d EXCEPT !.utxos = Without(@, {row}), !.utxosByHeight = @ \ {row}]

DeleteUTXO(d, row) ==
  [d EXCEPT !.utxos = Without(@, {row}),
            !.utxosBySatoshis = Without(@, {row}),
            !.utxosByHeight = @ \ {row}]

----------------------------------------------------------------------------
(* txids, balances, blocks *)

SameTxidKey(r, s) ==
  r.wallet = s.wallet /\ r.height = s.height /\ r.index = s.index

PutTxid(d, row) ==
  [d EXCEPT !.txids = {r \in @ : ~SameTxidKey(r, row)} \cup {row}]

\* The error of a missing key is caught here.
DeleteTxid(d, row) ==
  [d EXCEPT !.txids = {r \in @ : ~SameTxidKey(r, row)}]

AddBalance(d, w, satoshis) ==
  [d EXCEPT !.balance = [d.balance EXCEPT ![w] = @ + satoshis]]

\* Mutant: the put does not overwrite.
PutBlockOnce(d, block) ==
  IF \E b \in d.blocks : b.height = block.height THEN d
  ELSE [d EXCEPT !.blocks = @ \cup {block}]

PutBlock(d, block) ==
  [d EXCEPT !.blocks = {b \in @ : b.height # block.height} \cup {block}]

\* The last entry of blocks: the largest key.
IsLastBlock(d, block) ==
  block \in d.blocks /\ \A b \in d.blocks : b.height <= block.height

Larger(m, n) == IF m >= n THEN m ELSE n

\* Mutant: one block too many goes.
PruneOneMore(d, depth) ==
  [d EXCEPT !.blocks =
     {b \in @ : \E last \in @ :
        IsLastBlock(d, last) /\ b.height > Larger(0, last.height - depth + 1)}]

\* Mutant: the new blocks go.
PruneNewest(d, depth) ==
  [d EXCEPT !.blocks =
     {b \in @ : \E last \in @ :
        IsLastBlock(d, last) /\ b.height <= Larger(0, last.height - depth)}]

\* _pruneWalletBlocks: the blocks it leaves.
Prune(d, depth) ==
  [d EXCEPT !.blocks =
     {b \in @ : \E last \in @ :
        IsLastBlock(d, last) /\ b.height > Larger(0, last.height - depth)}]

----------------------------------------------------------------------------
(* addresses, addressesMap, txs *)

\* Mutant: the new owner replaces the others.
PutOnlyOwner(d, w, a) ==
  [d EXCEPT !.addresses = @ \cup {<<w, a>>},
            !.addressesMap = [d.addressesMap EXCEPT ![a] = <<w>>]]

\* An owner is inserted again when it is there already.
PutOwner(d, w, a) ==
  [d EXCEPT !.addresses = @ \cup {<<w, a>>},
            !.addressesMap = [d.addressesMap EXCEPT ![a] = Append(@, w)]]

\* Mutant: saved transactions stay.
FlushNothing(d, w, tx) == [d EXCEPT !.txs = @ \cup {}]

\* The error of a missing key is caught here, too.
FlushSaved(d, w, tx) == [d EXCEPT !.txs = @ \ {<<w, tx>>}]

----------------------------------------------------------------------------
(* The bloom filter *)

Passes(filter, a) == a \in filter \cup FalsePositives

\* BlockFilter.filterDeltas
FilterDeltas(filter, b) ==
  {i \in DOMAIN Deltas[b] : Passes(filter, AddressOfDelta(Deltas[b][i]))}
=============================================================================
