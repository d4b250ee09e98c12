----------------------------- MODULE WalletView -----------------------------
(***************************************************************************)
(* The writer seen through its commits: which block the committed tables   *)
(* stand for, and the writer as an implementation of WalletLedger.         *)
(***************************************************************************)
EXTENDS WalletWriter

\* The block whose state is committed: memory follows only after env.sync, and
\* a process that starts takes the last entry of blocks.
CommittedTip ==
  IF pc \in {"connectSync", "disconnectSync"} THEN clone.hash
  ELSE IF walletBlock # Undefined THEN walletBlock.hash
  ELSE IF db.blocks = {} THEN Undefined
  ELSE (CHOOSE b \in db.blocks : IsLastBlock(db, b)).hash

Ledger == INSTANCE WalletLedger WITH
            tip <- CommittedTip,
            tracked <- db.addresses,
            utxos <- db.utxos,
            txids <- db.txids,
            balance <- db.balance

\* Every commit of the writer is one step of the ledger: a block is connected
\* or disconnected, or addresses are imported, as a whole and with exactly the
\* outputs, transactions and balances the chain gives the tracked addresses.
ImplementsLedger == Ledger!Spec

\* The same as an invariant: the committed tables are those of the tip.
TablesShowTip ==
  CommittedTip # Undefined =>
    /\ db.utxos = Ledger!OutputsAt(CommittedTip, db.addresses)
    /\ db.txids = Ledger!TxidsAt(CommittedTip, db.addresses)
    /\ db.balance = Ledger!BalanceAt(CommittedTip, db.addresses)

\* What a comment in _connectBlockCommit says of a failing env.sync, that "the method
\* can be reattempted without causing state issues": memory may be a block behind
\* the tables, but they are always those of some block.
TablesShowABlock ==
  CommittedTip # Undefined =>
    \E b \in Block :
      /\ db.utxos = Ledger!OutputsAt(b, db.addresses)
      /\ db.txids = Ledger!TxidsAt(b, db.addresses)
      /\ db.balance = Ledger!BalanceAt(b, db.addresses)

\* Even where outputs are no longer those of the chain, a wallet never has
\* more satoshis in outputs than in its balance, so a balance is never
\* negative: lib/models/wallet.js reads it back only if it is a natural number.
BalanceCoversOutputs ==
  \A w \in Wallet : Ledger!ValueOf(db.utxos, w) <= db.balance[w]
=============================================================================
