---------------------------- MODULE WalletLedger ----------------------------
(***************************************************************************)
(* What the wallet database promises (README, "How does wallet             *)
(* synchronization work?"): at every commit the outputs, transactions and  *)
(* balance of a wallet are exactly those its addresses have in the chain   *)
(* that ends in the wallet's tip.  The tip moves one block at a time, and  *)
(* an import adds addresses of one wallet with their whole history.        *)
(***************************************************************************)
EXTENDS LedgerTables

VARIABLES tip, tracked, utxos, txids, balance

ledger == <<tip, tracked, utxos, txids, balance>>

ShowsChain ==
  /\ utxos = OutputsAt(tip, tracked)
  /\ txids = TxidsAt(tip, tracked)
  /\ balance = BalanceAt(tip, tracked)

Init ==
  /\ tip = Undefined
  /\ tracked = {}
  /\ utxos = {}
  /\ txids = {}
  /\ balance = [w \in Wallet |-> 0]

Begin(b) == tip = Undefined /\ tip' = b /\ UNCHANGED tracked

Extend(b) == tip # Undefined /\ Parent[b] = tip /\ tip' = b /\ UNCHANGED tracked

Rewind ==
  /\ tip # Undefined
  /\ Parent[tip] # NoBlock
  /\ tip' = Parent[tip]
  /\ UNCHANGED tracked

Track(w, added) ==
  /\ tip # Undefined
  /\ tracked' = tracked \cup {<<w, a>> : a \in added}
  /\ tracked' # tracked
  /\ UNCHANGED tip

Next ==
  /\ \/ \E b \in Block : Begin(b) \/ Extend(b)
     \/ Rewind
     \/ \E w \in Wallet, added \in SUBSET Address : Track(w, added)
  /\ ShowsChain'

Spec == Init /\ [][Next]_ledger
=============================================================================
