---------------------------- MODULE LedgerTables ----------------------------
(***************************************************************************)
(* What the tables of the wallet database hold when they show the chain    *)
(* that ends in block b for the tracked pairs of a wallet and an address.  *)
(***************************************************************************)
EXTENDS WalletDatabase, FiniteSetsExt

AddressesOf(w, pairs) == {a \in Address : <<w, a>> \in pairs}

\* The unspent outputs of the tracked addresses.
OutputsAt(b, pairs) ==
  UNION {{[wallet |-> w, out |-> u[1], height |-> Height[u[2]]] :
            u \in Unspent(b, AddressesOf(w, pairs))} : w \in Wallet}

\* The transactions that touch them.
TxidsAt(b, pairs) ==
  UNION {{[wallet |-> w, height |-> Height[e[1]],
           index |-> Deltas[e[1]][e[2]].index, tx |-> Deltas[e[1]][e[2]].tx] :
            e \in DeltasBetween(b, AddressesOf(w, pairs), 1, Height[b])} :
          w \in Wallet}

ValueOf(rows, w) ==
  MapThenSumSet(LAMBDA r : Satoshis[r.out], {r \in rows : r.wallet = w})

BalanceAt(b, pairs) == [w \in Wallet |-> ValueOf(OutputsAt(b, pairs), w)]
=============================================================================
