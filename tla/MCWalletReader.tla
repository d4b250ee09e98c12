--------------------------- MODULE MCWalletReader ---------------------------
(***************************************************************************)
(* A reader of the wallet with the last key, or of the one before it; both *)
(* have transactions, and a fork replaces the newest block.                *)
(*                                                                         *)
(*    g - a1 - a2     t1 pays p, t2 spends it and pays q;                  *)
(*          |- b2     b2 mines t2 at another place.                        *)
(***************************************************************************)
EXTENDS WalletReader, TLC

MCParent == "g" :> NoBlock @@ "a1" :> "g" @@ "a2" :> "a1" @@ "b2" :> "a1"
MCHeight == "g" :> 0 @@ "a1" :> 1 @@ "a2" :> 2 @@ "b2" :> 2
MCAddressOf == "o1" :> "p" @@ "o2" :> "q"
MCSatoshis == "o1" :> 2 @@ "o2" :> 1

In(t, i, o) == [kind |-> "input", tx |-> t, index |-> i, out |-> o]
Out(t, i, o) == [kind |-> "output", tx |-> t, index |-> i, out |-> o]
T2(i) == <<In("t2", i, "o1"), Out("t2", i, "o2")>>

MCDeltas == "g" :> <<>> @@ "a1" :> <<Out("t1", 0, "o1")>> @@ "a2" :> T2(0) @@ "b2" :> T2(1)

Ask(kind, wallet, limit, until) ==
  [kind |-> kind, wallet |-> wallet, height |-> 0, index |-> 0, limit |-> limit, until |-> until]

LastWallet ==
  {Ask("txids", "w2", 1, Undefined), Ask("transactions", "w2", 2, Undefined),
   Ask("rawtransactions", "w2", 1, 2), Ask("list", "w2", 1, 2),
   Ask("csv", "w2", 2, 1), Ask("utxos", "w2", 1, Undefined), Ask("balance", "w2", 1, Undefined)}

NextWallet == {Ask("txids", "w1", 2, Undefined)}
NextWalletsOutputs == {Ask("utxos", "w1", 1, Undefined)}
LastWalletsTransactions == {Ask("transactions", "w2", 2, Undefined)}
ListOfFirst == {Ask("list", "w1", 2, 2)}

MCWalletRank == "w1" :> 1 @@ "w2" :> 2
MCOutRank == "o1" :> 2 @@ "o2" :> 1
MCImports == {<<"w1", {"q"}>>, <<"w2", {"p"}>>, <<"w2", {"q"}>>}
AtA1 == {"a1"}

\* The tree is one that consensus allows, as the proofs about it assume.
ASSUME TreeAssumption == ValidChain
=============================================================================
