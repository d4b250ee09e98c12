--------------------------- MODULE MCWalletWriter ---------------------------
(***************************************************************************)
(* Small block trees and import requests for the writer.                   *)
(*                                                                         *)
(*    g - a1 - a2 - a3 - a4           t1 .. t7 pay p and q (and x, which   *)
(*               |- b3 - b4 - b5      no wallet has); b3 .. b5 mine the    *)
(*               |- c3 - c4           transactions of a3 and a4 later, c3  *)
(*                    |- z4           mines both, one spending the other;  *)
(*                                    z4 has an output of no satoshis.     *)
(***************************************************************************)
EXTENDS WalletView, TLC

Line == {"g", "a1", "a2", "c3", "c4"}
Fork == {"g", "a1", "a2", "a3", "a4", "b3", "b4", "b5"}
ShortFork == {"g", "a1", "a2", "a3", "b3", "b4"}
Tree == {"g", "a1", "a2", "c3", "c4", "z4", "b3", "b4", "b5"}
SpendFork == {"g", "a1", "a2", "c3", "b3", "b4"}
ZeroLine == {"g", "a1", "a2", "c3", "z4"}

MCParent ==
  LET p == "g" :> NoBlock @@ "a1" :> "g" @@ "a2" :> "a1" @@ "a3" :> "a2" @@
           "a4" :> "a3" @@ "b3" :> "a2" @@ "b4" :> "b3" @@ "b5" :> "b4" @@
           "c3" :> "a2" @@ "c4" :> "c3" @@ "z4" :> "c3"
  IN [b \in Block |-> p[b]]

MCHeight ==
  LET h == "g" :> 0 @@ "a1" :> 1 @@ "a2" :> 2 @@ "a3" :> 3 @@ "a4" :> 4 @@
           "b3" :> 3 @@ "b4" :> 4 @@ "b5" :> 5 @@ "c3" :> 3 @@ "c4" :> 4 @@
           "z4" :> 4
  IN [b \in Block |-> h[b]]

MCOutpoint == {"o1", "o2", "o3", "o4", "o5", "o6", "o7", "o8"}
MCAddress == {"p", "q", "x"}
MCAddressOf == "o1" :> "p" @@ "o2" :> "q" @@ "o3" :> "q" @@ "o4" :> "p" @@
               "o5" :> "q" @@ "o6" :> "q" @@ "o7" :> "x" @@ "o8" :> "q"
MCSatoshis == "o1" :> 3 @@ "o2" :> 2 @@ "o3" :> 2 @@ "o4" :> 1 @@
              "o5" :> 1 @@ "o6" :> 4 @@ "o7" :> 5 @@ "o8" :> 0
MCTxid == {"t1", "t2", "t3", "t4", "t5", "t7", "t8"}

In(t, i, o) == [kind |-> "input", tx |-> t, index |-> i, out |-> o]
Out(t, i, o) == [kind |-> "output", tx |-> t, index |-> i, out |-> o]
T3(i) == <<In("t3", i, "o1"), Out("t3", i, "o3"), Out("t3", i, "o4")>>
T4(i) == <<In("t4", i, "o4"), Out("t4", i, "o5")>>

MCDeltas ==
  LET d == "g" :> <<>> @@
           "a1" :> <<Out("t1", 0, "o1")>> @@
           "a2" :> <<Out("t2", 0, "o2")>> @@
           "a3" :> T3(0) \o <<Out("t7", 1, "o7")>> @@
           "a4" :> T4(0) @@
           "b3" :> <<Out("t5", 0, "o6")>> @@
           "b4" :> <<Out("t7", 0, "o7")>> \o T3(1) @@
           "b5" :> T4(0) @@
           "c3" :> T3(0) \o T4(1) @@
           "c4" :> <<Out("t5", 0, "o6"), Out("t7", 1, "o7")>> @@
           "z4" :> <<Out("t8", 0, "o8")>>
  IN [b \in Block |-> d[b]]

ImportP == [wallet |-> "w1", addresses |-> <<"p">>]
ImportPQ == [wallet |-> "w2", addresses |-> <<"p", "q">>]
ImportPTwice == [wallet |-> "w1", addresses |-> <<"p", "p">>]

MCWallet == {"w1", "w2"}
OneWallet == {"w1"}
TwoRequests == {ImportP, ImportPQ}
OneRequest == {ImportP}
RepeatedAddress == {ImportPTwice}
NothingSaved == {}
SaveT3 == {<<"w1", "t3">>}
AtA2 == {"a2"}
EarlyTips == {"a1", "a2", "c3"}
OnlyX == {"x"}
None == {}
CrashAndRequest == {"crash", "rpc"}
EveryFault == {"crash", "rpc", "sync"}
OnlySync == {"sync"}
OnlyCrash == {"crash"}
OnlyRequest == {"rpc"}

\* Every tree is one that bitcoind can have; but for z4, no output is of no satoshis.
ASSUME TreeAssumption ==
  ValidChain /\ ("z4" \notin Block => NoZeroOutputs)

\* Bounds the runs in which a block may be applied again and again.
BalanceBound == \A w \in Wallet : db.balance[w] <= 7
=============================================================================
