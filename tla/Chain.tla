------------------------------- MODULE Chain -------------------------------
(***************************************************************************)
(* The block tree a bitcoind node may show the wallet, and the answers its *)
(* address index gives.  bitcoind is not part of the repository: what is   *)
(* here is what lib/writer-worker.js uses of the replies of getblockhash,  *)
(* getblockdeltas, getaddressutxos and getaddressdeltas.                   *)
(*                                                                         *)
(* A delta is one transparent input or output of a transaction, in the     *)
(* order in which the code walks a block: transaction after transaction,   *)
(* the inputs of a transaction before its outputs.  An outpoint stands for *)
(* a (txid, index) pair, so it fixes the address and the amount.           *)
(***************************************************************************)
EXTENDS Integers, Sequences

CONSTANTS Block,      \* block hashes
          NoBlock,    \* the parent of the root
          Parent,     \* previousblockhash
          Height,
          Outpoint,
          Address,
          AddressOf,  \* the address an output pays
          Satoshis,   \* the amount of an output
          Txid,
          Deltas      \* the deltas of a block

Delta == [kind: {"input", "output"}, tx: Txid, index: Nat, out: Outpoint]

ASSUME ChainAssumption ==
  /\ NoBlock \notin Block
  /\ Parent \in [Block -> Block \cup {NoBlock}]
  /\ Height \in [Block -> Nat]
  /\ \A b \in Block :
       Height[b] = IF Parent[b] = NoBlock THEN 0 ELSE Height[Parent[b]] + 1
  /\ AddressOf \in [Outpoint -> Address]
  /\ Satoshis \in [Outpoint -> Nat]
  /\ Deltas \in [Block -> Seq(Delta)]

\* delta.satoshis: negative for an input
SatoshisOf(d) == IF d.kind = "output" THEN Satoshis[d.out] ELSE -Satoshis[d.out]

AddressOfDelta(d) == AddressOf[d.out]

\* The chain that ends in b, as a set of blocks.
Ancestors[b \in Block] ==
  IF Parent[b] = NoBlock THEN {b} ELSE {b} \cup Ancestors[Parent[b]]

ChainOf(b) == {c \in Block : c \in Ancestors[b]}

----------------------------------------------------------------------------
(* What the chain that ends in b says of outputs.                          *)

Created(b) ==
  {o \in Outpoint : \E i \in DOMAIN Deltas[b] :
                      Deltas[b][i].kind = "output" /\ Deltas[b][i].out = o}

Spent(b) ==
  {o \in Outpoint : \E i \in DOMAIN Deltas[b] :
                      Deltas[b][i].kind = "input" /\ Deltas[b][i].out = o}

\* The unspent outputs at tip b that pay an address in A, each with the block
\* that created it (getaddressutxos).
Unspent(b, A) ==
  {u \in Outpoint \X ChainOf(b) :
     /\ AddressOf[u[1]] \in A
     /\ u[1] \in Created(u[2])
     /\ \A c \in ChainOf(b) : u[1] \notin Spent(c)}

\* The places <<block, i>> of the deltas of the addresses in A, in the blocks of
\* the chain that ends in b with a height in first..last (getaddressdeltas).
DeltasBetween(b, A, first, last) ==
  {e \in UNION {{c} \X DOMAIN Deltas[c] : c \in ChainOf(b)} :
     Height[e[1]] \in first .. last /\ AddressOfDelta(Deltas[e[1]][e[2]]) \in A}
----------------------------------------------------------------------------
(* The places of the deltas of a chain, and what consensus says of them.   *)

\* The delta at place e = <<block, i>>.
DeltaAt(e) == Deltas[e[1]][e[2]]

PlacesOf(b) == UNION {{c} \X DOMAIN Deltas[c] : c \in ChainOf(b)}

\* Place e comes before place f in the chain of f.
Precedes(e, f) == e \in PlacesOf(f[1]) /\ (e[1] = f[1] => e[2] < f[2])

\* Along a chain an output is created once and spent at most once, after it was
\* created; the index of a transaction in its block is its own; and no output
\* of the first block is in the address index or can be spent.
ValidChain ==
  /\ \A b \in Block : Parent[b] = NoBlock => Deltas[b] = <<>>
  /\ \A b \in Block : \A e, f \in PlacesOf(b) :
       DeltaAt(e).kind = DeltaAt(f).kind /\ DeltaAt(e).out = DeltaAt(f).out => e = f
  /\ \A b \in Block : \A f \in PlacesOf(b) :
       DeltaAt(f).kind = "input" =>
         \E e \in PlacesOf(b) :
           Precedes(e, f) /\ DeltaAt(e).kind = "output" /\ DeltaAt(e).out = DeltaAt(f).out
  /\ \A b \in Block : \A i, j \in DOMAIN Deltas[b] :
       Deltas[b][i].index = Deltas[b][j].index => Deltas[b][i].tx = Deltas[b][j].tx

\* No output is of no satoshis.
NoZeroOutputs ==
  \A b \in Block : \A i \in DOMAIN Deltas[b] :
    Deltas[b][i].kind = "output" => Satoshis[Deltas[b][i].out] > 0
=============================================================================
