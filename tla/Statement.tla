------------------------------ MODULE Statement ------------------------------
(***************************************************************************)
(* One transaction of a wallet on its way to a statement: the sums a web   *)
(* worker adds to it (_transformRawTransaction), what it is to the wallet  *)
(* (lib/models/transaction.js), and the lines a client writes for it, as   *)
(* a list (lib/client/streams/list.js) or as rows of CSV (csv.js).  An     *)
(* input or output is its amount and whether it is the wallet's.           *)
(***************************************************************************)
EXTENDS Integers, Sequences, FiniteSetsExt

CONSTANTS
  Amount,      \* satoshis of an input or output
  MaxInputs, MaxOutputs,
  NaN,
  NoLine       \* the fee item of a transaction without a fee

\* What a transaction is to the wallet, and the categories of the lines
Type == {"coinbase", "join", "send", "move", "receive", "not related"}
Category == Type \cup {"shared-receive", "shared-send", "shared-equal", "fee"}

ASSUME StatementAssumption ==
  /\ Amount \subseteq Nat /\ 0 \in Amount /\ {MaxInputs, MaxOutputs} \subseteq Nat \ {0}
  /\ NaN \notin Int
  /\ NoLine \notin [category : Category, satoshis : Int \cup {NaN}]

VARIABLES
  raw,      \* what bitcoind tells of the transaction
  as,       \* "list" or "csv"
  bitcoin,  \* showBitcoinAmount
  pc,
  details,  \* inputSatoshis, outputSatoshis, fee and type
  delta,    \* walletDelta
  i,        \* the output the loop is at
  lines

chosen == <<raw, as, bitcoin>>
vars == <<chosen, pc, details, delta, i, lines>>

Coin == [wallet : BOOLEAN, satoshis : Amount]
Coins(max) == UNION {[1..n -> Coin] : n \in 1..max}

Any == Coin
Wallets == {coin \in Coin : coin.wallet}

\* The satoshis of the coins, or lines, at some places, and of the coins counted
Total(coins, places) == MapThenSumSet(LAMBDA n : coins[n].satoshis, places)

Sum(coins, counted) == Total(coins, {n \in DOMAIN coins : coins[n] \in counted})

\* A coinbase has one input, without an amount.
CoinbaseInput == <<[wallet |-> FALSE, satoshis |-> 0]>>

Raw ==
  {t \in [coinbase : BOOLEAN, inputs : Coins(MaxInputs), outputs : Coins(MaxOutputs)] :
     \/ t.coinbase /\ t.inputs = CoinbaseInput
     \/ ~t.coinbase /\ Sum(t.inputs, Any) >= Sum(t.outputs, Any)}

NoDetails == [type |-> "send", fee |-> 0, inputSatoshis |-> 0, outputSatoshis |-> 0]

Init ==
  /\ raw \in Raw
  /\ as \in {"list", "csv"}
  /\ bitcoin \in BOOLEAN
  /\ pc = "transform"
  /\ details = NoDetails
  /\ delta = 0 /\ i = 1 /\ lines = <<>>

----------------------------------------------------------------------------
(* The web worker and the model                                            *)

TransformRawTransaction ==
  /\ pc = "transform"
  /\ details' = [details EXCEPT !.fee =
                   IF raw.coinbase THEN 0 ELSE Sum(raw.inputs, Any) - Sum(raw.outputs, Any)]
  /\ pc' = "details"
  /\ UNCHANGED <<chosen, delta, i, lines>>

Mixed == \E m, n \in DOMAIN raw.inputs : raw.inputs[m].wallet # raw.inputs[n].wallet

\* getInputSatoshis
TypeOfInputs ==
  CASE raw.coinbase -> "coinbase"
    [] ~raw.coinbase /\ Mixed -> "join"
    [] OTHER -> "send"

IsMove(d) ==
  d.type # "coinbase" /\ d.inputSatoshis # 0 /\ d.fee + d.outputSatoshis = d.inputSatoshis

IsReceive(d) ==
  d.type \notin {"coinbase", "join"} /\ d.inputSatoshis < d.outputSatoshis

Classify(d) ==
  CASE d.inputSatoshis = 0 /\ d.outputSatoshis = 0 -> "not related"
    [] IsMove(d) -> "move"
    [] IsReceive(d) -> "receive"
    [] OTHER -> d.type

\* getTransactionDetails, and the delta of either stream
GetTransactionDetails ==
  LET d == [details EXCEPT !.type = TypeOfInputs,
              !.inputSatoshis = IF raw.coinbase THEN 0 ELSE Sum(raw.inputs, Wallets),
              !.outputSatoshis = Sum(raw.outputs, Wallets)]
  IN /\ pc = "details"
     /\ details' = [d EXCEPT !.type = Classify(d)]
     /\ delta' = d.outputSatoshis - d.inputSatoshis
     /\ pc' = as
     /\ UNCHANGED <<chosen, i, lines>>

----------------------------------------------------------------------------
(* The lines                                                               *)

Line(category, satoshis) == [category |-> category, satoshis |-> satoshis]

FormatFeeItem == IF details.fee = 0 THEN NoLine ELSE Line("fee", -details.fee)

JoinTransactionToList ==
  /\ pc = "list" /\ details.type = "join"
  /\ lines' = <<Line(IF delta > 0 THEN "shared-receive"
                     ELSE IF delta < 0 THEN "shared-send" ELSE "shared-equal", delta)>>
  /\ pc' = "done"
  /\ UNCHANGED <<chosen, details, delta, i>>

\* The amount in bitcoin is set where it is not looked for.
MoveTransactionToList ==
  LET moved == IF bitcoin THEN NaN ELSE details.inputSatoshis
  IN /\ pc = "list" /\ details.type = "move"
     /\ lines' = <<Line("receive", moved),
                   Line("send", IF moved = NaN THEN NaN ELSE -moved), FormatFeeItem>>
     /\ pc' = "done"
     /\ UNCHANGED <<chosen, details, delta, i>>

\* A transaction that moves nothing has no rows.
NothingToCSV ==
  /\ pc = "csv" /\ delta = 0 /\ i = 1
  /\ pc' = "done"
  /\ UNCHANGED <<chosen, details, delta, i, lines>>

\* The loop over the outputs, the same in both streams.
Looping ==
  \/ pc = "list" /\ details.type \notin {"join", "move"}
  \/ pc = "csv" /\ (delta # 0 \/ i > 1)

Lesser(m, n) == IF m < n THEN m ELSE n

Received(output) == Lesser(output.satoshis, delta)

\* Mutant: the whole output, whoever paid for it.
SentWhole(output) == output.satoshis

Sent(output) == Lesser(output.satoshis, -delta)

ReceiveOutput ==
  LET output == raw.outputs[i]
  IN /\ Looping /\ i <= Len(raw.outputs)
     /\ delta > 0 /\ output.wallet
     /\ lines' = Append(lines, Line(details.type, Received(output)))
     /\ delta' = delta - Received(output)
     /\ i' = i + 1
     /\ UNCHANGED <<chosen, pc, details>>

SendOutput ==
  LET output == raw.outputs[i]
  IN /\ Looping /\ i <= Len(raw.outputs)
     /\ delta < 0 /\ ~output.wallet
     /\ lines' = Append(lines, Line(details.type, -Sent(output)))
     /\ delta' = delta + Sent(output)
     /\ i' = i + 1
     /\ UNCHANGED <<chosen, pc, details>>

SkipOutput ==
  /\ Looping /\ i <= Len(raw.outputs)
  /\ delta > 0 => ~raw.outputs[i].wallet
  /\ delta < 0 => raw.outputs[i].wallet
  /\ i' = i + 1
  /\ UNCHANGED <<chosen, pc, details, delta, lines>>

FeeOfList ==
  /\ pc = "list" /\ Looping /\ i > Len(raw.outputs)
  /\ lines' = IF details.type = "send" THEN Append(lines, FormatFeeItem) ELSE lines
  /\ pc' = "done"
  /\ UNCHANGED <<chosen, details, delta, i>>

\* Mutant: the whole change of the balance.
WholeDelta == details.outputSatoshis - details.inputSatoshis

\* What is left of the amount sent is taken for the fee.
Remainder == delta

FeeOfCSV ==
  /\ pc = "csv" /\ Looping /\ i > Len(raw.outputs)
  /\ lines' = IF delta < 0 THEN Append(lines, Line("fee", Remainder)) ELSE lines
  /\ pc' = "done"
  /\ UNCHANGED <<chosen, details, delta, i>>

Next ==
  \/ TransformRawTransaction \/ GetTransactionDetails
  \/ JoinTransactionToList \/ MoveTransactionToList \/ NothingToCSV
  \/ ReceiveOutput \/ SendOutput \/ SkipOutput
  \/ FeeOfList \/ FeeOfCSV

Spec == Init /\ [][Next]_vars

----------------------------------------------------------------------------
Written == {n \in DOMAIN lines : lines[n] # NoLine}

\* The lines of a transaction, in either form, add up to what it changes in the
\* balance of the wallet: the wallet's outputs less the wallet's inputs.  Not
\* so a move listed in bitcoin, which has no amounts.
StatementAddsUp ==
  pc = "done" /\ ~(as = "list" /\ bitcoin /\ details.type = "move") =>
    Total(lines, Written) = Sum(raw.outputs, Wallets) - Sum(raw.inputs, Wallets)

\* A line called fee is what the transaction leaves to the miner, and a wallet
\* that alone pays for a transaction with a fee has such a line.  In CSV the
\* fee of a transaction with inputs of others is what is left of the wallet's.
FeeIsTheFee ==
  pc = "done" /\ ~(as = "csv" /\ Mixed) =>
    LET fees == {n \in Written : lines[n].category = "fee"}
        left == Sum(raw.inputs, Any) - Sum(raw.outputs, Any)
    IN /\ \A n \in fees : lines[n].satoshis = -left
       /\ left > 0 /\ details.inputSatoshis > 0 /\ ~Mixed /\ ~raw.coinbase => fees # {}
=============================================================================
