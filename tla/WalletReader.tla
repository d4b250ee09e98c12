----------------------------- MODULE WalletReader -----------------------------
(***************************************************************************)
(* What a web worker reads (lib/web-workers.js) and how a client puts the  *)
(* pages together (lib/client/streams), while the writer, here only what   *)
(* WalletLedger promises of it, moves the tip and imports addresses.       *)
(* A page is read in one LMDB snapshot; detailed transactions are taken    *)
(* from the copies saved there or from bitcoind, and saved by the writer.  *)
(* The requests themselves are in Requests.                                *)
(***************************************************************************)
EXTENDS LedgerTables, SequencesExt

CONSTANTS
  Reader,      \* clients
  Asks,        \* what they may ask for
  WalletRank,  \* byte order of wallet ids
  OutRank,     \* byte order of outpoints
  MaxIndex,    \* MAX_INT
  UtxoLimit,   \* 10
  MaxReaders,  \* maxReaders of the environment
  MaxRows,     \* bound: rows after which a client forgets what comes
  FirstTips,   \* bound: tips at which the first wallet is made
  Imports,     \* bound: imports that are asked for
  NoEnd        \* a result without "end"

Detailed == {"transactions", "list", "csv"}
Paged == Detailed \cup {"txids", "rawtransactions"}
SendsEnd == {"rawtransactions", "list"}

ASSUME ReaderAssumption ==
  /\ IsFiniteSet(Reader)
  /\ Asks \subseteq [kind : Paged \cup {"utxos", "balance"}, wallet : Wallet,
                     height : Nat, index : Nat, limit : Nat \ {0},
                     until : Nat \cup {Undefined}]
  /\ WalletRank \in [Wallet -> Nat] /\ OutRank \in [Outpoint -> Nat]
  /\ \A v, w \in Wallet : WalletRank[v] = WalletRank[w] => v = w
  /\ \A o, q \in Outpoint : OutRank[o] = OutRank[q] => o = q
  /\ MaxIndex \in Nat /\ UtxoLimit \in Nat \ {0} /\ MaxReaders \in Nat \ {0}
  /\ \A b \in Block : \A i \in DOMAIN Deltas[b] : Deltas[b][i].index <= MaxIndex
  /\ MaxRows \in Nat /\ FirstTips \subseteq Block
  /\ Imports \subseteq Wallet \X SUBSET Address
  /\ NoEnd \notin [height : Nat, index : Nat]

VARIABLES
  tip, tracked, utxos, txids, balance,   \* the ledger
  made,    \* wallets
  saved,   \* the table txs: copies of transactions
  stream,  \* what each client reads
  open,    \* read transactions in use
  lost     \* a request has left one behind

Ledger == INSTANCE WalletLedger
ledger == <<tip, tracked, utxos, txids, balance>>
vars == <<ledger, made, saved, stream, open, lost>>

Idle == [stage |-> "idle"]
At(c, stage) == stream[c].stage = stage
Asking(c, kinds) == At(c, "asked") /\ stream[c].ask.kind \in kinds

Start(ask) ==
  [stage |-> "ask", ask |-> ask, position |-> [height |-> ask.height, index |-> ask.index],
   last |-> NoEnd, todo |-> <<>>, page |-> <<>>, end |-> NoEnd,
   snapshot |-> Undefined, raced |-> FALSE, got |-> <<>>, begun |-> FALSE, owed |-> {}]

Become(c, s) == stream' = [stream EXCEPT ![c] = s]
Fail(c) == Become(c, [Start(stream[c].ask) EXCEPT !.stage = "failed"])
GoTo(c, stage) == Become(c, [stream[c] EXCEPT !.stage = stage])

----------------------------------------------------------------------------
(* The writer                                                              *)

AddressesIn(tx) ==
  {AddressOfDelta(d) : d \in {e \in UNION {ToSet(Deltas[b]) : b \in Block} : e.tx = tx}}

\* The addresses a transaction shows as those of the wallet.
Marks(w, tx, pairs) == AddressesOf(w, pairs) \cap AddressesIn(tx)

SameCopy(s, w, tx) == s.wallet = w /\ s.tx = tx

\* A stream is owed only what stays in the wallet.
StillOwed(rows) ==
  [c \in Reader |->
     IF At(c, "idle") THEN Idle ELSE [stream[c] EXCEPT !.owed = @ \cap rows]]

\* The writer commits: the tables show the chain, as the ledger promises.
Commit ==
  /\ utxos' = OutputsAt(tip', tracked')
  /\ txids' = TxidsAt(tip', tracked')
  /\ balance' = [w \in Wallet |-> ValueOf(utxos', w)]
  /\ UNCHANGED <<open, lost>>

CreateWallet(w) ==
  /\ w \notin made
  /\ made' = made \cup {w}
  /\ \/ \E b \in FirstTips : Ledger!Begin(b) /\ Commit
     \/ tip # Undefined /\ UNCHANGED ledger
  /\ UNCHANGED <<saved, stream, open, lost>>

ConnectBlock ==
  /\ \E b \in Block : Ledger!Extend(b)
  /\ Commit /\ UNCHANGED <<made, saved>>
  /\ stream' = StillOwed(txids' \cup utxos')

Mined(b) == {Deltas[b][i].tx : i \in DOMAIN Deltas[b]}
Saving(c) == IF At(c, "saving") THEN {Head(stream[c].todo).tx} ELSE {}

\* No block is undone that is below safeConfirmations.
DisconnectTip ==
  /\ Ledger!Rewind
  /\ \A s \in saved : s.tx \notin Mined(tip)
  /\ \A c \in Reader : Saving(c) \cap Mined(tip) = {}
  /\ Commit /\ UNCHANGED <<made, saved>>
  /\ stream' = StillOwed(txids' \cup utxos')

\* Mutant: the copies stay.
CopiesKept(w, new) == saved

\* The import takes the copies that show its addresses.
CopiesLeft(w, new) ==
  {s \in saved : ~(s.wallet = w /\ AddressesIn(s.tx) \cap new # {})}

ImportAddresses(w, added) ==
  /\ w \in made
  /\ Ledger!Track(w, added)
  /\ Commit /\ UNCHANGED made
  /\ saved' = CopiesLeft(w, {a \in added : <<w, a>> \notin tracked})
  /\ stream' = [c \in Reader |->
                  IF stream[c].stage \in {"page", "saving"} /\ stream[c].ask.wallet = w
                  THEN [stream[c] EXCEPT !.raced = TRUE] ELSE stream[c]]

----------------------------------------------------------------------------
(* The read of a page                                                      *)

\* isRangeMoreThan
More(p, q) == p.height > q.height \/ (p.height = q.height /\ p.index > q.index)

\* The byte order of txids, that of WalletTxid.getKey.
KeyBefore(r, s) ==
  \/ WalletRank[r.wallet] < WalletRank[s.wallet]
  \/ WalletRank[r.wallet] = WalletRank[s.wallet] /\ More(s, r)

\* The pairs of rows of which the first is before the other in the table.
KeyOrder(rows) == {p \in rows \X rows : KeyBefore(p[1], p[2])}

\* What a cursor passes: the rows of a table, each after those before it.
InOrder(rows, order) ==
  CHOOSE q \in [1 .. Cardinality(rows) -> rows] :
    \A i, j \in DOMAIN q : i < j => <<q[i], q[j]>> \in order

\* setEnd
After(p) ==
  IF p.index = MaxIndex THEN [height |-> p.height + 1, index |-> 0]
  ELSE [height |-> p.height, index |-> p.index + 1]

\* Mutant: the next page begins with the last row of this one.
LatestTxidsAgain(w, from, limit, last) ==
  LET rows == {r \in txids : r.wallet = w /\ ~More(from, r) /\ ~More(r, last)}
      q == InOrder(rows, KeyOrder(rows))
      n == IF Len(q) < limit THEN Len(q) ELSE limit
  IN [rows |-> SubSeq(q, 1, n),
      end |-> IF q = <<>> THEN NoEnd ELSE [height |-> q[n].height, index |-> q[n].index]]

\* Mutant: the row that ends the page is skipped.
LatestTxidsSkipping(w, from, limit, last) ==
  LET rows == {r \in txids : r.wallet = w /\ ~More(from, r) /\ ~More(r, last)}
      q == InOrder(rows, KeyOrder(rows))
      n == IF Len(q) < limit THEN Len(q) ELSE limit
  IN [rows |-> SubSeq(q, 1, n),
      end |-> IF Len(q) <= n THEN NoEnd ELSE After(q[n + 1])]

\* _getLatestTxids: the cursor starts at the key and stops at the limit, past the
\* end, or where height and index do not grow: at the rows of another wallet or
\* at the last row, which it reads twice.
LatestTxids(w, from, limit, last) ==
  LET start == [wallet |-> w, height |-> from.height, index |-> from.index]
      rows == {r \in txids : ~KeyBefore(r, start)}
      q == InOrder(rows, KeyOrder(rows))
      Past(i) == More(q[i], last)
      Looped(i) == i > 1 /\ ~More(q[i], q[i - 1])
      stops == {i \in DOMAIN q : Past(i) \/ Looped(i) \/ i = limit}
      at == IF stops = {} THEN Len(q) ELSE Min(stops)
  IN IF q = <<>> THEN [rows |-> <<>>, end |-> NoEnd]
     ELSE [rows |-> SubSeq(q, 1, IF Past(at) \/ Looped(at) THEN at - 1 ELSE at),
           end |-> IF More(After(q[at]), last) THEN NoEnd ELSE After(q[at])]

OutputBefore(r, s) ==
  \/ WalletRank[r.wallet] < WalletRank[s.wallet]
  \/ r.wallet = s.wallet /\ OutRank[r.out] < OutRank[s.out]

OutputOrder(rows) == {p \in rows \X rows : OutputBefore(p[1], p[2])}

\* getWalletUTXOs: the cursor stops only at the limit.
FirstOutputs(w) ==
  LET rows == {r \in utxos : WalletRank[r.wallet] >= WalletRank[w]}
      q == InOrder(rows, OutputOrder(rows))
  IN SubSeq(q, 1, IF Len(q) < UtxoLimit THEN Len(q) ELSE UtxoLimit)

Open(c, ask) ==
  /\ At(c, "idle") /\ tip # Undefined
  /\ Become(c, Start(ask))
  /\ UNCHANGED <<ledger, made, saved, open, lost>>

\* _read: the next request arrives, and ends at the worker's height or at its own.
Request(c) ==
  LET ask == stream[c].ask
      hasEnd == ask.kind \in SendsEnd /\ ask.until # Undefined
      until == IF hasEnd THEN ask.until ELSE Height[tip]
  IN /\ At(c, "ask")
     /\ Become(c, [stream[c] EXCEPT !.stage = "asked",
                      !.last = [height |-> until, index |-> MaxIndex]])
     /\ UNCHANGED <<ledger, made, saved, open, lost>>

\* beginTxn throws where all reader slots are taken.
CanBegin == open < MaxReaders

NoSlot(c) ==
  /\ At(c, "asked") /\ ~CanBegin
  /\ Fail(c)
  /\ UNCHANGED <<ledger, made, saved, open, lost>>

\* What the client must get, if it stays there: from where the first page starts.
Owed(s) ==
  IF s.begun THEN s.owed
  ELSE {r \in txids : r.wallet = s.ask.wallet /\ ~More(s.position, r) /\ ~More(r, s.last)}

PageOf(s) ==
  LET page == LatestTxids(s.ask.wallet, s.position, s.ask.limit, s.last)
  IN [s EXCEPT !.stage = "page", !.last = NoEnd,
               !.page = page.rows, !.todo = page.rows, !.end = page.end,
               !.snapshot = [tracked |-> tracked, saved |-> saved], !.raced = FALSE,
               !.begun = TRUE, !.owed = Owed(s)]

GetWalletTxids(c) ==
  /\ Asking(c, {"txids"}) /\ CanBegin
  /\ Become(c, [PageOf(stream[c]) EXCEPT !.stage = "reply", !.snapshot = Undefined, !.raced = FALSE])
  /\ UNCHANGED <<ledger, made, saved, open, lost>>

\* getWalletTransactions and getWalletRawTransactions
GetWalletTransactions(c) ==
  /\ Asking(c, Paged \ {"txids"}) /\ CanBegin
  /\ \/ /\ stream[c].ask.wallet \notin made
        /\ Fail(c)
        /\ UNCHANGED open
     \/ /\ stream[c].ask.wallet \in made
        /\ Become(c, PageOf(stream[c]))
        /\ open' = open + 1
  /\ UNCHANGED <<ledger, made, saved, lost>>

\* The read transaction is not aborted.
GetWalletUTXOs(c) ==
  LET s == stream[c]
  IN /\ Asking(c, {"utxos"}) /\ CanBegin
     /\ open' = open + 1 /\ lost' = TRUE
     /\ Become(c, [s EXCEPT !.stage = "done", !.got = FirstOutputs(s.ask.wallet),
                      !.owed = {r \in utxos : r.wallet = s.ask.wallet}])
     /\ UNCHANGED <<ledger, made, saved>>

GetBalance(c) ==
  /\ Asking(c, {"balance"}) /\ CanBegin
  /\ \/ stream[c].ask.wallet \notin made /\ Fail(c)
     \/ /\ stream[c].ask.wallet \in made
        /\ Become(c, [stream[c] EXCEPT !.stage = "done", !.got = <<balance[stream[c].ask.wallet]>>])
  /\ UNCHANGED <<ledger, made, saved, open, lost>>

----------------------------------------------------------------------------
(* The transactions of a page, one after the other                         *)

HasCopy(s, tx) == \E copy \in s.snapshot.saved : SameCopy(copy, s.ask.wallet, tx)
NextItem(s) == [s EXCEPT !.stage = "page", !.todo = Tail(@)]
Importing(c, kinds) == At(c, "page") /\ stream[c].todo # <<>> /\ stream[c].ask.kind \in kinds

ReadCopy(c) ==
  /\ Importing(c, Detailed) /\ HasCopy(stream[c], Head(stream[c].todo).tx)
  /\ Become(c, NextItem(stream[c]))
  /\ UNCHANGED <<ledger, made, saved, open, lost>>

\* bitcoind answers: the transaction has enough confirmations to be saved, or not.
ImportTransaction(c) ==
  /\ Importing(c, Detailed) /\ ~HasCopy(stream[c], Head(stream[c].todo).tx)
  /\ \/ GoTo(c, "saving")
     \/ Become(c, NextItem(stream[c]))
  /\ UNCHANGED <<ledger, made, saved, open, lost>>

\* _transformRawTransaction, in the snapshot
TransformRawTransaction(s, tx) ==
  [wallet |-> s.ask.wallet, tx |-> tx,
   marks |-> Marks(s.ask.wallet, tx, s.snapshot.tracked), raced |-> s.raced]

SaveTransaction(c) ==
  LET s == stream[c]
      tx == Head(s.todo).tx
  IN /\ At(c, "saving")
     /\ saved' = {r \in saved : ~SameCopy(r, s.ask.wallet, tx)}
                   \cup {TransformRawTransaction(s, tx)}
     /\ Become(c, NextItem(s))
     /\ UNCHANGED <<ledger, made, open, lost>>

GetRawTransaction(c) ==
  /\ Importing(c, {"rawtransactions"})
  /\ Become(c, NextItem(stream[c]))
  /\ UNCHANGED <<ledger, made, saved, open, lost>>

\* Mutant: no abort.
NotAborted == open

Aborted == open - 1

\* bitcoind or the writer answers with an error.
TransactionFails(c) ==
  /\ Importing(c, Detailed) \/ At(c, "saving")
  /\ Fail(c)
  /\ open' = Aborted
  /\ UNCHANGED <<ledger, made, saved, lost>>

\* The callback of the endpoint is called, that of mapSeries is not.
RawTransactionFails(c) ==
  /\ Importing(c, {"rawtransactions"})
  /\ Fail(c)
  /\ lost' = TRUE
  /\ UNCHANGED <<ledger, made, saved, open>>

PageDone(c) ==
  /\ At(c, "page") /\ stream[c].todo = <<>>
  /\ Become(c, [stream[c] EXCEPT !.stage = "reply", !.snapshot = Undefined, !.raced = FALSE])
  /\ open' = Aborted
  /\ UNCHANGED <<ledger, made, saved, lost>>

----------------------------------------------------------------------------
(* The client                                                              *)

Receive(c, kinds) ==
  At(c, "reply") /\ stream[c].ask.kind \in kinds /\ UNCHANGED <<ledger, made, saved, open, lost>>

Took(s, rows) ==
  [s EXCEPT !.got = IF Len(@) < MaxRows THEN @ \o rows ELSE @, !.page = <<>>]
Ended(s) == [s EXCEPT !.stage = "done"]
Continued(s) == [s EXCEPT !.stage = "ask", !.position = s.end, !.end = NoEnd]

\* TxidsStream, TransactionsStream, RawTransactionsStream
ReadObjects(c) ==
  LET s == stream[c]
  IN /\ Receive(c, {"txids", "transactions", "rawtransactions"})
     /\ \/ s.end = NoEnd /\ Become(c, Ended(Took(s, s.page)))
        \/ s.end # NoEnd /\ Become(c, Continued(Took(s, s.page)))

\* TransactionsListStream: a position that does not change throws.
ReadList(c) ==
  LET s == stream[c]
  IN /\ Receive(c, {"list"})
     /\ Become(c, CASE s.end = NoEnd -> Ended(Took(s, s.page))
                    [] s.end = s.position -> [Start(s.ask) EXCEPT !.stage = "failed"]
                    [] OTHER -> Continued(Took(s, s.page)))

\* The rows before the first one that is not above "end".
RowsAbove(rows, until) ==
  LET below == {i \in DOMAIN rows : until # Undefined /\ rows[i].height <= until}
  IN SubSeq(rows, 1, IF below = {} THEN Len(rows) ELSE Min(below) - 1)

\* TransactionsCSVStream: a stream of bytes that is given none is not read again.
\* The rows of transactions that move nothing are none.
ReadCSV(c) ==
  LET s == stream[c]
      rows == RowsAbove(s.page, s.ask.until)
      over == \/ s.end = NoEnd
              \/ rows # s.page
              \/ s.ask.until # Undefined /\ s.end.height <= s.ask.until
  IN /\ Receive(c, {"csv"})
     /\ \E blank \in BOOLEAN :
          /\ rows = <<>> \/ s.end = s.position => blank
          /\ Become(c, CASE blank -> [Took(s, rows) EXCEPT !.stage = "stalled"]
                         [] ~blank /\ over -> Ended(Took(s, rows))
                         [] OTHER -> Continued(Took(s, rows)))

Close(c) ==
  /\ stream[c].stage \in {"done", "failed", "stalled"}
  /\ Become(c, Idle)
  /\ UNCHANGED <<ledger, made, saved, open, lost>>

Init ==
  /\ Ledger!Init
  /\ made = {} /\ saved = {}
  /\ stream = [c \in Reader |-> Idle]
  /\ open = 0 /\ lost = FALSE

Writer ==
  \/ \E w \in Wallet : CreateWallet(w)
  \/ ConnectBlock
  \/ DisconnectTip
  \/ \E i \in Imports : ImportAddresses(i[1], i[2])

Work(c) ==
  \/ Request(c) \/ NoSlot(c)
  \/ GetWalletTxids(c) \/ GetWalletTransactions(c) \/ GetWalletUTXOs(c) \/ GetBalance(c)
  \/ ReadCopy(c) \/ ImportTransaction(c) \/ SaveTransaction(c) \/ GetRawTransaction(c)
  \/ TransactionFails(c) \/ RawTransactionFails(c) \/ PageDone(c)
  \/ ReadObjects(c) \/ ReadList(c) \/ ReadCSV(c)

Next ==
  \/ Writer
  \/ \E c \in Reader : Work(c) \/ Close(c) \/ \E ask \in Asks : Open(c, ask)

\* A request that is under way goes on: callbacks are called, and a call that is
\* not answered ends in an error (Requests, EveryCallReturns).
Spec == Init /\ [][Next]_vars /\ \A c \in Reader : WF_vars(Work(c))

----------------------------------------------------------------------------
Rows == (Paged \ {"csv"}) \cup {"utxos"}
Rising(rows) == \A i, j \in DOMAIN rows : i < j => More(rows[j], rows[i])

\* The pages of a stream, one after the other, are the wallet's transactions in
\* block order: none twice, none of another wallet, and none left out of those
\* that are there from the first page to the last, although the tip moves and
\* addresses are imported between the pages (_getLatestTxids, streams); and the
\* outputs a client is given are those of its wallet (getWalletUTXOs).
PagesAreTheWallet ==
  \A c \in Reader : At(c, "done") /\ stream[c].ask.kind \in Rows =>
    /\ stream[c].ask.kind = "utxos" \/ Rising(stream[c].got)
    /\ \A r \in ToSet(stream[c].got) : r.wallet = stream[c].ask.wallet
    /\ \/ stream[c].owed \subseteq ToSet(stream[c].got)
       \/ stream[c].ask.kind = "utxos" /\ Len(stream[c].got) = UtxoLimit

\* A saved copy shows the addresses the wallet has now, through every import
\* since; not so if an import committed between the snapshot the copy was made
\* in and its save (_importTransaction, _addAddressesToWalletTxid).
CopiesAreFresh ==
  \A s \in saved : ~s.raced => s.marks = Marks(s.wallet, s.tx, tracked)

\* A request gives its read transaction back on every path but two: a request
\* for outputs, and a raw transaction bitcoind does not give.
ReadersReturned ==
  open > Cardinality({c \in Reader : stream[c].stage \in {"page", "saving"}}) => lost

\* No wallet has a greater key.
LastKey(w) == \A v \in Wallet : WalletRank[v] <= WalletRank[w]

\* A stream of the wallet with the last key ends, also while blocks keep coming and
\* going; one of CSV rows may stop where a page has no rows.  For other wallets it
\* does not hold: where the next wallet has a lower row the end of a page is taken
\* from that row, and the stream goes round (_getLatestTxids, the _read of each stream).
StreamsEnd ==
  \A c \in Reader :
    (At(c, "ask") /\ LastKey(stream[c].ask.wallet)) ~>
      \/ stream[c].stage \in {"done", "failed"}
      \/ At(c, "stalled") /\ stream[c].ask.kind = "csv"

\* What list.js says of a page that is not the last: "if results, then the body.end
\* should change, if no results, there should NOT be a body.end object".
PlaceholderChanges ==
  \A c \in Reader : At(c, "reply") => stream[c].end # stream[c].position

\* What README.md says of the field "wallet" of a transaction, "a boolean to determine
\* if this output or input is part of the wallet": every saved copy shows the
\* addresses the wallet has, also one that an import has overtaken.
CopiesShowWallet ==
  \A s \in saved : s.marks = Marks(s.wallet, s.tx, tracked)
=============================================================================
