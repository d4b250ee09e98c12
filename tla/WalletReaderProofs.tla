-------------------------- MODULE WalletReaderProofs --------------------------
(***************************************************************************)
(* Proofs about the readers of the wallet, for every number of clients and *)
(* every chain: the saved copies of transactions show the addresses of the *)
(* wallet, read transactions are given back, and the pages of a stream are *)
(* the transactions of the wallet.                                         *)
(***************************************************************************)
EXTENDS WalletReader, LedgerTablesProofs

----------------------------------------------------------------------------
(* The inductive invariant                                                 *)

\* A client that reads has a record of these fields.
Fields ==
  {"stage", "ask", "position", "last", "todo", "page", "end", "snapshot", "raced", "got",
   "begun", "owed"}
IsStream(s) == s = [f \in Fields |-> s[f]]

Streams ==
  /\ stream = [c \in Reader |-> stream[c]]
  /\ \A c \in Reader : stream[c] = Idle \/ IsStream(stream[c])

\* A page that no import has overtaken still reads the addresses of its wallet.
Reading(s) == s.stage \in {"page", "saving"}
SnapshotHolds(s) ==
  Reading(s) /\ ~s.raced =>
    AddressesOf(s.ask.wallet, s.snapshot.tracked) = AddressesOf(s.ask.wallet, tracked)

Busy == {c \in Reader : Reading(stream[c])}

RInv ==
  /\ Streams
  /\ CopiesAreFresh
  /\ \A c \in Reader : SnapshotHolds(stream[c])
  /\ lost \/ open = Cardinality(Busy)

\* What the steps of one client change.
LEMMA BecomeStream ==
  ASSUME NEW c \in Reader, NEW s, Streams, Become(c, s), s = Idle \/ IsStream(s)
  PROVE  /\ Streams'
         /\ stream'[c] = s
         /\ \A d \in Reader : d # c => stream'[d] = stream[d]
BY DEF Streams, Become

\* A new record of one client.
LEMMA StartIsStream ==
  ASSUME NEW ask
  PROVE  /\ IsStream(Start(ask)) /\ ~Reading(Start(ask))
         /\ IsStream([Start(ask) EXCEPT !.stage = "failed"])
         /\ ~Reading([Start(ask) EXCEPT !.stage = "failed"])
BY DEF Start, IsStream, Reading, Fields

\* The stage alone changes.
LEMMA StageIsStream ==
  ASSUME NEW s, IsStream(s), NEW x
  PROVE  LET r == [s EXCEPT !.stage = x]
         IN /\ IsStream(r) /\ r.stage = x /\ r.ask = s.ask
            /\ r.raced = s.raced /\ r.snapshot = s.snapshot
BY DEF IsStream, Fields
----------------------------------------------------------------------------
(* What a step of one client keeps                                         *)

LEMMA BusyIsFinite == IsFiniteSet(Busy) /\ Cardinality(Busy) \in Nat
<1>1. IsFiniteSet(Reader) /\ Busy \in SUBSET Reader
  BY ReaderAssumption DEF Busy
<1> QED
  BY <1>1, FS_Subset, FS_CardinalityType

\* The client stays in its page or out of it; or the request has left its read
\* transaction behind.
LEMMA ClientStays ==
  ASSUME RInv, NEW c \in Reader, NEW s, s = Idle \/ IsStream(s), Become(c, s),
         UNCHANGED <<saved, tracked>>, SnapshotHolds(s),
         \/ lost' /\ ~Reading(s)
         \/ UNCHANGED <<open, lost>> /\ (Reading(s) <=> Reading(stream[c]))
  PROVE  RInv'
<1>1. /\ Streams' /\ stream'[c] = s
      /\ \A d \in Reader : d # c => stream'[d] = stream[d]
  BY BecomeStream DEF RInv
<1>2. CopiesAreFresh'
  BY DEF RInv, CopiesAreFresh
<1>3. ASSUME NEW d \in Reader
      PROVE  SnapshotHolds(stream[d])'
  <2>1. CASE d = c
    BY <1>1, <2>1 DEF SnapshotHolds
  <2>2. CASE d # c
    BY <1>1, <2>2 DEF RInv, SnapshotHolds
  <2> QED
    BY <2>1, <2>2
<1>4. (lost \/ open = Cardinality(Busy))'
  <2>1. CASE UNCHANGED <<open, lost>> /\ (Reading(s) <=> Reading(stream[c]))
    <3>1. Busy' = Busy
      BY <1>1, <2>1 DEF Busy
    <3> QED
      BY <2>1, <3>1 DEF RInv
  <2>2. CASE lost'
    BY <2>2
  <2> QED
    BY <2>1, <2>2
<1> QED
  BY <1>1, <1>2, <1>3, <1>4 DEF RInv

\* The client begins a page, with a read transaction.
LEMMA ClientEnters ==
  ASSUME RInv, NEW c \in Reader, NEW s, IsStream(s), Become(c, s),
         UNCHANGED <<saved, tracked, lost>>, SnapshotHolds(s),
         ~Reading(stream[c]), Reading(s), open' = open + 1
  PROVE  RInv'
<1>1. /\ Streams' /\ stream'[c] = s
      /\ \A d \in Reader : d # c => stream'[d] = stream[d]
  BY BecomeStream DEF RInv
<1>2. CopiesAreFresh'
  BY DEF RInv, CopiesAreFresh
<1>3. \A d \in Reader : SnapshotHolds(stream[d])'
  BY <1>1 DEF RInv, SnapshotHolds
<1>4. Busy' = Busy \cup {c} /\ c \notin Busy
  BY <1>1 DEF Busy
<1>5. Cardinality(Busy') = Cardinality(Busy) + 1
  BY <1>4, BusyIsFinite, FS_AddElement
<1>6. lost' \/ open' = Cardinality(Busy')
  BY <1>5 DEF RInv
<1> QED
  BY <1>1, <1>2, <1>3, <1>6 DEF RInv

\* It leaves the page and gives the read transaction back; what is saved before
\* shows the addresses of the wallet.
LEMMA ClientLeaves ==
  ASSUME RInv, NEW c \in Reader, NEW s, IsStream(s), Become(c, s),
         UNCHANGED <<saved, tracked, lost>>,
         Reading(stream[c]), ~Reading(s), open' = open - 1
  PROVE  RInv'
<1>1. /\ Streams' /\ stream'[c] = s
      /\ \A d \in Reader : d # c => stream'[d] = stream[d]
  BY BecomeStream DEF RInv
<1>2. CopiesAreFresh'
  BY DEF RInv, CopiesAreFresh
<1>3. ASSUME NEW d \in Reader
      PROVE  SnapshotHolds(stream[d])'
  <2>1. CASE d = c
    BY <1>1, <2>1 DEF SnapshotHolds
  <2>2. CASE d # c
    BY <1>1, <2>2 DEF RInv, SnapshotHolds
  <2> QED
    BY <2>1, <2>2
<1>4. Busy' = Busy \ {c} /\ c \in Busy
  BY <1>1 DEF Busy
<1>5. Cardinality(Busy') = Cardinality(Busy) - 1
  BY <1>4, BusyIsFinite, FS_RemoveElement
<1>6. lost' \/ open' = Cardinality(Busy')
  BY <1>5 DEF RInv
<1> QED
  BY <1>1, <1>2, <1>3, <1>6 DEF RInv

\* A client at some stage but the first has its record.
LEMMA HasRecord ==
  ASSUME Streams, NEW c \in Reader, stream[c].stage # "idle"
  PROVE  IsStream(stream[c])
BY DEF Streams, Idle

\* Outside a page nothing is read.
LEMMA OutsideHolds == \A s : ~Reading(s) => SnapshotHolds(s)
BY DEF SnapshotHolds

----------------------------------------------------------------------------
(* The steps of a client                                                   *)

\* A request begins, or there is no page to begin.
LEMMA RequestKeeps ==
  ASSUME RInv, NEW c \in Reader,
         \/ \E ask \in Asks : Open(c, ask)
         \/ Request(c) \/ NoSlot(c) \/ GetWalletTxids(c) \/ GetWalletUTXOs(c)
         \/ GetBalance(c) \/ Close(c)
  PROVE  RInv'
<1>0. Streams
  BY DEF RInv
<1>1. ASSUME NEW ask \in Asks, Open(c, ask)
      PROVE  RInv'
  <2>1. ~Reading(stream[c]) /\ UNCHANGED <<saved, tracked, open, lost>> /\ Become(c, Start(ask))
    BY <1>1 DEF Open, At, Reading, ledger
  <2> QED
    BY <2>1, StartIsStream, OutsideHolds, ClientStays
<1>2. CASE Request(c)
  <2> DEFINE old == stream[c]
  <2>1. IsStream(old) /\ ~Reading(old)
    BY <1>0, <1>2, HasRecord DEF Request, At, Reading
  <2>2. PICK last : Become(c, [old EXCEPT !.stage = "asked", !.last = last])
    BY <1>2 DEF Request
  <2> DEFINE new == [old EXCEPT !.stage = "asked", !.last = last]
  <2>3. IsStream(new) /\ ~Reading(new)
    BY <2>1 DEF IsStream, Fields, Reading
  <2>4. UNCHANGED <<saved, tracked, open, lost>> /\ Become(c, new)
    BY <1>2, <2>2 DEF Request, ledger
  <2> QED
    BY <2>1, <2>3, <2>4, OutsideHolds, ClientStays
<1>3. CASE NoSlot(c)
  <2> DEFINE new == [Start(stream[c].ask) EXCEPT !.stage = "failed"]
  <2>1. ~Reading(stream[c]) /\ UNCHANGED <<saved, tracked, open, lost>> /\ Become(c, new)
    BY <1>3 DEF NoSlot, At, Reading, ledger, Fail
  <2>2. IsStream(new) /\ ~Reading(new)
    BY StartIsStream
  <2> QED
    BY <2>1, <2>2, OutsideHolds, ClientStays
<1>4. CASE GetWalletTxids(c)
  <2> DEFINE old == stream[c]
             new == [PageOf(old) EXCEPT !.stage = "reply", !.snapshot = Undefined, !.raced = FALSE]
  <2>1. IsStream(old) /\ ~Reading(old)
    BY <1>0, <1>4, HasRecord DEF GetWalletTxids, Asking, At, Reading
  <2>2. IsStream(PageOf(old))
    BY <2>1 DEF PageOf, IsStream, Fields
  <2>3. IsStream(new) /\ ~Reading(new)
    BY <2>2 DEF IsStream, Fields, Reading
  <2>4. UNCHANGED <<saved, tracked, open, lost>> /\ Become(c, new)
    BY <1>4 DEF GetWalletTxids, ledger
  <2> QED
    BY <2>1, <2>3, <2>4, OutsideHolds, ClientStays
<1>5. CASE GetWalletUTXOs(c)
  <2> DEFINE old == stream[c]
             got == FirstOutputs(old.ask.wallet)
             owed == {r \in utxos : r.wallet = old.ask.wallet}
             new == [old EXCEPT !.stage = "done", !.got = got, !.owed = owed]
  <2>1. IsStream(old)
    BY <1>0, <1>5, HasRecord DEF GetWalletUTXOs, Asking, At
  <2>2. lost' /\ UNCHANGED <<saved, tracked>> /\ Become(c, new)
    BY <1>5 DEF GetWalletUTXOs, ledger
  <2> HIDE DEF got, owed
  <2>3. IsStream(new) /\ ~Reading(new)
    BY <2>1 DEF IsStream, Fields, Reading
  <2> QED
    BY <2>2, <2>3, OutsideHolds, ClientStays
<1>6. CASE GetBalance(c)
  <2> DEFINE old == stream[c]
             got == <<balance[old.ask.wallet]>>
             failed == [Start(old.ask) EXCEPT !.stage = "failed"]
             new == [old EXCEPT !.stage = "done", !.got = got]
  <2>1. IsStream(old) /\ ~Reading(old)
    BY <1>0, <1>6, HasRecord DEF GetBalance, Asking, At, Reading
  <2>2. /\ UNCHANGED <<saved, tracked, open, lost>>
        /\ Become(c, failed) \/ Become(c, new)
    BY <1>6 DEF GetBalance, ledger, Fail
  <2> HIDE DEF got
  <2>3. IsStream(new) /\ ~Reading(new) /\ IsStream(failed) /\ ~Reading(failed)
    BY <2>1, StartIsStream DEF IsStream, Fields, Reading
  <2> QED
    BY <2>1, <2>2, <2>3, OutsideHolds, ClientStays
<1>7. CASE Close(c)
  <2>1. ~Reading(stream[c]) /\ UNCHANGED <<saved, tracked, open, lost>> /\ Become(c, Idle)
    BY <1>7 DEF Close, Reading, ledger
  <2>2. ~Reading(Idle)
    BY DEF Idle, Reading
  <2> QED
    BY <2>1, <2>2, OutsideHolds, ClientStays
<1> QED
  BY <1>1, <1>2, <1>3, <1>4, <1>5, <1>6, <1>7

\* A page begins: its snapshot is the wallet of now.
LEMMA PageKeeps ==
  ASSUME RInv, NEW c \in Reader, GetWalletTransactions(c)
  PROVE  RInv'
<1> DEFINE old == stream[c]
           new == PageOf(old)
           failed == [Start(old.ask) EXCEPT !.stage = "failed"]
<1>1. IsStream(old) /\ ~Reading(old)
  BY HasRecord DEF RInv, GetWalletTransactions, Asking, At, Reading
<1>2. UNCHANGED <<saved, tracked, lost>>
  BY DEF GetWalletTransactions, ledger
<1>3. CASE Become(c, failed) /\ UNCHANGED open
  BY <1>1, <1>2, <1>3, StartIsStream, OutsideHolds, ClientStays
<1>4. CASE Become(c, new) /\ open' = open + 1
  <2>1. /\ IsStream(new) /\ new.stage = "page" /\ new.ask = old.ask
        /\ new.snapshot = [tracked |-> tracked, saved |-> saved]
    BY <1>1 DEF PageOf, IsStream, Fields
  <2> HIDE DEF new
  <2>2. Reading(new) /\ SnapshotHolds(new)
    BY <2>1 DEF Reading, SnapshotHolds
  <2> QED
    BY <1>1, <1>2, <1>4, <2>1, <2>2, ClientEnters
<1> QED
  BY <1>3, <1>4 DEF GetWalletTransactions, Fail

\* The next transaction of the page.
LEMMA ItemKeeps ==
  ASSUME RInv, NEW c \in Reader,
         ReadCopy(c) \/ ImportTransaction(c) \/ GetRawTransaction(c)
  PROVE  RInv'
<1> DEFINE old == stream[c]
<1>1. IsStream(old) /\ Reading(old) /\ SnapshotHolds(old)
  BY HasRecord DEF RInv, ReadCopy, ImportTransaction, GetRawTransaction, Importing, At, Reading
<1>2. UNCHANGED <<saved, tracked, open, lost>>
  BY DEF ReadCopy, ImportTransaction, GetRawTransaction, ledger
<1>3. CASE Become(c, NextItem(old))
  <2> DEFINE new == NextItem(old)
  <2>1. /\ IsStream(new) /\ new.stage = "page" /\ new.ask = old.ask
        /\ new.raced = old.raced /\ new.snapshot = old.snapshot
    BY <1>1 DEF NextItem, IsStream, Fields
  <2> HIDE DEF new
  <2>2. Reading(new) /\ SnapshotHolds(new)
    BY <1>1, <2>1 DEF Reading, SnapshotHolds
  <2> QED
    BY <1>1, <1>2, <1>3, <2>1, <2>2, ClientStays DEF new
<1>4. CASE GoTo(c, "saving")
  <2> DEFINE new == [old EXCEPT !.stage = "saving"]
  <2>1. /\ IsStream(new) /\ new.stage = "saving" /\ new.ask = old.ask
        /\ new.raced = old.raced /\ new.snapshot = old.snapshot
    BY <1>1, StageIsStream
  <2>2. Become(c, new)
    BY <1>4 DEF GoTo
  <2> HIDE DEF new
  <2>3. Reading(new) /\ SnapshotHolds(new)
    BY <1>1, <2>1 DEF Reading, SnapshotHolds
  <2> QED
    BY <1>1, <1>2, <2>1, <2>2, <2>3, ClientStays
<1> QED
  BY <1>3, <1>4 DEF ReadCopy, ImportTransaction, GetRawTransaction

\* A copy is saved: it shows the addresses of the snapshot.
LEMMA SaveKeeps ==
  ASSUME RInv, NEW c \in Reader, SaveTransaction(c)
  PROVE  RInv'
<1> DEFINE old == stream[c]
           tx == Head(old.todo).tx
           copy == TransformRawTransaction(old, tx)
           new == NextItem(old)
<1>1. IsStream(old) /\ Reading(old) /\ SnapshotHolds(old)
  BY HasRecord DEF RInv, SaveTransaction, At, Reading
<1>2. /\ UNCHANGED <<tracked, open, lost>> /\ Become(c, new)
      /\ saved' = {r \in saved : ~SameCopy(r, old.ask.wallet, tx)} \cup {copy}
  BY DEF SaveTransaction, ledger
<1>3. /\ IsStream(new) /\ new.stage = "page" /\ new.ask = old.ask
      /\ new.raced = old.raced /\ new.snapshot = old.snapshot
  BY <1>1 DEF NextItem, IsStream, Fields
<1> HIDE DEF new, tx
<1>4. Reading(new) /\ SnapshotHolds(new)
  BY <1>1, <1>3 DEF Reading, SnapshotHolds
<1>5. /\ Streams' /\ stream'[c] = new
      /\ \A d \in Reader : d # c => stream'[d] = stream[d]
  BY <1>2, <1>3, BecomeStream DEF RInv
<1>6. ~copy.raced => copy.marks = Marks(copy.wallet, copy.tx, tracked)
  BY <1>1 DEF TransformRawTransaction, Marks, SnapshotHolds
<1>7. CopiesAreFresh'
  BY <1>2, <1>6 DEF RInv, CopiesAreFresh
<1>8. \A d \in Reader : SnapshotHolds(stream[d])'
  BY <1>2, <1>4, <1>5 DEF RInv, SnapshotHolds
<1>9. Busy' = Busy
  BY <1>1, <1>4, <1>5 DEF Busy
<1> QED
  BY <1>2, <1>5, <1>7, <1>8, <1>9 DEF RInv

\* The page ends, one way or another.
LEMMA EndKeeps ==
  ASSUME RInv, NEW c \in Reader,
         TransactionFails(c) \/ RawTransactionFails(c) \/ PageDone(c)
  PROVE  RInv'
<1> DEFINE old == stream[c]
           failed == [Start(old.ask) EXCEPT !.stage = "failed"]
           new == [old EXCEPT !.stage = "reply", !.snapshot = Undefined, !.raced = FALSE]
<1>1. IsStream(old) /\ Reading(old)
  BY HasRecord DEF RInv, TransactionFails, RawTransactionFails, PageDone, Importing, At, Reading
<1>2. UNCHANGED <<saved, tracked>>
  BY DEF TransactionFails, RawTransactionFails, PageDone, ledger
<1>3. /\ IsStream(failed) /\ ~Reading(failed)
      /\ IsStream(new) /\ ~Reading(new)
  BY <1>1, StartIsStream DEF IsStream, Fields, Reading
<1>4. \/ (Become(c, failed) \/ Become(c, new)) /\ open' = open - 1 /\ lost' = lost
      \/ Become(c, failed) /\ lost'
  BY DEF TransactionFails, RawTransactionFails, PageDone, Fail, Aborted
<1> HIDE DEF failed, new, old
<1>5. CASE Become(c, failed) /\ lost'
  BY <1>2, <1>3, <1>5, OutsideHolds, ClientStays
<1>6. CASE (Become(c, failed) \/ Become(c, new)) /\ open' = open - 1 /\ lost' = lost
  BY <1>1, <1>2, <1>3, <1>6, ClientLeaves DEF old
<1> QED
  BY <1>4, <1>5, <1>6

\* What a client does with a page.
LEMMA ReceivedIsStream ==
  ASSUME NEW s, IsStream(s), NEW rows
  PROVE  /\ IsStream(Took(s, rows))
         /\ IsStream(Ended(Took(s, rows))) /\ ~Reading(Ended(Took(s, rows)))
         /\ IsStream(Continued(Took(s, rows))) /\ ~Reading(Continued(Took(s, rows)))
         /\ IsStream([Took(s, rows) EXCEPT !.stage = "stalled"])
         /\ ~Reading([Took(s, rows) EXCEPT !.stage = "stalled"])
<1> DEFINE t == Took(s, rows)
<1>1. IsStream(t)
  <2> DEFINE got == IF Len(s.got) < MaxRows THEN s.got \o rows ELSE s.got
  <2>1. t = [s EXCEPT !.got = got, !.page = <<>>]
    BY DEF Took
  <2> HIDE DEF got, t
  <2> QED
    BY <2>1 DEF IsStream, Fields
<1> HIDE DEF t
<1>2. IsStream(Ended(t)) /\ ~Reading(Ended(t))
  BY <1>1 DEF Ended, IsStream, Fields, Reading
<1>3. IsStream(Continued(t)) /\ ~Reading(Continued(t))
  BY <1>1 DEF Continued, IsStream, Fields, Reading
<1>4. IsStream([t EXCEPT !.stage = "stalled"]) /\ ~Reading([t EXCEPT !.stage = "stalled"])
  BY <1>1 DEF IsStream, Fields, Reading
<1> QED
  BY <1>1, <1>2, <1>3, <1>4 DEF t

LEMMA ReceiveKeeps ==
  ASSUME RInv, NEW c \in Reader, ReadObjects(c) \/ ReadList(c) \/ ReadCSV(c)
  PROVE  RInv'
<1> DEFINE old == stream[c]
           failed == [Start(old.ask) EXCEPT !.stage = "failed"]
<1>1. IsStream(old) /\ ~Reading(old)
  BY HasRecord DEF RInv, ReadObjects, ReadList, ReadCSV, Receive, At, Reading
<1>2. UNCHANGED <<saved, tracked, open, lost>>
  BY DEF ReadObjects, ReadList, ReadCSV, Receive, ledger
<1>3. \/ Become(c, failed)
      \/ \E rows : \/ Become(c, Ended(Took(old, rows)))
                   \/ Become(c, Continued(Took(old, rows)))
                   \/ Become(c, [Took(old, rows) EXCEPT !.stage = "stalled"])
  <2>1. CASE ReadObjects(c)
    BY <2>1 DEF ReadObjects
  <2>2. CASE ReadList(c)
    BY <2>2 DEF ReadList
  <2>3. CASE ReadCSV(c)
    BY <2>3 DEF ReadCSV
  <2> QED
    BY <2>1, <2>2, <2>3
<1>4. IsStream(failed) /\ ~Reading(failed)
  BY StartIsStream
<1> HIDE DEF old, failed
<1>5. ASSUME NEW s, Become(c, s), IsStream(s), ~Reading(s)
      PROVE  RInv'
  BY <1>1, <1>2, <1>5, OutsideHolds, ClientStays DEF old
<1>6. CASE Become(c, failed)
  BY <1>4, <1>5, <1>6
<1>7. ASSUME NEW rows, \/ Become(c, Ended(Took(old, rows)))
                       \/ Become(c, Continued(Took(old, rows)))
                       \/ Become(c, [Took(old, rows) EXCEPT !.stage = "stalled"])
      PROVE  RInv'
  BY <1>1, <1>5, <1>7, ReceivedIsStream
<1> QED
  BY <1>3, <1>6, <1>7

----------------------------------------------------------------------------
(* The steps of the writer                                                 *)

\* The writer moves the tip: readers keep their stage and their snapshot.
LEMMA TipKeeps ==
  ASSUME RInv, UNCHANGED <<saved, tracked, open, lost>>, NEW rows,
         stream' = StillOwed(rows)
  PROVE  RInv'
<1>1. ASSUME NEW c \in Reader
      PROVE  /\ stream'[c] = Idle \/ IsStream(stream'[c])
             /\ Reading(stream'[c]) <=> Reading(stream[c])
             /\ SnapshotHolds(stream'[c])
  <2>1. CASE At(c, "idle")
    <3>1. stream'[c] = Idle
      BY <2>1 DEF StillOwed
    <3>2. ~Reading(Idle) /\ ~Reading(stream[c])
      BY <2>1 DEF At, Idle, Reading
    <3> QED
      BY <3>1, <3>2, OutsideHolds
  <2>2. CASE ~At(c, "idle")
    <3>1. IsStream(stream[c]) /\ SnapshotHolds(stream[c])
      BY <2>2, HasRecord DEF RInv, At
    <3>2. stream'[c] = [stream[c] EXCEPT !.owed = @ \cap rows]
      BY <2>2 DEF StillOwed
    <3> DEFINE kept == stream[c].owed \cap rows
    <3>3. stream'[c] = [stream[c] EXCEPT !.owed = kept]
      BY <3>2
    <3> HIDE DEF kept
    <3>4. /\ IsStream(stream'[c])
          /\ stream'[c].stage = stream[c].stage /\ stream'[c].ask = stream[c].ask
          /\ stream'[c].raced = stream[c].raced /\ stream'[c].snapshot = stream[c].snapshot
      BY <3>1, <3>3 DEF IsStream, Fields
    <3> QED
      BY <3>1, <3>4 DEF Reading, SnapshotHolds
  <2> QED
    BY <2>1, <2>2
<1>2. Streams'
  <2>1. stream' = [c \in Reader |-> stream'[c]]
    BY DEF StillOwed
  <2> QED
    BY <1>1, <2>1 DEF Streams
<1>3. CopiesAreFresh' /\ \A c \in Reader : SnapshotHolds(stream[c])'
  BY <1>1 DEF RInv, CopiesAreFresh, SnapshotHolds
<1>4. Busy' = Busy
  BY <1>1 DEF Busy
<1> QED
  BY <1>2, <1>3, <1>4 DEF RInv

\* An import takes the copies that show a new address of its wallet, and every page
\* of that wallet under way is marked.
LEMMA ImportKeeps ==
  ASSUME RInv, NEW w \in Wallet, NEW added \in SUBSET Address, ImportAddresses(w, added)
  PROVE  RInv'
<1> DEFINE new == {a \in added : <<w, a>> \notin tracked}
           hit(c) == stream[c].stage \in {"page", "saving"} /\ stream[c].ask.wallet = w
<1>1. /\ tracked' = tracked \cup {<<w, a>> : a \in added}
      /\ saved' = CopiesLeft(w, new) /\ UNCHANGED <<open, lost>>
  BY DEF ImportAddresses, Ledger!Track, Commit
<1>2. stream' = [c \in Reader |->
                   IF hit(c) THEN [stream[c] EXCEPT !.raced = TRUE] ELSE stream[c]]
  BY DEF ImportAddresses
<1>3. \A v : v # w => AddressesOf(v, tracked') = AddressesOf(v, tracked)
  BY <1>1 DEF AddressesOf
<1>4. AddressesOf(w, tracked') = AddressesOf(w, tracked) \cup new
  BY <1>1 DEF AddressesOf
<1> HIDE DEF new
<1>5. ASSUME NEW s \in saved', ~s.raced
      PROVE  s.marks = Marks(s.wallet, s.tx, tracked')
  <2>1. s \in saved /\ ~(s.wallet = w /\ AddressesIn(s.tx) \cap new # {})
    BY <1>1, <1>5 DEF CopiesLeft
  <2>2. s.marks = Marks(s.wallet, s.tx, tracked)
    BY <1>5, <2>1 DEF RInv, CopiesAreFresh
  <2>3. CASE s.wallet # w
    BY <1>3, <2>2, <2>3 DEF Marks
  <2>4. CASE s.wallet = w /\ AddressesIn(s.tx) \cap new = {}
    <3>1. AddressesOf(w, tracked') \cap AddressesIn(s.tx) = AddressesOf(w, tracked) \cap AddressesIn(s.tx)
      BY <1>4, <2>4
    <3> QED
      BY <2>2, <2>4, <3>1 DEF Marks
  <2> QED
    BY <2>1, <2>3, <2>4
<1>6. CopiesAreFresh'
  BY <1>5 DEF CopiesAreFresh
<1>7. ASSUME NEW c \in Reader
      PROVE  /\ stream'[c] = Idle \/ IsStream(stream'[c])
             /\ Reading(stream'[c]) <=> Reading(stream[c])
             /\ SnapshotHolds(stream[c])'
  <2>1. CASE hit(c)
    <3>1. IsStream(stream[c])
      BY <2>1, HasRecord DEF RInv
    <3>2. stream'[c] = [stream[c] EXCEPT !.raced = TRUE]
      BY <1>2, <2>1
    <3>3. IsStream(stream'[c]) /\ stream'[c].stage = stream[c].stage /\ stream'[c].raced = TRUE
      BY <3>1, <3>2 DEF IsStream, Fields
    <3> QED
      BY <3>3 DEF Reading, SnapshotHolds
  <2>2. CASE ~hit(c)
    <3>1. stream'[c] = stream[c] /\ SnapshotHolds(stream[c])
      BY <1>2, <2>2 DEF RInv
    <3>2. Reading(stream[c]) => stream[c].ask.wallet # w
      BY <2>2 DEF Reading
    <3>3. SnapshotHolds(stream[c])'
      BY <1>3, <3>1, <3>2 DEF SnapshotHolds
    <3> QED
      BY <3>1, <3>3 DEF RInv, Streams
  <2> QED
    BY <2>1, <2>2
<1>8. Streams'
  <2>1. stream' = [c \in Reader |-> stream'[c]]
    BY <1>2
  <2> QED
    BY <1>7, <2>1 DEF Streams
<1>9. Busy' = Busy
  BY <1>7 DEF Busy
<1> QED
  BY <1>1, <1>6, <1>7, <1>8, <1>9 DEF RInv

LEMMA WriterKeeps ==
  ASSUME RInv, Writer
  PROVE  RInv'
<1>1. ASSUME NEW w \in Wallet, CreateWallet(w)
      PROVE  RInv'
  <2>1. UNCHANGED <<saved, tracked, stream, open, lost>>
    BY <1>1 DEF CreateWallet, Ledger!Begin, ledger
  <2> QED
    BY <2>1 DEF RInv, Streams, CopiesAreFresh, SnapshotHolds, Busy
<1>2. CASE ConnectBlock
  <2>1. /\ UNCHANGED <<saved, tracked, open, lost>>
        /\ stream' = StillOwed(txids' \cup utxos')
    BY <1>2 DEF ConnectBlock, Ledger!Extend, Commit
  <2> QED
    BY <2>1, TipKeeps
<1>3. CASE DisconnectTip
  <2>1. /\ UNCHANGED <<saved, tracked, open, lost>>
        /\ stream' = StillOwed(txids' \cup utxos')
    BY <1>3 DEF DisconnectTip, Ledger!Rewind, Commit
  <2> QED
    BY <2>1, TipKeeps
<1>4. ASSUME NEW i \in Imports, ImportAddresses(i[1], i[2])
      PROVE  RInv'
  <2>1. i[1] \in Wallet /\ i[2] \in SUBSET Address
    BY ReaderAssumption
  <2> QED
    BY <1>4, <2>1, ImportKeeps
<1> QED
  BY <1>1, <1>2, <1>3, <1>4 DEF Writer

LEMMA InitRInv == Init => RInv
<1> SUFFICES ASSUME Init PROVE RInv
  OBVIOUS
<1>1. /\ saved = {} /\ open = 0 /\ stream = [c \in Reader |-> Idle]
  BY DEF Init
<1>2. Busy = {}
  BY <1>1 DEF Busy, Reading, Idle
<1>3. open = Cardinality(Busy)
  BY <1>1, <1>2, FS_EmptySet
<1>4. \A c \in Reader : ~Reading(stream[c])
  BY <1>1 DEF Reading, Idle
<1> QED
  BY <1>1, <1>3, <1>4, OutsideHolds DEF RInv, Streams, CopiesAreFresh

LEMMA NextRInv == RInv /\ [Next]_vars => RInv'
<1> SUFFICES ASSUME RInv, [Next]_vars PROVE RInv'
  OBVIOUS
<1>1. ASSUME NEW c \in Reader, Work(c) \/ Close(c) \/ \E ask \in Asks : Open(c, ask)
      PROVE  RInv'
  BY <1>1, RequestKeeps, PageKeeps, ItemKeeps, SaveKeeps, EndKeeps, ReceiveKeeps DEF Work
<1>2. CASE UNCHANGED vars
  BY <1>2 DEF vars, ledger, RInv, Streams, CopiesAreFresh, SnapshotHolds, Busy
<1> QED
  BY <1>1, <1>2, WriterKeeps DEF Next

\* The pages under way are those whose read transactions are open, and the
\* snapshot of each copy that is saved is known, whatever the writer commits
\* meanwhile (getWalletTransactions, _importTransaction).
THEOREM Inductive == Spec => []RInv
BY InitRInv, NextRInv, PTL DEF Spec

\* A saved copy shows the addresses the wallet has now, through every import since,
\* unless an import came between its snapshot and its save (_importTransaction,
\* _addAddressesToWalletTxid).
THEOREM SavedCopiesAreFresh == Spec => []CopiesAreFresh
<1>1. RInv => CopiesAreFresh
  BY DEF RInv
<1> QED
  BY <1>1, Inductive, PTL

\* More read transactions than pages under way are open only after a request that
\* leaves its own behind (getWalletUTXOs, getWalletRawTransactions).
THEOREM ReadTransactionsReturned == Spec => []ReadersReturned
<1>1. RInv => ReadersReturned
  <2> SUFFICES ASSUME RInv, ~lost
               PROVE  ~(open > Cardinality(Busy))
    BY DEF ReadersReturned, Busy, Reading
  <2>1. open = Cardinality(Busy) /\ Cardinality(Busy) \in Nat
    BY BusyIsFinite DEF RInv
  <2> QED
    BY <2>1
<1> QED
  BY <1>1, Inductive, PTL

----------------------------------------------------------------------------
(* Sequences in the order of keys                                          *)

\* A strict total order on a set of rows.
StrictOrder(rows, order) ==
  /\ \A r, s \in rows : r # s => <<r, s>> \in order \/ <<s, r>> \in order
  /\ \A r, s \in rows : <<r, s>> \in order => <<s, r>> \notin order
  /\ \A r, s, t \in rows : <<r, s>> \in order /\ <<s, t>> \in order => <<r, t>> \in order

\* Ascending sequences of all rows
Ascending(q, rows, order) ==
  /\ q \in [1 .. Cardinality(rows) -> rows]
  /\ \A i, j \in DOMAIN q : i < j => <<q[i], q[j]>> \in order

\* Counting what is before each row puts the rows in order.
LEMMA OrderExists ==
  ASSUME NEW rows, IsFiniteSet(rows), NEW order, StrictOrder(rows, order)
  PROVE  \E q : Ascending(q, rows, order)
<1> DEFINE n == Cardinality(rows)
           Less(r) == {s \in rows : <<s, r>> \in order}
           rank == [r \in rows |-> Cardinality(Less(r)) + 1]
<1>1. n \in Nat
  BY FS_CardinalityType
<1>2. ASSUME NEW r \in rows
      PROVE  /\ IsFiniteSet(Less(r)) /\ Cardinality(Less(r)) \in Nat
             /\ rank[r] \in 1 .. n
  <2>1. Less(r) \subseteq rows \ {r} /\ IsFiniteSet(rows \ {r})
        /\ Cardinality(rows \ {r}) = n - 1
    BY <1>2, FS_RemoveElement DEF StrictOrder
  <2>2. IsFiniteSet(Less(r)) /\ Cardinality(Less(r)) <= n - 1
    <3> DEFINE some == Less(r)
               others == rows \ {r}
    <3>1. some \in SUBSET others /\ IsFiniteSet(others) /\ Cardinality(others) = n - 1
      BY <2>1
    <3> HIDE DEF some, others
    <3>2. IsFiniteSet(some) /\ Cardinality(some) <= Cardinality(others)
      BY <3>1, FS_Subset
    <3>3. IsFiniteSet(some) /\ Cardinality(some) <= n - 1
      BY <3>1, <3>2
    <3> QED
      BY <3>3 DEF some
  <2>3. Cardinality(Less(r)) \in Nat
    BY <2>2, FS_CardinalityType
  <2> QED
    BY <1>1, <2>2, <2>3
<1>3. ASSUME NEW r \in rows, NEW s \in rows, <<r, s>> \in order
      PROVE  rank[r] < rank[s]
  <2>1. Less(r) \cup {r} \subseteq Less(s) /\ r \notin Less(r)
    BY <1>3 DEF StrictOrder
  <2>2. Cardinality(Less(r) \cup {r}) = Cardinality(Less(r)) + 1
    BY <1>2, <2>1, FS_AddElement
  <2>3. Cardinality(Less(r) \cup {r}) <= Cardinality(Less(s))
    BY <1>2, <2>1, FS_Subset
  <2>4. Cardinality(Less(r)) \in Nat /\ Cardinality(Less(s)) \in Nat
    BY <1>2
  <2> HIDE DEF Less
  <2> QED
    BY <2>2, <2>3, <2>4
<1>4. rank \in Injection(rows, 1 .. n)
  <2>1. rank \in [rows -> 1 .. n]
    BY <1>2
  <2>2. ASSUME NEW r \in rows, NEW s \in rows, r # s
        PROVE  rank[r] # rank[s]
    <3>1. rank[r] < rank[s] \/ rank[s] < rank[r]
      BY <1>3, <2>2 DEF StrictOrder
    <3>2. rank[r] \in 1 .. n /\ rank[s] \in 1 .. n
      BY <1>2
    <3> HIDE DEF rank
    <3> QED
      BY <1>1, <3>1, <3>2
  <2> HIDE DEF rank
  <2> QED
    BY <2>1, <2>2 DEF Injection, IsInjective
<1>5. rank \in Surjection(rows, 1 .. n)
  <2>1. IsFiniteSet(1 .. n) /\ Cardinality(1 .. n) = n
    BY <1>1, FS_Interval
  <2> HIDE DEF rank
  <2> QED
    BY <1>4, <2>1, FS_Injection
<1> DEFINE q == [i \in 1 .. n |-> CHOOSE r \in rows : rank[r] = i]
<1>6. ASSUME NEW i \in 1 .. n
      PROVE  q[i] \in rows /\ rank[q[i]] = i
  <2> HIDE DEF rank
  <2>1. \E r \in rows : rank[r] = i
    BY <1>5, <1>6 DEF Surjection
  <2> QED
    BY <2>1
<1>7. ASSUME NEW i \in 1 .. n, NEW j \in 1 .. n, i < j
      PROVE  <<q[i], q[j]>> \in order
  <2>1. /\ q[i] \in rows /\ rank[q[i]] = i
        /\ q[j] \in rows /\ rank[q[j]] = j
    BY <1>6
  <2> HIDE DEF rank, q
  <2>2. q[i] # q[j]
    BY <1>7, <2>1
  <2>3. <<q[j], q[i]>> \notin order
    BY <1>3, <1>7, <2>1
  <2> QED
    BY <2>1, <2>2, <2>3 DEF StrictOrder
<1>8. Ascending(q, rows, order)
  <2>1. q \in [1 .. n -> rows]
    BY <1>6
  <2> HIDE DEF q
  <2> QED
    BY <1>7, <2>1 DEF Ascending
<1> QED
  BY <1>8

\* The sequence has every row, once and after those before it.
Lists(q, rows, order) ==
  /\ q \in Seq(rows) /\ Len(q) = Cardinality(rows) /\ Len(q) \in Nat
  /\ DOMAIN q = 1 .. Len(q)
  /\ \A i, j \in 1 .. Len(q) : i < j => <<q[i], q[j]>> \in order
  /\ \A r \in rows : \E i \in 1 .. Len(q) : q[i] = r
  /\ \A i \in 1 .. Len(q) : q[i] \in rows

\* The order of keys lists all rows.
LEMMA InOrderIs ==
  ASSUME NEW rows, IsFiniteSet(rows), NEW order, StrictOrder(rows, order),
         NEW q, q = InOrder(rows, order)
  PROVE  Lists(q, rows, order)
<1> DEFINE n == Cardinality(rows)
<1>1. n \in Nat
  BY FS_CardinalityType
<1>2. Ascending(q, rows, order)
  BY OrderExists DEF InOrder, Ascending
<1>3. q \in [1 .. n -> rows] /\ DOMAIN q = 1 .. n
  BY <1>2 DEF Ascending
<1>4. q \in Seq(rows) /\ Len(q) = n
  BY <1>1, <1>3
<1>5. q \in Injection(1 .. n, rows)
  <2>1. ASSUME NEW i \in 1 .. n, NEW j \in 1 .. n, q[i] = q[j]
        PROVE  i = j
    <3>1. ~(i < j) /\ ~(j < i)
      BY <1>2, <1>3, <2>1 DEF Ascending, StrictOrder
    <3> QED
      BY <3>1
  <2> QED
    BY <1>3, <2>1 DEF Injection, IsInjective
<1>6. q \in Surjection(1 .. n, rows)
  <2>1. IsFiniteSet(1 .. n) /\ Cardinality(1 .. n) = n
    BY <1>1, FS_Interval
  <2> QED
    BY <1>5, <2>1, FS_Injection
<1>7. \A r \in rows : \E i \in 1 .. n : q[i] = r
  BY <1>6 DEF Surjection
<1> QED
  BY <1>1, <1>2, <1>3, <1>4, <1>7 DEF Ascending, Lists

----------------------------------------------------------------------------
(* The rows of the wallet with the last key                                *)

LastWallets == \A ask \in Asks : LastKey(ask.wallet)

\* The tables show the chain.
TablesInv ==
  /\ tracked \in SUBSET (Wallet \X Address)
  /\ tip = Undefined => utxos = {} /\ txids = {} /\ \A c \in Reader : At(c, "idle")
  /\ tip # Undefined =>
       /\ tip \in Block
       /\ utxos = OutputsAt(tip, tracked)
       /\ txids = TxidsAt(tip, tracked)

Place == [height : Nat, index : Nat]

\* What the rows of txids are
LEMMA TxidsAre ==
  ASSUME ValidChain, TablesInv
  PROVE  /\ txids \in SUBSET TxidRow
         /\ \A r \in txids : r.wallet \in Wallet /\ r.height \in Nat /\ r.index \in Nat
         /\ \A r \in txids : r.index <= MaxIndex
         /\ tip # Undefined => \A r \in txids : r.height <= Height[tip]
         /\ \A r, s \in txids : SameTxidKey(r, s) => r = s
         /\ \A w : IsFiniteSet({r \in txids : r.wallet = w})
<1>1. CASE tip = Undefined
  <2>1. txids = {}
    BY <1>1 DEF TablesInv
  <2>2. \A w : {r \in txids : r.wallet = w} = {}
    BY <2>1
  <2> QED
    BY <1>1, <2>1, <2>2, FS_EmptySet
<1>2. CASE tip # Undefined
  <2> DEFINE P == PlacesOf(tip)
  <2>1. tip \in Block /\ txids = TxRows(Everywhere(tip), tracked)
    BY <1>2, TxidsAtRows DEF TablesInv
  <2>2. ASSUME NEW r \in txids
        PROVE  /\ r \in TxidRow
               /\ \E e \in P : Height[e[1]] = r.height /\ DeltaAt(e).index = r.index
                               /\ DeltaAt(e).tx = r.tx
    <3>1. /\ r \in TxidRow
          /\ \E e \in Everywhere(tip)[r.wallet] :
               Height[e[1]] = r.height /\ DeltaAt(e).index = r.index /\ DeltaAt(e).tx = r.tx
      BY <2>1 DEF TxRows
    <3>2. Everywhere(tip)[r.wallet] = P
      BY <3>1, EverywhereIsPart, TxRowFields
    <3> QED
      BY <3>1, <3>2
  <2>3. ASSUME NEW r \in txids
        PROVE  /\ r.wallet \in Wallet /\ r.height \in Nat /\ r.index \in Nat
               /\ r.index <= MaxIndex /\ r.height <= Height[tip]
    <3>1. PICK e \in P : Height[e[1]] = r.height /\ DeltaAt(e).index = r.index
      BY <2>2
    <3>2. e[1] \in ChainOf(tip) /\ e[1] \in Block /\ e[2] \in DOMAIN Deltas[e[1]]
      BY <2>1, <3>1, PlaceFacts
    <3>3. Height[e[1]] <= Height[tip]
      BY <2>1, <3>2, ChainHeight
    <3>4. DeltaAt(e).index <= MaxIndex
      BY <3>2, ReaderAssumption DEF DeltaAt
    <3> QED
      BY <2>2, <3>1, <3>3, <3>4, TxRowFields
  <2>4. \A r, s \in txids : SameTxidKey(r, s) => r = s
    BY <2>1, TxKeys, EverywhereIsPart
  <2>5. ASSUME NEW w
        PROVE  IsFiniteSet({r \in txids : r.wallet = w})
    <3> DEFINE R == {r \in txids : r.wallet = w}
               Of(r, e) == Height[e[1]] = r.height /\ DeltaAt(e).index = r.index
                           /\ DeltaAt(e).tx = r.tx
               f == [r \in R |-> CHOOSE e \in P : Of(r, e)]
    <3>1. \A r \in R : \E e \in P : Of(r, e)
      BY <2>2
    <3> HIDE DEF P
    <3>2. \A r \in R : f[r] \in P /\ Of(r, f[r])
      BY <3>1
    <3>3. ASSUME NEW r \in R, NEW s \in R, f[r] = f[s]
          PROVE  r = s
      <4>1. r.height = s.height /\ r.index = s.index /\ r.wallet = s.wallet
        BY <3>2, <3>3
      <4> QED
        BY <2>4, <4>1 DEF SameTxidKey
    <3> HIDE DEF f
    <3>4. f \in [R -> P]
      <4>1. f = [r \in R |-> f[r]]
        BY DEF f
      <4> QED
        BY <3>2, <4>1
    <3>5. f \in Injection(R, P)
      BY <3>3, <3>4 DEF Injection, IsInjective
    <3>6. IsFiniteSet(P)
      BY <2>1, PlacesFinite DEF P
    <3> QED
      BY <3>5, <3>6, FS_Injection
  <2> QED
    BY <2>2, <2>3, <2>4, <2>5
<1> QED
  BY <1>1, <1>2

\* and those of utxos
LEMMA UtxosAre ==
  ASSUME ValidChain, TablesInv
  PROVE  /\ utxos \in SUBSET UtxoRow
         /\ \A r, s \in utxos : SameOutput(r, s) => r = s
         /\ \A w \in Wallet : IsFiniteSet({r \in utxos : r.wallet = w})
<1>1. CASE tip = Undefined
  <2>1. utxos = {}
    BY <1>1 DEF TablesInv
  <2>2. \A w : {r \in utxos : r.wallet = w} = {}
    BY <2>1
  <2> QED
    BY <1>1, <2>1, <2>2, FS_EmptySet
<1>2. CASE tip # Undefined
  <2>1. tip \in Block /\ utxos = UtxoRows(Everywhere(tip), tracked)
    BY <1>2, OutputsAtRows DEF TablesInv
  <2>2. utxos \in SUBSET UtxoRow
    BY <2>1 DEF UtxoRows
  <2>3. \A r, s \in utxos : SameOutput(r, s) => r = s
    BY <2>1, RowsUnique, EverywhereIsPart
  <2>4. \A w \in Wallet : IsFiniteSet({r \in utxos : r.wallet = w})
    BY <2>1, RowsFinite, EverywhereIsPart DEF OfWallet
  <2> QED
    BY <2>2, <2>3, <2>4
<1> QED
  BY <1>1, <1>2

----------------------------------------------------------------------------
(* One page                                                                *)

\* Places are in one order.
LEMMA MoreIsAnOrder ==
  ASSUME NEW p, NEW q, NEW r,
         p.height \in Nat, p.index \in Nat, q.height \in Nat, q.index \in Nat,
         r.height \in Nat, r.index \in Nat
  PROVE  /\ More(p, q) => ~More(q, p)
         /\ More(p, q) \/ More(q, p) \/ (p.height = q.height /\ p.index = q.index)
         /\ More(p, q) /\ More(q, r) => More(p, r)
         /\ More(p, q) /\ ~More(r, q) => More(p, r)
         /\ ~More(q, p) /\ More(q, r) => More(p, r)
BY DEF More

\* The place after a row is the least above it; the one after the last row of a
\* height that a page may show is past its end.
LEMMA AfterIs ==
  ASSUME NEW r, r.height \in Nat, r.index \in Nat, r.index <= MaxIndex
  PROVE  /\ After(r) \in Place
         /\ More(After(r), r)
         /\ \A s : s.height \in Nat /\ s.index \in Nat /\ s.index <= MaxIndex =>
              (More(s, r) <=> ~More(After(r), s))
         /\ \A last : last.height \in Nat /\ last.index = MaxIndex /\ More(r, last)
              => More(After(r), last)
         /\ \A last, s : last.height \in Nat /\ last.index = MaxIndex /\ More(After(r), last)
                     /\ s.height \in Nat /\ s.index \in Nat /\ s.index <= MaxIndex
                     /\ ~More(s, last)
              => ~More(s, r)
BY ReaderAssumption DEF After, More, Place

\* The rows from a place on of the wallet with the last key are those the cursor
\* passes, and their keys put them in order.
LEMMA CursorRows ==
  ASSUME ValidChain, TablesInv, NEW w \in Wallet, LastKey(w), NEW from \in Place
  PROVE  LET start == [wallet |-> w, height |-> from.height, index |-> from.index]
             rows == {r \in txids : ~KeyBefore(r, start)}
         IN /\ rows = {r \in txids : r.wallet = w /\ ~More(from, r)}
            /\ IsFiniteSet(rows)
            /\ StrictOrder(rows, KeyOrder(rows))
            /\ \A r, s \in rows : <<r, s>> \in KeyOrder(rows) <=> More(s, r)
<1> DEFINE start == [wallet |-> w, height |-> from.height, index |-> from.index]
           rows == {r \in txids : ~KeyBefore(r, start)}
           R == {r \in txids : r.wallet = w /\ ~More(from, r)}
<1>1. \A r \in txids : r.wallet \in Wallet /\ r.height \in Nat /\ r.index \in Nat
  BY TxidsAre
<1>2. \A v \in Wallet : /\ WalletRank[v] \in Nat /\ WalletRank[v] <= WalletRank[w]
                        /\ WalletRank[v] = WalletRank[w] => v = w
  BY ReaderAssumption DEF LastKey
<1>3. ASSUME NEW r \in txids
      PROVE  KeyBefore(r, start) <=> r.wallet # w \/ More(from, r)
  <2>1. start.wallet = w /\ (More(start, r) <=> More(from, r))
    BY DEF More
  <2>2. r.wallet # w => WalletRank[r.wallet] < WalletRank[w]
    BY <1>1, <1>2
  <2>3. ~(WalletRank[w] < WalletRank[w])
    BY <1>2
  <2> HIDE DEF start
  <2> QED
    BY <2>1, <2>2, <2>3 DEF KeyBefore
<1>4. rows = R
  BY <1>3
<1>5. IsFiniteSet(R)
  <2>1. R \subseteq {r \in txids : r.wallet = w}
    OBVIOUS
  <2>2. IsFiniteSet({r \in txids : r.wallet = w})
    BY TxidsAre
  <2> QED
    BY <2>1, <2>2, FS_Subset
<1>6. ASSUME NEW r \in R, NEW s \in R
      PROVE  <<r, s>> \in KeyOrder(R) <=> More(s, r)
  <2>1. r.wallet = w /\ s.wallet = w
    OBVIOUS
  <2>2. KeyBefore(r, s) <=> More(s, r)
    BY <1>2, <2>1 DEF KeyBefore
  <2> HIDE DEF R
  <2>3. <<r, s>> \in KeyOrder(R) <=> KeyBefore(r, s)
    BY DEF KeyOrder
  <2> QED
    BY <2>2, <2>3
<1>7. \A r, s \in R : r # s => More(r, s) \/ More(s, r)
  <2>1. ASSUME NEW r \in R, NEW s \in R, r # s
        PROVE  More(r, s) \/ More(s, r)
    <3>1. ~(r.height = s.height /\ r.index = s.index)
      BY <2>1, TxidsAre DEF SameTxidKey
    <3> QED
      BY <1>1, <3>1, MoreIsAnOrder
  <2> QED
    BY <2>1
<1>8. StrictOrder(R, KeyOrder(R))
  <2>1. \A r \in R : r.height \in Nat /\ r.index \in Nat
    BY <1>1
  <2>2. \A r, s, t \in R : /\ More(r, s) => ~More(s, r)
                           /\ More(s, r) /\ More(t, s) => More(t, r)
    BY <2>1, MoreIsAnOrder
  <2> HIDE DEF R
  <2> QED
    BY <1>6, <1>7, <2>2 DEF StrictOrder
<1> QED
  BY <1>4, <1>5, <1>6, <1>8

\* Some number of a set is the least.
LEMMA LeastNumber ==
  ASSUME NEW S \in SUBSET Nat, S # {}
  PROVE  Min(S) \in S
<1> DEFINE R == OpToRel(<, Nat)
<1>1. IsWellFoundedOn(R, Nat)
  BY NatLessThanWellFounded
<1>2. \A x, y \in Nat : y < x => <<y, x>> \in R
  BY DEF OpToRel
<1> HIDE DEF R
<1>3. PICK h \in S : \A k \in S : <<k, h>> \notin R
  BY <1>1, WFMin
<1>4. ASSUME NEW k \in S
      PROVE  h <= k
  <2>1. h \in Nat /\ k \in Nat /\ <<k, h>> \notin R
    BY <1>3
  <2>2. ~(k < h)
    BY <1>2, <2>1
  <2> QED
    BY <2>1, <2>2
<1> QED
  BY <1>3, <1>4 DEF Min

\* What a page holds: rows of the wallet in ascending order from the place on where
\* it starts, all of them up to its end; without an end, up to where it was to end.
PageHolds(page, w, from, last) ==
  /\ page.rows \in Seq(TxidRow)
  /\ Rising(page.rows)
  /\ \A r \in ToSet(page.rows) : r \in txids /\ r.wallet = w /\ ~More(from, r)
  /\ page.end # NoEnd =>
       /\ page.end \in Place
       /\ More(page.end, from)
       /\ \A r \in ToSet(page.rows) : More(page.end, r)
       /\ \A r \in txids : r.wallet = w /\ ~More(from, r) /\ More(page.end, r) =>
            r \in ToSet(page.rows)
  /\ page.end = NoEnd =>
       \A r \in txids : r.wallet = w /\ ~More(from, r) /\ ~More(r, last) =>
         r \in ToSet(page.rows)

\* A page of the wallet with the last key
LEMMA PageLemma ==
  ASSUME ValidChain, TablesInv, NEW w \in Wallet, LastKey(w), NEW from \in Place,
         NEW limit \in Nat \ {0}, NEW last \in Place, last.index = MaxIndex
  PROVE  PageHolds(LatestTxids(w, from, limit, last), w, from, last)
<1> DEFINE start == [wallet |-> w, height |-> from.height, index |-> from.index]
           rows == {r \in txids : ~KeyBefore(r, start)}
           q == InOrder(rows, KeyOrder(rows))
           Past(i) == More(q[i], last)
           Looped(i) == i > 1 /\ ~More(q[i], q[i - 1])
           stops == {i \in DOMAIN q : Past(i) \/ Looped(i) \/ i = limit}
           at == IF stops = {} THEN Len(q) ELSE Min(stops)
           k == IF Past(at) \/ Looped(at) THEN at - 1 ELSE at
           shown == SubSeq(q, 1, k)
           end == IF More(After(q[at]), last) THEN NoEnd ELSE After(q[at])
           page == LatestTxids(w, from, limit, last)
<1>1. page = IF q = <<>> THEN [rows |-> <<>>, end |-> NoEnd]
             ELSE [rows |-> shown, end |-> end]
  BY DEF LatestTxids
<1> HIDE DEF page
<1>2. /\ rows = {r \in txids : r.wallet = w /\ ~More(from, r)}
      /\ IsFiniteSet(rows)
      /\ StrictOrder(rows, KeyOrder(rows))
      /\ \A r, s \in rows : <<r, s>> \in KeyOrder(rows) <=> More(s, r)
  BY CursorRows
<1>9. q = InOrder(rows, KeyOrder(rows))
  OBVIOUS
<1> HIDE DEF rows, q
<1>3. /\ q \in Seq(rows) /\ Len(q) \in Nat
      /\ DOMAIN q = 1 .. Len(q)
      /\ \A i, j \in 1 .. Len(q) : i < j => <<q[i], q[j]>> \in KeyOrder(rows)
      /\ \A r \in rows : \E i \in 1 .. Len(q) : q[i] = r
      /\ \A i \in 1 .. Len(q) : q[i] \in rows
  <2>1. Lists(q, rows, KeyOrder(rows))
    BY <1>2, <1>9, InOrderIs
  <2> QED
    BY <2>1 DEF Lists
<1>4. \A i, j \in 1 .. Len(q) : i < j => More(q[j], q[i])
  BY <1>2, <1>3
<1>5. \A r \in rows : /\ r \in txids /\ r \in TxidRow /\ r.wallet = w /\ ~More(from, r)
                      /\ r.height \in Nat /\ r.index \in Nat /\ r.index <= MaxIndex
  BY <1>2, TxidsAre
<1>6. /\ last.height \in Nat /\ last.index \in Nat
      /\ from.height \in Nat /\ from.index \in Nat
  BY DEF Place
<1>7. CASE q = <<>>
  <2>1. page.rows = <<>> /\ page.end = NoEnd /\ rows = {}
    BY <1>1, <1>3, <1>7
  <2>2. ToSet(page.rows) = {}
    BY <2>1 DEF ToSet
  <2>3. page.rows \in Seq(TxidRow) /\ Rising(page.rows)
    BY <2>1 DEF Rising
  <2>4. PageHolds(page, w, from, last)
    BY <1>2, <2>1, <2>2, <2>3 DEF PageHolds
  <2> QED
    BY <2>4 DEF page
<1>8. CASE q # <<>>
  <2>1. Len(q) >= 1
    BY <1>3, <1>8
  <2>2. at \in 1 .. Len(q)
    <3>1. stops \in SUBSET Nat /\ stops \subseteq 1 .. Len(q)
      BY <1>3
    <3> HIDE DEF stops
    <3>2. CASE stops = {}
      BY <1>3, <2>1, <3>2
    <3>3. CASE stops # {}
      <4>1. Min(stops) \in stops
        BY <3>1, <3>3, LeastNumber
      <4> QED
        BY <3>1, <3>3, <4>1
    <3> QED
      BY <3>2, <3>3
  <2> HIDE DEF at, stops
  <2>3. q[at] \in rows
    BY <1>3, <2>2
  <2>4. ~Looped(at)
    <3>1. at > 1 => at - 1 \in 1 .. Len(q) /\ at - 1 < at
      BY <1>3, <2>2
    <3> QED
      BY <1>4, <2>2, <3>1
  <2>5. k \in 0 .. Len(q) /\ k = IF Past(at) THEN at - 1 ELSE at
    BY <1>3, <2>2, <2>4
  <2> HIDE DEF k
  <2>6. page.rows = SubSeq(q, 1, k)
        /\ page.end = IF More(After(q[at]), last) THEN NoEnd ELSE After(q[at])
    <3>1. page.rows = shown /\ page.end = end
      <4> HIDE DEF shown, end
      <4> QED
        BY <1>1, <1>8
    <3> QED
      BY <3>1
  <2>7. /\ page.rows \in Seq(rows) /\ Len(page.rows) = k
        /\ \A i \in 1 .. k : page.rows[i] = q[i]
    BY <1>3, <2>5, <2>6
  <2>8. /\ ToSet(page.rows) = {q[i] : i \in 1 .. k}
        /\ DOMAIN page.rows = 1 .. k
    <3>1. DOMAIN page.rows = 1 .. k
      BY <2>5, <2>7
    <3> QED
      BY <2>7, <3>1 DEF ToSet
  <2>9. page.rows \in Seq(TxidRow)
    BY <1>5, <2>7
  <2>10. Rising(page.rows)
    BY <1>4, <2>5, <2>7, <2>8 DEF Rising
  <2>11. \A r \in ToSet(page.rows) : r \in rows
    BY <1>3, <2>5, <2>8
  <2>12. /\ After(q[at]) \in Place /\ More(After(q[at]), q[at])
         /\ Past(at) => More(After(q[at]), last)
         /\ \A r \in rows : More(After(q[at]), r) => ~More(r, q[at])
         /\ \A r \in rows : More(After(q[at]), last) /\ ~More(r, last) => ~More(r, q[at])
    BY <1>5, <1>6, <2>3, AfterIs
  <2>13. ASSUME NEW r \in rows, ~More(r, q[at])
         PROVE  \E i \in 1 .. at : r = q[i]
    <3>1. PICK i \in 1 .. Len(q) : q[i] = r
      BY <1>3
    <3>2. ~(at < i)
      BY <1>4, <2>2, <2>13, <3>1
    <3> QED
      BY <1>3, <2>2, <3>1, <3>2
  <2>14. ASSUME page.end # NoEnd
         PROVE  /\ page.end \in Place
                /\ More(page.end, from)
                /\ \A r \in ToSet(page.rows) : More(page.end, r)
                /\ \A r \in rows : More(page.end, r) => r \in ToSet(page.rows)
    <3>1. page.end = After(q[at]) /\ ~Past(at) /\ k = at
      BY <2>5, <2>6, <2>12, <2>14
    <3>2. page.end \in Place /\ page.end.height \in Nat /\ page.end.index \in Nat
      BY <2>12, <3>1 DEF Place
    <3>3. More(page.end, from)
      BY <1>5, <1>6, <2>3, <2>12, <3>1, <3>2, MoreIsAnOrder
    <3>4. ASSUME NEW i \in 1 .. k
          PROVE  More(page.end, q[i])
      <4>1. i = at \/ More(q[at], q[i])
        BY <1>3, <1>4, <2>2, <3>1
      <4>2. q[i] \in rows
        BY <1>3, <2>5
      <4> QED
        BY <1>5, <2>3, <2>12, <3>1, <3>2, <4>1, <4>2, MoreIsAnOrder
    <3>5. ASSUME NEW r \in rows, More(page.end, r)
          PROVE  r \in ToSet(page.rows)
      BY <2>8, <2>12, <2>13, <3>1, <3>5
    <3> QED
      BY <2>8, <3>2, <3>3, <3>4, <3>5
  <2>15. ASSUME page.end = NoEnd, NEW r \in rows, ~More(r, last)
         PROVE  r \in ToSet(page.rows)
    <3>1. More(After(q[at]), last)
      BY <2>6, <2>12, <2>15, ReaderAssumption DEF Place
    <3>2. PICK i \in 1 .. at : r = q[i]
      BY <2>12, <2>13, <2>15, <3>1
    <3>3. i \in 1 .. k
      <4>1. Past(at) => i # at
        BY <2>15, <3>2
      <4> HIDE DEF Past
      <4> QED
        BY <1>3, <2>2, <2>5, <3>2, <4>1
    <3> QED
      BY <2>8, <3>2, <3>3
  <2>16. /\ \A r \in ToSet(page.rows) : r \in txids /\ r.wallet = w /\ ~More(from, r)
         /\ \A r \in txids : r.wallet = w /\ ~More(from, r) => r \in rows
    BY <1>2, <2>11
  <2>17. PageHolds(page, w, from, last)
    BY <2>9, <2>10, <2>14, <2>15, <2>16 DEF PageHolds
  <2> QED
    BY <2>17 DEF page
<1> QED
  BY <1>7, <1>8

\* What a request for outputs gets
OutputsGiven(got, w) ==
  /\ got \in Seq(UtxoRow)
  /\ \A r \in ToSet(got) : r.wallet = w
  /\ \/ {r \in utxos : r.wallet = w} \subseteq ToSet(got)
     \/ Len(got) = UtxoLimit

\* The outputs of the wallet with the last key
LEMMA OutputsLemma ==
  ASSUME ValidChain, TablesInv, NEW w \in Wallet, LastKey(w)
  PROVE  OutputsGiven(FirstOutputs(w), w)
<1> DEFINE rows == {r \in utxos : WalletRank[r.wallet] >= WalletRank[w]}
           q == InOrder(rows, OutputOrder(rows))
           n == IF Len(q) < UtxoLimit THEN Len(q) ELSE UtxoLimit
           got == FirstOutputs(w)
<1>1. got = SubSeq(q, 1, n)
  BY DEF FirstOutputs
<1>2. \A r \in utxos : r \in UtxoRow /\ r.wallet \in Wallet /\ r.out \in Outpoint
  BY UtxosAre, RowFields
<1>3. /\ \A v \in Wallet : /\ WalletRank[v] \in Nat /\ WalletRank[v] <= WalletRank[w]
                           /\ WalletRank[v] = WalletRank[w] => v = w
      /\ \A o, p \in Outpoint : /\ OutRank[o] \in Nat
                                /\ OutRank[o] = OutRank[p] => o = p
  BY ReaderAssumption DEF LastKey
<1>4. rows = {r \in utxos : r.wallet = w}
  BY <1>2, <1>3
<1>5. IsFiniteSet(rows)
  BY <1>4, UtxosAre
<1>6. ASSUME NEW r \in rows, NEW s \in rows
      PROVE  <<r, s>> \in OutputOrder(rows) <=> OutRank[r.out] < OutRank[s.out]
  <2>1. r.wallet = w /\ s.wallet = w
    BY <1>4
  <2>2. OutputBefore(r, s) <=> OutRank[r.out] < OutRank[s.out]
    BY <1>3, <2>1 DEF OutputBefore
  <2> HIDE DEF rows
  <2>3. <<r, s>> \in OutputOrder(rows) <=> OutputBefore(r, s)
    BY DEF OutputOrder
  <2> QED
    BY <2>2, <2>3
<1>7. ASSUME NEW r \in rows, NEW s \in rows, r # s
      PROVE  OutRank[r.out] # OutRank[s.out]
  <2>1. r \in utxos /\ s \in utxos /\ r.wallet = w /\ s.wallet = w
    BY <1>4
  <2>2. r.out # s.out
    BY <1>7, <2>1, UtxosAre DEF SameOutput
  <2> QED
    BY <1>2, <1>3, <2>1, <2>2
<1>8. \A r \in rows : OutRank[r.out] \in Nat
  BY <1>2, <1>3
<1>9. q = InOrder(rows, OutputOrder(rows))
  OBVIOUS
<1> HIDE DEF rows, q
<1>10. StrictOrder(rows, OutputOrder(rows))
  BY <1>6, <1>7, <1>8 DEF StrictOrder
<1>11. Lists(q, rows, OutputOrder(rows))
  BY <1>5, <1>9, <1>10, InOrderIs
<1>12. /\ q \in Seq(rows) /\ Len(q) \in Nat
       /\ \A r \in rows : \E i \in 1 .. Len(q) : q[i] = r
       /\ \A i \in 1 .. Len(q) : q[i] \in rows
  BY <1>11 DEF Lists
<1>13. n \in 0 .. Len(q) /\ n <= UtxoLimit /\ (n < UtxoLimit => n = Len(q))
  BY <1>12, ReaderAssumption
<1> HIDE DEF n, got
<1>14. /\ got \in Seq(rows) /\ Len(got) = n
       /\ \A i \in 1 .. n : got[i] = q[i]
  BY <1>1, <1>12, <1>13
<1>15. ToSet(got) = {q[i] : i \in 1 .. n}
  <2>1. DOMAIN got = 1 .. n
    BY <1>13, <1>14
  <2> QED
    BY <1>14, <2>1 DEF ToSet
<1>16. \A r \in ToSet(got) : r \in rows
  BY <1>12, <1>13, <1>15
<1>17. rows \subseteq ToSet(got) \/ Len(got) = UtxoLimit
  <2>1. CASE n = Len(q)
    BY <1>12, <1>15, <2>1
  <2>2. CASE n = UtxoLimit
    BY <1>14, <2>2
  <2> QED
    BY <1>12, <1>13, <2>1, <2>2, ReaderAssumption
<1>18. got \in Seq(UtxoRow)
  <2>1. rows \subseteq UtxoRow
    BY <1>2, <1>4
  <2> QED
    BY <1>14, <2>1
<1>19. OutputsGiven(got, w)
  BY <1>4, <1>16, <1>17, <1>18 DEF OutputsGiven
<1> QED
  BY <1>19 DEF got

----------------------------------------------------------------------------
(* What a stream has been given so far                                     *)

Listed == Rows \ {"utxos"}
HasEnd(s) == s.ask.kind \in SendsEnd /\ s.ask.until # Undefined
Given(s) == s.got \o s.page

\* The rows of the wallet that were there all along and are below a place are given,
\* and nothing else is.
GivenUpTo(s, at) ==
  /\ at \in Place
  /\ \A r \in ToSet(Given(s)) : More(at, r)
  /\ \A r \in s.owed : r \in ToSet(Given(s)) \/ ~More(at, r)

\* The place where the next page of s starts
NextPlace(s) == IF s.stage \in {"ask", "asked"} THEN s.position ELSE s.end

GivenAll(s) == s.owed \subseteq ToSet(Given(s))

\* The rows given ascend and are of the wallet; what is owed is in the table.
InOneOrder(s) ==
  /\ s.got \in Seq(TxidRow) /\ s.page \in Seq(TxidRow)
  /\ Rising(Given(s))
  /\ \A r \in ToSet(Given(s)) : r.wallet = s.ask.wallet
  /\ s.stage \in {"ask", "asked", "done"} => s.page = <<>>

OwedIs(s, rows) ==
  /\ s.owed \subseteq rows
  /\ \A r \in s.owed : r.wallet = s.ask.wallet
  /\ ~s.begun => s.owed = {}
  /\ HasEnd(s) => \A r \in s.owed : r.height <= s.ask.until

\* The end of the request that is under way
LastIs(s) ==
  /\ s.last \in Place /\ s.last.index = MaxIndex
  /\ HasEnd(s) => s.last.height = s.ask.until
  /\ \A r \in s.owed : ~More(r, s.last)

Underway == {"ask", "asked", "page", "saving", "reply", "done"}

ListHolds(s, rows) ==
  s.stage \in Underway /\ s.ask.kind \in Listed =>
    /\ InOneOrder(s)
    /\ OwedIs(s, rows)
    /\ s.stage = "asked" => LastIs(s)
    /\ IF s.stage = "done" \/ (s.stage \notin {"ask", "asked"} /\ s.end = NoEnd)
       THEN GivenAll(s) ELSE GivenUpTo(s, NextPlace(s))

OutputsHold(s) ==
  s.stage = "done" /\ s.ask.kind = "utxos" =>
    /\ \A r \in ToSet(s.got) : r.wallet = s.ask.wallet
    /\ s.owed \subseteq ToSet(s.got) \/ Len(s.got) = UtxoLimit

StreamHolds(s, rows) ==
  s.stage # "idle" => s.ask \in Asks /\ ListHolds(s, rows) /\ OutputsHold(s)

SInv == TablesInv /\ \A c \in Reader : StreamHolds(stream[c], txids)

----------------------------------------------------------------------------
(* What the writer leaves of a stream                                      *)

\* What is committed shows the chain.
LEMMA CommitShows ==
  ASSUME TablesInv, Commit, tip' \in Block, tracked' \in SUBSET (Wallet \X Address)
  PROVE  TablesInv'
BY DatabaseAssumption DEF TablesInv, Commit

\* A transaction is not an output.
LEMMA RowsDiffer == \A r \in TxidRow : r \notin UtxoRow
BY DEF TxidRow, UtxoRow

\* More addresses have more transactions.
LEMMA TxidsGrow ==
  ASSUME ValidChain, NEW b \in Block, NEW few \in SUBSET (Wallet \X Address),
         NEW many \in SUBSET (Wallet \X Address), few \subseteq many
  PROVE  TxidsAt(b, few) \subseteq TxidsAt(b, many)
BY TxidsAtRows DEF TxRows

\* What leaves the table is no longer owed.
LEMMA OwedLess ==
  ASSUME NEW s, IsStream(s), NEW rows, StreamHolds(s, rows), NEW owed, owed \subseteq s.owed,
         NEW now, owed \cap rows \subseteq now
  PROVE  StreamHolds([s EXCEPT !.owed = owed], now)
<1> DEFINE t == [s EXCEPT !.owed = owed]
<1>1. /\ t.owed = owed /\ t.stage = s.stage /\ t.ask = s.ask /\ t.position = s.position
      /\ t.last = s.last /\ t.page = s.page /\ t.end = s.end /\ t.got = s.got
      /\ t.begun = s.begun
  BY DEF IsStream, Fields
<1> HIDE DEF t
<1>2. Given(t) = Given(s) /\ NextPlace(t) = NextPlace(s) /\ (HasEnd(t) <=> HasEnd(s))
  BY <1>1 DEF Given, NextPlace, HasEnd
<1>3. InOneOrder(s) => InOneOrder(t)
  BY <1>1, <1>2 DEF InOneOrder
<1>4. OwedIs(s, rows) => OwedIs(t, now)
  BY <1>1, <1>2 DEF OwedIs
<1>5. LastIs(s) => LastIs(t)
  BY <1>1, <1>2 DEF LastIs
<1>6. GivenAll(s) => GivenAll(t)
  BY <1>1, <1>2 DEF GivenAll
<1>7. \A at : GivenUpTo(s, at) => GivenUpTo(t, at)
  BY <1>1, <1>2 DEF GivenUpTo
<1>8. ListHolds(s, rows) => ListHolds(t, now)
  BY <1>1, <1>2, <1>3, <1>4, <1>5, <1>6, <1>7 DEF ListHolds
<1>9. OutputsHold(s) => OutputsHold(t)
  BY <1>1 DEF OutputsHold
<1>10. StreamHolds(t, now)
  BY <1>1, <1>8, <1>9 DEF StreamHolds
<1> QED
  BY <1>10 DEF t

\* And what comes into it is not.
LEMMA RowsMore ==
  ASSUME NEW s, NEW rows, StreamHolds(s, rows), NEW more, rows \subseteq more
  PROVE  StreamHolds(s, more)
BY DEF StreamHolds, ListHolds, OwedIs

\* The client that no rows move
LEMMA IdleHolds == \A rows : StreamHolds(Idle, rows)
BY DEF StreamHolds, Idle

\* A block comes or goes.
LEMMA TipHolds ==
  ASSUME ValidChain, RInv, SInv, tip # Undefined, tip' \in Block, tracked' = tracked, Commit,
         stream' = StillOwed(txids' \cup utxos')
  PROVE  SInv'
<1>1. TablesInv'
  BY CommitShows DEF SInv, TablesInv
<1>2. utxos' \in SUBSET UtxoRow
  <2>1. utxos' = UtxoRows(Everywhere(tip'), tracked)
    BY OutputsAtRows DEF Commit, SInv, TablesInv
  <2> QED
    BY <2>1 DEF UtxoRows
<1>3. txids \in SUBSET TxidRow
  BY TxidsAre DEF SInv
<1>4. ASSUME NEW c \in Reader
      PROVE  StreamHolds(stream'[c], txids')
  <2>1. CASE At(c, "idle")
    BY <2>1, IdleHolds DEF StillOwed
  <2>2. CASE ~At(c, "idle")
    <3> DEFINE s == stream[c]
               owed == s.owed \cap (txids' \cup utxos')
    <3>1. stream'[c] = [s EXCEPT !.owed = owed]
      BY <2>2 DEF StillOwed
    <3>2. IsStream(s) /\ StreamHolds(s, txids)
      BY <2>2, HasRecord DEF At, RInv, SInv
    <3>3. owed \cap txids \subseteq txids' /\ owed \subseteq s.owed
      BY <1>2, <1>3, RowsDiffer
    <3> HIDE DEF owed, s
    <3> QED
      BY <3>1, <3>2, <3>3, OwedLess
  <2> QED
    BY <2>1, <2>2
<1> QED
  BY <1>1, <1>4 DEF SInv

\* An import: the wallet has more addresses.
LEMMA ImportHolds ==
  ASSUME ValidChain, RInv, SInv, NEW w \in Wallet, NEW added \in SUBSET Address,
         ImportAddresses(w, added)
  PROVE  SInv'
<1>1. /\ tip # Undefined /\ tip' = tip /\ Commit
      /\ tracked' = tracked \cup {<<w, a>> : a \in added}
  BY DEF ImportAddresses, Ledger!Track
<1>2. tip \in Block /\ tracked \in SUBSET (Wallet \X Address) /\ txids = TxidsAt(tip, tracked)
  BY <1>1 DEF SInv, TablesInv
<1>3. tracked' \in SUBSET (Wallet \X Address)
  BY <1>1, <1>2
<1>4. TablesInv'
  BY <1>1, <1>2, <1>3, CommitShows DEF SInv
<1>5. txids \subseteq txids'
  <2>1. txids' = TxidsAt(tip, tracked')
    BY <1>1 DEF Commit
  <2> QED
    BY <1>1, <1>2, <1>3, <2>1, TxidsGrow
<1>6. ASSUME NEW c \in Reader
      PROVE  StreamHolds(stream'[c], txids')
  <2> DEFINE s == stream[c]
             t == [s EXCEPT !.raced = TRUE]
  <2>1. StreamHolds(s, txids')
    BY <1>5, RowsMore DEF SInv
  <2>2. stream'[c] = s \/ (stream'[c] = t /\ s.stage # "idle")
    BY DEF ImportAddresses
  <2>3. ASSUME IsStream(s)
        PROVE  StreamHolds(t, txids')
    <3>1. /\ t.owed = s.owed /\ t.stage = s.stage /\ t.ask = s.ask /\ t.position = s.position
          /\ t.last = s.last /\ t.page = s.page /\ t.end = s.end /\ t.got = s.got
          /\ t.begun = s.begun
      BY <2>3 DEF IsStream, Fields
    <3> HIDE DEF t, s
    <3>2. Given(t) = Given(s) /\ NextPlace(t) = NextPlace(s) /\ (HasEnd(t) <=> HasEnd(s))
      BY <3>1 DEF Given, NextPlace, HasEnd
    <3>3. /\ InOneOrder(s) => InOneOrder(t)
          /\ LastIs(s) => LastIs(t)
          /\ GivenAll(s) => GivenAll(t)
      BY <3>1, <3>2 DEF InOneOrder, LastIs, GivenAll
    <3>4. OwedIs(s, txids') => OwedIs(t, txids')
      BY <3>1, <3>2 DEF OwedIs
    <3>5. \A at : GivenUpTo(s, at) => GivenUpTo(t, at)
      BY <3>1, <3>2 DEF GivenUpTo
    <3>6. ListHolds(s, txids') => ListHolds(t, txids')
      BY <3>1, <3>2, <3>3, <3>4, <3>5 DEF ListHolds
    <3>7. OutputsHold(s) => OutputsHold(t)
      BY <3>1 DEF OutputsHold
    <3> QED
      BY <2>1, <3>1, <3>6, <3>7 DEF StreamHolds
  <2>4. s.stage # "idle" => IsStream(s)
    BY HasRecord DEF RInv
  <2> QED
    BY <2>1, <2>2, <2>3, <2>4
<1> QED
  BY <1>4, <1>6 DEF SInv

\* What is given stays true when the writer commits.
LEMMA WriterHolds ==
  ASSUME ValidChain, RInv, SInv, Writer
  PROVE  SInv'
<1>0. tracked \in SUBSET (Wallet \X Address)
  BY DEF SInv, TablesInv
<1>1. ASSUME NEW w \in Wallet, CreateWallet(w)
      PROVE  SInv'
  <2>1. CASE UNCHANGED ledger
    <3>1. UNCHANGED stream
      BY <1>1 DEF CreateWallet
    <3> QED
      BY <2>1, <3>1 DEF SInv, TablesInv, ledger, At
  <2>2. ASSUME NEW b \in FirstTips, Ledger!Begin(b), Commit
        PROVE  SInv'
    <3>1. tip = Undefined /\ tip' \in Block /\ tracked' = tracked /\ UNCHANGED stream
      BY <1>1, <2>2, ReaderAssumption DEF Ledger!Begin, CreateWallet
    <3>2. TablesInv'
      BY <1>0, <2>2, <3>1, CommitShows DEF SInv
    <3>3. \A c \in Reader : stream[c].stage = "idle"
      BY <3>1 DEF SInv, TablesInv, At
    <3> QED
      BY <3>1, <3>2, <3>3 DEF SInv, StreamHolds
  <2> QED
    BY <1>1, <2>1, <2>2 DEF CreateWallet
<1>2. CASE ConnectBlock
  <2>1. /\ tip # Undefined /\ tip' \in Block /\ tracked' = tracked /\ Commit
        /\ stream' = StillOwed(txids' \cup utxos')
    BY <1>2 DEF ConnectBlock, Ledger!Extend
  <2> QED
    BY <2>1, TipHolds
<1>3. CASE DisconnectTip
  <2>1. /\ tip # Undefined /\ tip' = Parent[tip] /\ Parent[tip] # NoBlock
        /\ tracked' = tracked /\ Commit
        /\ stream' = StillOwed(txids' \cup utxos')
    BY <1>3 DEF DisconnectTip, Ledger!Rewind
  <2>2. tip' \in Block
    BY <2>1, ChainAssumption DEF SInv, TablesInv
  <2> QED
    BY <2>1, <2>2, TipHolds
<1>4. ASSUME NEW i \in Imports, ImportAddresses(i[1], i[2])
      PROVE  SInv'
  <2>1. i[1] \in Wallet /\ i[2] \in SUBSET Address
    BY ReaderAssumption
  <2> QED
    BY <1>4, <2>1, ImportHolds
<1> QED
  BY <1>1, <1>2, <1>3, <1>4 DEF Writer

----------------------------------------------------------------------------
(* The steps of a client                                                   *)

\* One client goes on, and the tables stay.
LEMMA ClientHolds ==
  ASSUME RInv, SInv, UNCHANGED ledger, NEW c \in Reader, NEW s, s = Idle \/ IsStream(s),
         Become(c, s), tip # Undefined, StreamHolds(s, txids)
  PROVE  SInv'
<1>1. /\ stream'[c] = s
      /\ \A d \in Reader : d # c => stream'[d] = stream[d]
  BY BecomeStream DEF RInv
<1>2. UNCHANGED <<tip, tracked, utxos, txids>>
  BY DEF ledger
<1>3. TablesInv'
  BY <1>2 DEF SInv, TablesInv
<1>4. ASSUME NEW d \in Reader
      PROVE  StreamHolds(stream'[d], txids)
  BY <1>1 DEF SInv
<1> QED
  BY <1>2, <1>3, <1>4 DEF SInv

\* A client that reads has a tip to read at, and has asked.
LEMMA Reads ==
  ASSUME RInv, SInv, NEW c \in Reader, stream[c].stage # "idle"
  PROVE  /\ IsStream(stream[c]) /\ StreamHolds(stream[c], txids)
         /\ stream[c].ask \in Asks
         /\ tip # Undefined
BY HasRecord DEF RInv, SInv, StreamHolds, TablesInv, At

\* What is asked
LEMMA AskIs ==
  ASSUME NEW ask \in Asks
  PROVE  /\ ask.wallet \in Wallet /\ ask.limit \in Nat \ {0}
         /\ [height |-> ask.height, index |-> ask.index] \in Place
         /\ ask.until # Undefined => ask.until \in Nat
BY ReaderAssumption DEF Place

\* A stream that has failed or stopped is owed nothing.
LEMMA EndedHolds ==
  ASSUME NEW s, s.ask \in Asks, s.stage \notin Underway, NEW rows
  PROVE  StreamHolds(s, rows)
BY DEF StreamHolds, ListHolds, OutputsHold, Underway

\* A stream begins.
LEMMA StartHolds ==
  ASSUME NEW ask \in Asks, NEW rows
  PROVE  /\ StreamHolds(Start(ask), rows)
         /\ StreamHolds([Start(ask) EXCEPT !.stage = "failed"], rows)
<1> DEFINE s == Start(ask)
           f == [Start(ask) EXCEPT !.stage = "failed"]
<1>1. /\ s.stage = "ask" /\ s.ask = ask /\ s.position = [height |-> ask.height, index |-> ask.index]
      /\ s.got = <<>> /\ s.page = <<>> /\ s.owed = {} /\ s.begun = FALSE
  BY DEF Start
<1>2. f.stage = "failed" /\ f.ask = ask
  BY DEF Start
<1> HIDE DEF s, f
<1>3. Given(s) = <<>> /\ ToSet(Given(s)) = {} /\ Rising(Given(s)) /\ s.position \in Place
  BY <1>1, AskIs DEF Given, ToSet, Rising
<1>4. InOneOrder(s) /\ OwedIs(s, rows) /\ GivenUpTo(s, NextPlace(s))
  BY <1>1, <1>3 DEF InOneOrder, OwedIs, GivenUpTo, NextPlace
<1>5. StreamHolds(s, rows)
  BY <1>1, <1>4 DEF StreamHolds, ListHolds, OutputsHold
<1>6. StreamHolds(f, rows)
  BY <1>2, EndedHolds DEF Underway
<1> QED
  BY <1>5, <1>6 DEF s, f

\* The next transaction of a page, and the end of its transactions: what is given
\* stays.
LEMMA SamePage ==
  ASSUME NEW s, NEW t, NEW rows, StreamHolds(s, rows),
         s.stage \in {"page", "saving"}, t.stage \in {"page", "saving", "reply"},
         t.ask = s.ask, t.got = s.got, t.page = s.page, t.end = s.end,
         t.owed = s.owed, t.begun = s.begun
  PROVE  StreamHolds(t, rows)
<1>1. Given(t) = Given(s) /\ NextPlace(t) = NextPlace(s) /\ (HasEnd(t) <=> HasEnd(s))
  BY DEF Given, NextPlace, HasEnd
<1>2. /\ InOneOrder(s) => InOneOrder(t)
      /\ OwedIs(s, rows) => OwedIs(t, rows)
      /\ GivenAll(s) => GivenAll(t)
  BY <1>1 DEF InOneOrder, OwedIs, GivenAll
<1>3. \A at : GivenUpTo(s, at) => GivenUpTo(t, at)
  BY <1>1 DEF GivenUpTo
<1>4. ListHolds(s, rows) => ListHolds(t, rows)
  BY <1>1, <1>2, <1>3 DEF ListHolds, Underway
<1> QED
  BY <1>4 DEF StreamHolds, OutputsHold

\* The request for the next page: what is owed is not past its end.
LEMMA RequestHolds ==
  ASSUME ValidChain, RInv, SInv, NEW c \in Reader, Request(c)
  PROVE  SInv'
<1> DEFINE s == stream[c]
           hasEnd == s.ask.kind \in SendsEnd /\ s.ask.until # Undefined
           until == IF hasEnd THEN s.ask.until ELSE Height[tip]
           last == [height |-> until, index |-> MaxIndex]
           t == [s EXCEPT !.stage = "asked", !.last = last]
<1>1. s.stage = "ask" /\ Become(c, t) /\ UNCHANGED ledger
  BY DEF Request, At
<1>2. IsStream(s) /\ StreamHolds(s, txids) /\ s.ask \in Asks /\ tip # Undefined
  BY <1>1, Reads
<1>3. last \in Place /\ last.height = until /\ last.index = MaxIndex
      /\ (hasEnd => until = s.ask.until) /\ (~hasEnd => until = Height[tip])
  <2>1. Height[tip] \in Nat /\ MaxIndex \in Nat
    BY <1>2, ChainAssumption, ReaderAssumption DEF SInv, TablesInv
  <2> QED
    BY <1>2, <2>1, AskIs DEF Place
<1>4. HasEnd(s) <=> hasEnd
  BY DEF HasEnd
<1> HIDE DEF last, until, hasEnd
<1>5. /\ t.stage = "asked" /\ t.last = last /\ t.ask = s.ask /\ t.position = s.position
      /\ t.page = s.page /\ t.end = s.end /\ t.got = s.got /\ t.owed = s.owed
      /\ t.begun = s.begun /\ IsStream(t)
  BY <1>2 DEF IsStream, Fields
<1>6. Become(c, t)
  BY <1>1
<1> HIDE DEF t
<1>7. Given(t) = Given(s) /\ NextPlace(t) = NextPlace(s) /\ (HasEnd(t) <=> HasEnd(s))
  BY <1>1, <1>5 DEF Given, NextPlace, HasEnd
<1>8. ASSUME s.ask.kind \in Listed
      PROVE  ListHolds(t, txids)
  <2>1. InOneOrder(s) /\ OwedIs(s, txids) /\ GivenUpTo(s, NextPlace(s))
    BY <1>1, <1>2, <1>8 DEF StreamHolds, ListHolds, Underway
  <2>2. InOneOrder(t) /\ OwedIs(t, txids) /\ GivenUpTo(t, NextPlace(t))
    BY <1>1, <1>5, <1>7, <2>1 DEF InOneOrder, OwedIs, GivenUpTo
  <2>3. \A r \in s.owed : r.height \in Nat /\ r.index \in Nat /\ r.index <= MaxIndex
                          /\ r.height <= until
    BY <1>2, <1>3, <1>4, <2>1, TxidsAre DEF OwedIs, SInv
  <2>4. \A r \in s.owed : ~More(r, last)
    BY <1>3, <2>3, ReaderAssumption DEF More, Place
  <2>5. LastIs(t)
    BY <1>3, <1>4, <1>5, <1>7, <2>4 DEF LastIs
  <2> QED
    BY <1>5, <2>2, <2>5 DEF ListHolds
<1>9. StreamHolds(t, txids)
  BY <1>2, <1>5, <1>8 DEF StreamHolds, ListHolds, OutputsHold
<1> QED
  BY <1>1, <1>2, <1>5, <1>6, <1>9, ClientHolds

----------------------------------------------------------------------------
(* Sequences that follow each other                                        *)

\* The members of both
LEMMA ToSetOfBoth ==
  ASSUME NEW S, NEW p \in Seq(S), NEW q \in Seq(S)
  PROVE  /\ p \o q \in Seq(S)
         /\ ToSet(p \o q) = ToSet(p) \cup ToSet(q)
<1>1. /\ Len(p) \in Nat /\ Len(q) \in Nat /\ p \o q \in Seq(S)
      /\ Len(p \o q) = Len(p) + Len(q)
      /\ DOMAIN p = 1 .. Len(p) /\ DOMAIN q = 1 .. Len(q)
      /\ DOMAIN (p \o q) = 1 .. Len(p) + Len(q)
  OBVIOUS
<1>2. \A i \in 1 .. Len(p) + Len(q) :
        (p \o q)[i] = IF i <= Len(p) THEN p[i] ELSE q[i - Len(p)]
  OBVIOUS
<1>3. ASSUME NEW i \in 1 .. Len(p) + Len(q)
      PROVE  (p \o q)[i] \in ToSet(p) \cup ToSet(q)
  BY <1>1, <1>2 DEF ToSet
<1>4. ASSUME NEW i \in 1 .. Len(p)
      PROVE  p[i] \in ToSet(p \o q)
  <2>1. i \in 1 .. Len(p) + Len(q) /\ (p \o q)[i] = p[i]
    BY <1>1, <1>2
  <2> QED
    BY <1>1, <2>1 DEF ToSet
<1>5. ASSUME NEW i \in 1 .. Len(q)
      PROVE  q[i] \in ToSet(p \o q)
  <2>1. i + Len(p) \in 1 .. Len(p) + Len(q) /\ (p \o q)[i + Len(p)] = q[i]
    BY <1>1, <1>2
  <2> QED
    BY <1>1, <2>1 DEF ToSet
<1> QED
  BY <1>1, <1>3, <1>4, <1>5 DEF ToSet

\* Rows that ascend, after rows that are all below them
LEMMA RisingBoth ==
  ASSUME NEW S, NEW p \in Seq(S), NEW q \in Seq(S), Rising(p), Rising(q),
         \A r \in ToSet(p), s \in ToSet(q) : More(s, r)
  PROVE  Rising(p \o q)
<1>1. /\ Len(p) \in Nat /\ Len(q) \in Nat
      /\ DOMAIN p = 1 .. Len(p) /\ DOMAIN q = 1 .. Len(q)
      /\ DOMAIN (p \o q) = 1 .. Len(p) + Len(q)
  OBVIOUS
<1>2. \A i \in 1 .. Len(p) + Len(q) :
        (p \o q)[i] = IF i <= Len(p) THEN p[i] ELSE q[i - Len(p)]
  OBVIOUS
<1>3. ASSUME NEW i \in 1 .. Len(p) + Len(q), NEW j \in 1 .. Len(p) + Len(q), i < j
      PROVE  More((p \o q)[j], (p \o q)[i])
  <2>1. CASE j <= Len(p)
    BY <1>1, <1>2, <1>3, <2>1 DEF Rising
  <2>2. CASE i > Len(p)
    <3>1. /\ i - Len(p) \in 1 .. Len(q) /\ j - Len(p) \in 1 .. Len(q)
          /\ i - Len(p) < j - Len(p)
      BY <1>1, <1>3, <2>2
    <3>2. More(q[j - Len(p)], q[i - Len(p)])
      BY <1>1, <3>1 DEF Rising
    <3> QED
      BY <1>1, <1>2, <1>3, <2>2, <3>2
  <2>3. CASE i <= Len(p) /\ j > Len(p)
    <3>1. i \in DOMAIN p /\ j - Len(p) \in DOMAIN q
      BY <1>1, <1>3, <2>3
    <3>2. p[i] \in ToSet(p) /\ q[j - Len(p)] \in ToSet(q)
      BY <3>1 DEF ToSet
    <3> QED
      BY <1>1, <1>2, <1>3, <2>3, <3>2
  <2> QED
    BY <1>1, <1>3, <2>1, <2>2, <2>3
<1> QED
  BY <1>1, <1>3 DEF Rising

----------------------------------------------------------------------------
(* The steps of a page                                                     *)

\* Stream t is stream s with the page it has asked for.
PageFor(s) == LatestTxids(s.ask.wallet, s.position, s.ask.limit, s.last)
HasPage(t, s) ==
  /\ t.stage \in {"page", "reply"} /\ t.ask = s.ask /\ t.got = s.got
  /\ t.page = PageFor(s).rows /\ t.end = PageFor(s).end
  /\ t.owed = Owed(s) /\ t.begun = TRUE

\* A page is added to what is given, up to its end.
LEMMA PageGiven ==
  ASSUME ValidChain, TablesInv, tip # Undefined, NEW s, IsStream(s), StreamHolds(s, txids),
         s.stage = "asked", s.ask \in Asks, LastKey(s.ask.wallet),
         NEW t, HasPage(t, s)
  PROVE  StreamHolds(t, txids)
<1> DEFINE w == s.ask.wallet
           from == s.position
           last == s.last
           page == PageFor(s)
<1>0. /\ t.stage \in {"page", "reply"} /\ t.ask = s.ask /\ t.got = s.got
      /\ t.page = page.rows /\ t.end = page.end
      /\ t.owed = Owed(s) /\ t.begun = TRUE
  BY DEF HasPage
<1> SUFFICES ASSUME s.ask.kind \in Listed
             PROVE  ListHolds(t, txids)
  BY <1>0 DEF StreamHolds, ListHolds, OutputsHold
<1>1. InOneOrder(s) /\ OwedIs(s, txids) /\ LastIs(s) /\ GivenUpTo(s, from) /\ s.page = <<>>
  BY DEF StreamHolds, ListHolds, InOneOrder, NextPlace, Underway
<1>2. /\ from \in Place /\ last \in Place /\ last.index = MaxIndex
      /\ s.got \in Seq(TxidRow) /\ Given(s) = s.got
  BY <1>1 DEF InOneOrder, LastIs, GivenUpTo, Given
<1>3. PageHolds(page, w, from, last)
  BY <1>2, AskIs, PageLemma DEF PageFor
<1> HIDE DEF page
<1>4. /\ page.rows \in Seq(TxidRow) /\ Rising(page.rows)
      /\ \A r \in ToSet(page.rows) : r \in txids /\ r.wallet = w /\ ~More(from, r)
  BY <1>3 DEF PageHolds
<1>5. /\ \A r \in txids : r.height \in Nat /\ r.index \in Nat /\ r.index <= MaxIndex
      /\ from.height \in Nat /\ from.index \in Nat
      /\ last.height \in Nat /\ last.index \in Nat
  BY <1>2, TxidsAre DEF Place
<1>6. ToSet(Given(t)) = ToSet(s.got) \cup ToSet(page.rows)
  BY <1>0, <1>2, <1>4, ToSetOfBoth DEF Given
<1>7. \A g \in ToSet(s.got) : g \in TxidRow /\ g.wallet = w /\ More(from, g)
  BY <1>1, <1>2 DEF InOneOrder, GivenUpTo, ToSet
<1>8. \A g \in ToSet(s.got) : g.height \in Nat /\ g.index \in Nat
  BY <1>7, TxRowFields
<1>9. InOneOrder(t)
  <2>1. \A g \in ToSet(s.got), r \in ToSet(page.rows) : More(r, g)
    BY <1>4, <1>5, <1>7, <1>8, MoreIsAnOrder
  <2>2. Rising(s.got)
    BY <1>1, <1>2 DEF InOneOrder
  <2>3. Rising(Given(t))
    BY <1>0, <1>2, <1>4, <2>1, <2>2, RisingBoth DEF Given
  <2> QED
    BY <1>0, <1>2, <1>4, <1>6, <1>7, <2>3 DEF InOneOrder
<1>10. /\ \A r \in t.owed : /\ r \in txids /\ r.wallet = w /\ ~More(r, last)
                            /\ r \in ToSet(s.got) \/ ~More(from, r)
  BY <1>0, <1>1, <1>2 DEF Owed, OwedIs, LastIs, GivenUpTo
<1>11. HasEnd(t) => \A r \in t.owed : r.height <= t.ask.until
  <2>1. HasEnd(t) => last.height = t.ask.until
    BY <1>0, <1>1 DEF LastIs, HasEnd
  <2>2. \A r \in t.owed : r.height <= last.height
    BY <1>5, <1>10 DEF More
  <2> QED
    BY <2>1, <2>2
<1>12. OwedIs(t, txids)
  BY <1>0, <1>10, <1>11 DEF OwedIs
<1>13. CASE page.end = NoEnd
  <2>1. \A r \in t.owed : ~More(from, r) => r \in ToSet(page.rows)
    BY <1>3, <1>10, <1>13 DEF PageHolds
  <2>2. GivenAll(t)
    BY <1>6, <1>10, <2>1 DEF GivenAll
  <2> QED
    BY <1>0, <1>9, <1>12, <1>13, <2>2 DEF ListHolds
<1>14. CASE page.end # NoEnd
  <2>1. /\ page.end \in Place /\ More(page.end, from)
        /\ \A r \in ToSet(page.rows) : More(page.end, r)
        /\ \A r \in txids : r.wallet = w /\ ~More(from, r) /\ More(page.end, r) =>
             r \in ToSet(page.rows)
    BY <1>3, <1>14 DEF PageHolds
  <2>2. page.end.height \in Nat /\ page.end.index \in Nat
    BY <2>1 DEF Place
  <2>3. \A g \in ToSet(s.got) : More(page.end, g)
    BY <1>5, <1>7, <1>8, <2>1, <2>2, MoreIsAnOrder
  <2>4. \A r \in t.owed : r \in ToSet(Given(t)) \/ ~More(page.end, r)
    BY <1>6, <1>10, <2>1
  <2>5. GivenUpTo(t, NextPlace(t))
    BY <1>0, <1>6, <2>1, <2>3, <2>4 DEF GivenUpTo, NextPlace
  <2> QED
    BY <1>0, <1>9, <1>12, <1>14, <2>5 DEF ListHolds
<1> QED
  BY <1>13, <1>14

\* A request is answered.
LEMMA AnswerHolds ==
  ASSUME ValidChain, LastWallets, RInv, SInv, NEW c \in Reader,
         \/ NoSlot(c) \/ GetWalletTxids(c) \/ GetWalletTransactions(c)
         \/ GetWalletUTXOs(c) \/ GetBalance(c)
  PROVE  SInv'
<1> DEFINE s == stream[c]
           failed == [Start(s.ask) EXCEPT !.stage = "failed"]
<1>1. s.stage = "asked" /\ UNCHANGED ledger
  BY DEF NoSlot, GetWalletTxids, GetWalletTransactions, GetWalletUTXOs, GetBalance, Asking, At
<1>2. IsStream(s) /\ StreamHolds(s, txids) /\ s.ask \in Asks /\ tip # Undefined
      /\ LastKey(s.ask.wallet)
  BY <1>1, Reads DEF LastWallets
<1>3. CASE Become(c, failed)
  BY <1>1, <1>2, <1>3, StartIsStream, StartHolds, ClientHolds
<1>4. ASSUME NEW t, IsStream(t), Become(c, t), HasPage(t, s)
      PROVE  SInv'
  <2>1. StreamHolds(t, txids)
    BY <1>1, <1>2, <1>4, PageGiven DEF SInv
  <2> QED
    BY <1>1, <1>2, <1>4, <2>1, ClientHolds
<1>5. ASSUME NEW stage \in {"page", "reply"}, NEW snapshot
      PROVE  LET t == [PageOf(s) EXCEPT !.stage = stage, !.snapshot = snapshot, !.raced = FALSE]
             IN IsStream(t) /\ HasPage(t, s)
  <2> DEFINE owed == Owed(s)
             rows == PageFor(s).rows
             end == PageFor(s).end
             t == [PageOf(s) EXCEPT !.stage = stage, !.snapshot = snapshot, !.raced = FALSE]
  <2>1. PageOf(s) = [s EXCEPT !.stage = "page", !.last = NoEnd,
                       !.page = rows, !.todo = rows, !.end = end,
                       !.snapshot = [tracked |-> tracked, saved |-> saved], !.raced = FALSE,
                       !.begun = TRUE, !.owed = owed]
    BY DEF PageOf, PageFor
  <2> HIDE DEF owed, rows, end
  <2>2. /\ IsStream(t) /\ t.stage = stage /\ t.ask = s.ask /\ t.got = s.got
        /\ t.page = rows /\ t.end = end /\ t.owed = owed /\ t.begun = TRUE
    BY <1>2, <1>5, <2>1 DEF IsStream, Fields
  <2> QED
    BY <1>5, <2>2 DEF HasPage, owed, rows, end
<1> HIDE DEF failed
<1>6. CASE NoSlot(c)
  BY <1>3, <1>6 DEF NoSlot, Fail, failed
<1>7. CASE GetWalletTxids(c)
  <2>1. Become(c, [PageOf(s) EXCEPT !.stage = "reply", !.snapshot = Undefined, !.raced = FALSE])
    BY <1>7 DEF GetWalletTxids
  <2> HIDE DEF s
  <2> QED
    BY <1>4, <1>5, <2>1
<1>8. CASE GetWalletTransactions(c)
  <2> DEFINE snapshot == [tracked |-> tracked, saved |-> saved]
             t == [PageOf(s) EXCEPT !.stage = "page", !.snapshot = snapshot, !.raced = FALSE]
  <2>1. Become(c, failed) \/ Become(c, PageOf(s))
    BY <1>8 DEF GetWalletTransactions, Fail, failed
  <2>2. PageOf(s) = t
    BY DEF PageOf
  <2> HIDE DEF s, snapshot
  <2>3. IsStream(t) /\ HasPage(t, s)
    BY <1>5
  <2> HIDE DEF t
  <2> QED
    BY <1>3, <1>4, <2>1, <2>2, <2>3
<1>9. CASE GetWalletUTXOs(c)
  <2> DEFINE got == FirstOutputs(s.ask.wallet)
             owed == {r \in utxos : r.wallet = s.ask.wallet}
             t == [s EXCEPT !.stage = "done", !.got = got, !.owed = owed]
  <2>1. Become(c, t) /\ s.ask.kind = "utxos"
    BY <1>9 DEF GetWalletUTXOs, Asking
  <2>2. OutputsGiven(got, s.ask.wallet)
    BY <1>2, AskIs, OutputsLemma DEF SInv
  <2>3. /\ \A r \in ToSet(got) : r.wallet = s.ask.wallet
        /\ owed \subseteq ToSet(got) \/ Len(got) = UtxoLimit
    BY <2>2 DEF OutputsGiven
  <2> HIDE DEF got, owed
  <2>4. /\ IsStream(t) /\ t.stage = "done" /\ t.ask = s.ask /\ t.got = got /\ t.owed = owed
    BY <1>2 DEF IsStream, Fields
  <2> HIDE DEF t
  <2>5. StreamHolds(t, txids)
    BY <1>2, <2>1, <2>3, <2>4 DEF StreamHolds, ListHolds, OutputsHold, Listed
  <2> QED
    BY <1>1, <1>2, <2>1, <2>4, <2>5, ClientHolds
<1>10. CASE GetBalance(c)
  <2> DEFINE got == <<balance[s.ask.wallet]>>
             t == [s EXCEPT !.stage = "done", !.got = got]
  <2>1. Become(c, failed) \/ Become(c, t)
    BY <1>10 DEF GetBalance, Fail, failed
  <2>2. s.ask.kind = "balance"
    BY <1>10 DEF GetBalance, Asking
  <2> HIDE DEF got
  <2>3. IsStream(t) /\ t.stage = "done" /\ t.ask = s.ask
    BY <1>2 DEF IsStream, Fields
  <2>4. StreamHolds(t, txids)
    BY <1>2, <2>2, <2>3 DEF StreamHolds, ListHolds, OutputsHold, Listed, Rows, Paged, Detailed
  <2> HIDE DEF t
  <2>5. CASE Become(c, t)
    <3>1. IsStream(t)
      BY <2>3
    <3> QED
      BY <1>1, <1>2, <2>4, <2>5, <3>1, ClientHolds
  <2> QED
    BY <1>3, <2>1, <2>5
<1> QED
  BY <1>6, <1>7, <1>8, <1>9, <1>10

\* The transactions of a page, one after the other
LEMMA ItemsHold ==
  ASSUME RInv, SInv, NEW c \in Reader,
         \/ ReadCopy(c) \/ ImportTransaction(c) \/ SaveTransaction(c) \/ GetRawTransaction(c)
         \/ TransactionFails(c) \/ RawTransactionFails(c) \/ PageDone(c)
  PROVE  SInv'
<1> DEFINE s == stream[c]
           failed == [Start(s.ask) EXCEPT !.stage = "failed"]
           next == NextItem(s)
           saving == [s EXCEPT !.stage = "saving"]
           over == [s EXCEPT !.stage = "reply", !.snapshot = Undefined, !.raced = FALSE]
<1>1. s.stage \in {"page", "saving"} /\ UNCHANGED ledger
  BY DEF ReadCopy, ImportTransaction, SaveTransaction, GetRawTransaction,
         TransactionFails, RawTransactionFails, PageDone, Importing, At
<1>2. IsStream(s) /\ StreamHolds(s, txids) /\ s.ask \in Asks /\ tip # Undefined
  BY <1>1, Reads
<1>3. \/ Become(c, failed) \/ Become(c, next) \/ Become(c, saving) \/ Become(c, over)
  BY DEF ReadCopy, ImportTransaction, SaveTransaction, GetRawTransaction,
         TransactionFails, RawTransactionFails, PageDone, Fail, GoTo
<1>4. CASE Become(c, failed)
  BY <1>1, <1>2, <1>4, StartIsStream, StartHolds, ClientHolds
<1>5. \A t \in {next, saving, over} :
        /\ IsStream(t) /\ t.stage \in {"page", "saving", "reply"}
        /\ t.ask = s.ask /\ t.got = s.got /\ t.page = s.page /\ t.end = s.end
        /\ t.owed = s.owed /\ t.begun = s.begun
  BY <1>2 DEF NextItem, IsStream, Fields
<1> HIDE DEF next, saving, over
<1>6. ASSUME NEW t \in {next, saving, over}, Become(c, t)
      PROVE  SInv'
  <2>1. StreamHolds(t, txids)
    BY <1>1, <1>2, <1>5, SamePage
  <2> QED
    BY <1>1, <1>2, <1>5, <1>6, <2>1, ClientHolds
<1> QED
  BY <1>3, <1>4, <1>6

----------------------------------------------------------------------------
(* The client takes the pages                                              *)

\* A client never forgets rows.
Roomy ==
  \A c \in Reader :
    At(c, "reply") /\ stream[c].ask.kind \in Rows => Len(stream[c].got) < MaxRows

\* The rows of a page go from the page to what the client has.
LEMMA TookHolds ==
  ASSUME ValidChain, TablesInv, NEW s, IsStream(s), StreamHolds(s, txids), s.stage = "reply",
         s.ask \in Asks, s.ask.kind # "utxos", s.ask.kind \in Listed => Len(s.got) < MaxRows,
         NEW t, \/ s.end = NoEnd /\ t = Ended(Took(s, s.page))
                \/ s.end # NoEnd /\ t = Continued(Took(s, s.page))
  PROVE  IsStream(t) /\ StreamHolds(t, txids)
<1> DEFINE got == IF Len(s.got) < MaxRows THEN s.got \o s.page ELSE s.got
           u == [s EXCEPT !.got = got, !.page = <<>>]
<1>1. Took(s, s.page) = u
  BY DEF Took
<1>2. s.ask.kind \in Listed => got = Given(s)
  BY DEF Given
<1> HIDE DEF got
<1>3. /\ IsStream(t) /\ t.ask = s.ask /\ t.got = got /\ t.page = <<>>
      /\ t.owed = s.owed /\ t.begun = s.begun
      /\ IF s.end = NoEnd THEN t.stage = "done" ELSE t.stage = "ask" /\ t.position = s.end
  <2>1. t = IF s.end = NoEnd THEN [u EXCEPT !.stage = "done"]
            ELSE [u EXCEPT !.stage = "ask", !.position = u.end, !.end = NoEnd]
    BY <1>1 DEF Ended, Continued
  <2> QED
    BY <2>1 DEF IsStream, Fields
<1>4. ASSUME s.ask.kind \in Listed
      PROVE  ListHolds(t, txids)
  <2>1. InOneOrder(s) /\ OwedIs(s, txids)
        /\ IF s.end = NoEnd THEN GivenAll(s) ELSE GivenUpTo(s, s.end)
    BY <1>4 DEF StreamHolds, ListHolds, NextPlace, Underway
  <2>2. Given(s) \in Seq(TxidRow) /\ Given(t) = Given(s)
    <3>1. Given(s) \in Seq(TxidRow)
      BY <2>1 DEF InOneOrder, Given
    <3>2. Given(t) = Given(s) \o <<>>
      BY <1>2, <1>3, <1>4 DEF Given
    <3> QED
      BY <3>1, <3>2
  <2>3. InOneOrder(t)
    BY <1>2, <1>3, <1>4, <2>1, <2>2 DEF InOneOrder
  <2>4. OwedIs(t, txids)
    BY <1>3, <2>1 DEF OwedIs, HasEnd
  <2>5. CASE s.end = NoEnd
    BY <1>3, <2>1, <2>2, <2>3, <2>4, <2>5 DEF ListHolds, GivenAll
  <2>6. CASE s.end # NoEnd
    <3>1. GivenUpTo(t, NextPlace(t))
      BY <1>3, <2>1, <2>2, <2>6 DEF GivenUpTo, NextPlace
    <3> QED
      BY <1>3, <2>3, <2>4, <2>6, <3>1 DEF ListHolds
  <2> QED
    BY <2>5, <2>6
<1>5. OutputsHold(t)
  BY <1>3 DEF OutputsHold
<1> QED
  BY <1>3, <1>4, <1>5 DEF StreamHolds, ListHolds, OutputsHold

\* The client takes a page, and the next request starts where it ended.
LEMMA ReceiveHolds ==
  ASSUME ValidChain, Roomy, RInv, SInv, NEW c \in Reader,
         ReadObjects(c) \/ ReadList(c) \/ ReadCSV(c)
  PROVE  SInv'
<1> DEFINE s == stream[c]
           failed == [Start(s.ask) EXCEPT !.stage = "failed"]
<1>1. s.stage = "reply" /\ UNCHANGED ledger
  BY DEF ReadObjects, ReadList, ReadCSV, Receive, At
<1>2. IsStream(s) /\ StreamHolds(s, txids) /\ s.ask \in Asks /\ tip # Undefined
  BY <1>1, Reads
<1>3. CASE Become(c, failed)
  BY <1>1, <1>2, <1>3, StartIsStream, StartHolds, ClientHolds
<1>4. CASE ReadObjects(c) \/ ReadList(c)
  <2>1. /\ s.ask.kind # "utxos"
        /\ \/ Become(c, failed)
           \/ \E t : /\ Become(c, t)
                     /\ \/ s.end = NoEnd /\ t = Ended(Took(s, s.page))
                        \/ s.end # NoEnd /\ t = Continued(Took(s, s.page))
    <3>1. CASE ReadObjects(c)
      BY <3>1 DEF ReadObjects, Receive
    <3>2. CASE ReadList(c)
      BY <3>2 DEF ReadList, Receive
    <3> QED
      BY <1>4, <3>1, <3>2
  <2>2. s.ask.kind \in Listed => Len(s.got) < MaxRows
    BY <1>1 DEF Roomy, At, Listed
  <2>3. ASSUME NEW t, Become(c, t),
               \/ s.end = NoEnd /\ t = Ended(Took(s, s.page))
               \/ s.end # NoEnd /\ t = Continued(Took(s, s.page))
        PROVE  SInv'
    <3>1. TablesInv
      BY DEF SInv
    <3> HIDE DEF s
    <3>2. IsStream(t) /\ StreamHolds(t, txids)
      BY <1>1, <1>2, <2>1, <2>2, <2>3, <3>1, TookHolds
    <3> QED
      BY <1>1, <1>2, <2>3, <3>2, ClientHolds DEF s
  <2> HIDE DEF failed, s
  <2> QED
    BY <1>3, <2>1, <2>3
<1>5. CASE ReadCSV(c)
  <2>1. /\ s.ask.kind = "csv"
        /\ \E rows : \/ Become(c, Ended(Took(s, rows)))
                     \/ Become(c, Continued(Took(s, rows)))
                     \/ Become(c, [Took(s, rows) EXCEPT !.stage = "stalled"])
    BY <1>5 DEF ReadCSV, Receive
  <2>2. PICK t : /\ Become(c, t)
                 /\ \E rows : t \in {Ended(Took(s, rows)), Continued(Took(s, rows)),
                                     [Took(s, rows) EXCEPT !.stage = "stalled"]}
    BY <2>1
  <2>3. IsStream(t) /\ t.ask = s.ask
    <3>1. PICK rows : t \in {Ended(Took(s, rows)), Continued(Took(s, rows)),
                             [Took(s, rows) EXCEPT !.stage = "stalled"]}
      BY <2>2
    <3> HIDE DEF s
    <3>2. IsStream(s)
      BY <1>2
    <3> DEFINE u == Took(s, rows)
    <3>3. /\ IsStream(u) /\ IsStream(Ended(u)) /\ IsStream(Continued(u))
          /\ IsStream([u EXCEPT !.stage = "stalled"])
      BY <3>2, ReceivedIsStream
    <3>4. u.ask = s.ask
      <4> DEFINE got == IF Len(s.got) < MaxRows THEN s.got \o rows ELSE s.got
      <4>1. u = [s EXCEPT !.got = got, !.page = <<>>]
        BY DEF Took
      <4> HIDE DEF got, u
      <4> QED
        BY <3>2, <4>1 DEF IsStream, Fields
    <3>5. t = Ended(u) \/ t = Continued(u) \/ t = [u EXCEPT !.stage = "stalled"]
      BY <3>1
    <3> HIDE DEF u
    <3>6. IsStream(t)
      BY <3>3, <3>5
    <3>7. t.ask = u.ask
      BY <3>3, <3>5 DEF Ended, Continued, IsStream, Fields
    <3> QED
      BY <3>4, <3>6, <3>7
  <2>4. StreamHolds(t, txids)
    BY <1>2, <2>1, <2>3
       DEF StreamHolds, ListHolds, OutputsHold, Listed, Rows, Paged, Detailed
  <2> QED
    BY <1>1, <1>2, <2>2, <2>3, <2>4, ClientHolds
<1> QED
  BY <1>4, <1>5

\* A stream is opened or closed.
LEMMA OpenCloseHold ==
  ASSUME RInv, SInv, NEW c \in Reader, (\E ask \in Asks : Open(c, ask)) \/ Close(c)
  PROVE  SInv'
<1>1. ASSUME NEW ask \in Asks, Open(c, ask)
      PROVE  SInv'
  <2>1. tip # Undefined /\ Become(c, Start(ask)) /\ UNCHANGED ledger
    BY <1>1 DEF Open
  <2> QED
    BY <2>1, StartIsStream, StartHolds, ClientHolds
<1>2. CASE Close(c)
  <2>1. stream[c].stage # "idle" /\ Become(c, Idle) /\ UNCHANGED ledger
    BY <1>2 DEF Close
  <2>2. tip # Undefined
    BY <2>1, Reads
  <2> QED
    BY <2>1, <2>2, IdleHolds, ClientHolds
<1> QED
  BY <1>1, <1>2

\* No stream is open.
LEMMA InitSInv == Init => SInv
<1> SUFFICES ASSUME Init PROVE SInv
  OBVIOUS
<1>1. /\ tip = Undefined /\ tracked = {} /\ utxos = {} /\ txids = {}
      /\ \A c \in Reader : stream[c] = Idle
  BY DEF Init, Ledger!Init
<1>2. TablesInv
  BY <1>1 DEF TablesInv, At, Idle
<1> QED
  BY <1>1, <1>2, IdleHolds DEF SInv

\* Every step keeps what the streams have been given.
LEMMA NextSInv ==
  ASSUME ValidChain, LastWallets, Roomy, RInv, SInv, [Next]_vars
  PROVE  SInv'
<1>1. ASSUME NEW c \in Reader, Work(c) \/ Close(c) \/ \E ask \in Asks : Open(c, ask)
      PROVE  SInv'
  BY <1>1, RequestHolds, AnswerHolds, ItemsHold, ReceiveHolds, OpenCloseHold DEF Work
<1>2. CASE UNCHANGED vars
  BY <1>2 DEF vars, ledger, SInv, TablesInv, At
<1> QED
  BY <1>1, <1>2, WriterHolds DEF Next

\* On a valid chain the streams of the wallet with the last key are that wallet,
\* as long as no client forgets rows: the pages of a stream, however many and
\* however the tip moves and addresses are imported between them, ascend in block
\* order, repeat no transaction, have none of another wallet, and leave none out
\* that is there from the first page to the last; and a request for outputs gets
\* those of its wallet (_getLatestTxids, getWalletUTXOs, the _read of the streams).
THEOREM PagesAreWhole ==
  ASSUME ValidChain, LastWallets
  PROVE  Spec /\ []Roomy => []PagesAreTheWallet
<1>1. Init => SInv
  BY InitSInv
<1>2. Roomy /\ RInv /\ SInv /\ [Next]_vars => SInv'
  BY NextSInv
<1>3. SInv => PagesAreTheWallet
  <2> SUFFICES ASSUME SInv, NEW c \in Reader, At(c, "done"), stream[c].ask.kind \in Rows
               PROVE  /\ stream[c].ask.kind = "utxos" \/ Rising(stream[c].got)
                      /\ \A r \in ToSet(stream[c].got) : r.wallet = stream[c].ask.wallet
                      /\ \/ stream[c].owed \subseteq ToSet(stream[c].got)
                         \/ stream[c].ask.kind = "utxos" /\ Len(stream[c].got) = UtxoLimit
    BY DEF PagesAreTheWallet
  <2> DEFINE s == stream[c]
  <2>1. s.stage = "done" /\ ListHolds(s, txids) /\ OutputsHold(s)
    BY DEF At, SInv, StreamHolds
  <2>2. CASE s.ask.kind = "utxos"
    BY <2>1, <2>2 DEF OutputsHold
  <2>3. CASE s.ask.kind # "utxos"
    <3>1. InOneOrder(s) /\ GivenAll(s)
      BY <2>1, <2>3 DEF ListHolds, Listed, Underway
    <3>2. s.got \in Seq(TxidRow) /\ s.page = <<>>
      BY <2>1, <3>1 DEF InOneOrder
    <3>3. Given(s) = s.got \o <<>>
      BY <3>2 DEF Given
    <3>4. Given(s) = s.got
      BY <3>2, <3>3
    <3> QED
      BY <3>1, <3>4 DEF InOneOrder, GivenAll
  <2> QED
    BY <2>2, <2>3
<1> QED
  BY <1>1, <1>2, <1>3, Inductive, PTL DEF Spec
=============================================================================
