# A verification of the bwdb wallet database

bwdb keeps, beside one or more bitcoinds with an address index, a database of
wallets that hold many addresses each: their transactions, balances and unspent
outputs.  This directory models the running system from a client's call to the
tables: the writer and its database, the queue and the messages that reach it, the web
workers and what they read, the clients that put pages together, and the
service that starts and stops it all.

## Inventory

| component | state it keeps | operations | talks to |
| --- | --- | --- | --- |
| writer (`lib/writer-worker.js`) | wallet block, bloom filter, height and hash of bitcoind's tip, `syncing`, an open transaction | `sync`, `importWalletAddresses`, `createWallet`, `saveTransaction`, start, stop | bitcoind (RPC), LMDB, its socket |
| queue of the writer (same file, `_initQueue`, `_startListener`, `_queueWorkerIterator`) | priority queue, deferred flag of a task | push, serve one task at a time, defer, reply | service and web workers |
| database (`lib/db.js`, `lib/models/*`) | nine LMDB tables | put, delete, cursor, commit, sync | writer writes, web workers read |
| bloom filter of a block (`lib/block-filter.js`) | none of its own | `filterAddress`, `filterDeltas` | writer |
| bitcoind (outside the repository) | block tree, tip | `getblockhash`, `getblockdeltas`, `getaddressutxos`, `getaddressdeltas`, `tip` events | writer, service |
| wallet service (`lib/wallet-service.js`) | writer process and socket, callbacks | start, stop, one sync task per tip | writer, web workers, node |
| web workers (`lib/web-workers.js`, `lib/validators.js`) | read transactions, callbacks of writer tasks | pages of transactions, txids, raw transactions, outputs; balance; import; create | database, bitcoind, writer |
| messages (`lib/messages.js`) | the bytes not yet parsed | encode, parse | both ends of the socket |
| utilities (`lib/utils.js`) | none | ranges, RPC clients, worker exit, cryptography | all |
| client, streams, command line (`lib/client/*`, `bin/*`) | place in a paged query | requests, streams of pages, lists, CSV | web workers |
| server, command line, configuration (`lib/server.js`, `bin/bwdb`, `lib/config.js`) | settings | start, stop, exit codes | service |
| scripts, regtest, integration tests | none of the running system | reports, tests | the others |

How they interact.  One process writes: all others send it tasks over a socket,
and it serves one task at a time.  A new tip of bitcoind makes the service queue
a sync; sync connects the next block, or disconnects its own tip when the next
block does not extend it, until it is as high as the tip of the task.  A block is one
LMDB transaction.  An import asks bitcoind for the unspent outputs and all
deltas of its addresses, checks that the answers describe the block the wallet is
at, and commits them with the addresses in one transaction.

What is hard.  bitcoind may move between any two requests.  A commit is atomic
but memory follows only after `env.sync`, which may fail or never return.  An
undo has only what was stored when the block was connected, while imports go on
changing the tables.  An exception that is not caught kills the writer and with
it the service, and the next start takes up what is in the tables.

What makes each part correct.

- writer and database: at each commit the tables of a wallet are what the chain
  up to its tip says of its addresses; a reorganization ends at the new tip; a
  crash loses at most the open transaction; no assertion fails; the filter knows
  every address; pruning keeps what an undo needs;
- queue: every task is answered once, a deferred import runs after the sync it
  waits for, the wallet ends at the tip;
- messages: whatever the pieces, the same messages in the same order;
- web workers, requests: only signed requests of listed keys get through, each gets
  one reply, every call comes back;
- web workers, queries: pages put together are the whole list of one wallet, each
  transaction once; a saved copy shows the addresses the wallet has now; read
  transactions are given back;
- client: the lines of a statement add up to the change of the balance;
- service: stop ends, and a writer that still runs then has been told to (stop itself waits
  only for the first of its two children).

## Modules

| module | models |
| --- | --- |
| `Chain` | external: the block tree and the four replies the writer uses |
| `WalletDatabase` | the tables, their keys, puts and deletes; the bloom filter |
| `WalletWriter` | the writer process, the tips that reach it, its crashes and restarts; the properties of one process |
| `LedgerTables`, `WalletLedger` | abstract: what the database promises |
| `WalletView` | the committed tables as a ledger (refinement mapping), and properties over both |
| `WorkQueue` | sockets, priorities, limit, deferral and replies of the writer; the bitcoinds it asks in turn |
| `TaskService` | abstract: what the writer owes the web workers |
| `Framing` | encoder and parser of the messages between the processes, byte by byte |
| `Requests` | a request to a web worker through the middleware, the checks, the endpoints and the writer |
| `WalletReader` | the queries of the web workers in their snapshots, saved copies, and the streams of the client, beside a writer that keeps the promises of `WalletLedger` |
| `Statement` | the amounts of one transaction, from bitcoind's reply to the lines of a list or of CSV |
| `Service` | the processes of a node: start, signals, crashes, timeouts, exits |
| `MC...` | constants for the runs |
| `...Proofs` | the inductive invariants and their proofs; `LedgerTablesProofs` has the lemmas on chains and tables that the proofs about the writer and about its readers share |

How they fit.  `WalletView` extends `WalletWriter` and shows that it implements
`WalletLedger`; `WalletReader` instantiates the same `WalletLedger` for its writer, so what
it shows of readers rests on the promise and not on the writer's steps (and
inherits the exceptions listed under "Runs").  `WorkQueue` decides when a task runs, `WalletWriter`
what it does; a writer that dies is `Die` in the one, `ended` in the other and `WriterCrashes` in
`Service`.  `Requests` ends with a reply or an error for every call, which
is the fairness of `WalletReader`.  `WorkQueue` takes its messages as whole and
in order, which is what `Framing` shows but for two kinds of cuts.

The next three sections are about the writer's modules; those after them about the others.

### State

| variable | in the code |
| --- | --- |
| `best` | the tip of bitcoind |
| `announced` | the tips of the sync tasks in the queue |
| `db` | the committed LMDB environment |
| `walletBlock` | `self.walletBlock` and `self.blockFilter` |
| `bitcoinTip` | `self.bitcoinHeight`, `self.bitcoinHash` |
| `pc` | which callback is awaited, or which loop runs |
| `txn` | the working copy of `beginTxn` |
| `clone` | the wallet block a task will install, or undo |
| `fetched`, `lastHash` | replies of bitcoind |
| `at`, `todo`, `section` | places in the loops over deltas, owners, addresses and ranges |
| `task` | `walletId`, `addresses` and the result of `_filterNewAddresses` |
| `fault` | the exception that killed the process |

### Actions

A task is cut at each reply of bitcoind and each `env.sync`, and inside its
loops, so that a step is one delta of one owner or one address.  What runs between two
cuts in the code is one step.  Nothing else touches an open transaction,
so cutting the loops adds no behaviour but a crash in the middle, which loses
the transaction.

| code | actions |
| --- | --- |
| `sync`, `_updateTip` | `Sync`, `GetBlockHash`, `SyncDone`, `RequestFails` |
| `_connectBlock`, `_connectTransaction`, `_connectUTXO`, `_removeUTXO`, `_addUTXO` | `StartConnect`, `NextDelta`, `ConnectOutput`, `ConnectInput`, `ConnectFails` |
| `_connectBlockCommit`, `_pruneWalletBlocks` | `ConnectCommit`, `ConnectSynced`, `SyncFails` |
| `_disconnectTip`, `_disconnectTransaction`, `_disconnectUTXO`, `_undoAddUTXO`, `_undoRemoveUTXO` | `StartDisconnect`, `NoDeltasToUndo`, `NextDelta`, `DisconnectOutput`, `DisconnectInput`, `DisconnectFails` |
| `_disconnectBlockCommit` | `DisconnectCommit`, `NoPreviousBlock`, `DisconnectSynced`, `SyncFails` |
| `importWalletAddresses`, `_addUTXOSToWallet` | `StartImport`, `ImportUTXOs`, `TipMoved` |
| `_addAddressesToWallet` | `GetAddressDeltas`, `AddDelta`, `NextRange`, `RangeAboveTip`, `CheckLastHash`, `UnexpectedHash` |
| `_commitWalletAddresses` | `ImportAddress`, `ImportCommit`, `ImportSynced`, `SyncFails` |
| `createWallet`, `saveTransaction` | `CreateWallet`, `SaveTransaction` |
| `start`, `_loadLatestWalletBlock`; the service's exit handler | `Restart`, `Die`, `Crash` |

### What the data stands for

An outpoint is a (txid, index) pair and fixes address and amount.  A delta is an
input or an output in the order the code walks a block.  A filter is a
set of addresses; the addresses in `FalsePositives` pass every filter, as a bloom
filter may let some pass but never holds one back.  A wallet block keeps the places of the
deltas that passed its filter.  The balances the code collects in `wallets` and
writes at the commit are written to the working copy at once: nothing reads
them before the commit.  `syncing` is always false when a task starts, because
the queue serves one task at a time, and is left out with the error it would give.
An import that must wait for a sync is put in the queue again by the code; here
the request stays possible and `StartImport` may take it up again.

## The other modules

`WorkQueue`: `queue` is the array of `async.priorityQueue`, `running` the task its worker runs,
`known` and `wallet` are the heights of `bitcoinHeight` and `walletBlock`, `turn` is `_clientsIndex` and `tried`
counts the clients `tryAllClients` has asked; `missed` belongs to a property: the clients that were asked for
the block the sync is at and did not give it.  The hash and the deltas of a block, two rounds of
`tryAllClients` in the code, are one round here.  What a task does to tables is left out;
what it does to the queue is not.

| code | actions |
| --- | --- |
| bitcoind's `tip`, `_queueWriterSyncTask` of the service | `NewBlock`, `SyncArrives` |
| `_startListener` (push or refuse), `_sendResponse` | `Ask`, `SendResponse`, `WebWorkerDies` |
| `_queueWorkerIterator` | `Take`, `Reject`, `Finish` |
| `sync`, `tryAllClients`, `_queueSyncTask` | `TryClient`, `SyncEnds`, `QueueSyncTask` |
| `importWalletAddresses` and its deferral | `ImportWithout`, `ImportHere`, `ImportAhead` |
| `createWallet`, `saveTransaction` | `CreateWallet`, `SaveTransaction` |

`Framing`: a byte is the number of its message and its place, so the parser's search for the
magic number, its length test and its `setImmediate` are what they are in the code, and no
byte of a payload looks like a magic number (a payload is JSON, the number is not).  The encoder writes the length of the
text in characters, which is taken to be its length in bytes; it is, while the text is ASCII.  The sizes
are those of lengths of one and of three bytes.

`Requests`: `call[c]` is one request and its response; its `stage` is the middleware or endpoint
that has it.  `seen` is the worker's `bitcoinHeight`, which `_middlewareChainInfo` sets for every request, and
`call[c].height` what it put on this one.  The result of an endpoint is its status (0 where an error without a code
leaves it undefined); its content is in `WalletReader`.

`WalletReader`: `stream[c]` is a query from its first page to its end: the client's `position`
and `got`, the worker's `page`, `todo` and `snapshot`.  `owed` belongs to the property: the rows
that were in the wallet when the first page was read and have not left since.  `open` counts the read transactions
of the environment.  A transaction read from bitcoind is saved by the writer in a step of its own
(`SaveTransaction`), so that an import may come before it.

`Statement`: from `_transformRawTransaction` over `getTransactionDetails` to the loops over outputs of
`list.js` and `csv.js`, one output per step.

| code of `web-workers.js` and the streams | actions of `WalletReader` |
| --- | --- |
| `_getLatestTxids`, `getWalletTxids`, `getWalletTransactions`, `getWalletRawTransactions` | `LatestTxids`, `GetWalletTxids`, `GetWalletTransactions`, `PageDone` |
| `getWalletUTXOs`, `getBalance` | `GetWalletUTXOs`, `GetBalance` |
| `_importTransaction`, `_transformRawTransaction`, the writer's `saveTransaction` | `ReadCopy`, `ImportTransaction`, `SaveTransaction`, `TransactionFails` |
| `_read` of the five streams | `Request`, `ReadObjects`, `ReadList`, `ReadCSV` |

| code of `wallet-service.js` and the two workers | actions of `Service` |
| --- | --- |
| `start`, `_startWriterWorker`, `_connectWriterSocket`, `_startWebWorkers` | those of `Start` |
| exit handler of the writer, `stop`, `utils.exitWorker` | `HearExit`, `Stop`, `Finish`, `ExitTimeout` |
| last lines of `writer-worker.js` and `web-workers.js` | those of `Children` and `Fault` |
| `bin/bwdb` | `Signal`, `SetupConfigFails`, `Exit` |

`Service`: a process is loading (no handlers yet), running or gone; `told` is a SIGINT or a
shutdown message, `events` are exits the service has not heard of, `stops` are the calls of `stop` with
the counters of `exitWorker`'s callbacks.

## Runs

The trees are small but hold every shape that matters: an output that is created
and spent in different blocks and within one block, a spend of a
spend, a transaction mined in both branches at different heights, a
block with a delta nobody owns, an output of no satoshis, a fork of depth one
and of depth two.  Two wallets share an address, and one of them imports
two at once.  Two owners, two addresses and two competing branches are what it
takes for the loops over owners, the address map and the undo to interact; a
third of any adds interleavings of independent rows.  Heights, amounts and
tables are bounded by the tree; `BalanceBound` in the run `faults` stops a
block that is applied again and again after failing syncs (a balance of at most
7, above every balance of a chain of that tree, so that at least one double
application happens).

| run | question | what it shows |
| --- | --- | --- |
| `line` | no reorganization; imports at any tip, crashes, failing requests, ranges of two blocks | every commit is a step of `WalletLedger`; filter complete; last block is the tip; imports remove saved copies; no exception |
| `fork` | two competing branches, undo of up to two blocks, failing requests; clients begin to use wallets before the fork | the same refinement through reorganizations, the stored blocks are the chain that undo walks, pruning keeps the depth |
| `faults` | everything at once, from a tip of height one, imports at three tips below and on one branch, pruning at depth two | the agreements of tables that hold in any case: outputs and indexes, map and addresses, owned outputs, balances that cover outputs, a tip that is in the database |
| `catch_up` | bitcoind answers and moves finitely often | sync ends at its tip |
| `queue` | a queue of two, two bitcoinds at different heights that may fail, an import, a saved transaction, the first wallet, an unknown method of a web worker that may die | the queue never exceeds the limit by more than the two tasks of one deferral; tasks of one socket and priority keep their order; a deferred import finds the height it waited for, and is answered the second time; a sync gives up only after every bitcoind was asked; `TaskService` is implemented; the wallet ends at the tip |
| `framing` | three messages, cut at every byte and joined in every way | order, no duplicates; only two kinds of cuts do harm |
| `request` | every credential, body, range and route of one client, another one that moves the worker's height, a worker that dies | who gets through, one reply, a page that ends at the height the headers tell, a callback always called |
| `reader` | one client with each kind of query on the last wallet of the database, a fork, imports, saved copies, two reader slots | of that wallet: pages, copies, read transactions, streams that end |
| `statement` | every transaction of up to two inputs and three outputs of 0 to 2 satoshis, as list and CSV | lines add up, a fee is the fee |
| `service` | a signal, crashes and deaths at any step of start, run and stop; two cluster workers | it ends, and a writer that still runs has been told to exit |

Bounds of the second half.  `TopHeight = 1` and two bitcoinds let one be a block
behind the other at any point, which is what a deferral needs; a limit of two is reached by
three tasks and passed by one deferral.  Three messages are the fewest of which one is lost
between two that are not.  One `tip` above the first and two clients are what it takes for a
height to move between `_middlewareChainInfo` and the body.  `MaxRows` stops a client that is given the same rows
for ever from growing without end: two more than the wallet has.  `FirstTips` and
`Imports` choose three imports on a fork of depth one.  Amounts up to 2 suffice for an output
smaller than, equal to and larger than what is left of the balance's change.  `MaxDeaths = 1` is a
cluster worker that is started again; a second signal is left out.

`RequestTips` names the tips at which clients create the first wallet and start
imports.  `line` allows all of them; `fork` and `catch_up` only the tip
before the fork, because an import at a block that is undone later does break
the refinement.  Two runs ask one property each of what the
repository says, and TLC shows a behaviour of the code that breaks it:

| run, property | what goes wrong |
| --- | --- |
| `import_then_reorg`, `TablesShowTip` | the undo of the block at which an address was imported leaves its outputs and balance (`writer-worker.js:684`) |
| `next_wallet`, `PagesAreTheWallet` | a page of txids goes on with the rows of the next wallet, whose heights are higher (`web-workers.js:442`) |

More configurations of `MCWalletWriter`, `MCWalletReader` and `MCService` are kept beside them.  Each ends
in an error that shows one more behaviour of the same kind, most of them against what the repository says.

| configuration, property | what goes wrong | what the repository says |
| --- | --- | --- |
| `MCFilterRewound`, `FilterCovers` | an undo brings back a filter without the addresses imported since (`writer-worker.js:663`) | "A bloom filter is kept updated that has all addresses that are being tracked for all wallets" (`lib/models/block.js:10`) |
| `MCCrashInReorg`, `NoFault` | a restart between undo and connect undoes the block twice and dies (`writer-worker.js:79`) | "blocks can be applied and unapplied with confidence that it will not be left in an incomplete state" (`README.md:140`) |
| `MCSpendInBlock`, `NoFault` | a block that spends its own output cannot be undone (`writer-worker.js:684`) | "we can atomically unapply those changes" (`README.md:146`) |
| `MCSyncError`, `TablesShowABlock` | after a failing `env.sync` memory is behind the tables; the block is connected twice and its amounts are added twice (`writer-worker.js:541`) | "so that the method can be reattempted without causing state issues" (`writer-worker.js:518`) |
| `MCZeroOutput`, `NoFault` | an output of no satoshis is taken for an input (`writer-worker.js:341`) | `assert(utxoData.satoshis >= 0)` (`writer-worker.js:265`) |
| `MCRepeatedAddress`, `TablesShowTip` | an address twice in a request is served twice ever after (`writer-worker.js:956`) | |
| `MCFirstWallet`, `NoFault` | the block of the first wallet has no deltas and cannot be undone (`writer-worker.js:684`) | |
| `MCNextOutputs`, `PagesAreTheWallet` | a page of outputs goes on with those of the next wallet (`web-workers.js:383`) | "a way to query by a wallet identifier" (`README.md:144`) |
| `MCListAgain`, `PlaceholderChanges` | the end of a page is that of a row of the next wallet, which is lower: the stream is sent back, or `list.js` throws (`web-workers.js:475`) | "if results, then the body.end should change, if no results, there should NOT be a body.end object" (`lib/client/streams/list.js:277`) |
| `MCStaleCopy`, `CopiesShowWallet` | a copy read before an import is saved after it and stays (`web-workers.js:263`) | "a boolean to determine if this output or input is part of the wallet" (`README.md:148`) |
| `MCStopReturns`, `StopExitsAll` | `stop` calls back when one of its two children has exited, because it looks for the other under a name that is nowhere set (`wallet-service.js:202`) | "will exit all workers" (`test/wallet-service.unit.js:480`) |

### What the properties exempt

A property that holds of the code says where it does not.  These exceptions are in the code
and the models show each of them:

- writer: `LastBlockIsTip` fails once a request fails between an undo and a connect; a
  reorganization exactly `pruneDepth` blocks deep finds its previous block pruned
  (`NoPreviousBlock`), and the block at height zero is pruned whatever the depth; a failing
  request ends sync until the next tip is announced;
- queue: a sync message that is refused by a full queue, and a sync that fails, are not repeated
  before the next tip (`StaysAtTip`); a reply to a web worker that has died ends the writer, because its socket has no
  error handler (`EveryTaskIsAnswered` holds until then);
- messages: a piece that ends between magic number and length makes the parser throw
  (`OnlyHeadCutsKill`); one that ends within as many last bytes as the length has loses its
  message (`OnlyTailCutsLose`);
- requests: a request without a body or nonce, height zero, and a range that ends before it starts are
  answered with 500 where other bad requests get 400;
- pages: a CSV page without rows stalls its stream; a request for outputs never gives its
  read transaction back, shows ten outputs at most and those of the next wallet if its own are fewer; a raw
  transaction that bitcoind does not give leaves its read transaction open (`lost`); a copy that was
  snapshot before and saved after an import (`raced`) stays stale, as `MCStaleCopy` shows;
- streams: `StreamsEnd` and the whole pages are promised to the wallet with the last key only (`LastKey`).
  Any other wallet may be given the rows of the next one, and where these are lower its stream is sent
  back and goes round for ever (`next_wallet`, `MCNextOutputs`, `MCListAgain`);
- statement: a move in bitcoin units has no amounts, a transaction without a fee leaves an undefined line, and in CSV the fee
  of a transaction with inputs of others is what is left of the wallet's amount;
- service: `stop` waits for the first of its two children only, so that a writer which was told but hangs
  outlives the service, whose timer of ten seconds is gone with the process: `WriterIsTold` says no more than its
  name (`MCStopReturns`); `stop` before the web workers are started calls back at once without telling the
  writer (`early`), as does a start that fails; a process that is still loading hears nothing, so that
  stop ends with its timeout of ten seconds, and an error after which the other child still exits.

### Fairness

| specification | fair | because |
| --- | --- | --- |
| `WalletWriter!FairSpec` | weak: steps of a running task; strong: `Sync` | callbacks run and bitcoind replies; the queue serves by priority, and other tasks may go before a sync, but finitely many |
| `WorkQueue` | weak: `SyncArrives`, `Run` | what is written to a socket arrives; the queue calls its worker |
| `Framing` | weak: `Receive`, `Again` | TCP; `setImmediate` |
| `Requests` | weak: `Serve`, `Timeout`, `ClientHears` | the event loop and its timers; not bodies, replies of the writer or of bitcoind |
| `WalletReader` | weak: `Work` of each client | every call returns (`Requests`), and a stream that is read asks for its next page |
| `Service` | weak: `Stopping` | exits are heard and timers fire; not what a child does with a signal |
| `TaskService` | weak: `Reply` | what is promised |

No fairness anywhere of tips, of requests of clients, or of
faults; the runs of the writer with faults check safety.

Definitions whose comment begins with "Mutant" are those of a module with one
plausible mistake (a forgotten index, a block too many pruned, a filter that
gets one address only).  Nothing uses them; put in the place of the definition
that follows them, each makes a property of a passing run fail, which shows that the
property depends on that line of the code.  `PROJECT.json` lists the pairs.

The runs of the writer set `CHECK_DEADLOCK FALSE`: when the tree has no higher tip and
nothing is requested the system rests.  So do `queue`, `framing`, `statement` and `service`: every
task is answered or the writer has died, all messages are read, a statement is
written, the node is down.  `request` and `reader` never stop, and check it.

## Proofs

`WalletWriterProofs` proves, for every block tree, set of wallets, requests,
tips, prune depth, range size and combination of faults that satisfy
`ChainAssumption`, `DatabaseAssumption` and `WriterAssumption`:

| theorem | says |
| --- | --- |
| `Invariant` | `IInv` holds in every state: `TypeOK`, `PhaseOK`, and the tables of the database are sound |
| `TypeCorrect` | `TypeOK`: every variable and table keeps the shape the code gives it |
| `IndexesAlwaysAgree` | `IndexesAgree`: `utxos`, `utxosBySatoshis` and `utxosByHeight` agree, committed and in an open transaction |
| `MapAlwaysAgrees` | `MapAgrees`: `addresses` and `addressesMap` agree in what is committed |

The argument.  `TypeOK` alone is not inductive: whether a step leaves a database
in `db` depends on whether there is one in `txn`, and that depends on where the
task is.  `PhaseOK` says so: which variables hold something in which phase, that the
working copy is a database whose tables agree, that the places of an import lie
inside its addresses and the deltas still to add are deltas of blocks.
`Sound` is the third part: in the committed database and in a working copy the
tables of outputs agree and the two tables of addresses agree.  It is needed for
both, because a commit makes one the other.
Each operator on a database has a lemma (it returns a database, and keeps the
agreement); each group of actions has a lemma with one step per action; a
step that ends a task or the process is covered by `EndLemma` and `DieLemma`,
a step of a loop by `LoopLemma`.

`WorkQueueProofs` proves, for every number of tasks, web workers and bitcoinds, every
limit and every height, under `QueueAssumption`:

| theorem | says |
| --- | --- |
| `Invariance` | `IInv` holds in every state |
| `QueueIsBounded` | `QueueBound` |
| `RetryIsSupplied` | `RetryFindsItsSync` |
| `DeferralIsOnce` | `DeferredOnce` |

The argument.  A deferral pushes two tasks, the writer's own sync and the import, and
others push between them at any time.  What keeps them in order is `Shape`: a sync of the
writer's own has priority 0, below that of every other task, so it can only stand first, and only
while nothing runs: it is the next task to run, and there is one at most.
`DeferredSupplied` says of each deferred import that the wallet has its height, or a
sync has failed, or the own sync that stands first or runs goes to that
height at least; `RunningSupplied` says of the import that runs again that one of the first two
holds.  `LengthBound` bounds the queue by what runs and what stands
first: two above the limit only while the two tasks of one deferral wait.
None of them is inductive without `Shape`.  The lemmas on `Push` and `Place` say what a push at any place
keeps; those whose names end in `Keeps` take one group of actions each.

`RequestsProofs` proves, for every set of clients and requests, list of keys and limit, under
`RequestAssumption`:

| theorem | says |
| --- | --- |
| `Authorization` | `OnlyAuthorized` |
| `OnlyOneReply` | `OneReply` |
| `PageEnds` | `PageEndsAtTheHeightTold` |

The argument.  `Good` holds of each call: an identity that is a key was proved by its
signature (`Proved`), a call past the middleware or answered with success has an identity that may
be there (`Admitted`), a call that waits has no reply yet and no call has two (`Counted`),
and until its range is checked a call has all the checks of its route, afterwards its page ends
at the height of the request, not of the worker (`PageEnd`).  Since a step
changes one call, `BecomeKeeps` reduces each action to the call it is about.

`ServiceProofs` proves `WriterAlwaysTold` (`WriterIsTold`) for every number of cluster workers and deaths, under
`ServiceAssumption`.  Its invariant relates what each call of stop waits for to what the
children were told: a call begins only in certain phases (`CallsBegin`), a stop that waits
has told its children (`StopTells`), what a process is depends on the phase (`Processes`), and the
process exits only by a stop that has called back or by a start that fails (`EndsByStop`).

The second half of `WalletWriterProofs` is about what the writer keeps of the past:

| theorem | says |
| --- | --- |
| `HistoryInvariant` | `HInv` holds in every state: `IInv`, the stored blocks, and the owners of outputs |
| `TipAlwaysPersisted` | `TipPersisted` |
| `OutputsAlwaysOwned` | `OutputsAreOwned` |
| `PruningKeepsDepth` | `PruneKeepsDepth` |
| `LinkedUntilRestart` | `BlocksLinked`, while no process starts again |
| `FilterCoversForward`, `LastIsTipForward` | `FilterCovers` and `LastBlockIsTip`, while no block is undone and no `env.sync` fails |

The argument.  `BlocksInv` says of `blocks` that each height has one entry and that there is a last one; that the entry of the tip is
there, or pruning has taken it and all below it (`Kept`); that the blocks of a working copy are the
committed ones; and, for each phase, where the block that is about to be installed stands above or below the tip, since a
commit comes before memory.
`OwnedInv` says of an open transaction that an output is of a tracked address or of one of the addresses that the
running import has yet to write: an import puts outputs before their owners.  `LinkInv` is `BlocksLinked`.  It is not inductive past a restart: the last entry may be a block
that was undone, so that the entries below it belong to two branches.  `FilterInv` relates the filters in memory and in the
last entry to the addresses.  Undoing takes up the filter of an older entry
(`MCFilterRewound`), and after a failed `env.sync` the last entry is ahead of memory (`MCSyncError`);
the two theorems are therefore about behaviours without these steps (`OnlyForward`), with any crash, restart, import and failing
request between.

The last part of `WalletWriterProofs` is about what the tables say of the chain; the lemmas
on chains, places, sums and rows it rests on are in `LedgerTablesProofs`.  Each theorem is about every behaviour of `Spec` in
which each step is `Steady`: bitcoind only adds to its chain, and `env.sync` reports no error.  Crashes at any place,
restarts, failing requests, imports of any wallet at any tip, ranges and pruning stay in.

| theorem | says, while every step is `Steady` |
| --- | --- |
| `NoFaultForward` | `NoFault`: no assertion of the writer fails |
| `TablesShowForward` | `TablesShowTip`: the tables are those of the chain of the committed tip |
| `BalanceCoversForward` | `BalanceCoversOutputs` |
| `LedgerForward` | `ImplementsLedger`: the refinement of `WalletLedger`, each commit one of its steps |
| `ImportFlushesForward` | `ImportFlushes` |

Each condition is needed, and a configuration under "Runs" shows what goes wrong without it: `Steady`
(`import_then_reorg`, `MCSpendInBlock`, `MCSyncError`), and the three parts of `Ordinary`, which are about constants: no output of no
satoshis (`MCZeroOutput`), no address twice in one request (`MCRepeatedAddress`), and `ValidChain`, what consensus says: along a chain
an output is created once and spent at most once, later than it was created; one index of a block is one transaction; the
first block has no deltas.  `MCWalletWriter` has TLC check `ValidChain` of the tree of every run (`TreeAssumption`), so the
hypotheses are those of real trees.

The argument.  A place is a block and the number of a delta in it.  `UtxoRows` and `TxRows` say what tables look like that
show some set of places of a chain for each wallet, and `Net` what these places are worth.  `Shows(d, places, pairs)` says that
the tables of `d` are these for the tracked pairs.  `LedgerInv` on top of `HInv` then says which places:

- `DbInv`: the committed tables show the whole chain of the last stored block (`Everywhere`);
- `ConnectInv`: in the loops of a connect the working copy shows the parent's chain and, of the new block, what the
  loops have passed: for each wallet the deltas before the current one, and the current one if the loop over owners is past
  the wallet;
- `ImportInv`: from the first reply on, the outputs are those of all old and new addresses; transactions and balance are
  those of the old addresses and of the deltas collected so far (`Collected`): all of the ranges before this one, and those of
  this reply that are not in `todo`;
- `ChainInv`: every block that the tables, memory or an announced tip refer to is on bitcoind's chain, no undo runs, and no exception
  has occurred.

A connect needs that an output it spends is in the tables and that one it creates is not (`ValidChain`), and that what the
filter lets pass contains every delta of a tracked address (`FilterInv`): an address passes the filter because every import was made in a block below
or at the tip.  An import needs that bitcoind's replies, asked one after the other while the tip may grow, describe
one chain: the ranges stay below the wallet's tip, and chains that only grow agree there.  The balance is the delicate part: a connect and an import
add satoshis of places one by one, and `Net` is a difference of two sums over rows (`ValueBoth`, `NetAll`); that
all places of an address together are worth what they leave unspent is what makes balance and outputs agree at the commit.  Sums unfold
as in `StatementProofs`, and the chain of a block, a recursive function over the tree, by well-founded descent of the height
(`ChainStep`, `ChainUnique`).

Of the tasks, `WorkQueueProofs` proves further:

| theorem | says |
| --- | --- |
| `TasksInOrder` | `TaskInv` holds in every state |
| `FirstComeFirstServed` | `FirstAskedFirstServed` |
| `AnsweredAtMostOnce` | the steps of `WorkQueue` are steps of `TaskService` or leave its variables alone (`TaskReplies!Safety`) |
| `EveryClientIsTried` | `SyncTriesEveryClient` |

The argument.  `TaskInv` says that a task waits once, that one that waits has no reply and no task has two, that each task in the queue
waits and stands there once, that two tasks of one priority stand in the queue in the order in which they wait, and that the running task is before them.  For
`EveryClientIsTried`, `SyncGoesOn` says of a sync under way that `missed` is the clients asked since it last got a block
(`ClientsAsked`), and, while all requests succeed, that one of those still to be asked has the height of the sync
(`ClientLeft`), because some bitcoind has the height of every sync in the queue; the clients are asked in turn, so that the last one completes
the set (`LastIsAll`).

`WalletReaderProofs` proves, for every set of clients, requests, imports and trees, under `ReaderAssumption`:

| theorem | says |
| --- | --- |
| `Inductive` | `RInv` holds in every state |
| `SavedCopiesAreFresh` | `CopiesAreFresh` |
| `ReadTransactionsReturned` | `ReadersReturned` |
| `PagesAreWhole` | `PagesAreTheWallet`, on a valid chain, for the wallet with the last key, while no client forgets rows |

`RInv` says of each call that reads or saves that its snapshot has the addresses the wallet has now, or that an import came between; and it
counts the open read transactions: they are those of the calls under way, unless one was lost.

`PagesAreWhole` has three hypotheses beside `Spec`.  `LastWallets`, that the clients ask for a wallet whose key no other key follows,
is what the code needs: the run `next_wallet` shows the pages of any other wallet go wrong.  `ValidChain` gives each row of `txids` a key of its own;
TLC checks it of the tree of the runs (`TreeAssumption`).  `Roomy` says that `MaxRows` is not reached; the code has no such bound.
The writer connects, undoes and imports at any time, between any two pages.

The argument has two parts.  The first is one read of the tables.  The community modules sort by `SortSeq`, of which the provers know nothing,
so a cursor passes the rows in `InOrder`, any sequence that is in the order of the keys.  `OrderExists` shows
that there is one, by counting what is before each row, and `InOrderIs` that it has all rows once.  `CursorRows` finds that for the wallet with the last key
the cursor's rows are those of the wallet from the place on where it starts; `PageLemma` says of `LatestTxids` that the page holds all of them
below its end, and all up to the end of the range if it has none; `OutputsLemma` says the like of `FirstOutputs`.

The second is about the pages together (`SInv`).  `TablesInv` says that the tables show the chain.  `ListHolds` says of each
stream that the rows it was given, in `got` and on the page, ascend and are of its wallet; that they are
all below the place where the next page starts, and what is owed and below that place is given (`GivenUpTo`); that without a next page all that is owed is given
(`GivenAll`); and that what is owed is still in `txids` and not past the end of the range (`OwedIs`, `LastIs`).  A
page adds rows from that place on and moves it (`PageGiven`).  A block that comes or goes can take rows from what is owed and add none (`OwedLess`), and an import
only adds rows to `txids` (`TxidsGrow`), so what a stream has passed need not be looked at again.  `SInv` holds in all states of the run `reader`.

`FramingProofs` proves, for every number and size of messages, under `FramingAssumption`:

| theorem | says |
| --- | --- |
| `Inductive` | `IInv` holds in every state |
| `InOrder` | `InOrderOnce` |
| `LostOnlyByTailCuts` | `OnlyTailCutsLose` |
| `KilledOnlyByHeadCuts` | `OnlyHeadCutsKill` |

The argument is about the bytes that are written and not yet parsed, those of the parser before those on the wire
(`Stream`): they belong to messages that were written, are in order, and a message that has begun goes on to its end
(`Sound`).  A cut moves the border between the two and nothing else (`PieceMoves`).  Messages already handed over are before all of the
stream; every message is in the stream from its first byte on, was handed over, or had a cut in its tail.
`CutsKnown` remembers of the last byte in the parser which kind of cut it was; the parser waits, throws or drops what it has only by
looking at how many bytes it has, so this is what ties the loss and the exception to the cut.  `ParseLemma` says
what one parse does in these terms and has the cases of `parse` and `read`.  The first magic number is found by
`LeastNatural`: a set of numbers has a least one, from the well-founded order of the library.

`StatementProofs` proves, for every set of amounts and every number of inputs and outputs, under `StatementAssumption`:

| theorem | says |
| --- | --- |
| `Invariant` | `Inv` holds in every state |
| `AlwaysAddsUp` | `StatementAddsUp` |
| `AlwaysTheFee` | `FeeIsTheFee` |

The argument has two parts.  The first is about sums: `MapThenSumSet` of the community modules unfolds to the `CHOOSE` of a recursive
function over the parts of a set, and `SumsExist` shows that there is one.  The library's induction takes an operator, which the provers cannot
instantiate; instead, among the parts of a finite set for which a lemma would fail one is minimal (`MinimalPart`), and it does not fail
there.  In this way follow the lemmas the rest needs: any element may be taken out first, and the sum of two disjoint sets is that of their sums.
The second is about the loops over the outputs (`LoopInv`): `delta`, what is still to be told, is what the lines so far leave of the
change of the balance.  A receipt is covered by the wallet's outputs that are still to come, so nothing of it is left at the
end.  Where the wallet alone pays (`SoleSender`), it is exactly the outputs of others that are still to come, and the fee: no amount in
a line is cut off, and the end of the loop leaves the fee.  `TypeFacts` says which of the two a type of transaction is.

What the assumptions on constants ask is what the code or bitcoind gives: finite sets of clients and messages, blocks that have parents, a prune depth and a
range of one at least, and a JavaScript `undefined` that is no wallet block.

Only model-checked.

- `ImplementsLedger`, `NoFault` and `BalanceCoversOutputs` through reorganizations: they hold for some `RequestTips` and
  `Faults` only (see "Runs"), so that no theorem about all constants could state them.  `ImportFlushes` fails when bitcoind's
  chain changes between two ranges of an import and changes back before the last: the check of the last hash sees nothing.
- `PagesAreTheWallet` once a client forgets rows, that is, after `MaxRows` rows, a bound of the model.  What a stream of CSV
  is given is not part of it.
- Liveness is out of the prover's reach, as is `ENABLED`: `CatchesUp`, `EveryTaskIsAnswered`, `StaysAtTip`,
  `EveryMessageArrives`, `EveryCallReturns`, `StreamsEnd`, `ServiceEnds`.

What the proofs showed of the code.  `TipPersisted` was first stated without its second case, and the runs agreed.  It is not
inductive, and TLC shows why with a prune depth of one and crashes: after `env.sync` a block is in the database but nothing is pruned yet; two
crashes there leave more blocks to undo than the prune depth, and `blocks` keeps the entries of undone blocks.  The next pruning
counts from the last of these entries and not from the tip (`writer-worker.js:429`): it may remove
the entry of the tip itself, and a restart then takes up an undone block.  `PruneKeepsDepth` has a case for the
entry at height zero, which is removed whatever the depth is.

## Not modelled

- the bytes of keys and values of the tables, except the order of the keys of txids and
  utxos: reading back what was written is a matter of one function at a time;
- elliptic curves, hashes, TLS, key files and passphrases: pure functions of libraries, or files;
- the client's database of keys, its known hosts and its command line: one command at
  a time, on files of its own;
- directories, arguments and configuration files of `bin/bwdb`: I/O before the system runs;
  what matters afterwards, a start that fails, is in `Service`;
- the formats of lists and CSV beyond their amounts; a page of a list on which no transaction has
  a line (all of no satoshis for the wallet), which ends the stream early;
- a second signal, and a restart of the service by its supervisor;
- scripts, regtest and integration tests: tests and offline reports.

What a later extension would take up: which undo is exact.  With imports only at tips that are never undone the run `fork` shows the
refinement through reorganizations; a proof needs an invariant that says of each stored block that its deltas and spent outputs are
what the undo of the tables needs.
