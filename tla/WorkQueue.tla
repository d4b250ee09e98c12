------------------------------ MODULE WorkQueue ------------------------------
(***************************************************************************)
(* The queue of the writer (lib/writer-worker.js): tasks that come over    *)
(* sockets from web workers and from the service, the priority at which    *)
(* each is pushed, the limit, the deferral of an import that must wait for *)
(* a sync, and the replies.  Several bitcoinds answer the writer in turn,  *)
(* and one may be behind another.  Chains only grow here; what a task does *)
(* to the database is in WalletWriter, how messages arrive in Framing.     *)
(***************************************************************************)
EXTENDS Integers, Sequences, FiniteSets, SequencesExt

CONSTANTS
  Task,         \* tasks of web workers
  MethodOf,     \* MethodOf[t]
  Worker,       \* web workers
  WorkerOf,     \* WorkerOf[t]: the one that asks for t
  Mortal,       \* web workers that may die
  MaxWorkQueue, \* maxWorkQueue
  Nodes,        \* number of clients
  TopHeight,    \* bound: the highest block
  None

Method == {"put", "post", "save", "create", "unknown", "badParams"}

\* A task in the queue; "id" is None for a sync, "own" marks the writer's.
QueuedTask ==
  [id : Task \cup {None}, method : Method \cup {"sync"}, priority : 0..100,
   own : BOOLEAN, deferred : BOOLEAN, target : 0..TopHeight]

ASSUME QueueAssumption ==
  /\ MethodOf \in [Task -> Method]
  /\ WorkerOf \in [Task -> Worker] /\ Mortal \subseteq Worker
  /\ MaxWorkQueue \in Nat \ {0}
  /\ Nodes \in Nat \ {0} /\ TopHeight \in Nat
  /\ None \notin Nat /\ None \notin Task /\ None \notin QueuedTask

VARIABLES
  height,   \* height of each bitcoind
  news,     \* heights of the sync messages of the service on their way
  queue,    \* waiting tasks
  running,  \* the task the queue runs, or None
  known,    \* bitcoinHeight
  wallet,   \* height of the wallet block, None before the first wallet
  turn,     \* _clientsIndex
  tried,    \* clients tried for the next block
  missed,   \* history: those of them that did not give it
  waiting,  \* tasks without a reply, in the order in which they were asked
  replies,  \* replies written per task
  closed,   \* sockets whose web worker has died
  ended,    \* the writer has died
  refused,  \* a sync message of the service was refused
  failed,   \* a sync has failed
  flaky     \* requests to bitcoind may fail in this behaviour

nodes == <<height, news>>
work == <<queue, running>>
chain == <<known, wallet, turn, tried, missed>>
web == <<waiting, replies, closed, ended>>
answers == <<waiting, replies, ended>>
vars == <<nodes, work, chain, web, refused, failed, flaky>>

Node == 0..(Nodes - 1)

\* msg.priority || 10
PriorityOf(priority) == IF priority = 0 THEN 10 ELSE priority

AskedPriority(method) ==
  CASE method = "put" -> 5 [] method = "create" -> 20 [] method = "save" -> 1 [] OTHER -> 10

\* A task of a socket.
WebTask(t) ==
  [id |-> t, method |-> MethodOf[t], priority |-> PriorityOf(AskedPriority(MethodOf[t])),
   own |-> FALSE, deferred |-> FALSE, target |-> 0]
ServiceSync(h) ==
  [id |-> None, method |-> "sync", priority |-> PriorityOf(0),
   own |-> FALSE, deferred |-> FALSE, target |-> h]

\* Mutant: behind everything else, as the deferred task.
QueueSyncTaskLast(h) ==
  [id |-> None, method |-> "sync", priority |-> 101,
   own |-> TRUE, deferred |-> FALSE, target |-> h]

\* The sync the writer queues itself, ahead of every other task.
QueueSyncTask(h) ==
  [id |-> None, method |-> "sync", priority |-> 0,
   own |-> TRUE, deferred |-> FALSE, target |-> h]

\* The import that waits for it, behind them.
Deferred(task, h) ==
  [task EXCEPT !.deferred = TRUE, !.priority = 100, !.target = h]

\* Mutant: ahead of the tasks of the same priority.
PlaceFirst(q, task) ==
  Cardinality({i \in DOMAIN q : q[i].priority < task.priority}) + 1

\* Behind the tasks of the same priority (async.priorityQueue).
Place(q, task) ==
  Cardinality({i \in DOMAIN q : q[i].priority <= task.priority}) + 1

Push(q, task) == InsertAt(q, Place(q, task), task)

\* Mutant: one more than the limit.
IsFullAbove(q) == Len(q) > MaxWorkQueue

IsFull(q) == Len(q) >= MaxWorkQueue

Init ==
  /\ height = [n \in Node |-> 0]
  /\ news = <<0>>
  /\ queue = <<>> /\ running = None
  /\ known = 0 /\ wallet \in {None, 0}
  /\ turn = 0 /\ tried = 0 /\ missed = {}
  /\ waiting = <<>> /\ replies = [t \in Task |-> 0]
  /\ closed = {} /\ ended = FALSE
  /\ refused = FALSE /\ failed = FALSE
  /\ flaky \in BOOLEAN

----------------------------------------------------------------------------
(* bitcoind, the service and the web workers                               *)

Tip == CHOOSE h \in 0..TopHeight :
         (\E n \in Node : height[n] = h) /\ \A n \in Node : height[n] <= h

\* A bitcoind has a new block; the service hears of it when it is a new tip.
NewBlock(n) ==
  /\ height[n] < TopHeight
  /\ height' = [height EXCEPT ![n] = @ + 1]
  /\ news' = IF height'[n] > Tip THEN Append(news, height'[n]) ELSE news
  /\ UNCHANGED <<work, chain, web, refused, failed>>

\* A sync message of the service is pushed or refused; nobody waits for a reply.
SyncArrives ==
  /\ ~ended /\ news # <<>>
  /\ news' = Tail(news)
  /\ \/ IsFull(queue) /\ refused' = TRUE /\ UNCHANGED queue
     \/ /\ ~IsFull(queue)
        /\ queue' = Push(queue, ServiceSync(Head(news)))
        /\ UNCHANGED refused
  /\ UNCHANGED <<height, running, chain, web, failed>>

\* Where task t stands in s.
AskedAt(t, s) == CHOOSE i \in DOMAIN s : s[i] = t

\* The reply is written to task t, of those in s; a socket that its worker has
\* left raises an error that no handler takes.
SendResponse(t, s) ==
  \/ WorkerOf[t] \in closed /\ ended' = TRUE /\ waiting' = s /\ UNCHANGED replies
  \/ /\ WorkerOf[t] \notin closed
     /\ replies' = [replies EXCEPT ![t] = @ + 1]
     /\ waiting' = RemoveAt(s, AskedAt(t, s))
     /\ UNCHANGED ended

\* A web worker asks: the task is pushed, or refused at once.
Ask(t) ==
  /\ ~ended /\ WorkerOf[t] \notin closed
  /\ replies[t] = 0 /\ ~Contains(waiting, t)
  /\ \/ IsFull(queue) /\ SendResponse(t, Append(waiting, t)) /\ UNCHANGED queue
     \/ /\ ~IsFull(queue)
        /\ queue' = Push(queue, WebTask(t))
        /\ waiting' = Append(waiting, t)
        /\ UNCHANGED <<replies, ended>>
  /\ UNCHANGED <<nodes, running, chain, closed, refused, failed>>

WebWorkerDies(w) ==
  /\ w \in Mortal \ closed
  /\ closed' = closed \cup {w}
  /\ UNCHANGED <<nodes, work, chain, answers, refused, failed>>

----------------------------------------------------------------------------
(* The queue's worker                                                      *)

Take ==
  /\ ~ended /\ running = None /\ queue # <<>>
  /\ running' = Head(queue)
  /\ queue' = Tail(queue)
  /\ tried' = 0 /\ missed' = {}
  /\ known' = IF running'.method = "sync" THEN running'.target ELSE known
  /\ UNCHANGED <<nodes, wallet, turn, web, refused, failed>>

Runs(methods) == ~ended /\ running # None /\ running.method \in methods

\* The task ends with its reply; a sync of the writer itself only logs, and
\* the service does not listen.
Finish ==
  /\ running' = None
  /\ \/ running.id = None /\ UNCHANGED answers
     \/ running.id # None /\ SendResponse(running.id, waiting)
  /\ UNCHANGED <<closed, nodes, refused>>

\* Mutant: no reply.
RejectSilently ==
  /\ Runs({"unknown", "badParams"})
  /\ running' = None
  /\ UNCHANGED <<nodes, queue, chain, web, refused, failed>>

\* An unknown method, or the wrong number of parameters.
Reject ==
  /\ Runs({"unknown", "badParams"})
  /\ Finish
  /\ UNCHANGED <<queue, chain, failed>>

SaveTransaction == Runs({"save"}) /\ Finish /\ UNCHANGED <<queue, chain, failed>>

\* The first wallet begins at the tip the writer knows.
CreateWallet ==
  /\ Runs({"create"})
  /\ wallet' = IF wallet = None THEN known ELSE wallet
  /\ Finish
  /\ UNCHANGED <<queue, known, turn, tried, missed, failed>>

\* Mutant: the block of the tip itself is not fetched.
BehindByTwo == wallet # None /\ wallet + 1 < known

Behind == wallet # None /\ wallet < known

SyncEnds ==
  /\ Runs({"sync"}) /\ ~Behind
  /\ Finish
  /\ UNCHANGED <<queue, chain, failed>>

\* tryAllClients for the next block: from the client whose turn it is, each once.
Asking == (turn + tried) % Nodes

\* Mutant: no retry.
FirstTry == TRUE

LastTry == tried + 1 = Nodes

TryClient ==
  /\ Runs({"sync"}) /\ Behind
  /\ \/ /\ height[Asking] > wallet
        /\ wallet' = wallet + 1 /\ tried' = 0 /\ missed' = {}
        /\ UNCHANGED <<running, failed>>
     \/ /\ height[Asking] <= wallet \/ flaky
        /\ ~LastTry
        /\ tried' = tried + 1 /\ missed' = missed \cup {Asking}
        /\ UNCHANGED <<running, wallet, failed>>
     \/ /\ height[Asking] <= wallet \/ flaky
        /\ LastTry
        /\ running' = None /\ failed' = TRUE
        /\ tried' = 0 /\ missed' = missed \cup {Asking}
        /\ UNCHANGED wallet
  /\ UNCHANGED <<nodes, queue, known, turn, web, refused>>

NextClient == (turn + 1) % Nodes

\* An import that finds no wallet or no new address, or whose request fails.
ImportWithout ==
  /\ Runs({"put", "post"})
  /\ \/ UNCHANGED turn
     \/ wallet # None /\ flaky /\ turn' \in {NextClient, (turn + 2) % Nodes}
  /\ Finish
  /\ UNCHANGED <<queue, known, wallet, tried, missed, failed>>

\* The client has the wallet's tip, then the deltas of the next one are read;
\* or it is behind the wallet.  Both end the task.
ImportHere ==
  /\ Runs({"put", "post"}) /\ wallet # None
  /\ height[turn] <= wallet
  /\ turn' = IF height[turn] = wallet THEN (turn + 2) % Nodes ELSE NextClient
  /\ Finish
  /\ UNCHANGED <<queue, known, wallet, tried, missed, failed>>

\* Mutant: the task is not marked.
MayDefer(task) == TRUE

NotYetDeferred(task) == ~task.deferred

\* The client is ahead: a sync is queued, and the task behind it, once.
ImportAhead ==
  LET h == height[turn]
      withSync == Push(queue, QueueSyncTask(h))
  IN /\ Runs({"put", "post"}) /\ wallet # None
     /\ h > wallet
     /\ turn' = NextClient
     /\ \/ /\ NotYetDeferred(running)
           /\ queue' = Push(withSync, Deferred(running, h))
           /\ running' = None
           /\ UNCHANGED <<nodes, web, refused>>
        \/ ~NotYetDeferred(running) /\ queue' = withSync /\ Finish
     /\ UNCHANGED <<known, wallet, tried, missed, failed>>

Run ==
  \/ Take \/ Reject \/ SaveTransaction \/ CreateWallet \/ SyncEnds \/ TryClient
  \/ ImportWithout \/ ImportHere \/ ImportAhead

Step ==
  \/ \E n \in Node : NewBlock(n)
  \/ SyncArrives \/ Run
  \/ \E t \in Task : Ask(t)
  \/ \E w \in Worker : WebWorkerDies(w)

Next == Step /\ UNCHANGED flaky

\* What is written to a socket arrives, and the queue goes on.
Spec == Init /\ [][Next]_vars /\ WF_vars(SyncArrives /\ UNCHANGED flaky) /\ WF_vars(Run /\ UNCHANGED flaky)

----------------------------------------------------------------------------
\* The limit is tested only for tasks of a socket.  A deferral pushes two more,
\* but never twice in a row, since the sync it pushes is served next: the queue
\* is never longer than two above its limit (_startListener, _queueSyncTask,
\* _queueWorkerIterator).
QueueBound == Len(queue) <= MaxWorkQueue + 2

\* Among tasks asked at the same priority the first asked is the first served:
\* a running task has overtaken none of them (async.priorityQueue).
FirstAskedFirstServed ==
  running # None /\ running.id # None /\ ~running.deferred =>
    \A i \in DOMAIN queue :
      queue[i].id # None /\ queue[i].priority = running.priority =>
        AskedAt(running.id, waiting) < AskedAt(queue[i].id, waiting)

\* An import that was deferred runs again only with a wallet that has reached
\* the height for which it was put off, whatever was pushed in between, unless
\* a sync has failed (_addUTXOSToWallet, _queueWorkerIterator).
RetryFindsItsSync ==
  running # None /\ running.deferred => failed \/ wallet >= running.target

\* A sync gives up only after each bitcoind was asked for the same next block and
\* did not give it, and then a request has failed: that they are at different
\* heights is not enough, for one of them has the height the sync was sent for
\* (tryAllClients, _updateTip).
SyncTriesEveryClient ==
  [][Runs({"sync"}) /\ Behind /\ running' # running => missed' = Node /\ flaky]_vars

\* A task is put off once: the second time it runs, it is answered.
DeferredOnce ==
  [][running # None /\ running.deferred /\ running' # running =>
       ended' \/ replies'[running.id] = replies[running.id] + 1]_vars

\* Every task a web worker asks gets one reply and not two, through refusals,
\* deferrals and errors, while the writer lives.
TaskReplies == INSTANCE TaskService WITH asked <- {t \in Task : replies[t] > 0 \/ Contains(waiting, t)}
EveryTaskIsAnswered == TaskReplies!Spec

\* The wallet ends at the tip, although service, imports and the first
\* createWallet set and use the writer's height in any order; not so if a sync
\* message is refused by a full queue or a sync fails, since neither is
\* repeated before the next tip.
StaysAtTip == <>[](refused \/ failed \/ ended \/ wallet \in {None, Tip})
=============================================================================
