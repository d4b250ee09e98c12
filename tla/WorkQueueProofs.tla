--------------------------- MODULE WorkQueueProofs ---------------------------
(***************************************************************************)
(* Proofs about the queue of the writer, for every number of tasks, web    *)
(* workers and bitcoinds, every limit and every height of the chain.       *)
(***************************************************************************)
EXTENDS WorkQueue, SequenceTheorems, FiniteSetTheorems, TLAPS

----------------------------------------------------------------------------
(* Where a task is placed                                                  *)

\* A task is placed in the queue or at its end.
LEMMA PlaceInRange ==
  ASSUME NEW q \in Seq(QueuedTask), NEW task \in QueuedTask
  PROVE  Place(q, task) \in 1..Len(q) + 1
<1> DEFINE before == {i \in DOMAIN q : q[i].priority <= task.priority}
<1>0. Len(q) \in Nat /\ DOMAIN q = 1..Len(q)
  BY LenProperties
<1>1. IsFiniteSet(1..Len(q)) /\ Cardinality(1..Len(q)) = Len(q)
  BY <1>0, FS_Interval
<1>2. before \in SUBSET (1..Len(q))
  BY <1>0
<1>3. Place(q, task) = Cardinality(before) + 1
  BY DEF Place
<1> HIDE DEF before
<1>4. IsFiniteSet(before) /\ Cardinality(before) <= Len(q)
  BY <1>1, <1>2, FS_Subset
<1>5. Cardinality(before) \in Nat
  BY <1>4, FS_CardinalityType
<1> QED
  BY <1>0, <1>3, <1>4, <1>5

\* Behind a first task that is as urgent.
LEMMA PlaceBehindFirst ==
  ASSUME NEW q \in Seq(QueuedTask), NEW task \in QueuedTask,
         q # <<>>, q[1].priority <= task.priority
  PROVE  Place(q, task) >= 2
<1> DEFINE before == {i \in DOMAIN q : q[i].priority <= task.priority}
<1>1. IsFiniteSet(1..Len(q)) /\ Len(q) \in Nat /\ DOMAIN q = 1..Len(q)
  BY FS_Interval, LenProperties
<1>2. before \in SUBSET (1..Len(q))
  BY <1>1
<1>3. 1 \in DOMAIN q
  BY <1>1, EmptySeq
<1>4. {1} \in SUBSET before
  BY <1>3
<1>5. Place(q, task) = Cardinality(before) + 1
  BY DEF Place
<1> HIDE DEF before
<1>6. IsFiniteSet(before)
  BY <1>1, <1>2, FS_Subset
<1>7. Cardinality(before) \in Nat /\ Cardinality({1}) <= Cardinality(before)
  BY <1>4, <1>6, FS_Subset, FS_CardinalityType
<1>8. Cardinality({1}) = 1
  BY FS_Singleton
<1> QED
  BY <1>5, <1>7, <1>8

\* Ahead of tasks that are all less urgent.
LEMMA PlaceAhead ==
  ASSUME NEW q \in Seq(QueuedTask), NEW task \in QueuedTask,
         \A i \in DOMAIN q : q[i].priority > task.priority
  PROVE  Place(q, task) = 1
<1> DEFINE before == {i \in DOMAIN q : q[i].priority <= task.priority}
<1>0. Len(q) \in Nat /\ DOMAIN q = 1..Len(q)
  BY LenProperties
<1>1. \A i \in DOMAIN q : q[i] \in QueuedTask
  BY <1>0, ElementOfSeq
<1>2. \A i \in DOMAIN q : q[i].priority \in 0..100
  BY <1>1 DEF QueuedTask
<1>3. before = {}
  <2>1. task.priority \in 0..100
    BY DEF QueuedTask
  <2>2. ASSUME NEW i \in DOMAIN q
        PROVE  ~(q[i].priority <= task.priority)
    <3> DEFINE a == q[i].priority
               b == task.priority
    <3>1. a \in 0..100 /\ a > b
      BY <1>2
    <3> HIDE DEF a, b
    <3>2. b \in 0..100
      BY <2>1 DEF b
    <3>3. ~(a <= b)
      BY <3>1, <3>2
    <3> QED
      BY <3>3 DEF a, b
  <2> QED
    BY <2>2
<1>4. Place(q, task) = Cardinality(before) + 1
  BY DEF Place
<1>5. IsFiniteSet({}) /\ Cardinality({}) = 0
  BY FS_EmptySet
<1> HIDE DEF before
<1> QED
  BY <1>3, <1>4, <1>5

\* What a push leaves.
LEMMA PushProperties ==
  ASSUME NEW q \in Seq(QueuedTask), NEW task \in QueuedTask
  PROVE  /\ Push(q, task) \in Seq(QueuedTask)
         /\ Len(Push(q, task)) = Len(q) + 1
         /\ \A j \in 1..Len(q) + 1 :
              /\ j < Place(q, task) => Push(q, task)[j] = q[j]
              /\ j = Place(q, task) => Push(q, task)[j] = task
              /\ j > Place(q, task) => Push(q, task)[j] = q[j - 1]
<1> DEFINE p == Place(q, task)
           front == SubSeq(q, 1, p - 1)
           back == SubSeq(q, p, Len(q))
<1>1. p \in 1..Len(q) + 1 /\ Len(q) \in Nat
  BY PlaceInRange, LenProperties
<1>2. \A i \in 1..Len(q) : q[i] \in QueuedTask
  BY ElementOfSeq
<1>3. Push(q, task) = front \o <<task>> \o back
  BY DEF Push, InsertAt
<1> HIDE DEF p
<1>4. /\ front \in Seq(QueuedTask) /\ Len(front) = p - 1
      /\ \A i \in 1..p - 1 : front[i] = q[i]
  <2>1. p - 1 \in Int /\ 1 \in Int /\ \A i \in 1..p - 1 : q[i] \in QueuedTask
    BY <1>1, <1>2
  <2>2. /\ front \in Seq(QueuedTask)
        /\ Len(front) = IF 1 <= p - 1 THEN p - 1 - 1 + 1 ELSE 0
        /\ \A i \in 1..p - 1 - 1 + 1 : front[i] = q[1 + i - 1]
    BY ONLY <2>1, SubSeqProperties
  <2> QED
    BY <1>1, <2>2
<1>5. /\ back \in Seq(QueuedTask) /\ Len(back) = Len(q) - p + 1
      /\ \A i \in 1..Len(q) - p + 1 : back[i] = q[p + i - 1]
  <2>1. p \in Int /\ Len(q) \in Int /\ \A i \in p..Len(q) : q[i] \in QueuedTask
    BY <1>1, <1>2
  <2>2. /\ back \in Seq(QueuedTask)
        /\ Len(back) = IF p <= Len(q) THEN Len(q) - p + 1 ELSE 0
        /\ \A i \in 1..Len(q) - p + 1 : back[i] = q[p + i - 1]
    BY ONLY <2>1, SubSeqProperties
  <2> QED
    BY <1>1, <2>2
<1> HIDE DEF front, back
<1>6. <<task>> \in Seq(QueuedTask) /\ Len(<<task>>) = 1 /\ <<task>>[1] = task
  OBVIOUS
<1> DEFINE start == front \o <<task>>
<1>7. /\ start \in Seq(QueuedTask) /\ Len(start) = p
      /\ \A i \in 1..p : start[i] = IF i <= p - 1 THEN q[i] ELSE task
  <2>1. /\ start \in Seq(QueuedTask) /\ Len(start) = Len(front) + 1
        /\ \A i \in 1..Len(front) + 1 :
             start[i] = IF i <= Len(front) THEN front[i] ELSE <<task>>[i - Len(front)]
    BY <1>4, <1>6, ConcatProperties
  <2> QED
    BY <1>1, <1>4, <1>6, <2>1
<1> HIDE DEF start
<1>8. /\ start \o back \in Seq(QueuedTask) /\ Len(start \o back) = Len(start) + Len(back)
      /\ \A i \in 1..Len(start) + Len(back) :
           (start \o back)[i] = IF i <= Len(start) THEN start[i] ELSE back[i - Len(start)]
  BY <1>5, <1>7, ConcatProperties
<1>9. Push(q, task) = start \o back
  BY <1>3 DEF start
<1>10. \A j \in 1..Len(q) + 1 :
         /\ j < p => (start \o back)[j] = q[j]
         /\ j = p => (start \o back)[j] = task
         /\ j > p => (start \o back)[j] = q[j - 1]
  BY <1>1, <1>5, <1>7, <1>8
<1> QED
  BY <1>1, <1>5, <1>7, <1>8, <1>9, <1>10, SMTT(40) DEF p

----------------------------------------------------------------------------
(* The shape of the queue                                                  *)

\* A task of a socket, and a sync the writer has queued itself.
Regular(task) ==
  /\ ~task.own /\ task.priority >= 1
  /\ task.method # "sync" => task.id # None
  /\ task.deferred => task.method # "sync"
OwnSync(task) ==
  task.own /\ task.priority = 0 /\ task.method = "sync" /\ ~task.deferred

\* Only the first task may be a sync of the writer's own, and only while nothing
\* runs.
Shape(q, idle) ==
  \A i \in 1..Len(q) : Regular(q[i]) \/ (i = 1 /\ idle /\ OwnSync(q[i]))
OwnFirst(q) == Len(q) > 0 /\ q[1].own

\* After a push there are the tasks of before and the new one.
LEMMA PushElements ==
  ASSUME NEW q \in Seq(QueuedTask), NEW task \in QueuedTask
  PROVE  \A j \in 1..Len(q) + 1 :
           Push(q, task)[j] = task \/ \E i \in 1..Len(q) : Push(q, task)[j] = q[i]
<1> DEFINE n == Len(q)
           k == Place(q, task)
           p == Push(q, task)
<1>1. /\ n \in Nat /\ k \in 1..n + 1
      /\ \A j \in 1..n + 1 : /\ j < k => p[j] = q[j]
                             /\ j = k => p[j] = task
                             /\ j > k => p[j] = q[j - 1]
  BY LenProperties, PlaceInRange, PushProperties
<1> HIDE DEF n, k, p
<1>2. ASSUME NEW j \in 1..n + 1
      PROVE  p[j] = task \/ \E i \in 1..n : p[j] = q[i]
  <2>1. CASE j < k
    BY <1>1, <2>1
  <2>2. CASE j = k
    BY <1>1, <2>2
  <2>3. CASE j > k
    <3>1. j - 1 \in 1..n /\ p[j] = q[j - 1]
      BY <1>1, <2>3
    <3> QED
      BY <3>1
  <2> QED
    BY <1>1, <2>1, <2>2, <2>3
<1> QED
  BY <1>2 DEF n, p

\* A task of a socket goes behind a sync of the writer's own.
LEMMA PushRegular ==
  ASSUME NEW q \in Seq(QueuedTask), NEW task \in QueuedTask, NEW idle \in BOOLEAN,
         Regular(task), Shape(q, idle)
  PROVE  /\ Shape(Push(q, task), idle)
         /\ OwnFirst(Push(q, task)) <=> OwnFirst(q)
         /\ OwnFirst(q) => Push(q, task)[1] = q[1]
<1> DEFINE n == Len(q)
           k == Place(q, task)
           p == Push(q, task)
<1>1. /\ n \in Nat /\ k \in 1..n + 1
      /\ \A j \in 1..n + 1 : /\ j < k => p[j] = q[j]
                             /\ j = k => p[j] = task
                             /\ j > k => p[j] = q[j - 1]
  BY LenProperties, PlaceInRange, PushProperties
<1>2. \A i \in 1..n : q[i] \in QueuedTask
  BY ElementOfSeq
<1>3. Len(p) = n + 1
  BY PushProperties
<1>4. OwnFirst(q) => k >= 2 /\ OwnSync(q[1]) /\ idle
  <2> SUFFICES ASSUME OwnFirst(q) PROVE k >= 2 /\ OwnSync(q[1]) /\ idle
    OBVIOUS
  <2>1. 1 \in 1..n /\ q # <<>>
    BY <1>1 DEF OwnFirst
  <2>2. OwnSync(q[1]) /\ idle
    BY <2>1 DEF OwnFirst, Shape, Regular
  <2>3. q[1].priority = 0
    BY <2>2 DEF OwnSync
  <2>4. task.priority \in 0..100
    BY DEF QueuedTask
  <2> DEFINE a == q[1].priority
             b == task.priority
  <2>5. a <= b
    <3>1. a = 0 /\ b \in 0..100
      BY <2>3, <2>4
    <3> HIDE DEF a, b
    <3> QED
      BY <3>1
  <2> QED
    BY <2>1, <2>2, <2>5, PlaceBehindFirst
<1>5. OwnFirst(q) <=> n > 0 /\ q[1].own
  BY DEF OwnFirst
<1>6. OwnFirst(p) <=> Len(p) > 0 /\ p[1].own
  BY DEF OwnFirst
<1>7. Shape(p, idle) <=> \A j \in 1..Len(p) : Regular(p[j]) \/ (j = 1 /\ idle /\ OwnSync(p[j]))
  BY DEF Shape
<1>8. \A i \in 1..n : Regular(q[i]) \/ (i = 1 /\ idle /\ OwnSync(q[i]))
  BY DEF Shape
<1> HIDE DEF n, k, p
<1>9. CASE OwnFirst(q)
  <2>1. p[1] = q[1]
    BY <1>1, <1>4, <1>9
  <2>2. ASSUME NEW j \in 2..n + 1
        PROVE  Regular(p[j])
    <3>1. CASE j < k
      BY <1>1, <1>8, <3>1
    <3>2. CASE j = k
      BY <1>1, <3>2
    <3>3. CASE j > k
      <4>1. p[j] = q[j - 1] /\ j - 1 \in 2..n
        BY <1>1, <1>4, <1>9, <3>3
      <4> QED
        BY <1>8, <4>1
    <3> QED
      BY <1>1, <3>1, <3>2, <3>3
  <2>3. Shape(p, idle)
    <3>1. \A j \in 1..n + 1 : j = 1 \/ j \in 2..n + 1
      BY <1>1
    <3>2. OwnSync(p[1]) /\ idle
      BY <1>4, <1>9, <2>1
    <3> QED
      BY <1>3, <1>7, <2>2, <3>1, <3>2
  <2> QED
    BY <1>1, <1>3, <1>5, <1>6, <1>9, <2>1, <2>3 DEF p
<1>10. CASE ~OwnFirst(q)
  <2>1. \A i \in 1..n : Regular(q[i])
    BY <1>1, <1>5, <1>8, <1>10 DEF OwnSync
  <2>2. \A j \in 1..n + 1 : p[j] = task \/ \E i \in 1..n : p[j] = q[i]
    BY PushElements DEF n, p
  <2>3. \A j \in 1..n + 1 : Regular(p[j])
    BY <2>1, <2>2
  <2>4. 1 \in 1..n + 1
    BY <1>1
  <2>5. ~p[1].own
    BY <2>3, <2>4 DEF Regular
  <2> QED
    BY <1>3, <1>6, <1>7, <1>10, <2>3, <2>5 DEF p
<1> QED
  BY <1>9, <1>10

\* A sync of the writer's own goes ahead of everything.
LEMMA PushOwn ==
  ASSUME NEW q \in Seq(QueuedTask), NEW h \in 0..TopHeight, Shape(q, FALSE)
  PROVE  LET p == Push(q, QueueSyncTask(h))
         IN Shape(p, TRUE) /\ OwnFirst(p) /\ p[1] = QueueSyncTask(h)
<1> DEFINE task == QueueSyncTask(h)
           n == Len(q)
           p == Push(q, task)
<1>1. task \in QueuedTask /\ OwnSync(task) /\ task.priority = 0 /\ task.own
  BY DEF QueueSyncTask, QueuedTask, OwnSync
<1> HIDE DEF task
<1>2. n \in Nat /\ DOMAIN q = 1..n /\ Len(p) = n + 1
  BY <1>1, LenProperties, PushProperties
<1>3. \A i \in 1..n : Regular(q[i])
  BY DEF Shape
<1>4. ASSUME NEW i \in DOMAIN q
      PROVE  q[i].priority > task.priority
  <2>1. i \in 1..n
    BY <1>2
  <2>2. q[i] \in QueuedTask
    BY <2>1, ElementOfSeq
  <2>3. q[i].priority \in 0..100
    BY <2>2 DEF QueuedTask
  <2>4. q[i].priority >= 1
    BY <1>3, <2>1 DEF Regular
  <2> DEFINE a == q[i].priority
             b == task.priority
  <2>5. a \in 0..100 /\ a >= 1 /\ b = 0
    BY <1>1, <2>3, <2>4
  <2> HIDE DEF a, b
  <2>6. a > b
    BY <2>5
  <2> QED
    BY <2>6 DEF a, b
<1>5. Place(q, task) = 1
  BY <1>1, <1>4, PlaceAhead
<1>6. \A j \in 1..n + 1 : /\ j = 1 => p[j] = task
                          /\ j > 1 => p[j] = q[j - 1]
  <2> DEFINE k == Place(q, task)
  <2>1. \A j \in 1..n + 1 : /\ j = k => p[j] = task
                            /\ j > k => p[j] = q[j - 1]
    BY <1>1, PushProperties
  <2>2. k = 1
    BY <1>5
  <2> HIDE DEF k, p
  <2> QED
    BY <2>1, <2>2
<1>7. Shape(p, TRUE) <=> \A j \in 1..Len(p) : Regular(p[j]) \/ (j = 1 /\ OwnSync(p[j]))
  BY DEF Shape
<1>8. OwnFirst(p) <=> Len(p) > 0 /\ p[1].own
  BY DEF OwnFirst
<1> HIDE DEF n, p
<1>9. ASSUME NEW j \in 2..n + 1
      PROVE  Regular(p[j])
  <2>1. p[j] = q[j - 1] /\ j - 1 \in 1..n
    BY <1>2, <1>6
  <2> QED
    BY <1>3, <2>1
<1>10. p[1] = task
  BY <1>2, <1>6
<1>11. Shape(p, TRUE)
  <2>1. \A j \in 1..n + 1 : j = 1 \/ j \in 2..n + 1
    BY <1>2
  <2> QED
    BY <1>1, <1>2, <1>7, <1>9, <1>10, <2>1
<1>12. OwnFirst(p)
  BY <1>1, <1>2, <1>8, <1>10
<1> QED
  BY <1>10, <1>11, <1>12 DEF p, task
----------------------------------------------------------------------------
(* The inductive invariant                                                 *)

Types ==
  /\ height \in [Node -> 0..TopHeight] /\ news \in Seq(0..TopHeight)
  /\ queue \in Seq(QueuedTask) /\ running \in QueuedTask \cup {None}
  /\ known \in 0..TopHeight /\ wallet \in 0..TopHeight \cup {None}
  /\ turn \in Node /\ tried \in Node
  /\ replies \in [Task -> Nat] /\ failed \in BOOLEAN

RunningShape == running # None => Regular(running) \/ OwnSync(running)

\* Only a deferral pushes past the limit, two tasks of which the first is the
\* next to run.
LengthBound ==
  /\ running # None /\ ~running.own => Len(queue) <= MaxWorkQueue
  /\ running # None /\ running.own => Len(queue) <= MaxWorkQueue + 1
  /\ running = None /\ ~OwnFirst(queue) => Len(queue) <= MaxWorkQueue + 1
  /\ running = None => Len(queue) <= MaxWorkQueue + 2

\* The wallet is at height h, or it will be before the next task of a socket.
Supplied(h) ==
  \/ failed
  \/ wallet >= h
  \/ OwnFirst(queue) /\ queue[1].target >= h
  \/ running # None /\ running.own /\ known >= h

DeferredSupplied ==
  \A i \in 1..Len(queue) :
    queue[i].deferred => wallet # None /\ Supplied(queue[i].target)
RunningSupplied ==
  running # None /\ running.deferred =>
    wallet # None /\ (failed \/ wallet >= running.target)

IInv ==
  /\ Types
  /\ Shape(queue, running = None) /\ RunningShape
  /\ LengthBound
  /\ DeferredSupplied /\ RunningSupplied

LEMMA InitIInv == Init => IInv
<1> SUFFICES ASSUME Init PROVE IInv
  OBVIOUS
<1>1. queue = <<>> /\ Len(queue) = 0 /\ running = None
  BY DEF Init
<1>2. 0 \in 0..TopHeight /\ 0 \in Node /\ MaxWorkQueue \in Nat
  BY QueueAssumption DEF Node
<1>3. Types
  <2>1. queue \in Seq(QueuedTask) /\ running \in QueuedTask \cup {None}
    BY <1>1
  <2>2. height \in [Node -> 0..TopHeight] /\ news \in Seq(0..TopHeight)
    BY <1>2 DEF Init
  <2>3. replies \in [Task -> Nat] /\ failed \in BOOLEAN
    BY DEF Init
  <2>4. known \in 0..TopHeight /\ wallet \in 0..TopHeight \cup {None}
    BY <1>2 DEF Init
  <2> QED
    BY <1>2, <2>1, <2>2, <2>3, <2>4 DEF Init, Types
<1>4. Shape(queue, running = None) /\ RunningShape /\ LengthBound
  BY <1>1, <1>2 DEF Shape, RunningShape, LengthBound
<1>5. DeferredSupplied /\ RunningSupplied
  BY <1>1 DEF DeferredSupplied, RunningSupplied
<1> QED
  BY <1>3, <1>4, <1>5 DEF IInv

\* A task of a socket, and one of the service.
LEMMA AskedTasks ==
  /\ \A t \in Task : WebTask(t) \in QueuedTask /\ Regular(WebTask(t)) /\ ~WebTask(t).deferred
  /\ \A h \in 0..TopHeight : /\ ServiceSync(h) \in QueuedTask /\ Regular(ServiceSync(h))
                              /\ ~ServiceSync(h).deferred
<1>1. ASSUME NEW t \in Task
      PROVE  WebTask(t) \in QueuedTask /\ Regular(WebTask(t)) /\ ~WebTask(t).deferred
  <2> DEFINE m == MethodOf[t]
  <2>1. m \in Method /\ t # None /\ 0 \in 0..TopHeight
    BY QueueAssumption
  <2>2. PriorityOf(AskedPriority(m)) \in 1..100
    BY <2>1 DEF PriorityOf, AskedPriority, Method
  <2> HIDE DEF m
  <2>3. m # "sync"
    BY <2>1 DEF Method
  <2>4. WebTask(t) = [id |-> t, method |-> m, priority |-> PriorityOf(AskedPriority(m)),
                      own |-> FALSE, deferred |-> FALSE, target |-> 0]
    BY DEF WebTask, m
  <2> DEFINE r == PriorityOf(AskedPriority(m))
  <2> HIDE DEF r
  <2>5. r \in 1..100 /\ r \in 0..100 /\ r >= 1
    BY <2>2 DEF r
  <2>6. WebTask(t) \in QueuedTask
    BY <2>1, <2>4, <2>5 DEF QueuedTask, r
  <2> QED
    BY <2>1, <2>3, <2>4, <2>5, <2>6 DEF Regular, r
<1>2. ASSUME NEW h \in 0..TopHeight
      PROVE  ServiceSync(h) \in QueuedTask /\ Regular(ServiceSync(h)) /\ ~ServiceSync(h).deferred
  <2>1. PriorityOf(0) = 10
    BY DEF PriorityOf
  <2> QED
    BY <2>1 DEF ServiceSync, QueuedTask, Regular
<1> QED
  BY <1>1, <1>2

\* A task that waits leaves everything as it was.
LEMMA StutterKeeps ==
  ASSUME IInv, Types',
         UNCHANGED <<queue, running, wallet, known, failed>>
  PROVE  IInv'
<1> USE DEF IInv
<1>1. Shape(queue, running = None)' /\ RunningShape' /\ LengthBound'
  BY DEF Shape, RunningShape, LengthBound, OwnFirst
<1>2. DeferredSupplied' /\ RunningSupplied'
  BY DEF DeferredSupplied, RunningSupplied, Supplied, OwnFirst
<1> QED
  BY <1>1, <1>2

\* A task of a socket or of the service is pushed when the queue is not full.
LEMMA PushKeeps ==
  ASSUME IInv, Types', NEW task \in QueuedTask, Regular(task), ~task.deferred,
         ~IsFull(queue), queue' = Push(queue, task),
         UNCHANGED <<running, wallet, known, failed>>
  PROVE  IInv'
<1> DEFINE n == Len(queue)
           idle == running = None
<1>1. queue \in Seq(QueuedTask) /\ n \in Nat /\ MaxWorkQueue \in Nat
  BY LenProperties, QueueAssumption DEF IInv, Types
<1>2. Shape(queue, idle)
  BY DEF IInv
<1>3. idle \in BOOLEAN
  OBVIOUS
<1> HIDE DEF idle
<1>4. /\ Shape(queue', idle)
      /\ OwnFirst(queue') <=> OwnFirst(queue)
      /\ OwnFirst(queue) => queue'[1] = queue[1]
  BY <1>1, <1>2, <1>3, PushRegular
<1>5. Len(queue') = n + 1
  BY <1>1, PushProperties
<1>6. n < MaxWorkQueue
  BY <1>1 DEF IsFull
<1>7. Shape(queue, running = None)' /\ RunningShape'
  BY <1>4 DEF idle, IInv, RunningShape
<1>8. LengthBound'
  <2>1. Len(queue') <= MaxWorkQueue
    BY <1>1, <1>5, <1>6
  <2> DEFINE k == Len(queue')
  <2>2. k \in Nat
    BY <1>1, <1>5
  <2> HIDE DEF k, n
  <2>3. k <= MaxWorkQueue /\ k <= MaxWorkQueue + 1 /\ k <= MaxWorkQueue + 2
    BY <1>1, <2>1, <2>2 DEF k
  <2> QED
    BY <2>3 DEF LengthBound, k
<1>9. RunningSupplied'
  BY DEF IInv, RunningSupplied
<1>10. DeferredSupplied'
  <2> SUFFICES ASSUME NEW j \in 1..Len(queue'), queue'[j].deferred
               PROVE  wallet' # None /\ Supplied(queue[j].target)'
    BY DEF DeferredSupplied
  <2>1. PICK i \in 1..n : queue'[j] = queue[i]
    BY <1>1, <1>5, PushElements
  <2>2. wallet # None /\ Supplied(queue[i].target)
    BY <2>1 DEF IInv, DeferredSupplied
  <2> QED
    BY <1>4, <2>1, <2>2 DEF Supplied
<1> QED
  BY <1>7, <1>8, <1>9, <1>10 DEF IInv

\* The first task runs.
LEMMA TakeKeeps ==
  ASSUME IInv, Types', Take
  PROVE  IInv'
<1> DEFINE n == Len(queue)
<1>1. /\ queue \in Seq(QueuedTask) /\ n \in Nat \ {0} /\ MaxWorkQueue \in Nat
      /\ running = None /\ queue' = Tail(queue) /\ running' = queue[1]
      /\ wallet' = wallet /\ failed' = failed
  <2>1. queue \in Seq(QueuedTask) /\ queue # <<>>
    BY DEF IInv, Types, Take
  <2>2. n \in Nat \ {0}
    BY <2>1, LenProperties, EmptySeq
  <2> QED
    BY <2>1, <2>2, QueueAssumption DEF Take
<1>2. Len(queue') = n - 1 /\ \A i \in 1..n - 1 : queue'[i] = queue[i + 1]
  BY <1>1, HeadTailProperties
<1>3. \A i \in 1..n : queue[i] \in QueuedTask
  BY <1>1, ElementOfSeq
<1>4. running' \in QueuedTask /\ running' # None
  BY <1>1, <1>3, QueueAssumption
<1>5. \A i \in 1..n : Regular(queue[i]) \/ (i = 1 /\ OwnSync(queue[i]))
  BY DEF IInv, Shape
<1>6. OwnFirst(queue) <=> queue[1].own
  BY <1>1 DEF OwnFirst
<1>7. \A i \in 1..n : queue[i].deferred =>
        wallet # None /\ (failed \/ wallet >= queue[i].target
                            \/ (queue[1].own /\ queue[1].target >= queue[i].target))
  BY <1>1, <1>6 DEF IInv, DeferredSupplied, Supplied
<1>8. known' = IF running'.method = "sync" THEN running'.target ELSE known
  BY DEF Take
<1>9. /\ ~queue[1].own => n <= MaxWorkQueue + 1
      /\ n <= MaxWorkQueue + 2
  BY <1>1, <1>6 DEF IInv, LengthBound
<1> HIDE DEF n
<1>10. RunningShape'
  BY <1>1, <1>5 DEF RunningShape
<1>11. \A i \in 1..n - 1 : i + 1 \in 1..n /\ i + 1 # 1
  BY <1>1
<1>12. \A i \in 1..Len(queue') : Regular(queue'[i])
  BY <1>2, <1>5, <1>11
<1>13. Shape(queue, running = None)'
  BY <1>12 DEF Shape
<1>14. LengthBound'
  <2> DEFINE k == Len(queue')
  <2>1. k = n - 1
    BY <1>2
  <2> HIDE DEF k
  <2>2. /\ ~queue[1].own => k <= MaxWorkQueue
        /\ k <= MaxWorkQueue + 1
    BY <1>1, <1>9, <2>1
  <2> QED
    BY <1>1, <1>4, <2>2 DEF LengthBound, k
<1>15. DeferredSupplied'
  <2> SUFFICES ASSUME NEW j \in 1..Len(queue'), queue'[j].deferred
               PROVE  wallet' # None /\ Supplied(queue[j].target)'
    BY DEF DeferredSupplied
  <2>1. j \in 1..n - 1 /\ j + 1 \in 1..n /\ queue'[j] = queue[j + 1]
    BY <1>2, <1>11
  <2>2. wallet # None /\ (failed \/ wallet >= queue[j + 1].target
                            \/ (queue[1].own /\ queue[1].target >= queue[j + 1].target))
    BY <1>7, <2>1
  <2>3. ASSUME queue[1].own
        PROVE  known' = queue[1].target
    <3>1. 1 \in 1..n
      BY <1>1
    <3>2. queue[1].method = "sync"
      BY <1>5, <2>3, <3>1 DEF Regular, OwnSync
    <3> QED
      BY <1>1, <1>8, <3>2
  <2> QED
    BY <1>1, <1>4, <2>1, <2>2, <2>3 DEF Supplied
<1>16. RunningSupplied'
  <2> SUFFICES ASSUME queue[1].deferred
               PROVE  wallet # None /\ (failed \/ wallet >= queue[1].target)
    BY <1>1 DEF RunningSupplied
  <2>1. 1 \in 1..n
    BY <1>1
  <2>2. ~queue[1].own
    BY <1>5, <2>1 DEF Regular, OwnSync
  <2> QED
    BY <1>7, <2>1, <2>2
<1> QED
  BY <1>10, <1>13, <1>14, <1>15, <1>16 DEF IInv

\* The running task ends, and the queue stays: a sync of the writer's own ends
\* with the wallet where it was sent, or it has failed.
LEMMA EndKeeps ==
  ASSUME IInv, Types', running # None, running' = None,
         queue' = queue, known' = known, failed => failed',
         wallet' = wallet \/ wallet = None,
         running.own => failed' \/ wallet = None \/ wallet >= known
  PROVE  IInv'
<1> DEFINE n == Len(queue)
<1>1. queue \in Seq(QueuedTask) /\ n \in Nat /\ MaxWorkQueue \in Nat
  BY LenProperties, QueueAssumption DEF IInv, Types
<1>2. \A i \in 1..n : Regular(queue[i])
  BY DEF IInv, Shape
<1>3. \A i \in 1..n : queue[i].deferred =>
        wallet # None /\ (failed \/ wallet >= queue[i].target
                            \/ (running.own /\ known >= queue[i].target))
  <2>1. ~OwnFirst(queue)
    <3>1. n > 0 => 1 \in 1..n
      BY <1>1
    <3> QED
      BY <1>2, <3>1 DEF OwnFirst, Regular
  <2> QED
    BY <2>1 DEF IInv, DeferredSupplied, Supplied
<1>4. \A i \in 1..n : queue[i] \in QueuedTask
  BY <1>1, ElementOfSeq
<1>5. n <= MaxWorkQueue + 1
  <2>1. (running.own => n <= MaxWorkQueue + 1) /\ (~running.own => n <= MaxWorkQueue)
    BY DEF IInv, LengthBound
  <2> HIDE DEF n
  <2> QED
    BY <1>1, <2>1
<1>6. Shape(queue, running = None)' /\ RunningShape'
  BY <1>2 DEF Shape, RunningShape
<1>7. LengthBound'
  <2> HIDE DEF n
  <2>1. n <= MaxWorkQueue + 1 /\ n <= MaxWorkQueue + 2
    BY <1>1, <1>5
  <2> QED
    BY <2>1 DEF LengthBound, n
<1>8. DeferredSupplied'
  <2> SUFFICES ASSUME NEW i \in 1..n, queue[i].deferred
               PROVE  wallet' # None /\ (failed' \/ wallet' >= queue[i].target)
    BY DEF DeferredSupplied, Supplied
  <2>1. queue[i].target \in 0..TopHeight
    BY <1>4 DEF QueuedTask
  <2>2. /\ wallet # None /\ wallet' = wallet
        /\ failed \/ wallet >= queue[i].target \/ (running.own /\ known >= queue[i].target)
    BY <1>3
  <2>3. wallet \in 0..TopHeight /\ known \in 0..TopHeight
    BY <2>2 DEF IInv, Types
  <2> DEFINE h == queue[i].target
  <2>4. h \in 0..TopHeight /\ (failed \/ wallet >= h \/ (running.own /\ known >= h))
    BY <2>1, <2>2
  <2> HIDE DEF h
  <2>5. TopHeight \in Nat
    BY QueueAssumption
  <2>6. failed' \/ wallet >= h
    BY <2>2, <2>3, <2>4, <2>5
  <2> QED
    BY <2>2, <2>6 DEF h
<1>9. RunningSupplied'
  BY DEF RunningSupplied
<1> QED
  BY <1>6, <1>7, <1>8, <1>9 DEF IInv

\* The next client is tried, or a block of the sync is connected.
LEMMA TryKeeps ==
  ASSUME IInv, Types', running # None,
         UNCHANGED <<queue, running, known, failed>>,
         wallet' = wallet \/ (wallet # None /\ wallet' = wallet + 1)
  PROVE  IInv'
<1>1. Shape(queue, running = None)' /\ RunningShape' /\ LengthBound'
  BY DEF IInv, Shape, RunningShape, LengthBound, OwnFirst
<1>2. ASSUME NEW h \in 0..TopHeight, wallet # None
      PROVE  wallet' # None /\ (wallet >= h => wallet' >= h)
  <2>1. wallet \in 0..TopHeight /\ wallet' \in Nat /\ TopHeight \in Nat
    <3>1. wallet \in 0..TopHeight /\ TopHeight \in Nat
      BY <1>2, QueueAssumption DEF IInv, Types
    <3> QED
      BY <3>1
  <2>2. wallet' # None
    BY <2>1, QueueAssumption
  <2>3. wallet >= h => wallet' >= h
    BY <2>1
  <2> QED
    BY <2>2, <2>3
<1>3. \A i \in 1..Len(queue) : queue[i].target \in 0..TopHeight
  <2>1. \A i \in 1..Len(queue) : queue[i] \in QueuedTask
    BY ElementOfSeq DEF IInv, Types
  <2> QED
    BY <2>1 DEF QueuedTask
<1>4. DeferredSupplied'
  <2> SUFFICES ASSUME NEW i \in 1..Len(queue), queue[i].deferred
               PROVE  wallet' # None /\ Supplied(queue[i].target)'
    BY DEF DeferredSupplied
  <2>1. wallet # None /\ Supplied(queue[i].target)
    BY DEF IInv, DeferredSupplied
  <2> QED
    BY <1>2, <1>3, <2>1 DEF Supplied, OwnFirst
<1>5. RunningSupplied'
  <2> SUFFICES ASSUME running.deferred
               PROVE  wallet' # None /\ (failed \/ wallet' >= running.target)
    BY DEF RunningSupplied
  <2>1. running.target \in 0..TopHeight
    BY DEF IInv, Types, QueuedTask
  <2>2. wallet # None /\ (failed \/ wallet >= running.target)
    BY DEF IInv, RunningSupplied
  <2> QED
    BY <1>2, <2>1, <2>2
<1> QED
  BY <1>1, <1>4, <1>5 DEF IInv

\* An import that finds its client ahead queues a sync, and is put off or ends.
LEMMA AheadKeeps ==
  ASSUME IInv, Types', ImportAhead
  PROVE  IInv'
<1> DEFINE h == height[turn]
           n == Len(queue)
           sync == QueueSyncTask(h)
           p == Push(queue, sync)
           off == Deferred(running, h)
<1>1. /\ queue \in Seq(QueuedTask) /\ n \in Nat /\ MaxWorkQueue \in Nat /\ TopHeight \in Nat
      /\ running \in QueuedTask /\ running # None
      /\ h \in 0..TopHeight /\ wallet # None
      /\ UNCHANGED <<known, wallet, failed>> /\ running' = None
      /\ \/ ~running.deferred /\ queue' = Push(p, off)
         \/ running.deferred /\ queue' = p
  <2>1. queue \in Seq(QueuedTask) /\ n \in Nat
    BY LenProperties DEF IInv, Types
  <2>2. running \in QueuedTask /\ running # None
    BY DEF ImportAhead, Runs, IInv, Types
  <2>3. h \in 0..TopHeight
    BY DEF IInv, Types
  <2>4. running' = None /\ wallet # None /\ UNCHANGED <<known, wallet, failed>>
    BY DEF ImportAhead, Finish
  <2>5. \/ ~running.deferred /\ queue' = Push(p, off)
        \/ running.deferred /\ queue' = p
    BY DEF ImportAhead, NotYetDeferred
  <2> QED
    BY <2>1, <2>2, <2>3, <2>4, <2>5, QueueAssumption
<1>2. running.method \in {"put", "post"} /\ Regular(running)
  BY <1>1 DEF ImportAhead, Runs, IInv, RunningShape, OwnSync
<1>3. sync \in QueuedTask /\ ~sync.deferred /\ sync.target = h
  BY <1>1 DEF QueueSyncTask, QueuedTask
<1>4. /\ off \in QueuedTask /\ Regular(off) /\ off.target = h
  <2>1. off = [running EXCEPT !.deferred = TRUE, !.priority = 100, !.target = h]
    BY DEF Deferred
  <2>2. off \in QueuedTask
    <3>1. 100 \in 0..100 /\ TRUE \in BOOLEAN /\ h \in 0..TopHeight
      BY <1>1
    <3> HIDE DEF h, off
    <3> DEFINE hundred == 100
    <3>2. off = [running EXCEPT !.deferred = TRUE, !.priority = hundred, !.target = h]
      BY <2>1
    <3>3. hundred \in 0..100
      BY <3>1
    <3> HIDE DEF hundred
    <3> QED
      BY <1>1, <3>1, <3>2, <3>3 DEF QueuedTask
  <2>3. /\ off.own = running.own /\ off.id = running.id /\ off.method = running.method
        /\ off.priority = 100 /\ off.target = h
    BY <1>1, <2>1 DEF QueuedTask
  <2> QED
    BY <1>2, <2>2, <2>3 DEF Regular
<1>5. /\ p \in Seq(QueuedTask) /\ Len(p) = n + 1
      /\ Shape(p, TRUE) /\ OwnFirst(p) /\ p[1] = sync
  <2>1. Shape(queue, FALSE)
    BY <1>1 DEF IInv, Shape
  <2> QED
    BY <1>1, <1>3, <2>1, PushOwn, PushProperties, ZenonT(60)
<1>6. n <= MaxWorkQueue
  BY <1>1, <1>2 DEF IInv, LengthBound, Regular
<1>7. \A i \in 1..n : queue[i].deferred => failed \/ wallet >= queue[i].target
  <2>1. \A i \in 1..n : Regular(queue[i])
    BY <1>1 DEF IInv, Shape
  <2>2. ~OwnFirst(queue)
    <3>1. n > 0 => 1 \in 1..n
      BY <1>1
    <3> QED
      BY <2>1, <3>1 DEF OwnFirst, Regular
  <2>3. ~running.own
    BY <1>2 DEF Regular
  <2> QED
    BY <2>2, <2>3 DEF IInv, DeferredSupplied, Supplied
<1>8. \A j \in 1..n + 1 : p[j] = sync \/ \E i \in 1..n : p[j] = queue[i]
  BY <1>1, <1>3, PushElements
<1> HIDE DEF p, sync, off, h
<1>9. /\ Shape(queue', TRUE) /\ OwnFirst(queue') /\ queue'[1] = sync
      /\ Len(queue') \in {n + 1, n + 2}
      /\ \A j \in 1..Len(queue') :
           queue'[j] = sync \/ queue'[j] = off \/ \E i \in 1..n : queue'[j] = queue[i]
  <2>1. CASE queue' = p
    BY <1>5, <1>8, <2>1
  <2>2. CASE queue' = Push(p, off)
    <3>1. Len(queue') = Len(p) + 1
      BY <1>4, <1>5, <2>2, PushProperties
    <3>2. Shape(queue', TRUE) /\ OwnFirst(queue') /\ queue'[1] = sync
      BY <1>4, <1>5, <2>2, PushRegular
    <3>3. \A j \in 1..Len(p) + 1 : queue'[j] = off \/ \E i \in 1..Len(p) : queue'[j] = p[i]
      BY <1>4, <1>5, <2>2, PushElements
    <3>4. \A j \in 1..Len(queue') :
           queue'[j] = sync \/ queue'[j] = off \/ \E i \in 1..n : queue'[j] = queue[i]
      BY <1>5, <1>8, <3>1, <3>3
    <3>5. Len(queue') = n + 2
      <4> HIDE DEF n
      <4> QED
        BY <1>1, <1>5, <3>1
    <3> QED
      BY <3>2, <3>4, <3>5
  <2> QED
    BY <1>1, <2>1, <2>2
<1>10. Shape(queue, running = None)' /\ RunningShape' /\ RunningSupplied'
  <2>1. Shape(queue', TRUE) /\ (running' = None) = TRUE
    BY <1>1, <1>9
  <2> QED
    BY <2>1 DEF Shape, RunningShape, RunningSupplied
<1>11. LengthBound'
  <2> DEFINE k == Len(queue')
  <2>1. k \in {n + 1, n + 2} /\ n \in Nat /\ n <= MaxWorkQueue
    BY <1>1, <1>6, <1>9
  <2> HIDE DEF k, n
  <2>2. k <= MaxWorkQueue + 2
    BY <1>1, <2>1
  <2> QED
    BY <1>1, <1>9, <2>2 DEF LengthBound, k
<1>12. DeferredSupplied'
  <2> SUFFICES ASSUME NEW j \in 1..Len(queue'), queue'[j].deferred
               PROVE  wallet' # None /\ Supplied(queue[j].target)'
    BY DEF DeferredSupplied
  <2>1. \/ queue'[j].target = h
        \/ failed \/ wallet >= queue'[j].target
    BY <1>3, <1>4, <1>7, <1>9
  <2>2. OwnFirst(queue') /\ queue'[1].target = h /\ h >= h
    BY <1>1, <1>3, <1>9
  <2> QED
    BY <1>1, <2>1, <2>2 DEF Supplied
<1> QED
  BY <1>10, <1>11, <1>12 DEF IInv

----------------------------------------------------------------------------
(* Every step                                                              *)

LEMMA ModIsNode == \A i \in Nat : i % Nodes \in Node
BY QueueAssumption DEF Node

\* The reply to a task of a socket keeps the counts natural.
LEMMA ReplyTypes ==
  ASSUME Types, NEW t \in Task, NEW s, SendResponse(t, s)
  PROVE  replies' \in [Task -> Nat]
BY DEF Types, SendResponse

LEMMA FinishTypes ==
  ASSUME Types, running \in QueuedTask, Finish
  PROVE  /\ replies' \in [Task -> Nat] /\ running' = None
         /\ UNCHANGED <<height, news>>
<1>1. running' = None /\ UNCHANGED <<height, news>>
  BY DEF Finish, nodes
<1>2. CASE running.id = None
  <2>1. replies' = replies
    BY <1>2 DEF Finish, answers
  <2> QED
    BY <1>1, <2>1 DEF Types
<1>3. CASE running.id # None
  <2>1. running.id \in Task
    BY <1>3 DEF QueuedTask
  <2>2. SendResponse(running.id, waiting)
    BY <1>3 DEF Finish
  <2> QED
    BY <1>1, <2>1, <2>2, ReplyTypes
<1> QED
  BY <1>2, <1>3

\* A step of bitcoind, of a socket or of a web worker.
LEMMA OutsideKeeps ==
  ASSUME IInv, \/ \E n \in Node : NewBlock(n)
               \/ SyncArrives
               \/ \E t \in Task : Ask(t)
               \/ \E w \in Worker : WebWorkerDies(w)
  PROVE  IInv'
<1>0. Types
  BY DEF IInv
<1>1. ASSUME NEW n \in Node, NewBlock(n)
      PROVE  IInv'
  <2>1. height' \in [Node -> 0..TopHeight]
    <3> DEFINE h == height[n]
    <3>1. h \in 0..TopHeight /\ h < TopHeight /\ TopHeight \in Nat
      BY <1>0, <1>1, QueueAssumption DEF NewBlock, Types
    <3>2. height' = [height EXCEPT ![n] = h + 1]
      BY <1>1 DEF NewBlock
    <3> HIDE DEF h
    <3>3. h + 1 \in 0..TopHeight
      BY <3>1
    <3> QED
      BY <1>0, <3>2, <3>3 DEF Types
  <2>2. news' \in Seq(0..TopHeight)
    <3>1. height'[n] \in 0..TopHeight
      BY <2>1
    <3> QED
      BY <1>0, <1>1, <3>1, AppendProperties DEF NewBlock, Types
  <2>3. UNCHANGED <<queue, running, known, wallet, turn, tried, replies, failed>>
    BY <1>1 DEF NewBlock, work, chain, web
  <2>4. Types'
    BY <1>0, <2>1, <2>2, <2>3 DEF Types
  <2> QED
    BY <2>3, <2>4, StutterKeeps
<1>2. ASSUME SyncArrives
      PROVE  IInv'
  <2>1. /\ Head(news) \in 0..TopHeight /\ news' \in Seq(0..TopHeight)
        /\ UNCHANGED <<height, running, known, wallet, turn, tried, replies, failed>>
    BY <1>0, <1>2, HeadTailProperties DEF SyncArrives, Types, chain, web
  <2>2. CASE UNCHANGED queue
    <3>1. Types'
      BY <1>0, <2>1, <2>2 DEF Types
    <3> QED
      BY <2>1, <2>2, <3>1, StutterKeeps
  <2>3. CASE ~IsFull(queue) /\ queue' = Push(queue, ServiceSync(Head(news)))
    <3> DEFINE task == ServiceSync(Head(news))
    <3>1. task \in QueuedTask /\ Regular(task) /\ ~task.deferred
      BY <2>1, AskedTasks
    <3> HIDE DEF task
    <3>2. queue' = Push(queue, task)
      BY <2>3 DEF task
    <3>3. Types'
      BY <1>0, <2>1, <3>1, <3>2, PushProperties DEF Types
    <3> QED
      BY <2>1, <2>3, <3>1, <3>2, <3>3, PushKeeps
  <2> QED
    BY <1>2, <2>2, <2>3 DEF SyncArrives
<1>3. ASSUME NEW t \in Task, Ask(t)
      PROVE  IInv'
  <2>1. UNCHANGED <<height, news, running, known, wallet, turn, tried, failed>>
    BY <1>3 DEF Ask, nodes, chain
  <2>2. CASE SendResponse(t, Append(waiting, t)) /\ UNCHANGED queue
    <3>1. replies' \in [Task -> Nat]
      BY <1>0, <2>2, ReplyTypes
    <3>2. Types'
      BY <1>0, <2>1, <2>2, <3>1 DEF Types
    <3> QED
      BY <2>1, <2>2, <3>2, StutterKeeps
  <2>3. CASE ~IsFull(queue) /\ queue' = Push(queue, WebTask(t)) /\ UNCHANGED replies
    <3> DEFINE task == WebTask(t)
    <3>1. task \in QueuedTask /\ Regular(task) /\ ~task.deferred
      BY AskedTasks
    <3> HIDE DEF task
    <3>2. queue' = Push(queue, task)
      BY <2>3 DEF task
    <3>3. Types'
      BY <1>0, <2>1, <2>3, <3>1, <3>2, PushProperties DEF Types
    <3> QED
      BY <2>1, <2>3, <3>1, <3>2, <3>3, PushKeeps
  <2> QED
    BY <1>3, <2>2, <2>3 DEF Ask
<1>4. ASSUME NEW w \in Worker, WebWorkerDies(w)
      PROVE  IInv'
  <2>1. UNCHANGED <<height, news, queue, running, known, wallet, turn, tried, replies, failed>>
    BY <1>4 DEF WebWorkerDies, nodes, work, chain, answers
  <2>2. Types'
    BY <1>0, <2>1 DEF Types
  <2> QED
    BY <2>1, <2>2, StutterKeeps
<1> QED
  BY <1>1, <1>2, <1>3, <1>4

\* A step of the queue's worker.
LEMMA RunKeeps ==
  ASSUME IInv, Run
  PROVE  IInv'
<1>0. Types /\ TopHeight \in Nat /\ Nodes \in Nat \ {0}
  BY QueueAssumption DEF IInv
<1>1. CASE Take
  <2>1. queue \in Seq(QueuedTask) /\ queue # <<>>
    BY <1>0, <1>1 DEF Take, Types
  <2>2. Head(queue) \in QueuedTask /\ queue' \in Seq(QueuedTask)
    BY <1>1, <2>1, HeadTailProperties DEF Take
  <2>3. known' \in 0..TopHeight
    BY <1>0, <1>1, <2>2 DEF Take, Types, QueuedTask
  <2>4. 0 \in Node
    BY <1>0 DEF Node
  <2>5. Types'
    BY <1>0, <1>1, <2>2, <2>3, <2>4 DEF Take, Types, nodes, web
  <2> QED
    BY <1>1, <2>5, TakeKeeps
<1>2. ASSUME running # None
      PROVE  running \in QueuedTask
  BY <1>0, <1>2 DEF Types
<1>3. ASSUME running # None, ~running.own \/ ~Behind, Finish,
             UNCHANGED <<queue, known>>, failed' = failed, turn' \in Node, tried' \in Node,
             wallet' = wallet \/ (wallet = None /\ wallet' = known)
      PROVE  IInv'
  <2>1. running' = None /\ replies' \in [Task -> Nat] /\ UNCHANGED <<height, news>>
    BY <1>0, <1>2, <1>3, FinishTypes
  <2>2. Types'
    BY <1>0, <1>3, <2>1 DEF Types
  <2>3. running.own => wallet = None \/ wallet >= known
    <3> SUFFICES ASSUME running.own, wallet # None
                 PROVE  wallet >= known
      OBVIOUS
    <3>1. wallet \in 0..TopHeight /\ known \in 0..TopHeight /\ ~(wallet < known)
      BY <1>0, <1>3 DEF Types, Behind
    <3> QED
      BY <1>0, <3>1
  <2> QED
    BY <1>3, <2>1, <2>2, <2>3, EndKeeps
<1>4. ASSUME Runs({"unknown", "badParams", "save", "create", "put", "post"})
      PROVE  running # None /\ ~running.own
  BY <1>4 DEF Runs, IInv, RunningShape, Regular, OwnSync
<1>5. turn \in Node /\ tried \in Node /\ NextClient \in Node /\ (turn + 2) % Nodes \in Node
  <2>1. turn \in Node /\ tried \in Node
    BY <1>0 DEF Types
  <2>2. turn \in Nat
    BY <1>0, <2>1 DEF Node
  <2>3. turn + 1 \in Nat /\ turn + 2 \in Nat
    BY <2>2
  <2> QED
    BY <2>1, <2>3, ModIsNode DEF NextClient
<1>6. CASE Reject \/ SaveTransaction
  <2>1. running # None /\ ~running.own
    BY <1>4, <1>6 DEF Reject, SaveTransaction, Runs
  <2>2. Finish /\ UNCHANGED <<queue, known, wallet, turn, tried, failed>>
    BY <1>6 DEF Reject, SaveTransaction, chain
  <2> QED
    BY <1>3, <1>5, <2>1, <2>2
<1>7. CASE CreateWallet
  <2>1. running # None /\ ~running.own
    BY <1>4, <1>7 DEF CreateWallet, Runs
  <2>2. /\ Finish /\ UNCHANGED <<queue, known, turn, tried, failed>>
        /\ wallet' = wallet \/ (wallet = None /\ wallet' = known)
    BY <1>7 DEF CreateWallet
  <2> QED
    BY <1>3, <1>5, <2>1, <2>2
<1>8. CASE SyncEnds
  <2>1. running # None /\ ~Behind
    BY <1>8 DEF SyncEnds, Runs
  <2>2. Finish /\ UNCHANGED <<queue, known, wallet, turn, tried, failed>>
    BY <1>8 DEF SyncEnds, chain
  <2> QED
    BY <1>3, <1>5, <2>1, <2>2
<1>9. CASE ImportWithout \/ ImportHere
  <2>1. running # None /\ ~running.own
    BY <1>4, <1>9 DEF ImportWithout, ImportHere, Runs
  <2>2. /\ Finish /\ UNCHANGED <<queue, known, wallet, tried, failed>>
        /\ turn' \in Node
    BY <1>5, <1>9 DEF ImportWithout, ImportHere
  <2> QED
    BY <1>3, <1>5, <2>1, <2>2
<1>10. CASE TryClient
  <2>1. /\ running # None /\ wallet \in 0..TopHeight /\ wallet # None
        /\ UNCHANGED <<height, news, queue, known, turn, replies>>
    BY <1>0, <1>10 DEF TryClient, Runs, Behind, Types, nodes, web
  <2>2. 0 \in Node /\ tried \in Nat
    BY <1>0 DEF Types, Node
  <2>3. CASE height[Asking] > wallet /\ wallet' = wallet + 1 /\ tried' = 0
                /\ UNCHANGED <<running, failed>>
    <3>1. Asking \in Node
      <4>1. turn \in Nat /\ turn + tried \in Nat
        BY <1>0, <2>2 DEF Types, Node
      <4> QED
        BY <4>1, ModIsNode DEF Asking
    <3>2. height[Asking] \in 0..TopHeight
      BY <1>0, <3>1 DEF Types
    <3>3. wallet' \in 0..TopHeight
      <4> DEFINE h == height[Asking]
      <4>1. h \in 0..TopHeight /\ h > wallet
        BY <2>3, <3>2
      <4> HIDE DEF h
      <4> QED
        BY <1>0, <2>1, <2>3, <4>1
    <3>4. Types'
      BY <1>0, <2>1, <2>2, <2>3, <3>3 DEF Types
    <3> QED
      BY <2>1, <2>3, <3>4, TryKeeps
  <2>4. CASE ~LastTry /\ tried' = tried + 1 /\ UNCHANGED <<running, wallet, failed>>
    <3>1. tried' \in Node
      BY <1>0, <2>4 DEF LastTry, Types, Node
    <3>2. Types'
      BY <1>0, <2>1, <2>4, <3>1 DEF Types
    <3> QED
      BY <2>1, <2>4, <3>2, TryKeeps
  <2>5. CASE running' = None /\ tried' = 0 /\ failed' = TRUE /\ UNCHANGED wallet
    <3>1. Types'
      BY <1>0, <2>1, <2>2, <2>5 DEF Types
    <3> QED
      BY <2>1, <2>5, <3>1, EndKeeps
  <2> QED
    BY <1>10, <2>3, <2>4, <2>5 DEF TryClient
<1>11. CASE ImportAhead
  <2>1. /\ running # None /\ height[turn] \in 0..TopHeight
        /\ turn' \in Node /\ UNCHANGED <<known, wallet, tried, failed>>
    BY <1>0, <1>5, <1>11 DEF ImportAhead, Runs, Types
  <2>2. /\ running' = None /\ replies' \in [Task -> Nat] /\ UNCHANGED <<height, news>>
    <3>1. CASE running' = None /\ UNCHANGED <<nodes, web, refused>>
      BY <1>0, <3>1 DEF Types, nodes, web
    <3>2. CASE Finish
      BY <1>0, <1>2, <2>1, <3>2, FinishTypes
    <3> QED
      BY <1>11, <3>1, <3>2 DEF ImportAhead
  <2>3. queue' \in Seq(QueuedTask)
    <3> DEFINE h == height[turn]
               sync == QueueSyncTask(h)
               p == Push(queue, sync)
               off == Deferred(running, h)
    <3>1. h \in 0..TopHeight /\ queue \in Seq(QueuedTask) /\ running \in QueuedTask
      BY <1>0, <1>2, <2>1 DEF Types
    <3>2. queue' = Push(p, off) \/ queue' = p
      BY <1>11 DEF ImportAhead
    <3> HIDE DEF h
    <3>3. sync \in QueuedTask
      BY <3>1 DEF QueueSyncTask, QueuedTask
    <3>4. off \in QueuedTask
      <4> DEFINE hundred == 100
      <4>1. off = [running EXCEPT !.deferred = TRUE, !.priority = hundred, !.target = h]
        BY DEF Deferred
      <4>2. hundred \in 0..100
        OBVIOUS
      <4> HIDE DEF hundred, off
      <4> QED
        BY <3>1, <4>1, <4>2 DEF QueuedTask
    <3> HIDE DEF sync, off
    <3>5. p \in Seq(QueuedTask)
      BY <3>1, <3>3, PushProperties
    <3> HIDE DEF p
    <3>6. Push(p, off) \in Seq(QueuedTask)
      BY <3>4, <3>5, PushProperties
    <3> QED
      BY <3>2, <3>5, <3>6
  <2>4. Types'
    BY <1>0, <2>1, <2>2, <2>3 DEF Types
  <2> QED
    BY <1>11, <2>4, AheadKeeps
<1> QED
  BY <1>1, <1>6, <1>7, <1>8, <1>9, <1>10, <1>11 DEF Run

LEMMA NextIInv == IInv /\ [Next]_vars => IInv'
<1> SUFFICES ASSUME IInv, [Next]_vars PROVE IInv'
  OBVIOUS
<1>1. CASE Step
  BY <1>1, OutsideKeeps, RunKeeps DEF Step
<1>2. CASE UNCHANGED vars
  <2>1. UNCHANGED <<height, news, queue, running, known, wallet, turn, tried, replies, failed>>
    BY <1>2 DEF vars, nodes, work, chain, web
  <2>2. Types'
    BY <2>1 DEF IInv, Types
  <2> QED
    BY <2>1, <2>2, StutterKeeps
<1> QED
  BY <1>1, <1>2 DEF Next

THEOREM Invariance == Spec => []IInv
BY InitIInv, NextIInv, PTL DEF Spec

\* The queue never grows past its limit and the two tasks of one deferral,
\* whatever the limit is and however many imports wait (_startListener,
\* _queueSyncTask, _queueWorkerIterator).
THEOREM QueueIsBounded == Spec => []QueueBound
<1>1. IInv => QueueBound
  <2> SUFFICES ASSUME IInv PROVE QueueBound
    OBVIOUS
  <2> DEFINE n == Len(queue)
  <2>1. n \in Nat /\ MaxWorkQueue \in Nat
    BY LenProperties, QueueAssumption DEF IInv, Types
  <2>2. n <= MaxWorkQueue \/ n <= MaxWorkQueue + 1 \/ n <= MaxWorkQueue + 2
    BY DEF IInv, LengthBound, RunningShape, Regular, OwnSync
  <2> HIDE DEF n
  <2>3. n <= MaxWorkQueue + 2
    BY <2>1, <2>2
  <2> QED
    BY <2>3 DEF QueueBound, n
<1> QED
  BY <1>1, Invariance, PTL

\* A deferred import runs again with the wallet at the height it was put off for,
\* or after a sync that failed (_addUTXOSToWallet, _queueWorkerIterator).
THEOREM RetryIsSupplied == Spec => []RetryFindsItsSync
<1>1. IInv => RetryFindsItsSync
  BY DEF IInv, RunningSupplied, RetryFindsItsSync
<1> QED
  BY <1>1, Invariance, PTL

\* A deferred task that leaves the queue's worker is answered: nothing puts it off
\* a second time (_addUTXOSToWallet, _queueWorkerIterator).
THEOREM DeferralIsOnce == Spec => DeferredOnce
<1>1. ASSUME IInv, Step, running # None, running.deferred, running' # running
      PROVE  ended' \/ replies'[running.id] = replies[running.id] + 1
  <2>1. /\ running \in QueuedTask /\ running.id \in Task
        /\ running.method # "sync"
    <3>1. running \in QueuedTask
      BY <1>1 DEF IInv, Types
    <3>2. Regular(running)
      BY <1>1 DEF IInv, RunningShape, OwnSync
    <3> QED
      BY <1>1, <3>1, <3>2 DEF Regular, QueuedTask
  <2>2. ASSUME Finish
        PROVE  ended' \/ replies'[running.id] = replies[running.id] + 1
    <3>1. SendResponse(running.id, waiting)
      BY <2>1, <2>2, QueueAssumption DEF Finish
    <3>2. replies \in [Task -> Nat]
      BY <1>1 DEF IInv, Types
    <3> QED
      BY <2>1, <3>1, <3>2 DEF SendResponse
  <2>3. Run
    BY <1>1 DEF Step, NewBlock, SyncArrives, Ask, WebWorkerDies, work
  <2>4. ~Take /\ ~SyncEnds /\ ~TryClient
    BY <1>1, <2>1 DEF Take, SyncEnds, TryClient, Runs
  <2>5. Finish
    BY <1>1, <2>3, <2>4 DEF Run, Reject, SaveTransaction, CreateWallet, ImportWithout,
                            ImportHere, ImportAhead, NotYetDeferred
  <2> QED
    BY <2>2, <2>5
<1>2. IInv /\ [Next]_vars =>
        [running # None /\ running.deferred /\ running' # running =>
           ended' \/ replies'[running.id] = replies[running.id] + 1]_vars
  BY <1>1 DEF Next
<1> QED
  BY <1>2, Invariance, PTL DEF Spec, DeferredOnce

----------------------------------------------------------------------------
(* The tasks, for every number of tasks, web workers and bitcoinds: each   *)
(* gets at most one reply, those of one priority are served in the order   *)
(* in which they were asked, and a sync gives up only after each bitcoind  *)
(* was asked for the block it wants.                                       *)

\* Task a was asked before task b.
Before(a, b, w) == \E k, l \in 1..Len(w) : k < l /\ w[k] = a /\ w[l] = b

\* Of two tasks a and b, a is to be served first.
InOrder(a, b, w) ==
  a.id # None /\ b.id # None /\ a.priority = b.priority /\ ~a.deferred /\ ~b.deferred =>
    Before(a.id, b.id, w)

\* The tasks of q are those without a reply, each once, the urgent ones first, and
\* those of one priority in the order of w.  Only a deferred task has priority 100.
Queued(q, w) ==
  /\ \A i, j \in 1..Len(q) :
       /\ i < j => q[i].priority <= q[j].priority /\ InOrder(q[i], q[j], w)
       /\ q[i].id # None /\ q[i].id = q[j].id => i = j
  /\ \A i \in 1..Len(q) :
       /\ q[i].id # None => Contains(w, q[i].id)
       /\ q[i].deferred <=> q[i].priority = 100

\* So with the task that runs.
Served(task, q, w) ==
  /\ task.id # None => Contains(w, task.id)
  /\ task.deferred <=> task.priority = 100
  /\ \A i \in 1..Len(q) :
       /\ InOrder(task, q[i], w)
       /\ task.id # None => q[i].id # task.id

\* A task waits once, and while it waits it has no reply.
Waiting(w, r) ==
  /\ w \in Seq(Task)
  /\ \A i, j \in 1..Len(w) : w[i] = w[j] => i = j
  /\ r \in [Task -> {0, 1}]
  /\ \A i \in 1..Len(w) : r[w[i]] = 0

TaskInv ==
  /\ Waiting(waiting, replies)
  /\ Queued(queue, waiting)
  /\ running # None => Served(running, queue, waiting)

\* A height that some bitcoind has, and a queue whose syncs were sent for one.
Reached(h, hs) == \E n \in Node : hs[n] >= h
QueueReached(q, hs) ==
  \A i \in 1..Len(q) : q[i].method = "sync" => Reached(q[i].target, hs)

\* A client among those the sync has not tried yet has the tip it was sent for.
ClientLeft == \E k \in tried..Nodes - 1 : height[(turn + k) % Nodes] >= known

\* The clients asked for the next block so far, each once, from the one whose turn it was.
ClientsAsked == {(turn + k) % Nodes : k \in 0..tried - 1}

\* A sync that runs knows who did not give the block, and has a client left that
\* does, if no request fails.
SyncGoesOn ==
  running # None /\ running.method = "sync" =>
    /\ missed = ClientsAsked
    /\ ~flaky => ClientLeft

SyncInv ==
  /\ Reached(known, height)
  /\ \A i \in 1..Len(news) : Reached(news[i], height)
  /\ QueueReached(queue, height)
  /\ SyncGoesOn

----------------------------------------------------------------------------
(* Sequences                                                               *)

\* What is left of a sequence when an element is removed.
LEMMA RemoveProperties ==
  ASSUME NEW S, NEW s \in Seq(S), NEW k \in 1..Len(s)
  PROVE  /\ RemoveAt(s, k) \in Seq(S) /\ Len(RemoveAt(s, k)) = Len(s) - 1
         /\ \A i \in 1..Len(s) - 1 :
              RemoveAt(s, k)[i] = IF i < k THEN s[i] ELSE s[i + 1]
<1> DEFINE n == Len(s)
           front == SubSeq(s, 1, k - 1)
           back == SubSeq(s, k + 1, n)
<1>1. n \in Nat /\ k \in 1..n
  BY LenProperties
<1>2. \A i \in 1..n : s[i] \in S
  BY ElementOfSeq
<1>3. RemoveAt(s, k) = front \o back
  BY DEF RemoveAt
<1> HIDE DEF n
<1>4. /\ front \in Seq(S) /\ Len(front) = k - 1
      /\ \A i \in 1..k - 1 : front[i] = s[i]
  <2>1. 1 \in Int /\ k - 1 \in Int /\ \A i \in 1..k - 1 : s[i] \in S
    BY <1>1, <1>2
  <2>2. /\ front \in Seq(S)
        /\ Len(front) = IF 1 <= k - 1 THEN k - 1 - 1 + 1 ELSE 0
        /\ \A i \in 1..k - 1 - 1 + 1 : front[i] = s[1 + i - 1]
    BY ONLY <2>1, SubSeqProperties
  <2> QED
    BY <1>1, <2>2
<1>5. /\ back \in Seq(S) /\ Len(back) = n - k
      /\ \A i \in 1..n - k : back[i] = s[k + i]
  <2>1. k + 1 \in Int /\ n \in Int /\ \A i \in k + 1..n : s[i] \in S
    BY <1>1, <1>2
  <2>2. /\ back \in Seq(S)
        /\ Len(back) = IF k + 1 <= n THEN n - (k + 1) + 1 ELSE 0
        /\ \A i \in 1..n - (k + 1) + 1 : back[i] = s[k + 1 + i - 1]
    BY ONLY <2>1, SubSeqProperties
  <2> QED
    BY <1>1, <2>2
<1> HIDE DEF front, back
<1>6. /\ front \o back \in Seq(S) /\ Len(front \o back) = Len(front) + Len(back)
      /\ \A i \in 1..Len(front) + Len(back) :
           (front \o back)[i] = IF i <= Len(front) THEN front[i] ELSE back[i - Len(front)]
  BY <1>4, <1>5, ConcatProperties
<1>7. RemoveAt(s, k) \in Seq(S) /\ Len(RemoveAt(s, k)) = n - 1
  BY <1>1, <1>3, <1>4, <1>5, <1>6
<1>8. ASSUME NEW i \in 1..n - 1
      PROVE  RemoveAt(s, k)[i] = IF i < k THEN s[i] ELSE s[i + 1]
  <2>1. i \in 1..Len(front) + Len(back)
    BY <1>1, <1>4, <1>5
  <2>2. RemoveAt(s, k)[i] = IF i <= Len(front) THEN front[i] ELSE back[i - Len(front)]
    BY <1>3, <1>6, <2>1
  <2>3. CASE i < k
    <3>1. i <= Len(front) /\ i \in 1..k - 1
      BY <1>1, <1>4, <2>3
    <3> QED
      BY <1>4, <2>2, <2>3, <3>1
  <2>4. CASE ~(i < k)
    <3>1. ~(i <= Len(front)) /\ i - Len(front) \in 1..n - k /\ k + (i - Len(front)) = i + 1
      BY <1>1, <1>4, <2>4
    <3>2. back[i - Len(front)] = s[i + 1]
      BY <1>5, <3>1
    <3> QED
      BY <2>2, <2>4, <3>1, <3>2
  <2> QED
    BY <2>3, <2>4
<1> QED
  BY <1>7, <1>8 DEF n

\* The place found for a task that waits.
LEMMA AskedAtProperties ==
  ASSUME NEW s \in Seq(Task), NEW t, Contains(s, t)
  PROVE  AskedAt(t, s) \in 1..Len(s) /\ s[AskedAt(t, s)] = t
<1>1. DOMAIN s = 1..Len(s)
  BY LenProperties
<1>2. \E i \in DOMAIN s : s[i] = t
  BY <1>1 DEF Contains
<1> QED
  BY <1>1, <1>2 DEF AskedAt

\* Where all of w waits once, the answered task is gone and the others keep
\* their order.
LEMMA AnsweredLeaves ==
  ASSUME NEW w \in Seq(Task), NEW t, Contains(w, t),
         \A i, j \in 1..Len(w) : w[i] = w[j] => i = j
  PROVE  LET v == RemoveAt(w, AskedAt(t, w))
         IN /\ v \in Seq(Task) /\ ~Contains(v, t)
            /\ \A i, j \in 1..Len(v) : v[i] = v[j] => i = j
            /\ \A a : a # t /\ Contains(w, a) <=> Contains(v, a)
            /\ \A a, b : a # t /\ b # t /\ Before(a, b, w) => Before(a, b, v)
<1> DEFINE k == AskedAt(t, w)
           n == Len(w)
           v == RemoveAt(w, k)
<1>1. k \in 1..n /\ w[k] = t /\ n \in Nat
  BY AskedAtProperties, LenProperties
<1>2. \A i, j \in 1..n : w[i] = w[j] => i = j
  OBVIOUS
<1> HIDE DEF k
<1>3. /\ v \in Seq(Task) /\ Len(v) = n - 1
      /\ \A i \in 1..n - 1 : v[i] = IF i < k THEN w[i] ELSE w[i + 1]
  BY <1>1, RemoveProperties
<1> HIDE DEF v, n
<1> DEFINE From(i) == IF i < k THEN i ELSE i + 1
           To(i) == IF i < k THEN i ELSE i - 1
<1>4. \A i \in 1..n - 1 : From(i) \in 1..n /\ From(i) # k /\ v[i] = w[From(i)]
  BY <1>1, <1>3
<1>5. \A i \in 1..n : i # k => To(i) \in 1..n - 1 /\ v[To(i)] = w[i]
  BY <1>1, <1>3
<1>6. \A i, j \in 1..n - 1 : From(i) = From(j) => i = j
  BY <1>1
<1>7. \A i, j \in 1..n : i # k /\ j # k /\ i < j => To(i) < To(j)
  BY <1>1
<1> HIDE DEF From, To
<1>8. ~Contains(v, t)
  <2>1. ASSUME NEW i \in 1..n - 1
        PROVE  v[i] # t
    BY <1>1, <1>2, <1>4
  <2> QED
    BY <1>3, <2>1 DEF Contains
<1>9. \A i, j \in 1..n - 1 : v[i] = v[j] => i = j
  BY <1>2, <1>4, <1>6
<1>10. ASSUME NEW a
       PROVE  a # t /\ Contains(w, a) <=> Contains(v, a)
  <2>1. Contains(v, a) => a # t /\ Contains(w, a)
    BY <1>3, <1>4, <1>8 DEF Contains, n
  <2>2. ASSUME a # t, Contains(w, a)
        PROVE  Contains(v, a)
    BY <1>1, <1>3, <1>5, <2>2 DEF Contains, n
  <2> QED
    BY <2>1, <2>2
<1>11. ASSUME NEW a, NEW b, a # t, b # t, Before(a, b, w)
       PROVE  Before(a, b, v)
  <2>1. PICK i, j \in 1..n : i < j /\ w[i] = a /\ w[j] = b
    BY <1>11 DEF Before, n
  <2>2. To(i) \in 1..n - 1 /\ To(j) \in 1..n - 1 /\ To(i) < To(j) /\ v[To(i)] = a /\ v[To(j)] = b
    BY <1>1, <1>5, <1>7, <1>11, <2>1
  <2> QED
    BY <1>3, <2>2 DEF Before
<1> QED
  BY <1>3, <1>8, <1>9, <1>10, <1>11 DEF v, k

\* A task that is asked waits behind the others.
LEMMA AskedIsLast ==
  ASSUME NEW w \in Seq(Task), NEW t \in Task, ~Contains(w, t),
         \A i, j \in 1..Len(w) : w[i] = w[j] => i = j
  PROVE  LET v == Append(w, t)
         IN /\ v \in Seq(Task)
            /\ \A i, j \in 1..Len(v) : v[i] = v[j] => i = j
            /\ \A a : Contains(v, a) <=> a = t \/ Contains(w, a)
            /\ \A a, b : Before(a, b, w) => Before(a, b, v)
            /\ \A a : Contains(w, a) => Before(a, t, v)
<1> DEFINE n == Len(w)
           v == Append(w, t)
<1>1. /\ n \in Nat /\ v \in Seq(Task) /\ Len(v) = n + 1
      /\ \A i \in 1..n : v[i] = w[i] 
      /\ v[n + 1] = t
  BY AppendProperties, LenProperties
<1>2. \A i, j \in 1..n : w[i] = w[j] => i = j
  OBVIOUS
<1>3. \A i \in 1..n : w[i] # t
  BY DEF Contains
<1>4. \A a : Contains(w, a) <=> \E i \in 1..n : w[i] = a
  BY DEF Contains
<1>5. \A a, b : Before(a, b, w) => \E i, j \in 1..n : i < j /\ w[i] = a /\ w[j] = b
  BY DEF Before
<1> HIDE DEF n, v
<1>6. \A i, j \in 1..n + 1 : v[i] = v[j] => i = j
  <2>1. \A i \in 1..n + 1 : i \in 1..n \/ i = n + 1
    BY <1>1
  <2> QED
    BY <1>1, <1>2, <1>3, <2>1
<1>7. \A i \in 1..n : i \in 1..n + 1 /\ i < n + 1
  BY <1>1
<1>8. n + 1 \in 1..n + 1 /\ \A i \in 1..n + 1 : i \in 1..n \/ i = n + 1
  BY <1>1
<1>9. \A a : Contains(v, a) <=> a = t \/ Contains(w, a)
  BY <1>1, <1>4, <1>7, <1>8, ZenonT(60) DEF Contains
<1>10. ASSUME NEW a, NEW b, Before(a, b, w)
       PROVE  Before(a, b, v)
  <2>1. PICK i, j \in 1..n : i < j /\ w[i] = a /\ w[j] = b
    BY <1>5, <1>10
  <2>2. i \in 1..n + 1 /\ j \in 1..n + 1 /\ v[i] = a /\ v[j] = b
    BY <1>1, <1>7, <2>1
  <2> QED
    BY <1>1, <2>1, <2>2 DEF Before
<1>11. \A a : Contains(w, a) => Before(a, t, v)
  BY <1>1, <1>4, <1>7, <1>8 DEF Before
<1> QED
  BY <1>1, <1>6, <1>9, <1>10, <1>11 DEF v

----------------------------------------------------------------------------
(* The queue                                                               *)

\* In a sorted queue a task is placed behind exactly those that are as urgent.
LEMMA PlaceInSorted ==
  ASSUME NEW q \in Seq(QueuedTask), NEW task \in QueuedTask,
         \A i, j \in 1..Len(q) : i < j => q[i].priority <= q[j].priority
  PROVE  \A j \in 1..Len(q) : j < Place(q, task) <=> q[j].priority <= task.priority
<1> DEFINE before == {i \in DOMAIN q : q[i].priority <= task.priority}
           n == Len(q)
           top == task.priority
           Of == [i \in 1..n |-> q[i].priority]
<1>1. n \in Nat /\ DOMAIN q = 1..n
  BY LenProperties
<1>2. top \in Int /\ Of \in [1..n -> Int]
  <2>1. \A i \in 1..n : q[i] \in QueuedTask
    BY ElementOfSeq
  <2>2. \A i \in 1..n : q[i].priority \in 0..100
    BY <2>1 DEF QueuedTask
  <2>3. task.priority \in 0..100
    BY DEF QueuedTask
  <2>4. 0..100 \in SUBSET Int
    OBVIOUS
  <2> HIDE DEF n
  <2> QED
    BY <2>2, <2>3, <2>4
<1>3. \A i, j \in 1..n : i < j => Of[i] <= Of[j]
  OBVIOUS
<1>4. before = {i \in 1..n : Of[i] <= top}
  BY <1>1
<1>5. Place(q, task) = Cardinality(before) + 1
  BY DEF Place
<1> HIDE DEF before, n, top, Of
<1>6. /\ IsFiniteSet(before) /\ Cardinality(before) \in Nat
  <2>1. IsFiniteSet(1..n) /\ before \in SUBSET (1..n)
    BY <1>1, <1>4, FS_Interval
  <2> QED
    BY <2>1, FS_Subset, FS_CardinalityType
<1>7. ASSUME NEW j \in 1..n, Of[j] <= top
      PROVE  j < Cardinality(before) + 1
  <2>1. 1..j \in SUBSET before
    <3>1. ASSUME NEW i \in 1..j
          PROVE  i \in 1..n /\ (i = j \/ i < j)
      BY <1>1
    <3>2. ASSUME NEW i \in 1..j
          PROVE  Of[i] <= top
      <4>1. Of[i] \in Int /\ Of[j] \in Int
        BY <1>2, <1>7, <3>1
      <4>2. i = j \/ Of[i] <= Of[j]
        BY <1>3, <1>7, <3>1
      <4> QED
        BY <1>2, <1>7, <4>1, <4>2
    <3> QED
      BY <1>4, <3>1, <3>2
  <2>2. Cardinality(1..j) = j
    BY <1>1, FS_Interval
  <2>3. Cardinality(1..j) <= Cardinality(before)
    BY <1>6, <2>1, FS_Subset
  <2> QED
    BY <1>1, <1>6, <2>2, <2>3
<1>8. ASSUME NEW j \in 1..n, ~(Of[j] <= top)
      PROVE  ~(j < Cardinality(before) + 1)
  <2>1. before \in SUBSET (1..j - 1)
    <3>1. ASSUME NEW i \in 1..n, Of[i] <= top
          PROVE  i < j
      <4>1. CASE i = j
        BY <1>8, <3>1, <4>1
      <4>2. CASE j < i
        <5>1. Of[j] <= Of[i] /\ Of[j] \in Int /\ Of[i] \in Int
          BY <1>2, <1>3, <1>8, <3>1, <4>2
        <5> QED
          BY <1>2, <1>8, <3>1, <5>1
      <4> QED
        BY <1>1, <4>1, <4>2
    <3>2. ASSUME NEW i \in before
          PROVE  i \in 1..j - 1
      <4>1. i \in 1..n /\ Of[i] <= top
        BY <1>4
      <4>2. i < j
        BY <3>1, <4>1
      <4> QED
        BY <1>1, <4>1, <4>2
    <3> QED
      BY <3>2
  <2>2. IsFiniteSet(1..j - 1) /\ Cardinality(1..j - 1) = j - 1
    <3>1. 1 \in Int /\ j - 1 \in Int
      BY <1>1
    <3>2. Cardinality(1..j - 1) = IF 1 > j - 1 THEN 0 ELSE j - 1 - 1 + 1
      BY <3>1, FS_Interval
    <3> QED
      BY <1>1, <3>1, <3>2, FS_Interval
  <2>3. Cardinality(before) <= j - 1
    BY <2>1, <2>2, FS_Subset
  <2> QED
    BY <1>1, <1>6, <2>3
<1> QED
  BY <1>5, <1>7, <1>8 DEF n, top, Of

\* The task may be pushed behind those of q.
Fits(task, q, w) ==
  /\ task.id # None => Contains(w, task.id)
  /\ task.deferred <=> task.priority = 100
  /\ \A i \in 1..Len(q) :
       /\ InOrder(q[i], task, w)
       /\ task.id # None => q[i].id # task.id

LEMMA PushQueued ==
  ASSUME NEW q \in Seq(QueuedTask), NEW task \in QueuedTask, NEW w \in Seq(Task),
         Queued(q, w), Fits(task, q, w)
  PROVE  Queued(Push(q, task), w)
<1> DEFINE n == Len(q)
           k == Place(q, task)
           p == Push(q, task)
           Old(j) == IF j < k THEN j ELSE j - 1
<1>1. n \in Nat /\ k \in 1..n + 1 /\ Len(p) = n + 1
  BY LenProperties, PlaceInRange, PushProperties
<1>2. \A j \in 1..n + 1 : /\ j < k => p[j] = q[j]
                          /\ j = k => p[j] = task
                          /\ j > k => p[j] = q[j - 1]
  BY PushProperties
<1>3. \A j \in 1..n : j < k <=> q[j].priority <= task.priority
  BY PlaceInSorted DEF Queued
<1>4. /\ \A i, j \in 1..n :
           /\ i < j => q[i].priority <= q[j].priority /\ InOrder(q[i], q[j], w)
           /\ q[i].id # None /\ q[i].id = q[j].id => i = j
      /\ \A i \in 1..n :
           /\ q[i].id # None => Contains(w, q[i].id)
           /\ q[i].deferred <=> q[i].priority = 100
  BY DEF Queued
<1>5. /\ task.id # None => Contains(w, task.id)
      /\ task.deferred <=> task.priority = 100
      /\ \A i \in 1..n : InOrder(q[i], task, w)
  BY DEF Fits
<1>14. \A i \in 1..n : task.id # None => q[i].id # task.id
  BY DEF Fits
<1>15. \A i \in 1..n : InOrder(q[i], task, w)
  BY <1>5
<1>6. task.priority \in 0..100 /\ \A i \in 1..n : q[i].priority \in 0..100
  <2>1. \A i \in 1..n : q[i] \in QueuedTask
    BY ElementOfSeq
  <2> QED
    BY <2>1 DEF QueuedTask
<1> HIDE DEF n, k, p
<1>7. \A j \in 1..n + 1 : j # k => Old(j) \in 1..n /\ p[j] = q[Old(j)]
  BY <1>1, <1>2
<1>8. /\ \A i, j \in 1..n + 1 : i # k /\ j # k /\ i < j => Old(i) < Old(j)
      /\ \A i, j \in 1..n + 1 : i # k /\ j # k /\ Old(i) = Old(j) => i = j
  BY <1>1
<1>9. /\ \A i \in 1..n + 1 : i < k => i \in 1..n /\ p[i] = q[i]
      /\ \A j \in 1..n + 1 : k < j => j - 1 \in 1..n /\ p[j] = q[j - 1] /\ ~(j - 1 < k)
  BY <1>1, <1>2
<1>10. p[k] = task /\ k \in 1..n + 1
  BY <1>1, <1>2
<1> HIDE DEF Old
<1>11. ASSUME NEW i \in 1..n + 1, NEW j \in 1..n + 1, i < j
       PROVE  p[i].priority <= p[j].priority /\ InOrder(p[i], p[j], w)
  <2>1. CASE i # k /\ j # k
    BY <1>4, <1>7, <1>8, <1>11, <2>1
  <2>2. CASE i = k
    <3> DEFINE low == task.priority
               high == q[j - 1].priority
    <3>1. j - 1 \in 1..n /\ p[j] = q[j - 1] /\ ~(high <= low) /\ p[i] = task
      BY <1>3, <1>9, <1>10, <1>11, <2>2
    <3>2. low \in 0..100 /\ high \in 0..100
      BY <1>6, <3>1
    <3> HIDE DEF low, high
    <3>3. low <= high /\ low # high
      BY <3>1, <3>2
    <3> QED
      BY <3>1, <3>3 DEF low, high, InOrder
  <2>3. CASE j = k
    <3>1. i \in 1..n /\ p[i] = q[i] /\ q[i].priority <= task.priority
      BY <1>3, <1>9, <1>11, <2>3
    <3>2. InOrder(q[i], task, w) /\ p[j] = task
      BY <1>10, <1>15, <2>3, <3>1
    <3> QED
      BY <3>1, <3>2
  <2> QED
    BY <2>1, <2>2, <2>3
<1>12. ASSUME NEW i \in 1..n + 1, NEW j \in 1..n + 1, p[i].id # None, p[i].id = p[j].id
       PROVE  i = j
  <2>1. CASE i # k /\ j # k
    <3>1. /\ Old(i) \in 1..n /\ p[i] = q[Old(i)]
          /\ Old(j) \in 1..n /\ p[j] = q[Old(j)]
      BY <1>7, <2>1
    <3>2. Old(i) = Old(j)
      BY <1>4, <1>12, <3>1
    <3> QED
      BY <1>8, <2>1, <3>2
  <2>2. CASE i = k /\ j # k
    <3>1. Old(j) \in 1..n /\ p[j] = q[Old(j)] /\ p[i] = task
      BY <1>7, <1>10, <2>2
    <3> QED
      BY <1>12, <1>14, <3>1
  <2>3. CASE i # k /\ j = k
    <3>1. Old(i) \in 1..n /\ p[i] = q[Old(i)] /\ p[j] = task
      BY <1>7, <1>10, <2>3
    <3> QED
      BY <1>12, <1>14, <3>1
  <2> QED
    BY <2>1, <2>2, <2>3
<1>13. ASSUME NEW i \in 1..n + 1
       PROVE  /\ p[i].id # None => Contains(w, p[i].id)
              /\ p[i].deferred <=> p[i].priority = 100
  <2>1. CASE i = k
    BY <1>5, <1>10, <2>1
  <2>2. CASE i # k
    BY <1>4, <1>7, <2>2
  <2> QED
    BY <2>1, <2>2
<1> QED
  BY <1>1, <1>11, <1>12, <1>13 DEF Queued, p

\* The task that runs is ahead of a task that is pushed, too.
LEMMA PushServed ==
  ASSUME NEW q \in Seq(QueuedTask), NEW task \in QueuedTask, NEW w \in Seq(Task),
         NEW served, Served(served, q, w), InOrder(served, task, w),
         served.id # None => task.id # served.id
  PROVE  Served(served, Push(q, task), w)
<1> DEFINE p == Push(q, task)
<1>1. Len(p) = Len(q) + 1
  BY PushProperties
<1>2. \A j \in 1..Len(q) + 1 : p[j] = task \/ \E i \in 1..Len(q) : p[j] = q[i]
  BY PushElements
<1> HIDE DEF p
<1>3. ASSUME NEW j \in 1..Len(p)
      PROVE  InOrder(served, p[j], w) /\ (served.id # None => p[j].id # served.id)
  BY <1>1, <1>2 DEF Served
<1> QED
  BY <1>3 DEF Served, p

\* The first task is the first to be served.
LEMMA TakeQueued ==
  ASSUME NEW q \in Seq(QueuedTask), q # <<>>, NEW w \in Seq(Task), Queued(q, w)
  PROVE  Queued(Tail(q), w) /\ Served(Head(q), Tail(q), w)
<1> DEFINE n == Len(q)
           r == Tail(q)
<1>1. n \in Nat \ {0} /\ Head(q) = q[1] /\ Len(r) = n - 1 /\ \A i \in 1..n - 1 : r[i] = q[i + 1]
  BY LenProperties, EmptySeq, HeadTailProperties
<1>2. /\ \A i, j \in 1..n :
           /\ i < j => q[i].priority <= q[j].priority /\ InOrder(q[i], q[j], w)
           /\ q[i].id # None /\ q[i].id = q[j].id => i = j
      /\ \A i \in 1..n :
           /\ q[i].id # None => Contains(w, q[i].id)
           /\ q[i].deferred <=> q[i].priority = 100
  BY DEF Queued
<1> HIDE DEF n, r
<1>3. 1 \in 1..n /\ \A i \in 1..n - 1 : i + 1 \in 1..n /\ 1 < i + 1
  BY <1>1
<1>4. \A i, j \in 1..n - 1 : (i < j => i + 1 < j + 1) /\ (i + 1 = j + 1 => i = j)
  BY <1>1
<1>5. Queued(r, w)
  <2>1. ASSUME NEW i \in 1..n - 1, NEW j \in 1..n - 1
        PROVE  /\ i < j => r[i].priority <= r[j].priority /\ InOrder(r[i], r[j], w)
               /\ r[i].id # None /\ r[i].id = r[j].id => i = j
    <3>1. /\ i + 1 \in 1..n /\ r[i] = q[i + 1]
          /\ j + 1 \in 1..n /\ r[j] = q[j + 1]
      BY <1>1, <1>3
    <3> QED
      BY <1>2, <1>4, <3>1
  <2>2. ASSUME NEW i \in 1..n - 1
        PROVE  /\ r[i].id # None => Contains(w, r[i].id)
               /\ r[i].deferred <=> r[i].priority = 100
    BY <1>1, <1>2, <1>3
  <2> QED
    BY <1>1, <2>1, <2>2 DEF Queued
<1>6. Served(q[1], r, w)
  <2>1. ASSUME NEW i \in 1..n - 1
        PROVE  InOrder(q[1], r[i], w) /\ (q[1].id # None => r[i].id # q[1].id)
    <3>1. i + 1 \in 1..n /\ 1 < i + 1 /\ r[i] = q[i + 1] /\ i + 1 # 1
      BY <1>1, <1>3
    <3> QED
      BY <1>2, <1>3, <3>1
  <2> QED
    BY <1>1, <1>2, <1>3, <2>1 DEF Served
<1> QED
  BY <1>1, <1>5, <1>6 DEF r

\* What stays in order when the tasks that wait change.
LEMMA WaitingChanges ==
  ASSUME NEW v, NEW w, NEW q, NEW gone,
         \A a : a # gone /\ Contains(w, a) => Contains(v, a),
         \A a, b : a # gone /\ b # gone /\ Before(a, b, w) => Before(a, b, v),
         \A i \in 1..Len(q) : q[i].id # None => q[i].id # gone
  PROVE  /\ Queued(q, w) => Queued(q, v)
         /\ \A task : Served(task, q, w) /\ (task.id # None => task.id # gone) => Served(task, q, v)
<1>1. ASSUME NEW a, NEW b, InOrder(a, b, w), a.id # None => a.id # gone, b.id # None => b.id # gone
      PROVE  InOrder(a, b, v)
  BY <1>1 DEF InOrder
<1>2. Queued(q, w) => Queued(q, v)
  BY <1>1 DEF Queued
<1>3. ASSUME NEW task, Served(task, q, w), task.id # None => task.id # gone
      PROVE  Served(task, q, v)
  BY <1>1, <1>3 DEF Served
<1> QED
  BY <1>2, <1>3

----------------------------------------------------------------------------
(* Every step keeps the tasks in order                                     *)

LEMMA InitTask == Init => TaskInv
<1> SUFFICES ASSUME Init PROVE TaskInv
  OBVIOUS
<1>1. queue = <<>> /\ Len(queue) = 0 /\ running = None /\ waiting = <<>> /\ Len(waiting) = 0
  BY DEF Init
<1>2. Waiting(waiting, replies)
  BY <1>1 DEF Init, Waiting
<1> QED
  BY <1>1, <1>2 DEF TaskInv, Queued

\* No task of the writer, of the service or of a socket has the priority of a
\* deferred one.
LEMMA NewTasks ==
  /\ \A h \in 0..TopHeight :
       /\ QueueSyncTask(h) \in QueuedTask /\ QueueSyncTask(h).id = None
       /\ ~QueueSyncTask(h).deferred /\ QueueSyncTask(h).priority # 100
       /\ ServiceSync(h) \in QueuedTask /\ ServiceSync(h).id = None
       /\ ~ServiceSync(h).deferred /\ ServiceSync(h).priority # 100
  /\ \A t \in Task :
       /\ WebTask(t) \in QueuedTask /\ WebTask(t).id = t
       /\ ~WebTask(t).deferred /\ WebTask(t).priority # 100
<1>1. ASSUME NEW h \in 0..TopHeight
      PROVE  /\ QueueSyncTask(h) \in QueuedTask /\ QueueSyncTask(h).id = None
             /\ ~QueueSyncTask(h).deferred /\ QueueSyncTask(h).priority # 100
  BY DEF QueueSyncTask, QueuedTask
<1>2. ASSUME NEW h \in 0..TopHeight
      PROVE  /\ ServiceSync(h) \in QueuedTask /\ ServiceSync(h).id = None
             /\ ~ServiceSync(h).deferred /\ ServiceSync(h).priority # 100
  BY AskedTasks DEF ServiceSync, PriorityOf
<1>3. ASSUME NEW t \in Task
      PROVE  /\ WebTask(t) \in QueuedTask /\ WebTask(t).id = t
             /\ ~WebTask(t).deferred /\ WebTask(t).priority # 100
  <2> DEFINE m == MethodOf[t]
  <2>1. m \in Method
    BY QueueAssumption
  <2>2. PriorityOf(AskedPriority(m)) # 100
    BY <2>1 DEF PriorityOf, AskedPriority, Method
  <2> QED
    BY <2>2, AskedTasks DEF WebTask
<1> QED
  BY <1>1, <1>2, <1>3

\* A sync fits anywhere, since nobody waits for its reply.
LEMMA SyncFits ==
  ASSUME NEW q, NEW w, NEW task, task.id = None, ~task.deferred, task.priority # 100
  PROVE  /\ Fits(task, q, w)
         /\ \A served : InOrder(served, task, w) /\ (served.id # None => task.id # served.id)
<1>1. \A a : InOrder(a, task, w)
  BY DEF InOrder
<1> QED
  BY <1>1 DEF Fits

\* With a reply only the answered task leaves those that wait.
LEMMA ReplyLeaves ==
  ASSUME NEW w, NEW t \in Task, Waiting(w, replies), Contains(w, t), SendResponse(t, w)
  PROVE  /\ Waiting(waiting, replies)'
         /\ \A a : a # t /\ Contains(w, a) => Contains(waiting', a)
         /\ \A a, b : a # t /\ b # t /\ Before(a, b, w) => Before(a, b, waiting')
<1>1. CASE waiting' = w /\ UNCHANGED replies
  BY <1>1
<1>2. CASE /\ replies' = [replies EXCEPT ![t] = @ + 1]
           /\ waiting' = RemoveAt(w, AskedAt(t, w))
  <2>1. w \in Seq(Task) /\ replies \in [Task -> {0, 1}] /\ \A i \in 1..Len(w) : replies[w[i]] = 0
    BY DEF Waiting
  <2>2. replies[t] = 0
    BY <2>1 DEF Contains
  <2>3. replies' = [replies EXCEPT ![t] = 1] /\ replies' \in [Task -> {0, 1}]
    BY <1>2, <2>1, <2>2
  <2>4. /\ waiting' \in Seq(Task) /\ ~Contains(waiting', t)
        /\ \A i, j \in 1..Len(waiting') : waiting'[i] = waiting'[j] => i = j
        /\ \A a : a # t /\ Contains(w, a) <=> Contains(waiting', a)
        /\ \A a, b : a # t /\ b # t /\ Before(a, b, w) => Before(a, b, waiting')
    BY <1>2, <2>1, AnsweredLeaves DEF Waiting
  <2>5. ASSUME NEW i \in 1..Len(waiting')
        PROVE  replies'[waiting'[i]] = 0
    <3>1. waiting'[i] # t /\ Contains(w, waiting'[i]) /\ waiting'[i] \in Task
      BY <2>4, ElementOfSeq DEF Contains
    <3>2. replies[waiting'[i]] = 0
      BY <2>1, <3>1 DEF Contains
    <3> QED
      BY <2>1, <2>3, <3>1, <3>2
  <2>6. Waiting(waiting, replies)'
    BY <2>3, <2>4, <2>5 DEF Waiting
  <2> QED
    BY <2>4, <2>6
<1> QED
  BY <1>1, <1>2 DEF SendResponse

\* The end of a task takes it from those that wait, or leaves all as it was.
LEMMA FinishKeepsTasks ==
  ASSUME IInv, TaskInv, running # None, Finish
  PROVE  running' = None /\ Waiting(waiting, replies)' /\ Queued(queue, waiting')
<1>1. /\ Waiting(waiting, replies) /\ Queued(queue, waiting)
      /\ Served(running, queue, waiting) /\ running \in QueuedTask
  BY DEF TaskInv, IInv, Types
<1>2. CASE running.id = None
  BY <1>1, <1>2 DEF Finish, answers
<1>3. CASE running.id # None
  <2> DEFINE t == running.id
  <2>1. /\ t \in Task /\ SendResponse(t, waiting) /\ Contains(waiting, t)
        /\ \A i \in 1..Len(queue) : queue[i].id # t
    BY <1>1, <1>3 DEF Finish, Served, QueuedTask
  <2>2. /\ Waiting(waiting, replies)'
        /\ \A a : a # t /\ Contains(waiting, a) => Contains(waiting', a)
        /\ \A a, b : a # t /\ b # t /\ Before(a, b, waiting) => Before(a, b, waiting')
    BY <1>1, <2>1, ReplyLeaves
  <2>3. Queued(queue, waiting')
    BY <1>1, <2>1, <2>2, WaitingChanges
  <2> QED
    BY <2>2, <2>3 DEF Finish
<1> QED
  BY <1>2, <1>3 DEF Finish

\* A task is asked: pushed, or refused.
LEMMA AskKeepsTasks ==
  ASSUME IInv, TaskInv, NEW t \in Task, Ask(t)
  PROVE  TaskInv'
<1> DEFINE w == Append(waiting, t)
           task == WebTask(t)
<1>1. /\ Waiting(waiting, replies) /\ Queued(queue, waiting)
      /\ running # None => Served(running, queue, waiting)
      /\ queue \in Seq(QueuedTask) /\ waiting \in Seq(Task)
  BY DEF TaskInv, IInv, Types, Waiting
<1>2. ~Contains(waiting, t) /\ replies[t] = 0 /\ running' = running
  BY DEF Ask
<1>3. /\ w \in Seq(Task)
      /\ \A i, j \in 1..Len(w) : w[i] = w[j] => i = j
      /\ \A a : Contains(w, a) <=> a = t \/ Contains(waiting, a)
      /\ \A a, b : Before(a, b, waiting) => Before(a, b, w)
      /\ \A a : Contains(waiting, a) => Before(a, t, w)
  BY <1>1, <1>2, AskedIsLast DEF Waiting
<1> HIDE DEF w
<1>4. Waiting(w, replies)
  <2>1. ASSUME NEW i \in 1..Len(w)
        PROVE  replies[w[i]] = 0
    <3>1. w[i] = t \/ Contains(waiting, w[i])
      BY <1>3 DEF Contains
    <3> QED
      BY <1>1, <1>2, <3>1 DEF Waiting, Contains
  <2> QED
    BY <1>1, <1>3, <2>1 DEF Waiting
<1>5. Queued(queue, w) /\ (running # None => Served(running, queue, w))
  <2>1. None # t /\ \A a : Contains(waiting, a) => a \in Task /\ a # None
    <3>1. \A i \in 1..Len(waiting) : waiting[i] \in Task
      BY <1>1, ElementOfSeq
    <3> QED
      BY <3>1, QueueAssumption DEF Contains
  <2>2. /\ \A a : a # None /\ Contains(waiting, a) => Contains(w, a)
        /\ \A a, b : a # None /\ b # None /\ Before(a, b, waiting) => Before(a, b, w)
        /\ \A i \in 1..Len(queue) : queue[i].id # None => queue[i].id # None
    BY <1>3
  <2>3. /\ Queued(queue, waiting) => Queued(queue, w)
        /\ Served(running, queue, waiting) /\ (running.id # None => running.id # None) => Served(running, queue, w)
    BY <2>2, WaitingChanges
  <2> QED
    BY <1>1, <2>3
<1>6. /\ \A i \in 1..Len(queue) : queue[i].id # None => Contains(waiting, queue[i].id) /\ queue[i].id # t
      /\ running # None /\ running.id # None => Contains(waiting, running.id) /\ running.id # t
  BY <1>1, <1>2 DEF Queued, Served
<1>7. CASE SendResponse(t, w) /\ UNCHANGED queue
  <2>1. Contains(w, t)
    BY <1>3
  <2>2. /\ Waiting(waiting, replies)'
        /\ \A a : a # t /\ Contains(w, a) => Contains(waiting', a)
        /\ \A a, b : a # t /\ b # t /\ Before(a, b, w) => Before(a, b, waiting')
    BY <1>4, <1>7, <2>1, ReplyLeaves
  <2>3. \A i \in 1..Len(queue) : queue[i].id # None => queue[i].id # t
    BY <1>6
  <2>4. /\ Queued(queue, w) => Queued(queue, waiting')
        /\ \A served : Served(served, queue, w) /\ (served.id # None => served.id # t)
             => Served(served, queue, waiting')
    BY ONLY <2>2, <2>3, WaitingChanges
  <2> QED
    BY <1>2, <1>5, <1>6, <1>7, <2>2, <2>4 DEF TaskInv
<1>8. CASE queue' = Push(queue, task) /\ waiting' = w /\ UNCHANGED replies
  <2>1. task \in QueuedTask /\ task.id = t /\ ~task.deferred /\ task.priority # 100
    BY NewTasks
  <2> HIDE DEF task
  <2>2. \A a : (a.id # None => Contains(waiting, a.id)) => InOrder(a, task, w)
    BY <1>3, <2>1 DEF InOrder
  <2>3. Fits(task, queue, w)
    BY <1>3, <1>6, <2>1, <2>2 DEF Fits
  <2>4. Queued(Push(queue, task), w)
    BY <1>1, <1>3, <1>5, <2>1, <2>3, PushQueued
  <2>5. ASSUME running # None
        PROVE  Served(running, Push(queue, task), w)
    BY <1>1, <1>3, <1>5, <1>6, <2>1, <2>2, <2>5, PushServed
  <2> QED
    BY <1>2, <1>4, <1>8, <2>4, <2>5 DEF TaskInv
<1> QED
  BY <1>7, <1>8 DEF Ask, w

\* A deferral pushes the sync and the import behind it; the second time round
\* the import ends instead.
LEMMA AheadKeepsTasks ==
  ASSUME IInv, TaskInv, ImportAhead
  PROVE  TaskInv'
<1> DEFINE h == height[turn]
           sync == QueueSyncTask(h)
           q == Push(queue, sync)
           off == Deferred(running, h)
<1>1. /\ Waiting(waiting, replies) /\ Queued(queue, waiting) /\ running # None
      /\ Served(running, queue, waiting) /\ running \in QueuedTask
      /\ queue \in Seq(QueuedTask) /\ waiting \in Seq(Task) /\ h \in 0..TopHeight
  BY DEF TaskInv, IInv, Types, Waiting, ImportAhead, Runs
<1>2. \/ queue' = Push(q, off) /\ running' = None /\ UNCHANGED <<waiting, replies>>
      \/ queue' = q /\ Finish
  BY DEF ImportAhead, web
<1> HIDE DEF h
<1>3. sync \in QueuedTask /\ sync.id = None /\ ~sync.deferred /\ sync.priority # 100
  BY <1>1, NewTasks
<1>4. off \in QueuedTask /\ off.id = running.id /\ off.deferred /\ off.priority = 100
  <2> DEFINE hundred == 100
  <2>1. off = [running EXCEPT !.deferred = TRUE, !.priority = hundred, !.target = h]
    BY DEF Deferred
  <2>2. hundred \in 0..100
    OBVIOUS
  <2> HIDE DEF hundred, off
  <2>3. off \in QueuedTask /\ off.id = running.id /\ off.deferred /\ off.priority = hundred
    BY <1>1, <2>1, <2>2 DEF QueuedTask
  <2> QED
    BY <2>3 DEF hundred
<1> HIDE DEF sync, off
<1>5. Fits(sync, queue, waiting) /\ InOrder(running, sync, waiting)
      /\ (running.id # None => sync.id # running.id)
  BY <1>3, SyncFits
<1>6. q \in Seq(QueuedTask) /\ Queued(q, waiting) /\ Served(running, q, waiting)
  BY <1>1, <1>3, <1>5, PushProperties, PushQueued, PushServed
<1>7. CASE queue' = q /\ Finish
  <2>1. running' = None /\ Waiting(waiting, replies)'
    BY <1>1, <1>7, FinishKeepsTasks
  <2>2. Queued(q, waiting')
    <3>1. CASE running.id = None
      BY <1>6, <1>7, <3>1 DEF Finish, answers
    <3>2. CASE running.id # None
      <4> DEFINE t == running.id
      <4>1. /\ t \in Task /\ SendResponse(t, waiting) /\ Contains(waiting, t)
            /\ \A i \in 1..Len(q) : q[i].id # t
        BY <1>1, <1>6, <1>7, <3>2 DEF Finish, Served, QueuedTask
      <4>2. /\ \A a : a # t /\ Contains(waiting, a) => Contains(waiting', a)
            /\ \A a, b : a # t /\ b # t /\ Before(a, b, waiting) => Before(a, b, waiting')
        BY <1>1, <4>1, ReplyLeaves
      <4> HIDE DEF q, t
      <4>3. Queued(q, waiting) => Queued(q, waiting')
        BY <4>1, <4>2, WaitingChanges
      <4> QED
        BY <1>6, <4>3
    <3> QED
      BY <3>1, <3>2
  <2> QED
    BY <1>7, <2>1, <2>2 DEF TaskInv
<1>8. CASE queue' = Push(q, off) /\ running' = None /\ UNCHANGED <<waiting, replies>>
  <2>1. \A a : InOrder(a, off, waiting)
    BY <1>4 DEF InOrder
  <2>2. Fits(off, q, waiting)
    BY <1>4, <1>6, <2>1 DEF Fits, Served
  <2>3. Queued(Push(q, off), waiting)
    BY <1>1, <1>4, <1>6, <2>2, PushQueued
  <2> QED
    BY <1>1, <1>8, <2>3 DEF TaskInv
<1> QED
  BY <1>2, <1>7, <1>8

LEMMA NextTask == IInv /\ TaskInv /\ [Next]_vars => TaskInv'
<1> SUFFICES ASSUME IInv, TaskInv, [Next]_vars PROVE TaskInv'
  OBVIOUS
<1>1. /\ Waiting(waiting, replies) /\ Queued(queue, waiting)
      /\ running # None => Served(running, queue, waiting)
      /\ queue \in Seq(QueuedTask) /\ waiting \in Seq(Task)
  BY DEF TaskInv, IInv, Types, Waiting
<1>2. ASSUME UNCHANGED <<queue, waiting, replies>>, running' = running \/ running' = None
      PROVE  TaskInv'
  BY <1>1, <1>2 DEF TaskInv
<1>3. ASSUME NEW n \in Node, NewBlock(n)
      PROVE  TaskInv'
  BY <1>2, <1>3 DEF NewBlock, work, web
<1>4. CASE SyncArrives
  <2>1. running' = running /\ UNCHANGED <<waiting, replies>>
    BY <1>4 DEF SyncArrives, web
  <2>2. CASE UNCHANGED queue
    BY <1>2, <2>1, <2>2
  <2>3. CASE queue' = Push(queue, ServiceSync(Head(news)))
    <3> DEFINE task == ServiceSync(Head(news))
    <3>1. Head(news) \in 0..TopHeight
      BY <1>4, HeadTailProperties DEF SyncArrives, IInv, Types
    <3>2. task \in QueuedTask /\ task.id = None /\ ~task.deferred /\ task.priority # 100
      BY <3>1, NewTasks
    <3> HIDE DEF task
    <3>3. /\ Fits(task, queue, waiting)
          /\ \A served : InOrder(served, task, waiting) /\ (served.id # None => task.id # served.id)
      BY <3>2, SyncFits
    <3>4. Queued(Push(queue, task), waiting)
      BY <1>1, <3>2, <3>3, PushQueued
    <3>5. running # None => Served(running, Push(queue, task), waiting)
      BY <1>1, <3>2, <3>3, PushServed
    <3> QED
      BY <1>1, <2>1, <2>3, <3>4, <3>5 DEF TaskInv, task
  <2> QED
    BY <1>4, <2>2, <2>3 DEF SyncArrives
<1>5. ASSUME NEW t \in Task, Ask(t)
      PROVE  TaskInv'
  BY <1>5, AskKeepsTasks
<1>6. ASSUME NEW w \in Worker, WebWorkerDies(w)
      PROVE  TaskInv'
  BY <1>2, <1>6 DEF WebWorkerDies, work, answers
<1>7. CASE Take
  <2>1. /\ queue # <<>> /\ running' = Head(queue) /\ queue' = Tail(queue)
        /\ UNCHANGED <<waiting, replies>>
    BY <1>7 DEF Take, web
  <2>2. Queued(Tail(queue), waiting) /\ Served(Head(queue), Tail(queue), waiting)
    BY <1>1, <2>1, TakeQueued
  <2> QED
    BY <1>1, <2>1, <2>2 DEF TaskInv
<1>8. ASSUME running # None, Finish, UNCHANGED queue
      PROVE  TaskInv'
  BY <1>8, FinishKeepsTasks DEF TaskInv
<1>9. CASE Reject \/ SaveTransaction \/ CreateWallet \/ SyncEnds \/ ImportWithout \/ ImportHere
  BY <1>8, <1>9 DEF Reject, SaveTransaction, CreateWallet, SyncEnds, ImportWithout, ImportHere, Runs
<1>10. CASE TryClient
  BY <1>2, <1>10 DEF TryClient, web
<1>11. CASE ImportAhead
  BY <1>11, AheadKeepsTasks
<1>12. CASE UNCHANGED vars
  BY <1>2, <1>12 DEF vars, work, web
<1> QED
  BY <1>3, <1>4, <1>5, <1>6, <1>7, <1>9, <1>10, <1>11, <1>12 DEF Next, Step, Run

\* The replies and the requests of the queue agree, and the tasks of one priority
\* stand in it in the order in which they were asked (async.priorityQueue,
\* _sendResponse).
THEOREM TasksInOrder == Spec => []TaskInv
BY InitTask, NextTask, Invariance, PTL DEF Spec

\* Among tasks asked at one priority the running one was asked first: pushes,
\* refusals and replies in between never change that (async.priorityQueue).
THEOREM FirstComeFirstServed == Spec => []FirstAskedFirstServed
<1>1. IInv /\ TaskInv => FirstAskedFirstServed
  <2> SUFFICES ASSUME IInv, TaskInv, running # None, running.id # None, ~running.deferred,
                      NEW i \in DOMAIN queue, queue[i].id # None,
                      queue[i].priority = running.priority
               PROVE  AskedAt(running.id, waiting) < AskedAt(queue[i].id, waiting)
    BY DEF FirstAskedFirstServed
  <2> DEFINE a == running.id
             b == queue[i].id
  <2>1. queue \in Seq(QueuedTask) /\ waiting \in Seq(Task) /\ i \in 1..Len(queue)
    BY LenProperties DEF IInv, Types, TaskInv, Waiting
  <2>2. ~queue[i].deferred
    BY <2>1 DEF TaskInv, Queued, Served
  <2>3. Before(a, b, waiting)
    BY <2>1, <2>2 DEF TaskInv, Served, InOrder
  <2> HIDE DEF a, b
  <2>4. PICK k, l \in 1..Len(waiting) : k < l /\ waiting[k] = a /\ waiting[l] = b
    BY <2>3 DEF Before
  <2>5. AskedAt(a, waiting) = k /\ AskedAt(b, waiting) = l
    <3>1. Contains(waiting, a) /\ Contains(waiting, b)
      BY <2>4 DEF Contains
    <3>2. /\ AskedAt(a, waiting) \in 1..Len(waiting) /\ waiting[AskedAt(a, waiting)] = a
          /\ AskedAt(b, waiting) \in 1..Len(waiting) /\ waiting[AskedAt(b, waiting)] = b
      BY <2>1, <3>1, AskedAtProperties
    <3> QED
      BY <2>4, <3>2 DEF TaskInv, Waiting
  <2> QED
    BY <2>4, <2>5 DEF a, b
<1> QED
  BY <1>1, Invariance, TasksInOrder, PTL

----------------------------------------------------------------------------
(* The service to the web workers                                          *)

\* At first nothing is asked and nothing answered.
LEMMA InitReplies == Init => TaskReplies!Init
<1> SUFFICES ASSUME Init PROVE TaskReplies!Init
  OBVIOUS
<1>1. waiting = <<>> /\ Len(waiting) = 0 /\ replies = [t \in Task |-> 0] /\ ended = FALSE
  BY DEF Init
<1> QED
  BY <1>1 DEF TaskReplies!Init, Contains

\* The tasks asked so far, when those of w have no reply.
AskedOf(w, r) == {t \in Task : r[t] > 0 \/ Contains(w, t)}

\* The reply to a task: the writer ends, or the task has its one reply and is still
\* one that was asked.
LEMMA ReplyMaps ==
  ASSUME NEW w, NEW t \in Task, Waiting(w, replies), Contains(w, t), SendResponse(t, w)
  PROVE  /\ AskedOf(waiting', replies') = AskedOf(w, replies)
         /\ \/ ended' = TRUE /\ WorkerOf[t] \in closed /\ replies' = replies
            \/ replies[t] = 0 /\ replies' = [replies EXCEPT ![t] = 1] /\ ended' = ended
<1>1. CASE waiting' = w /\ UNCHANGED replies /\ ended' = TRUE /\ WorkerOf[t] \in closed
  BY <1>1
<1>2. CASE /\ replies' = [replies EXCEPT ![t] = @ + 1] /\ ended' = ended
           /\ waiting' = RemoveAt(w, AskedAt(t, w))
  <2>1. /\ w \in Seq(Task) /\ replies \in [Task -> {0, 1}]
        /\ \A i \in 1..Len(w) : replies[w[i]] = 0
        /\ \A i, j \in 1..Len(w) : w[i] = w[j] => i = j
    BY DEF Waiting
  <2>2. replies[t] = 0
    BY <2>1 DEF Contains
  <2>3. replies' = [replies EXCEPT ![t] = 1] /\ replies' \in [Task -> {0, 1}]
    BY <1>2, <2>1, <2>2
  <2>4. \A a : a # t /\ Contains(w, a) <=> Contains(waiting', a)
    BY <1>2, <2>1, AnsweredLeaves
  <2>5. ASSUME NEW a \in Task
        PROVE  replies'[a] > 0 \/ Contains(waiting', a) <=> replies[a] > 0 \/ Contains(w, a)
    <3>1. CASE a = t
      <4>1. replies'[a] > 0
        BY <2>1, <2>3, <3>1
      <4> QED
        BY <3>1, <4>1
    <3>2. CASE a # t
      <4>1. replies'[a] = replies[a]
        BY <2>1, <2>3, <3>2
      <4> QED
        BY <2>4, <3>2, <4>1
    <3> QED
      BY <3>1, <3>2
  <2> QED
    BY <1>2, <2>2, <2>3, <2>5 DEF AskedOf
<1> QED
  BY <1>1, <1>2 DEF SendResponse

\* The end of a task is a reply, the end of the writer, or nothing to the web
\* workers.
LEMMA FinishMaps ==
  ASSUME IInv, TaskInv, ~ended, running # None, Finish
  PROVE  TaskReplies!Next \/ UNCHANGED <<AskedOf(waiting, replies), replies, ended>>
<1>1. CASE running.id = None
  BY <1>1 DEF Finish, answers, AskedOf
<1>2. CASE running.id # None
  <2> DEFINE t == running.id
  <2>1. t \in Task /\ SendResponse(t, waiting) /\ Contains(waiting, t) /\ Waiting(waiting, replies)
    BY <1>2 DEF Finish, TaskInv, Served, IInv, Types, QueuedTask
  <2> HIDE DEF t
  <2>2. AskedOf(waiting', replies') = AskedOf(waiting, replies) /\ t \in AskedOf(waiting, replies)
    BY <2>1, ReplyMaps DEF AskedOf
  <2>3. \/ ended' = TRUE /\ replies' = replies
        \/ replies[t] = 0 /\ replies' = [replies EXCEPT ![t] = 1] /\ ended' = ended
    BY <2>1, ReplyMaps
  <2>4. CASE ended' = TRUE /\ replies' = replies
    BY <2>2, <2>4 DEF TaskReplies!Next, TaskReplies!End, AskedOf
  <2>5. CASE replies[t] = 0 /\ replies' = [replies EXCEPT ![t] = 1] /\ ended' = ended
    <3>1. TaskReplies!Reply(t)
      BY <2>2, <2>5 DEF TaskReplies!Reply, AskedOf
    <3> QED
      BY <2>1, <3>1 DEF TaskReplies!Next
  <2> QED
    BY <2>3, <2>4, <2>5
<1> QED
  BY <1>1, <1>2

\* A task is asked, with its refusal or without.
LEMMA AskMaps ==
  ASSUME TaskInv, NEW t \in Task, Ask(t)
  PROVE  TaskReplies!Next
<1> DEFINE w == Append(waiting, t)
<1>1. /\ ~ended /\ WorkerOf[t] \notin closed /\ replies[t] = 0 /\ ~Contains(waiting, t)
      /\ Waiting(waiting, replies) /\ waiting \in Seq(Task) /\ replies \in [Task -> {0, 1}]
  BY DEF Ask, TaskInv, Waiting
<1>2. /\ w \in Seq(Task)
      /\ \A i, j \in 1..Len(w) : w[i] = w[j] => i = j
      /\ \A a : Contains(w, a) <=> a = t \/ Contains(waiting, a)
  BY <1>1, AskedIsLast DEF Waiting
<1> HIDE DEF w
<1>3. t \notin AskedOf(waiting, replies)
  BY <1>1 DEF AskedOf
<1>4. AskedOf(w, replies) = AskedOf(waiting, replies) \cup {t}
  BY <1>2 DEF AskedOf
<1>5. CASE waiting' = w /\ UNCHANGED <<replies, ended>>
  <2>1. TaskReplies!Ask(t)
    BY <1>1, <1>3, <1>4, <1>5 DEF TaskReplies!Ask, AskedOf
  <2> QED
    BY <2>1 DEF TaskReplies!Next
<1>6. CASE SendResponse(t, w)
  <2>1. Waiting(w, replies)
    <3>1. ASSUME NEW i \in 1..Len(w)
          PROVE  replies[w[i]] = 0
      <4>1. w[i] = t \/ Contains(waiting, w[i])
        BY <1>2 DEF Contains
      <4> QED
        BY <1>1, <4>1 DEF Waiting, Contains
    <3> QED
      BY <1>1, <1>2, <3>1 DEF Waiting
  <2>2. /\ AskedOf(waiting', replies') = AskedOf(w, replies)
        /\ replies' = [replies EXCEPT ![t] = 1] /\ ended' = ended
    BY <1>1, <1>2, <1>6, <2>1, ReplyMaps
  <2>3. TaskReplies!AskAndReply(t)
    BY <1>1, <1>3, <1>4, <2>2 DEF TaskReplies!AskAndReply, AskedOf
  <2> QED
    BY <2>3 DEF TaskReplies!Next
<1> QED
  BY <1>5, <1>6 DEF Ask, w

LEMMA NextReplies == IInv /\ TaskInv /\ [Next]_vars => [TaskReplies!Next]_(TaskReplies!vars)
<1> SUFFICES ASSUME IInv, TaskInv, [Next]_vars
             PROVE  TaskReplies!Next \/ UNCHANGED TaskReplies!vars
  OBVIOUS
<1>1. ASSUME UNCHANGED <<waiting, replies, ended>>
      PROVE  UNCHANGED TaskReplies!vars
  BY <1>1 DEF TaskReplies!vars
<1>2. ASSUME ~ended, running # None, Finish
      PROVE  TaskReplies!Next \/ UNCHANGED TaskReplies!vars
  BY <1>2, FinishMaps DEF TaskReplies!vars, AskedOf
<1>3. CASE UNCHANGED vars
  BY <1>1, <1>3 DEF vars, web
<1>4. ASSUME NEW t \in Task, Ask(t)
      PROVE  TaskReplies!Next
  BY <1>4, AskMaps
<1>5. CASE (\E n \in Node : NewBlock(n)) \/ SyncArrives \/ (\E d \in Worker : WebWorkerDies(d)) \/ Take \/ TryClient
  BY <1>1, <1>5 DEF NewBlock, SyncArrives, WebWorkerDies, Take, TryClient, web, answers
<1>6. CASE Reject \/ SaveTransaction \/ CreateWallet \/ SyncEnds \/ ImportWithout \/ ImportHere
  BY <1>2, <1>6 DEF Reject, SaveTransaction, CreateWallet, SyncEnds, ImportWithout, ImportHere, Runs
<1>7. CASE ImportAhead
  BY <1>1, <1>2, <1>7 DEF ImportAhead, Runs, web
<1> QED
  BY <1>3, <1>4, <1>5, <1>6, <1>7 DEF Next, Step, Run

\* The queue implements the steps of TaskService: through refusals, deferrals,
\* rejected and failed tasks and closed sockets, no task gets a second reply and
\* none a reply that was not asked.
THEOREM AnsweredAtMostOnce == Spec => TaskReplies!Safety
<1>1. IInv /\ TaskInv /\ [Next]_vars => [TaskReplies!Next]_(TaskReplies!vars)
  BY NextReplies
<1> QED
  BY <1>1, InitReplies, Invariance, TasksInOrder, PTL DEF Spec, TaskReplies!Safety
----------------------------------------------------------------------------
(* A sync that fails                                                       *)

\* From any turn, trying each client once reaches every one of them.
LEMMA EveryClientInTurn ==
  \A n, t \in Node : \E k \in 0..Nodes - 1 : (t + k) % Nodes = n
<1> SUFFICES ASSUME NEW n \in Node, NEW t \in Node
             PROVE  \E k \in 0..Nodes - 1 : (t + k) % Nodes = n
  OBVIOUS
<1>1. n \in 0..Nodes - 1 /\ t \in 0..Nodes - 1 /\ Nodes \in Nat \ {0}
  BY QueueAssumption DEF Node
<1>2. CASE t <= n
  <2>1. n - t \in 0..Nodes - 1 /\ t + (n - t) = n
    BY <1>1, <1>2
  <2>2. n % Nodes = n
    BY <1>1
  <2> QED
    BY <2>1, <2>2
<1>3. CASE n < t
  <2>1. n - t + Nodes \in 0..Nodes - 1 /\ t + (n - t + Nodes) = n + Nodes
    BY <1>1, <1>3
  <2>2. (n + Nodes) % Nodes = n
    BY <1>1
  <2> QED
    BY <2>1, <2>2
<1> QED
  BY <1>1, <1>2, <1>3

LEMMA InitSync == Init => SyncInv
<1> SUFFICES ASSUME Init PROVE SyncInv
  OBVIOUS
<1>1. /\ height = [n \in Node |-> 0] /\ news = <<0>> /\ queue = <<>> /\ Len(queue) = 0
      /\ running = None /\ known = 0 /\ failed = FALSE
  BY DEF Init
<1>2. 0 \in Node
  BY QueueAssumption DEF Node
<1>3. height[0] >= 0
  BY <1>1, <1>2
<1>4. Reached(0, height)
  BY <1>2, <1>3 DEF Reached
<1>5. Reached(known, height) /\ \A i \in 1..Len(news) : Reached(news[i], height)
  <2>1. \A i \in 1..Len(news) : news[i] = 0
    BY <1>1
  <2> QED
    BY <1>1, <1>4, <2>1
<1> QED
  BY <1>1, <1>5 DEF SyncInv, QueueReached, SyncGoesOn

\* A height that was reached stays so, since chains only grow; and so does the
\* client that is left.
LEMMA HeightsRise ==
  ASSUME IInv, [Next]_vars
  PROVE  /\ \A h \in 0..TopHeight : Reached(h, height) => Reached(h, height')
         /\ \A n \in Node, h \in 0..TopHeight : height[n] >= h => height'[n] >= h
<1>0. height \in [Node -> 0..TopHeight] /\ TopHeight \in Nat
  BY QueueAssumption DEF IInv, Types
<1>1. \A n \in Node : height'[n] = height[n] \/ height'[n] = height[n] + 1
  <2>1. ASSUME NEW m \in Node, NewBlock(m)
        PROVE  \A n \in Node : height'[n] = height[n] \/ height'[n] = height[n] + 1
    BY <1>0, <2>1 DEF NewBlock
  <2>2. CASE UNCHANGED height
    BY <2>2
  <2>3. ASSUME running # None, Finish
        PROVE  UNCHANGED height
    BY <2>3 DEF Finish, nodes
  <2>4. ASSUME Step
        PROVE  (\E m \in Node : NewBlock(m)) \/ UNCHANGED height
    <3>1. ASSUME Run
          PROVE  UNCHANGED height
      BY <2>3, <3>1 DEF Run, Take, Reject, SaveTransaction, CreateWallet, SyncEnds, TryClient,
                        ImportWithout, ImportHere, ImportAhead, Runs, nodes
    <3> QED
      BY <2>4, <3>1 DEF Step, SyncArrives, Ask, WebWorkerDies, nodes
  <2>5. (\E m \in Node : NewBlock(m)) \/ UNCHANGED height
    BY <2>4 DEF Next, vars, nodes
  <2> QED
    BY <2>1, <2>2, <2>5
<1>2. ASSUME NEW n \in Node, NEW h \in 0..TopHeight, height[n] >= h
      PROVE  height'[n] >= h
  <2> DEFINE a == height[n]
             b == height'[n]
  <2>1. a \in 0..TopHeight /\ (b = a \/ b = a + 1) /\ a >= h
    BY <1>0, <1>1, <1>2
  <2> HIDE DEF a, b
  <2>2. b >= h
    BY <1>0, <2>1
  <2> QED
    BY <2>2 DEF b
<1> QED
  BY <1>2 DEF Reached

LEMMA PushReached ==
  ASSUME NEW q \in Seq(QueuedTask), NEW task \in QueuedTask, NEW hs,
         QueueReached(q, hs), task.method = "sync" => Reached(task.target, hs)
  PROVE  QueueReached(Push(q, task), hs)
<1> DEFINE p == Push(q, task)
<1>1. Len(p) = Len(q) + 1 /\ \A j \in 1..Len(q) + 1 : p[j] = task \/ \E i \in 1..Len(q) : p[j] = q[i]
  BY PushElements, PushProperties
<1> HIDE DEF p
<1>2. ASSUME NEW j \in 1..Len(p), p[j].method = "sync"
      PROVE  Reached(p[j].target, hs)
  BY <1>1, <1>2 DEF QueueReached
<1> QED
  BY <1>2 DEF QueueReached, p

\* Nobody queues a sync for a height that no bitcoind has.
LEMMA NextReached ==
  ASSUME IInv, SyncInv, [Next]_vars
  PROVE  /\ Reached(known', height')
         /\ \A i \in 1..Len(news') : Reached(news'[i], height')
         /\ QueueReached(queue', height')
<1>0. /\ height \in [Node -> 0..TopHeight] /\ news \in Seq(0..TopHeight)
      /\ queue \in Seq(QueuedTask) /\ known \in 0..TopHeight /\ turn \in Node
      /\ (running # None => running \in QueuedTask)
  BY DEF IInv, Types
<1>1. /\ \A h \in 0..TopHeight : Reached(h, height) => Reached(h, height')
      /\ \A n \in Node, h \in 0..TopHeight : height[n] >= h => height'[n] >= h
  BY HeightsRise
<1>2. /\ \A i \in 1..Len(queue) : queue[i] \in QueuedTask /\ queue[i].target \in 0..TopHeight
      /\ \A i \in 1..Len(news) : news[i] \in 0..TopHeight
  <2>1. \A i \in 1..Len(queue) : queue[i] \in QueuedTask
    BY <1>0, ElementOfSeq
  <2> QED
    BY <1>0, <2>1, ElementOfSeq DEF QueuedTask
<1>3. /\ Reached(known, height')
      /\ \A i \in 1..Len(news) : Reached(news[i], height')
      /\ QueueReached(queue, height')
  BY <1>0, <1>1, <1>2 DEF SyncInv, QueueReached
<1>4. ASSUME UNCHANGED <<known, news, queue>>
      PROVE  /\ Reached(known', height')
             /\ \A i \in 1..Len(news') : Reached(news'[i], height')
             /\ QueueReached(queue', height')
  BY <1>3, <1>4
<1>5. ASSUME NEW n \in Node, NewBlock(n)
      PROVE  \A i \in 1..Len(news') : Reached(news'[i], height')
  <2> DEFINE h == height'[n]
  <2>1. h \in Nat
    BY <1>0, <1>5 DEF NewBlock
  <2>2. Reached(h, height')
    BY <2>1 DEF Reached
  <2>3. news' = Append(news, h) \/ news' = news
    BY <1>5 DEF NewBlock
  <2> HIDE DEF h
  <2>4. CASE news' = Append(news, h)
    <3>1. /\ Len(news') = Len(news) + 1 /\ Len(news) \in Nat
          /\ \A i \in 1..Len(news) : news'[i] = news[i]
          /\ news'[Len(news) + 1] = h
      BY <1>0, <2>4, AppendProperties, LenProperties
    <3>2. \A i \in 1..Len(news') : i \in 1..Len(news) \/ i = Len(news) + 1
      BY <3>1
    <3> QED
      BY <1>3, <2>2, <3>1, <3>2
  <2> QED
    BY <1>3, <2>3, <2>4
<1>6. CASE SyncArrives
  <2>1. /\ news # <<>> /\ news' = Tail(news) /\ known' = known
        /\ queue' = queue \/ queue' = Push(queue, ServiceSync(Head(news)))
    BY <1>6 DEF SyncArrives, chain
  <2>2. /\ Len(news) \in Nat \ {0} /\ Head(news) = news[1] /\ Head(news) \in 0..TopHeight
        /\ Len(news') = Len(news) - 1
        /\ \A i \in 1..Len(news) - 1 : news'[i] = news[i + 1]
    <3>1. Len(news) \in Nat \ {0}
      BY <1>0, <2>1, LenProperties, EmptySeq
    <3>2. /\ Head(news) \in 0..TopHeight /\ Len(Tail(news)) = Len(news) - 1
          /\ \A i \in 1..Len(news) - 1 : Tail(news)[i] = news[i + 1]
      BY <1>0, <2>1, <3>1, HeadTailProperties
    <3>3. Head(news) = news[1]
      BY <1>0, <2>1
    <3> QED
      BY <2>1, <3>1, <3>2, <3>3
  <2>3. 1 \in 1..Len(news) /\ \A i \in 1..Len(news) - 1 : i + 1 \in 1..Len(news)
    BY <2>2
  <2>4. \A i \in 1..Len(news') : Reached(news'[i], height')
    BY <1>3, <2>2, <2>3
  <2> DEFINE task == ServiceSync(Head(news))
  <2>5. task \in QueuedTask /\ task.target = Head(news)
    BY <2>2, NewTasks DEF ServiceSync
  <2> HIDE DEF task
  <2>6. Reached(task.target, height')
    BY <1>3, <2>2, <2>3, <2>5
  <2>7. QueueReached(Push(queue, task), height')
    BY <1>0, <1>3, <2>5, <2>6, PushReached
  <2> QED
    BY <1>3, <2>1, <2>4, <2>7 DEF task
<1>7. ASSUME NEW t \in Task, Ask(t)
      PROVE  known' = known /\ news' = news /\ QueueReached(queue', height')
  <2>1. known' = known /\ news' = news /\ (queue' = queue \/ queue' = Push(queue, WebTask(t)))
    BY <1>7 DEF Ask, nodes, chain
  <2> DEFINE task == WebTask(t)
  <2>2. task \in QueuedTask /\ task.method # "sync"
    <3>1. MethodOf[t] \in Method
      BY QueueAssumption
    <3> QED
      BY <3>1, NewTasks DEF WebTask, Method
  <2> HIDE DEF task
  <2>3. QueueReached(Push(queue, task), height')
    BY <1>0, <1>3, <2>2, PushReached
  <2> QED
    BY <1>3, <2>1, <2>3 DEF task
<1>8. CASE Take
  <2>1. /\ queue # <<>> /\ queue' = Tail(queue) /\ running' = Head(queue) /\ news' = news
        /\ known' = IF running'.method = "sync" THEN running'.target ELSE known
    BY <1>8 DEF Take, nodes
  <2>2. /\ Len(queue) \in Nat \ {0} /\ Head(queue) = queue[1]
        /\ Len(queue') = Len(queue) - 1
        /\ \A i \in 1..Len(queue) - 1 : queue'[i] = queue[i + 1]
    <3>1. Len(queue) \in Nat \ {0}
      BY <1>0, <2>1, LenProperties, EmptySeq
    <3> QED
      BY <1>0, <2>1, <3>1, HeadTailProperties
  <2>3. 1 \in 1..Len(queue) /\ \A i \in 1..Len(queue) - 1 : i + 1 \in 1..Len(queue)
    BY <2>2
  <2>4. QueueReached(queue', height')
    BY <1>3, <2>2, <2>3 DEF QueueReached
  <2>5. Reached(known', height')
    BY <1>3, <2>1, <2>2, <2>3 DEF QueueReached
  <2> QED
    BY <1>3, <2>1, <2>4, <2>5
<1>9. CASE ImportAhead
  <2> DEFINE h == height[turn]
             sync == QueueSyncTask(h)
             q == Push(queue, sync)
             off == Deferred(running, h)
  <2>1. /\ running \in QueuedTask /\ running.method \in {"put", "post"} /\ h \in 0..TopHeight
        /\ known' = known /\ (queue' = q \/ queue' = Push(q, off))
    BY <1>0, <1>9 DEF ImportAhead, Runs
  <2>2. news' = news /\ height' = height
    BY <1>9 DEF ImportAhead, Finish, nodes
  <2>3. Reached(h, height')
    <3>1. h >= h
      BY <2>1
    <3> QED
      BY <1>0, <2>2, <3>1 DEF Reached
  <2> HIDE DEF h
  <2>4. sync \in QueuedTask /\ sync.target = h
    BY <2>1, NewTasks DEF QueueSyncTask
  <2>5. off \in QueuedTask /\ off.method # "sync"
    <3> DEFINE hundred == 100
    <3>1. off = [running EXCEPT !.deferred = TRUE, !.priority = hundred, !.target = h]
      BY DEF Deferred
    <3>2. hundred \in 0..100
      OBVIOUS
    <3> HIDE DEF hundred, off
    <3>3. off \in QueuedTask /\ off.method = running.method
      BY <2>1, <3>1, <3>2 DEF QueuedTask
    <3> QED
      BY <2>1, <3>3
  <2> HIDE DEF sync, off
  <2>6. q \in Seq(QueuedTask) /\ QueueReached(q, height')
    BY <1>0, <1>3, <2>3, <2>4, PushReached, PushProperties
  <2> HIDE DEF q
  <2>7. QueueReached(Push(q, off), height')
    BY <2>5, <2>6, PushReached
  <2> QED
    BY <1>3, <2>1, <2>2, <2>6, <2>7
<1>10. ASSUME NEW w \in Worker, WebWorkerDies(w)
       PROVE  UNCHANGED <<known, news, queue>>
  BY <1>10 DEF WebWorkerDies, nodes, work, chain
<1>11. CASE Reject \/ SaveTransaction \/ CreateWallet \/ SyncEnds \/ TryClient \/ ImportWithout \/ ImportHere
  BY <1>4, <1>11 DEF Reject, SaveTransaction, CreateWallet, SyncEnds, TryClient, ImportWithout,
                     ImportHere, Finish, nodes, chain
<1>12. CASE UNCHANGED vars
  BY <1>4, <1>12 DEF vars, nodes, work, chain
<1>13. ASSUME NEW n \in Node, NewBlock(n)
       PROVE  UNCHANGED <<known, queue>>
  BY <1>13 DEF NewBlock, work, chain
<1> QED
  BY <1>3, <1>4, <1>5, <1>6, <1>7, <1>8, <1>9, <1>10, <1>11, <1>12, <1>13 DEF Next, Step, Run

\* The client that is asked has some height.
LEMMA HeightAsked ==
  ASSUME IInv
  PROVE  height[(turn + tried) % Nodes] \in 0..TopHeight
<1>1. turn + tried \in Nat /\ height \in [Node -> 0..TopHeight]
  BY QueueAssumption DEF IInv, Types, Node
<1> QED
  BY <1>1, ModIsNode

\* Where a client fails that is not the last one, another one is left.
LEMMA AnotherIsLeft ==
  ASSUME IInv, SyncInv, TryClient, ~flaky, height[Asking] <= wallet
  PROVE  ~LastTry /\ \E k \in tried + 1..Nodes - 1 : height[(turn + k) % Nodes] >= known
<1>1. /\ running # None /\ running.method = "sync" /\ wallet # None /\ wallet < known
      /\ wallet \in 0..TopHeight /\ known \in 0..TopHeight /\ TopHeight \in Nat
      /\ tried \in 0..Nodes - 1 /\ Nodes \in Nat \ {0}
  BY QueueAssumption DEF TryClient, Runs, Behind, IInv, Types, Node
<1>2. PICK k \in tried..Nodes - 1 : height[(turn + k) % Nodes] >= known
  BY <1>1 DEF SyncInv, SyncGoesOn, ClientLeft
<1>3. k # tried
  BY <1>1, <1>2, HeightAsked DEF Asking
<1>4. k \in tried + 1..Nodes - 1
  BY <1>1, <1>2, <1>3
<1> QED
  BY <1>1, <1>2, <1>4 DEF LastTry

\* The clients asked, and the one that is asked now.
LEMMA OneMoreAsked ==
  ASSUME IInv
  PROVE  ClientsAsked \cup {Asking} = {(turn + k) % Nodes : k \in 0..tried}
<1>1. tried \in Nat
  BY QueueAssumption DEF IInv, Types, Node
<1>2. 0..tried = 0..tried - 1 \cup {tried}
  BY <1>1
<1> QED
  BY <1>2 DEF ClientsAsked, Asking

\* With the last try all of them have been asked.
LEMMA LastIsAll ==
  ASSUME IInv, LastTry
  PROVE  ClientsAsked \cup {Asking} = Node
<1>1. turn \in Node /\ turn \in Nat /\ tried = Nodes - 1
  BY QueueAssumption DEF IInv, Types, Node, LastTry
<1>2. \A k \in 0..tried : (turn + k) % Nodes \in Node
  BY <1>1, ModIsNode
<1>3. \A n \in Node : \E k \in 0..tried : (turn + k) % Nodes = n
  BY <1>1, EveryClientInTurn
<1> QED
  BY <1>2, <1>3, OneMoreAsked

\* A sync remembers whom it has asked, and one that only met bitcoinds that are
\* behind has one more to try.
LEMMA NextGoesOn ==
  ASSUME IInv, IInv', SyncInv, [Next]_vars
  PROVE  SyncGoesOn'
<1>0. /\ height \in [Node -> 0..TopHeight] /\ known \in 0..TopHeight /\ known' \in 0..TopHeight
      /\ turn \in Node /\ tried \in Node /\ wallet \in 0..TopHeight \cup {None}
      /\ turn' \in Node /\ Nodes \in Nat \ {0} /\ TopHeight \in Nat
  BY QueueAssumption DEF IInv, Types
<1>1. flaky' = flaky
  BY DEF Next, vars
<1>2. ASSUME tried' = 0, missed' = {}
      PROVE  SyncGoesOn'
  <2>1. PICK n \in Node : height'[n] >= known'
    BY NextReached DEF Reached
  <2>2. PICK k \in 0..Nodes - 1 : (turn' + k) % Nodes = n
    BY <1>0, EveryClientInTurn
  <2>3. ClientLeft'
    BY <1>2, <2>1, <2>2 DEF ClientLeft
  <2>4. 0..tried' - 1 = {}
    BY <1>2
  <2> QED
    BY <1>2, <2>3, <2>4 DEF SyncGoesOn, ClientsAsked
<1>3. ASSUME ClientLeft, UNCHANGED <<known, turn, tried>>
      PROVE  ClientLeft'
  <2>1. PICK k \in tried..Nodes - 1 : height[(turn + k) % Nodes] >= known
    BY <1>3 DEF ClientLeft
  <2>2. (turn + k) % Nodes \in Node
    <3>1. turn + k \in Nat
      BY <1>0 DEF Node
    <3> QED
      BY <3>1, ModIsNode
  <2>3. height'[(turn + k) % Nodes] >= known
    BY <1>0, <2>1, <2>2, HeightsRise
  <2> QED
    BY <1>3, <2>1, <2>3 DEF ClientLeft
<1>4. ASSUME running' = running, UNCHANGED <<known, turn, tried, missed>>
      PROVE  SyncGoesOn'
  BY <1>1, <1>3, <1>4 DEF SyncInv, SyncGoesOn, ClientsAsked
<1>5. ASSUME running' = None
      PROVE  SyncGoesOn'
  BY <1>5 DEF SyncGoesOn
<1>6. CASE Take
  BY <1>2, <1>6 DEF Take
<1>7. CASE TryClient
  <2>1. /\ running # None /\ running.method = "sync"
        /\ UNCHANGED <<known, turn, height>>
    BY <1>7 DEF TryClient, Runs, nodes
  <2>2. CASE tried' = 0 /\ missed' = {}
    BY <1>2, <2>2
  <2>3. CASE /\ height[Asking] <= wallet \/ flaky
             /\ tried' = tried + 1 /\ missed' = missed \cup {Asking}
    <3>1. missed' = {(turn + k) % Nodes : k \in 0..tried}
      BY <2>1, <2>3, OneMoreAsked DEF SyncInv, SyncGoesOn
    <3>2. missed' = ClientsAsked'
      <4>1. tried' - 1 = tried
        BY <1>0, <2>3 DEF Node
      <4> QED
        BY <2>1, <3>1, <4>1 DEF ClientsAsked
    <3>3. ~flaky => ClientLeft'
      BY <1>7, <2>1, <2>3, AnotherIsLeft DEF ClientLeft
    <3> QED
      BY <1>1, <3>2, <3>3 DEF SyncGoesOn
  <2>4. CASE running' = None
    BY <1>5, <2>4
  <2> QED
    BY <1>7, <2>2, <2>3, <2>4 DEF TryClient
<1>8. CASE Reject \/ SaveTransaction \/ CreateWallet \/ SyncEnds \/ ImportWithout \/ ImportHere
  BY <1>5, <1>8 DEF Reject, SaveTransaction, CreateWallet, SyncEnds, ImportWithout, ImportHere, Finish
<1>9. CASE ImportAhead
  BY <1>5, <1>9 DEF ImportAhead, Finish
<1>10. CASE (\E n \in Node : NewBlock(n)) \/ SyncArrives \/ (\E t \in Task : Ask(t)) \/ (\E w \in Worker : WebWorkerDies(w))
  BY <1>4, <1>10 DEF NewBlock, SyncArrives, Ask, WebWorkerDies, work, chain
<1>11. CASE UNCHANGED vars
  BY <1>4, <1>11 DEF vars, work, chain
<1> QED
  BY <1>6, <1>7, <1>8, <1>9, <1>10, <1>11 DEF Next, Step, Run

LEMMA NextSync == IInv /\ IInv' /\ SyncInv /\ [Next]_vars => SyncInv'
BY NextReached, NextGoesOn DEF SyncInv

\* The step with which a sync gives up is the last of its tries.
LEMMA GivesUp ==
  ASSUME IInv, SyncInv, Next, Runs({"sync"}), Behind, running' # running
  PROVE  missed' = Node /\ flaky
<1>1. TryClient
  <2>1. Run
    BY DEF Next, Step, NewBlock, SyncArrives, Ask, WebWorkerDies, work
  <2> QED
    BY <2>1 DEF Run, Take, Reject, SaveTransaction, CreateWallet, SyncEnds, ImportWithout,
                ImportHere, ImportAhead, Runs
<1>2. LastTry /\ missed' = missed \cup {Asking} /\ (height[Asking] <= wallet \/ flaky)
  BY <1>1 DEF TryClient
<1>3. missed = ClientsAsked
  BY <1>1 DEF TryClient, Runs, SyncInv, SyncGoesOn
<1>4. missed' = Node
  BY <1>2, <1>3, LastIsAll
<1>5. flaky
  BY <1>1, <1>2, AnotherIsLeft
<1> QED
  BY <1>4, <1>5

\* A sync gives up only after every bitcoind was asked for the block it wants and did
\* not give it, and never while all requests succeed: the height it was sent for was
\* reached by one of them (tryAllClients, _updateTip).
THEOREM EveryClientIsTried == Spec => SyncTriesEveryClient
<1>1. IInv /\ SyncInv /\ [Next]_vars =>
        [Runs({"sync"}) /\ Behind /\ running' # running => missed' = Node /\ flaky]_vars
  BY GivesUp
<1>2. Spec => []SyncInv
  BY InitSync, NextSync, Invariance, PTL DEF Spec
<1> QED
  BY <1>1, <1>2, Invariance, PTL DEF Spec, SyncTriesEveryClient
=============================================================================
