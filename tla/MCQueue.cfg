SPECIFICATION Spec
CONSTANTS
  Task <- MCTask
  MethodOf <- MCMethodOf
  Worker = {"w1", "w2"}
  WorkerOf <- MCWorkerOf
  Mortal = {"w2"}
  MaxWorkQueue = 2
  Nodes = 2
  TopHeight = 1
  None = None
INVARIANTS QueueBound FirstAskedFirstServed RetryFindsItsSync
PROPERTIES SyncTriesEveryClient DeferredOnce EveryTaskIsAnswered StaysAtTip
CHECK_DEADLOCK FALSE
