SPECIFICATION Spec
CONSTANTS
  MagicLen = 4
  LengthBytes <- MCLengthBytes
  Payload <- MCPayload
INVARIANTS InOrderOnce OnlyTailCutsLose OnlyHeadCutsKill
PROPERTIES EveryMessageArrives
CHECK_DEADLOCK FALSE
