SPECIFICATION Spec
CONSTANTS
  Slot = {"s1", "s2"}
  MaxDeaths = 1
INVARIANT WriterIsTold
PROPERTY ServiceEnds
CHECK_DEADLOCK FALSE
