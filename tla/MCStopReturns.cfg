SPECIFICATION Spec
CONSTANTS
  Slot = {"s1", "s2"}
  MaxDeaths = 1
INVARIANT StopExitsAll
CHECK_DEADLOCK FALSE
