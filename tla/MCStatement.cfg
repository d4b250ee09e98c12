SPECIFICATION Spec
CONSTANTS
  Amount = {0, 1, 2}
  MaxInputs = 2
  MaxOutputs = 3
  NaN = NaN
  NoLine = NoLine
INVARIANTS StatementAddsUp FeeIsTheFee
CHECK_DEADLOCK FALSE
