CONSTANTS
  a = a  b = b  c = c  d = d  e = e
  Requests <- NegativeMax
  Attempts <- MCAttempts
  Others = {}
  MaxWorkers = 2
  HardCap = 2
  BatchSize = 2
  BreakAfter = 3
SPECIFICATION Spec
CHECK_DEADLOCK FALSE
INVARIANT TouchedWithinHardCap
