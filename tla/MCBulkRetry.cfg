CONSTANTS
  a = a  b = b  c = c  d = d  e = e
  Requests <- MCRequests
  Attempts <- MCAttempts
  Others = {o1}
  MaxWorkers = 2
  HardCap = 4
  BatchSize = 2
  BreakAfter = 2
SPECIFICATION Spec
CHECK_DEADLOCK FALSE
INVARIANTS TypeOK SummaryIsTrue BreakerExact CapRespected
PROPERTIES BulkTerminates
