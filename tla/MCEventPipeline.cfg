CONSTANTS
  Threads = {signals, monitor, child}
  Forked = {child}
  Capacity = 2
  CounterMax = 2
  MaxEvents = 5
SPECIFICATION FairSpec
CHECK_DEADLOCK FALSE
INVARIANTS LossIsCounted ThreadOrderKept
PROPERTIES EventuallyDelivered ImplementsLossyFifo
