CONSTANTS
  mixed = mixed  cut = cut
  Messages = {mixed, cut}
  Body <- MCBody
  MaxMonitors = 2
  MaxFaults = 2
SPECIFICATION MonitorSpec
CHECK_DEADLOCK FALSE
INVARIANTS MonitorTypeOK  AckedMeansDispatched
PROPERTIES NothingBlocks LivesWhileWanted
