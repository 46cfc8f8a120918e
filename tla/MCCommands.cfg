CONSTANTS
  Calls = {1, 2, 3}
  MaxWorkers = 1
  EtaMaxPast = 2
  EtaMaxFuture = 5
  Scenarios <- MCScenarios
SPECIFICATION CommandsSpec
CHECK_DEADLOCK FALSE
INVARIANTS HonestAnswer SentAsAsked LabelsKeepTheirOrder
PROPERTIES NoStartAfterAnswer AnsweredUnlessLoopHeld ImplementsContract
