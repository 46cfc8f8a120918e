CONSTANTS
  q1 = q1  q2 = q2
  MaxDepth = 3
  Threshold = 2
  Requests <- MCRequests
  NoToken = NoToken
  NoDepth = NoDepth
  Others = {o1}
  MaxWorkers = 1
SPECIFICATION Spec
CHECK_DEADLOCK FALSE
INVARIANTS TypeOK PurgeWasConfirmed
PROPERTIES AnswerSettles PurgeTerminates
