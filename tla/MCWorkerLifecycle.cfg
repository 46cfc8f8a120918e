CONSTANTS
  Invocations <- MCInvocations
  Settings <- MCSettings
  PoolSize = 2
  MaxChildren = 3
  MaxAgents = 2
SPECIFICATION WorkerSpec
CHECK_DEADLOCK FALSE
INVARIANTS WorkerTypeOK OneAgent 
PROPERTIES NobodyWaitsForEver
