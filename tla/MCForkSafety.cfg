CONSTANTS
  Readers = {"heartbeat"}
  Callers = {"main", "agent"}
  MaxProcesses = 2
  MaxDrops = 2
  CounterMax = 1
SPECIFICATION ForkSpec
INVARIANTS TypesOK OneExecutor CountIsTrue
PROPERTIES NoThreadStuck
