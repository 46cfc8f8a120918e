CONSTANTS
  Names = {"a"}
  Files = {1, 2}
  QueueMax = 2
  MaxEdits = 4
SPECIFICATION WatchSpec
INVARIANTS ViewIsLastSnapshot StepBackIsMended
PROPERTY SavesAreReported
