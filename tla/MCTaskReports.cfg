CONSTANTS
  Tasks <- MCTasks
  HostOf <- MCHostOf
  MetaOf <- MCMetaOf
  KwargsOf <- MCKwargsOf
  Sensitive = {"password", "token"}
  MaxAttempts <- MCMaxAttempts
SPECIFICATION Spec
CHECK_DEADLOCK FALSE
INVARIANTS EachStepReported ReportsInOrder SignalsApplyMeta
