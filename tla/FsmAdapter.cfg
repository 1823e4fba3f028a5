CONSTANTS
  LogId <- MCLogId
  Batches <- MCBatches
  MaxCheckpoints = 2

SPECIFICATION Spec
INVARIANTS
  ResponsesAgree
PROPERTIES
  ImplementsAppliedLog
CHECK_DEADLOCK FALSE
