SPECIFICATION Spec
CONSTANTS
  None = None
  Payload <- MCPayload
  Bytes <- MCBytes
  MaxInflightsReplicate = 2
  MaxMemoryReplicateLogBytes = 4
  MaxApplyBatchBytes = 2
  EnableReorderQueue = TRUE
  ReorderWindowSize = 1
  MaxIndex = 3
  MaxRetries = 1
  MaxChunks = 1
  SnapshotIndex = {2}
  BatchEntries = {2}
  BatchBytes = 3
  TickMs = {10}
INVARIANTS
  InflightAccounting
  LimitsKept
  NoEntryLost
  WindowOrdered
  TransferFlagsAgree
