CONSTANTS
  Snapshot = {1, 2}
  Size <- MCSize
  ChunkSize = 2
  MaxChunksPerTick = 2
  MaxBytesPerTick = 3
  MaxRetryAttempts = 2
  MaxSends = 2
  MaxRollbacks = 1

SPECIFICATION LifecycleSpec
INVARIANTS
  InstalledWhole
  CompletedMeansInstalled
PROPERTIES
  SendEnds
CHECK_DEADLOCK FALSE
