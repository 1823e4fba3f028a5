CONSTANTS
  None = None
  MaxRecordsPerSegment = 2
  MinKeepSegments = 2
  Fences <- MCFences
  MaxAppends = 3
  MaxIndex = 1
  MaxFaults = 1

SPECIFICATION Spec
INVARIANT CommittedWriteSurvivesRestart

CHECK_DEADLOCK FALSE
