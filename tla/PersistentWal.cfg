CONSTANTS
  None = None
  MaxRecordsPerSegment = 2
  MinKeepSegments = 2
  Fences <- MCFences
  MaxAppends = 4
  MaxIndex = 2
  MaxFaults = 2

SPECIFICATION Spec
INVARIANTS
  RecordsInOrder
  SegmentIdsFresh
PROPERTIES
  OnlyNewestDamaged
  CompactionKeepsLatest
  FencedMeansDurable
CHECK_DEADLOCK FALSE
