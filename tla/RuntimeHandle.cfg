SPECIFICATION HandleSpec
CONSTANTS
  None = None
  Caller = {c1, c2}
  MaxLifecycle = 4
INVARIANTS
  AnsweredMeansExecuted
  StatesAgree
  ShutdownIsFinal
PROPERTY
  ThreadEnds
CHECK_DEADLOCK FALSE
