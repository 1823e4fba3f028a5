SPECIFICATION TransportsSpec
CONSTANTS
  None = None
  Wake = wake
  Caller = {c1, c2}
  SilentPeer = {s1}
  Requests <- MCRequests
  Addressed = {0, 1}
  Registrable = {1}
  Validating = TRUE
INVARIANTS
  AnsweredMeansHandled
PROPERTIES
  CallsReturn
  ShutdownReturns
