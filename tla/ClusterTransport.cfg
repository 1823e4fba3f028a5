SPECIFICATION Spec
CONSTANTS
  None = None
  Node = {1, 2}
  InitialPeers <- MCTwoPeers
  AddablePeers = {}
  RemovablePeers = {}
  AppendRequests <- MCAppendRequests
  SnapshotIndexes = {1}
  LeaseUpdates = {}
  Tails <- MCTails
  Payload = {"small"}
  Bytes <- MCBytes
  MaxPayloadBytes = 2
  MaxInflightsReplicate = 1
  MaxMemoryReplicateLogBytes = 1
  MaxApplyBatchBytes = 2
  EnableReorderQueue = TRUE
  ReorderWindowSize = 1
  EnableLeaseRead = TRUE
  EnablePreVote = TRUE
  MaxTerm = 1
  MaxLogIndex = 2
  MaxAcknowledged = 2
INVARIANTS
  ClusterIndexesCover
  VerdictsAgree
  AnswersMatchTheLog
PROPERTIES
  MembersKeepProgress
