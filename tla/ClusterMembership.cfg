SPECIFICATION ExecutorSpec
CONSTANTS
  None = None
  Node = {1, 2, 3}
  InitialPeers <- MCTwoVoters
  AddablePeers <- MCAddablePeers
  Workflows <- MCWorkflows
  RemovablePeers = {1}
  AppendRequests = {}
  SnapshotIndexes = {}
  LeaseUpdates = {}
  Tails = {}
  Payload = {"small"}
  Bytes <- MCBytes
  MaxPayloadBytes = 2
  MaxInflightsReplicate = 1
  MaxMemoryReplicateLogBytes = 1
  MaxApplyBatchBytes = 2
  EnableReorderQueue = TRUE
  ReorderWindowSize = 1
  EnableLeaseRead = TRUE
  EnablePreVote = TRUE
  MaxTerm = 2
  MaxLogIndex = 2
  MaxAcknowledged = 2
INVARIANTS
  ElectionSafety
  OneVotePerTerm
  AcknowledgedOnce
  LogMatching
  RecordsRecoverable
  LeaseMeansHealthyLeader
  ReadyMeansHeld
PROPERTIES
  QuorumCommit
  WorkflowAtomic
  WorkflowKeepsLeader
  QuorumsOverlap
  PromotionKeepsMajority
