SPECIFICATION RuntimeSpec
CONSTANTS
  None = None
  Node = {1, 2, 3}
  InitialPeers <- MCInitialPeers
  AddablePeers = {}
  RemovablePeers = {}
  AppendRequests = {}
  SnapshotIndexes = {}
  LeaseUpdates = {}
  Tails = {}
  Payload = {"small"}
  Bytes <- MCBytes
  MaxPayloadBytes = 2
  MaxInflightsReplicate = 1
  MaxMemoryReplicateLogBytes = 2
  MaxApplyBatchBytes = 2
  EnableReorderQueue = TRUE
  ReorderWindowSize = 1
  EnableLeaseRead = TRUE
  EnablePreVote = TRUE
  MaxTerm = 2
  MaxLogIndex = 2
  MaxAcknowledged = 2
PROPERTY
  FinalLeaderHasCommitted
