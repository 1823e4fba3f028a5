SPECIFICATION NodeSpec
CONSTANTS
  None = None
  Node = {1, 2}
  NodeId = 2
  InitialPeers <- MCPeers
  AddablePeers = {}
  RemovablePeers = {}
  AppendRequests = {}
  SnapshotIndexes = {}
  LeaseUpdates = {FALSE}
  Tails = {}
  Payload <- MCPayload
  Bytes <- MCBytes
  MaxPayloadBytes = 1
  MaxInflightsReplicate = 1
  MaxMemoryReplicateLogBytes = 1
  MaxApplyBatchBytes = 1
  EnableReorderQueue = TRUE
  ReorderWindowSize = 1
  MaxTerm = 3
  MaxLogIndex = 3
  MaxAcknowledged = 3
  MaxFaults = 2
INVARIANTS
  RepliedOnce
  RepliedDurable
