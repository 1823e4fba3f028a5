-------------------------- MODULE ReplicationPipeline --------------------------
(***************************************************************************)
(* One peer's replication pipeline (RaftReplicationPipeline, src/lib.rs)   *)
(* driven through every operation of its public interface, in any order.   *)
(*                                                                         *)
(* The pipeline is a passive object: the leader queues the entries it      *)
(* proposes (in log order, a refused entry consumes its index, as in       *)
(* RaftCluster::propose), and the caller relays the peer's responses,      *)
(* which may be late, duplicated or refer to any index of the log.         *)
(*                                                                         *)
(* Three history variables record what the environment did: the last index *)
(* offered, the indexes accepted, and the highest index acknowledged.      *)
(***************************************************************************)
EXTENDS PipelineOps

CONSTANTS
  Payload,       \* the payloads an entry may carry
  MaxIndex,      \* bound: the highest log index offered or acknowledged
  MaxRetries,    \* bound: consecutive rejections
  MaxChunks,     \* bound: chunks of a snapshot
  SnapshotIndex, \* the indexes of the snapshots transferred
  BatchEntries,  \* the max_entries arguments of flush_append_batch
  BatchBytes,    \* the max_bytes argument of flush_append_batch
  TickMs         \* the elapsed_ms arguments of record_retry_backoff_tick

ASSUME PipelineAssumption ==
  /\ Bytes \in [Payload -> Nat]
  /\ {MaxInflightsReplicate, MaxMemoryReplicateLogBytes, MaxApplyBatchBytes,
      ReorderWindowSize, MaxIndex, MaxRetries, MaxChunks, BatchBytes}
        \subseteq Nat
  /\ EnableReorderQueue \in BOOLEAN
  /\ SnapshotIndex \subseteq Nat
  /\ BatchEntries \subseteq Nat /\ TickMs \subseteq Nat
  /\ None \notin Nat \cup [snapshot_index : Nat, total_chunks : Nat,
                          acknowledged_chunks : Nat]

VARIABLES
  pipe,      \* the pipeline record of PipelineOps
  offered,   \* history: the last index handed to queue_append
  queued,    \* history: the indexes queue_append accepted
  acked      \* history: the highest match_index of a success response

vars == <<pipe, offered, queued, acked>>

Index == 0 .. MaxIndex

Init ==
  /\ pipe = NewPipeline(1)
  /\ offered = 0
  /\ queued = {}
  /\ acked = 0

--------------------------------------------------------------------------------
(* The append window.                                                        *)

\* queue_append: a refused entry leaves the pipeline as it was.
Queue(payload) ==
  LET e == [index |-> offered + 1, payload |-> payload]
  IN  /\ offered < MaxIndex
      /\ offered' = offered + 1
      /\ \/ /\ QueueAccepts(pipe, e)
            /\ pipe' = QueueAppend(pipe, e)
            /\ queued' = queued \cup {e.index}
         \/ /\ ~ QueueAccepts(pipe, e)
            /\ UNCHANGED <<pipe, queued>>
      /\ UNCHANGED acked

Flush(max_entries) ==
  /\ pipe' = FlushAppendBatch(pipe, max_entries, BatchBytes)
  /\ UNCHANGED <<offered, queued, acked>>

\* flush_append_window: batches of one entry.
FlushWindow ==
  /\ pipe' = FlushAppendBatch(pipe, 1, MaxApplyBatchBytes)
  /\ UNCHANGED <<offered, queued, acked>>

Accepted(match_index) ==
  /\ pipe' = HandleAppendSuccess(pipe, match_index)
  /\ acked' = Max({acked, match_index})
  /\ UNCHANGED <<offered, queued>>

Rejected(hint) ==
  /\ pipe.retry_attempts < MaxRetries
  /\ pipe' = HandleAppendRejection(pipe, hint)
  /\ UNCHANGED <<offered, queued, acked>>

Tick(elapsed_ms) ==
  /\ pipe' = RecordRetryBackoffTick(pipe, elapsed_ms)
  /\ UNCHANGED <<offered, queued, acked>>

--------------------------------------------------------------------------------
(* The reorder queue.                                                        *)

OutOfOrder(index) ==
  /\ OutOfOrderAccepts(pipe, index)
  /\ pipe' = ReceiveOutOfOrder(pipe, index)
  /\ UNCHANGED <<offered, queued, acked>>

Expire ==
  /\ pipe' = ExpireReorderQueue(pipe)
  /\ UNCHANGED <<offered, queued, acked>>

--------------------------------------------------------------------------------
(* Snapshot transfer.                                                        *)

BeginSend(snapshot_index, total_chunks) ==
  /\ BeginSnapshotAccepts(pipe)
  /\ pipe' = BeginSnapshotSend(pipe, snapshot_index, total_chunks)
  /\ UNCHANGED <<offered, queued, acked>>

BeginInstall(snapshot_index, total_chunks) ==
  /\ BeginSnapshotAccepts(pipe)
  /\ pipe' = BeginSnapshotInstall(pipe, snapshot_index, total_chunks)
  /\ UNCHANGED <<offered, queued, acked>>

AcknowledgeChunk ==
  /\ TransferActive(pipe)
  /\ pipe.snapshot_transfer.acknowledged_chunks < MaxChunks
  /\ pipe' = AcknowledgeSnapshotChunk(pipe)
  /\ UNCHANGED <<offered, queued, acked>>

ReceiveChunk(done) ==
  /\ TransferActive(pipe)
  /\ pipe.snapshot_transfer.acknowledged_chunks < MaxChunks
  /\ pipe' = ReceiveSnapshotChunk(pipe, done)
  /\ UNCHANGED <<offered, queued, acked>>

\* install_snapshot_to, whatever transfer is active.
Install(snapshot_index) ==
  /\ pipe' = InstalledPipeline(pipe, snapshot_index)
  /\ UNCHANGED <<offered, queued, acked>>

Rollback ==
  /\ pipe' = RollbackSnapshotInstall(pipe)
  /\ UNCHANGED <<offered, queued, acked>>

Next ==
  \/ \E payload \in Payload : Queue(payload)
  \/ \E max_entries \in BatchEntries : Flush(max_entries)
  \/ FlushWindow
  \/ \E match_index \in Index : Accepted(match_index)
  \/ \E hint \in Index \cup {None} : Rejected(hint)
  \/ \E elapsed_ms \in TickMs : Tick(elapsed_ms)
  \/ \E index \in Index : OutOfOrder(index)
  \/ Expire
  \/ \E index \in SnapshotIndex, chunks \in 0 .. MaxChunks : BeginSend(index, chunks)
  \/ \E index \in SnapshotIndex, chunks \in 0 .. MaxChunks : BeginInstall(index, chunks)
  \/ AcknowledgeChunk
  \/ \E done \in BOOLEAN : ReceiveChunk(done)
  \/ \E index \in SnapshotIndex : Install(index)
  \/ Rollback

Spec == Init /\ [][Next]_vars

--------------------------------------------------------------------------------
InflightSum(f(_)) ==
  SumFunction([k \in DOMAIN pipe.inflight |-> f(pipe.inflight[k])])

\* The counters flush_append_batch adds to and release_inflight_through
\* subtracts from (saturating) are exactly the sums over the batches in flight:
\* no sequence of batches, partial acknowledgements and duplicated responses
\* makes the window leak or the subtraction saturate.
InflightAccounting ==
  /\ pipe.inflight_entries = InflightSum(LAMBDA b : b.entry_count)
  /\ pipe.inflight_bytes   = InflightSum(LAMBDA b : b.bytes)

\* queue_append tests the memory limit over what is queued and in flight,
\* flush_append_batch tests the window before it sends: whatever moves between
\* the two, the limit holds, and only the newest batch overshoots the window.
LimitsKept ==
  LET w == pipe.inflight
  IN  /\ pipe.inflight_bytes + QueuedBytes(pipe) <= MaxMemoryReplicateLogBytes
      /\ w # << >> =>
           /\ pipe.inflight_entries - w[Len(w)].entry_count < MaxInflightsReplicate
           /\ w[Len(w)].entry_count <= MaxInflightsReplicate

\* The indexes the pipeline still has to deliver, batch by batch in flight
\* and then entry by entry in the queue.
Outstanding(i) ==
  \/ \E k \in DOMAIN pipe.inflight :
        pipe.inflight[k].first_index <= i /\ i <= pipe.inflight[k].last_index
  \/ \E k \in DOMAIN pipe.append_queue : pipe.append_queue[k].index = i

\* An accepted entry stays queued or in flight until a success response covers
\* it: batching, partial acknowledgements, rejections, snapshots and the reorder
\* queue never drop one.
NoEntryLost == \A i \in queued : i <= acked \/ Outstanding(i)

\* Entries leave in the order they were queued: the batches in flight follow
\* each other in log order and the queue continues where they end.
WindowOrdered ==
  LET w == pipe.inflight
      q == pipe.append_queue
  IN  /\ \A k \in DOMAIN w : w[k].first_index <= w[k].last_index
      /\ \A j, k \in DOMAIN w : j < k => w[j].last_index < w[k].first_index
      /\ \A j \in DOMAIN w, k \in DOMAIN q : w[j].last_index < q[k].index
      /\ \A j, k \in DOMAIN q : j < k => q[j].index < q[k].index

\* The flags that make a second transfer bounce (begin_snapshot_send and
\* begin_snapshot_install) and the transfer the chunk handlers work on are kept
\* in step by begin, finish and rollback: a peer is never left refusing
\* transfers with none active, nor with two directions active at once.
TransferFlagsAgree ==
  /\ TransferActive(pipe) <=> (pipe.snapshot_sending \/ pipe.snapshot_installing)
  /\ ~ (pipe.snapshot_sending /\ pipe.snapshot_installing)
================================================================================
