------------------------------ MODULE PipelineOps ------------------------------
(***************************************************************************)
(* The per-peer replication pipeline of RustRaft (RaftReplicationPipeline  *)
(* in src/lib.rs) as pure operators on a record: RaftCluster keeps one     *)
(* such record per member, ReplicationPipeline drives one through every    *)
(* operation of its interface.                                             *)
(*                                                                         *)
(* An operator models the successful path of a method; the condition under *)
(* which a method returns Ok is an operator of its own (QueueAccepts,      *)
(* TransferActive).  The monotone counters of the status record            *)
(* (append_requests, oversized_log_rejections, bytes_sent ...) and its     *)
(* mirrors (queue depths, snapshot_installed_index, learner_caught_up ...) *)
(* are only ever reported, never read by the pipeline, and are left out.   *)
(***************************************************************************)
EXTENDS RaftTypes, Functions

CONSTANTS
  Bytes,                       \* payload -> its length in bytes
  MaxInflightsReplicate,       \* RustRaftPipelineLimits.max_inflights_replicate
  MaxMemoryReplicateLogBytes,  \* ... max_memory_replicate_log_bytes
  MaxApplyBatchBytes,          \* ... max_apply_batch_bytes
  EnableReorderQueue,          \* ... enable_reorder_queue
  ReorderWindowSize            \* ... reorder_window_size

(***************************************************************************)
(* RaftReplicationPipeline::new with RustRaftPeerPipelineStatus::new.      *)
(* append_queue holds log entries; inflight holds one record per batch;    *)
(* reorder_queue holds the indexes of the parked entries.                  *)
(***************************************************************************)
NewPipeline(next_index) ==
  [ match_index         |-> Max({next_index - 1, 0}),
    next_index          |-> next_index,
    append_queue        |-> << >>,
    inflight            |-> << >>,
    inflight_entries    |-> 0,
    inflight_bytes      |-> 0,
    retry_attempts      |-> 0,
    backoff_ms          |-> 0,
    next_retry_after_ms |-> 0,
    reorder_queue       |-> {},
    snapshot_sending    |-> FALSE,
    snapshot_installing |-> FALSE,
    snapshot_transfer   |-> None ]

--------------------------------------------------------------------------------
(***************************************************************************)
(* The append window: a bounded queue of entries not yet sent and the      *)
(* batches sent and not yet acknowledged.                                  *)
(***************************************************************************)
EntryBytes(e) == Bytes[e.payload]

\* The bytes of the first n entries of queue q.
PrefixBytes(q, n) ==
  SumFunctionOnSet([i \in DOMAIN q |-> EntryBytes(q[i])], 1 .. n)

QueuedBytes(p) == PrefixBytes(p.append_queue, Len(p.append_queue))

\* Mutant: the bytes in flight do not count.
QueueAcceptsQueuedOnly(p, e) ==
  /\ EntryBytes(e) <= MaxApplyBatchBytes
  /\ Len(p.append_queue) < MaxInflightsReplicate
  /\ QueuedBytes(p) + EntryBytes(e) <= MaxMemoryReplicateLogBytes

\* queue_append returns Ok: the entry fits an apply batch, the queue is not
\* full and the replication memory limit holds with the entry added.
QueueAccepts(p, e) ==
  /\ EntryBytes(e) <= MaxApplyBatchBytes
  /\ Len(p.append_queue) < MaxInflightsReplicate
  /\ p.inflight_bytes + QueuedBytes(p) + EntryBytes(e)
       <= MaxMemoryReplicateLogBytes

\* Mutant: the entry is pushed at the front.
QueueAppendFront(p, e) == [p EXCEPT !.append_queue = <<e>> \o @]

QueueAppend(p, e) == [p EXCEPT !.append_queue = Append(@, e)]

\* The batch the inner loop of flush_append_batch takes: the longest prefix of
\* the queue within the entry limit, within max_bytes (the first entry is
\* exempt) and within the replication memory.
BatchLength(p, max_entries, max_bytes) ==
  LET q == p.append_queue
      Fits(n) == /\ n <= Max({max_entries, 1})
                 /\ n <= 1 \/ PrefixBytes(q, n) <= Max({max_bytes, 1})
                 /\ p.inflight_bytes + PrefixBytes(q, n)
                      <= MaxMemoryReplicateLogBytes
  IN  Max({n \in 0 .. Len(q) : \A k \in 1 .. n : Fits(k)})

\* One iteration of the outer loop of flush_append_batch; the identity once the
\* loop would exit.
FlushOnce(p, max_entries, max_bytes) ==
  LET q == p.append_queue
      n == BatchLength(p, max_entries, max_bytes)
      batch == [ first_index |-> q[1].index, last_index |-> q[n].index,
                 entry_count |-> n, bytes |-> PrefixBytes(q, n) ]
  IN  IF p.inflight_entries < MaxInflightsReplicate /\ n > 0
        THEN [p EXCEPT !.append_queue     = SubSeq(q, n + 1, Len(q)),
                       !.inflight         = Append(@, batch),
                       !.inflight_entries = @ + n,
                       !.inflight_bytes   = @ + batch.bytes]
        ELSE p

\* Each iteration sends at least one entry, so Len(append_queue) of them reach
\* the state in which the loop exits.
FlushAppendBatch(p, max_entries, max_bytes) ==
  LET flushed[k \in 0 .. Len(p.append_queue)] ==
        IF k = 0 THEN p ELSE FlushOnce(flushed[k - 1], max_entries, max_bytes)
  IN  flushed[Len(p.append_queue)]

\* Mutants of ReleaseInflightThrough: the bytes of the released batches stay
\* counted; a batch is released once its first entry is acknowledged.
ReleaseKeepingBytes(p, match_index) ==
  LET left == SelectSeq(p.inflight, LAMBDA b : b.last_index > match_index)
  IN  [p EXCEPT !.inflight = left,
                !.inflight_entries =
                   SumFunction([k \in DOMAIN left |-> left[k].entry_count])]

ReleasePartlyAcknowledged(p, match_index) ==
  LET left == SelectSeq(p.inflight, LAMBDA b : b.first_index > match_index)
  IN  [p EXCEPT !.inflight = left,
                !.inflight_entries =
                   SumFunction([k \in DOMAIN left |-> left[k].entry_count]),
                !.inflight_bytes =
                   SumFunction([k \in DOMAIN left |-> left[k].bytes])]

\* release_inflight_through: pop the batches at the front of the window that
\* end at or below match_index; the subtractions saturate at zero.
ReleaseInflightThrough(p, match_index) ==
  LET w == p.inflight
      d == Max({n \in 0 .. Len(w) :
                  \A k \in 1 .. n : w[k].last_index <= match_index})
      released(f) == SumFunctionOnSet(f, 1 .. d)
  IN  [p EXCEPT
        !.inflight         = SubSeq(w, d + 1, Len(w)),
        !.inflight_entries =
           Max({@ - released([k \in DOMAIN w |-> w[k].entry_count]), 0}),
        !.inflight_bytes   =
           Max({@ - released([k \in DOMAIN w |-> w[k].bytes]), 0})]

--------------------------------------------------------------------------------
(***************************************************************************)
(* The reorder queue: entries received above next_index wait until the gap *)
(* below them is closed.                                                   *)
(***************************************************************************)
\* drain_reorder_queue: remove the run of parked indexes that starts at
\* next_index and advance over it.
DrainReorderQueue(p) ==
  LET last == Max({i \in {p.next_index - 1} \cup p.reorder_queue :
                     (p.next_index .. i) \subseteq p.reorder_queue})
      run  == p.next_index .. last
  IN  IF run = {} THEN p
      ELSE [p EXCEPT !.reorder_queue = @ \ run,
                     !.match_index   = last,
                     !.next_index    = last + 1]

OutOfOrderAccepts(p, index) ==
  \/ index = p.next_index
  \/ /\ index > p.next_index
     /\ EnableReorderQueue
     /\ Cardinality(p.reorder_queue) < ReorderWindowSize

ReceiveOutOfOrder(p, index) ==
  IF index = p.next_index
    THEN DrainReorderQueue([p EXCEPT !.match_index = index,
                                     !.next_index  = index + 1])
    ELSE [p EXCEPT !.reorder_queue = @ \cup {index}]

ExpireReorderQueue(p) == [p EXCEPT !.reorder_queue = {}]

--------------------------------------------------------------------------------
(***************************************************************************)
(* Responses, retries and the backoff between them.                        *)
(***************************************************************************)
MaxBackoffMs == 5000

\* next_backoff_ms: ten milliseconds doubled per attempt, capped.
NextBackoffMs(retry_attempts) ==
  LET shift == Min({Max({retry_attempts - 1, 0}), 10})
  IN  Min({10 * 2^shift, MaxBackoffMs})

HandleAppendSuccess(p, match_index) ==
  LET matched == Max({p.match_index, match_index})
      moved   == [p EXCEPT !.match_index = matched, !.next_index = matched + 1]
      drained == DrainReorderQueue(ReleaseInflightThrough(moved, match_index))
  IN  [drained EXCEPT !.retry_attempts      = 0,
                      !.backoff_ms          = 0,
                      !.next_retry_after_ms = 0]

\* rejection_hint is an index or None.
HandleAppendRejection(p, rejection_hint) ==
  LET attempts == p.retry_attempts + 1
      hint == IF rejection_hint = None THEN p.match_index ELSE rejection_hint
  IN  [p EXCEPT !.retry_attempts      = attempts,
                !.backoff_ms          = NextBackoffMs(attempts),
                !.next_retry_after_ms = NextBackoffMs(attempts),
                !.next_index          = hint + 1]

RecordRetryBackoffTick(p, elapsed_ms) ==
  [p EXCEPT !.next_retry_after_ms = Max({@ - elapsed_ms, 0})]

--------------------------------------------------------------------------------
(***************************************************************************)
(* Snapshot transfer: one at a time per peer, either sent or installed.    *)
(***************************************************************************)
TransferActive(p) == p.snapshot_transfer # None

NewTransfer(snapshot_index, total_chunks) ==
  [ snapshot_index |-> snapshot_index, total_chunks |-> total_chunks,
    acknowledged_chunks |-> 0 ]

BeginSnapshotAccepts(p) == ~ p.snapshot_sending /\ ~ p.snapshot_installing

BeginSnapshotSend(p, snapshot_index, total_chunks) ==
  [p EXCEPT !.snapshot_sending  = TRUE,
            !.snapshot_transfer = NewTransfer(snapshot_index, total_chunks)]

BeginSnapshotInstall(p, snapshot_index, total_chunks) ==
  [p EXCEPT !.snapshot_installing = TRUE,
            !.snapshot_transfer   = NewTransfer(snapshot_index, total_chunks)]

FinishSnapshotInstall(p) ==
  LET snapshot_index == p.snapshot_transfer.snapshot_index
      matched == Max({p.match_index, snapshot_index})
  IN  [p EXCEPT !.snapshot_transfer   = None,
                !.snapshot_sending    = FALSE,
                !.snapshot_installing = FALSE,
                !.match_index         = matched,
                !.next_index          = matched + 1]

CountChunk(p) == [p EXCEPT !.snapshot_transfer.acknowledged_chunks = @ + 1]

AcknowledgeSnapshotChunk(p) ==
  LET counted  == CountChunk(p)
      transfer == counted.snapshot_transfer
  IN  IF transfer.acknowledged_chunks >= transfer.total_chunks
        THEN FinishSnapshotInstall(counted)
        ELSE counted

ReceiveSnapshotChunk(p, done) ==
  IF done THEN FinishSnapshotInstall(CountChunk(p)) ELSE CountChunk(p)

\* The pipeline's part of install_snapshot_to, whose errors are dropped: the
\* transfer it begins is refused while another one is active, and the final
\* chunk then finishes that other transfer.
InstalledPipeline(p, snapshot_index) ==
  ReceiveSnapshotChunk(
    IF BeginSnapshotAccepts(p) THEN BeginSnapshotInstall(p, snapshot_index, 1)
    ELSE p, TRUE)

\* Mutant: an installation stays flagged.
RollbackSnapshotSendOnly(p) ==
  [p EXCEPT !.snapshot_transfer = None, !.snapshot_sending = FALSE]

RollbackSnapshotInstall(p) ==
  [p EXCEPT !.snapshot_transfer   = None,
            !.snapshot_sending    = FALSE,
            !.snapshot_installing = FALSE]
================================================================================
