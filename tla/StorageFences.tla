----------------------------- MODULE StorageFences -----------------------------
(***************************************************************************)
(* The validators of what storage and snapshots claim, as pure operators.  *)
(* Nothing in src/lib.rs but the fenced compaction and the installation of *)
(* a snapshot calls them; an embedder asks the others before it acts.      *)
(* A log id is a record of a term and an index, or None.                   *)
(***************************************************************************)
EXTENDS RaftTypes, Sequences

\* rustraft_validate_storage_apply_fence
StorageFenceValid(fence) ==
  /\ fence.durable_applied_index <= fence.applied_index
  /\ fence.applied_index <= fence.committed_index
  /\ fence.durable_applied_index <= fence.storage_flushed_index
  /\ fence.installed_snapshot_index <= fence.applied_index
  /\ fence.installed_snapshot_index > 0 =>
       fence.first_retained_log_index > fence.installed_snapshot_index

\* rustraft_validate_snapshot_floor_log_matching: the log starts above the
\* snapshot, and the previous entry is above it or is its last one.
SnapshotFloorMatches(last_log_id, first_retained, prev_log_id) ==
  /\ first_retained > 0 => first_retained > last_log_id.index
  /\ prev_log_id # None =>
       prev_log_id.index > last_log_id.index \/ prev_log_id = last_log_id

\* rustraft_validate_snapshot_install
SnapshotInstallValid(last_log_id, fence) ==
  /\ fence.installed_snapshot_index = last_log_id.index
  /\ SnapshotFloorMatches(last_log_id, fence.first_retained_log_index, last_log_id)

\* rustraft_validate_snapshot_tail_catchup
TailCatchUpValid(last_log_id, tail) ==
  \A k \in DOMAIN tail : tail[k].index = last_log_id.index + k

\* rustraft_append_safety_decision, for the indexes of a request's entries.
AppendSafety(first_retained, snapshot_index, prev_index, indexes) ==
  IF prev_index \in 1 .. first_retained - 1 /\ prev_index <= snapshot_index
    THEN "prev_log_compacted"
  ELSE IF \E i \in indexes : i < first_retained THEN "entry_compacted"
  ELSE "accepted"

\* rustraft_durability_parity_report, for a record that passes its own checks
\* and a recovery that found one: the checks of the snapshot hold when there is
\* none, and a report is ready only if the recovery did cut a damaged tail.
DurabilityBlockers(tail_cut, last_log_id, record_fence, tail, storage_fence) ==
  LET installed == last_log_id # None
  IN  {b \in {"corrupt_tail_truncated", "snapshot_install_valid",
              "snapshot_floor_preserved", "snapshot_tail_catchup_valid",
              "storage_apply_fence_valid"} :
         \/ b = "corrupt_tail_truncated" /\ ~ tail_cut
         \/ b = "snapshot_install_valid" /\ installed
              /\ ~ SnapshotInstallValid(last_log_id, record_fence)
         \/ b = "snapshot_floor_preserved" /\ installed
              /\ ~ SnapshotFloorMatches(last_log_id,
                     record_fence.first_retained_log_index, last_log_id)
         \/ b = "snapshot_tail_catchup_valid"
              /\ IF installed THEN ~ TailCatchUpValid(last_log_id, tail)
                 ELSE tail # << >>
         \/ b = "storage_apply_fence_valid" /\ ~ StorageFenceValid(storage_fence)}
================================================================================
