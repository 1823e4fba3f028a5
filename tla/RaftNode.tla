------------------------------- MODULE RaftNode -------------------------------
(***************************************************************************)
(* One member of a RustRaft group (struct RaftNode in src/lib.rs) as pure  *)
(* operators on a record.  RaftCluster holds a function from member ids to *)
(* such records.                                                           *)
(*                                                                         *)
(* A log is the sequence held by the Rust vector, in the order the entries *)
(* were pushed; an entry is [term, index, payload].  A snapshot is         *)
(* represented by the index of its last entry, 0 when there is none        *)
(* (every reader of installed_snapshot in the cluster takes that index or  *)
(* zero).                                                                  *)
(***************************************************************************)
EXTENDS RaftTypes

\* RaftNode::new; current_term, voted_for and committed are its hard state.
NewNode(role) ==
  [ replica_role |-> role, raft_role |-> IdleRole(role),
    current_term |-> 0, voted_for |-> None, committed |-> None,
    log |-> << >>, installed_snapshot |-> 0,
    commit_index |-> 0, applied_index |-> 0, healthy |-> TRUE ]

LastIndex(log) == IF log = << >> THEN 0 ELSE log[Len(log)].index

\* A log whose entries stand in index order.
Ordered(log) == \A j, k \in DOMAIN log : j < k => log[j].index < log[k].index

MatchIndex(node) == Max({LastIndex(node.log), node.installed_snapshot})

--------------------------------------------------------------------------------
\* Mutant: the entry with the same index is overwritten alone.
AppendEntryInPlace(log, e) ==
  LET same == {k \in DOMAIN log : log[k].index = e.index}
  IN  IF same = {} THEN Append(log, e) ELSE [log EXCEPT ![Min(same)] = e]

\* append_entry: an entry with the same index is overwritten together with
\* everything pushed after it; otherwise the entry goes to the end, whatever
\* its index.
AppendEntry(log, e) ==
  LET same == {k \in DOMAIN log : log[k].index = e.index}
  IN  IF same = {} THEN Append(log, e)
      ELSE Append(SubSeq(log, 1, Min(same) - 1), e)

\* A loop of append_entry over the entries es.  When no index occurs twice the
\* loop only pushes; that case is stated without the recursion.
AppendEntries(log, es) ==
  LET fresh == /\ \A i \in DOMAIN es, k \in DOMAIN log :
                     log[k].index # es[i].index
               /\ \A i, j \in DOMAIN es : es[i].index = es[j].index => i = j
      appended[i \in 0 .. Len(es)] ==
        IF i = 0 THEN log ELSE AppendEntry(appended[i - 1], es[i])
  IN  IF fresh THEN log \o es ELSE appended[Len(es)]

\* The entries of a log above an index, in their order (Vec::retain and
\* Iterator::filter): the j-th of them is the one with j - 1 such before it.
EntriesAbove(log, index) ==
  LET kept == {k \in DOMAIN log : log[k].index > index}
      nth(j) == CHOOSE k \in kept : Cardinality({m \in kept : m <= k}) = j
  IN  [j \in 1 .. Cardinality(kept) |-> log[nth(j)]]

\* Mutant: the commit index is followed beyond what the member holds.
AdvanceCommitUnclamped(node, commit_index) ==
  LET commit == Max({node.commit_index, commit_index})
  IN  [node EXCEPT !.commit_index  = commit,
                   !.applied_index = Max({@, commit}),
                   !.committed     = [term |-> node.current_term, index |-> commit]]

\* advance_commit: never beyond what the member holds, never backwards.
AdvanceCommit(node, commit_index) ==
  LET commit == Max({node.commit_index, Min({commit_index, MatchIndex(node)})})
  IN  [node EXCEPT
        !.commit_index  = commit,
        !.applied_index = IF CanServeData(node.replica_role)
                            THEN Max({node.applied_index, commit})
                            ELSE node.applied_index,
        !.committed     = IF commit > 0
                            THEN [term |-> node.current_term, index |-> commit]
                            ELSE None]

\* Mutant: the whole log goes.
InstallSnapshotClearing(node, snapshot_index) ==
  LET commit == Max({node.commit_index, snapshot_index})
  IN  [node EXCEPT
        !.installed_snapshot = snapshot_index,
        !.log                = << >>,
        !.commit_index       = commit,
        !.applied_index      = IF CanServeData(node.replica_role)
                                 THEN Max({node.applied_index, snapshot_index})
                                 ELSE node.applied_index,
        !.committed          = [term |-> node.current_term, index |-> commit]]

InstallSnapshot(node, snapshot_index) ==
  LET commit == Max({node.commit_index, snapshot_index})
  IN  [node EXCEPT
        !.installed_snapshot = snapshot_index,
        !.log                = EntriesAbove(node.log, snapshot_index),
        !.commit_index       = commit,
        !.applied_index      = IF CanServeData(node.replica_role)
                                 THEN Max({node.applied_index, snapshot_index})
                                 ELSE node.applied_index,
        !.committed          = [term |-> node.current_term, index |-> commit]]

CompactLogThrough(node, log_index) ==
  [node EXCEPT !.log = EntriesAbove(node.log, log_index)]

--------------------------------------------------------------------------------
(***************************************************************************)
(* The record wal_record_for(node) persists, and the checks recovery makes *)
(* on it.  rustraft_recover_latest_wal_record ignores a record that fails  *)
(* either check, so a member in such a state cannot save its progress.     *)
(***************************************************************************)
WalRecord(node) ==
  [ current_term |-> node.current_term, voted_for |-> node.voted_for,
    committed |-> node.committed, entries |-> node.log,
    installed_snapshot |-> node.installed_snapshot,
    applied_index |-> node.applied_index,
    commit_index |-> node.commit_index,
    first_retained_log_index |->
      IF node.installed_snapshot > 0 THEN node.installed_snapshot + 1
      ELSE IF node.log = << >> THEN 0 ELSE node.log[1].index ]

\* rustraft_validate_hard_state_persistence
HardStatePersistable(record) ==
  record.committed # None =>
    /\ record.committed.term <= record.current_term
    /\ record.committed.index
         <= Max({LastIndex(record.entries), record.installed_snapshot})

CommittedIndex(record) ==
  IF record.committed = None THEN 0 ELSE record.committed.index

\* rustraft_validate_apply_snapshot_fence.  wal_record_for derives the fence's
\* snapshot index and first retained index from the snapshot it stores, so the
\* two comparisons of the fence with the snapshot hold of every record.
ApplyFenceValid(record) ==
  /\ record.applied_index <= CommittedIndex(record)
  /\ record.commit_index = CommittedIndex(record)

Recoverable(record) == HardStatePersistable(record) /\ ApplyFenceValid(record)
================================================================================
