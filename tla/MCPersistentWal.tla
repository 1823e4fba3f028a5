---------------------------- MODULE MCPersistentWal ----------------------------
EXTENDS PersistentWal, LocalWal

\* Committed, applied, durable, flushed, snapshot, first retained.
MCFence(c, a, d, f, s, r) ==
  [ committed_index |-> c, applied_index |-> a, durable_applied_index |-> d,
    storage_flushed_index |-> f, installed_snapshot_index |-> s,
    first_retained_log_index |-> r ]

\* Up to date; durable or flushed behind; flushed behind durable; a log that
\* overlaps the snapshot.
MCFences ==
  { MCFence(2, 2, 2, 2, 0, 0), MCFence(2, 2, 1, 2, 1, 2), MCFence(2, 2, 0, 2, 0, 0),
    MCFence(2, 2, 2, 1, 0, 0), MCFence(2, 2, 2, 2, 1, 1), MCFence(1, 2, 2, 2, 0, 0) }

--------------------------------------------------------------------------------
(***************************************************************************)
(* The log in memory after every sequence of at most six operations.      *)
(* Reference: one flat sequence of records.                                *)
(***************************************************************************)
MCMaxRecords == 2

MCOps == {"append", "corrupt", "recover"}

MCLocalAfter(ops) ==
  LET after[k \in 0 .. Len(ops)] ==
        IF k = 0 THEN NewLocalWal
        ELSE CASE ops[k] = "append" ->
                    LocalAppend(after[k - 1], [id |-> k, valid |-> FALSE], MCMaxRecords)
               [] ops[k] = "corrupt" -> CorruptTail(after[k - 1])
               [] OTHER -> LocalRecover(after[k - 1], MCMaxRecords)
  IN  after[Len(ops)]

\* Only an append makes a record, only a recovery cuts, from the end on, and
\* what it leaves counts as valid if it cut.
MCReference(ops) ==
  LET valid(s) == [i \in DOMAIN s |-> [s[i] EXCEPT !.valid = TRUE]]
      damaged(s, k) == k > 0 /\ ~ s[k].valid
      cut(s) == LET n == CHOOSE n \in 0 .. Len(s) :
                           ~ damaged(s, n) /\ \A k \in n + 1 .. Len(s) : damaged(s, k)
                IN  IF n = Len(s) THEN s ELSE valid(SubSeq(s, 1, n))
      after[k \in 0 .. Len(ops)] ==
        IF k = 0 THEN << >>
        ELSE CASE ops[k] = "append" -> Append(after[k - 1], [id |-> k, valid |-> TRUE])
               [] ops[k] = "corrupt" ->
                    [i \in DOMAIN after[k - 1] |->
                       IF i = Len(after[k - 1]) THEN [after[k - 1][i] EXCEPT !.valid = FALSE]
                       ELSE after[k - 1][i]]
               [] OTHER -> cut(after[k - 1])
  IN  after[Len(ops)]

\* The segments are the flat sequence cut into full pieces, numbered from zero;
\* after a recovery the last record is a valid one, and after one that cut the
\* next recovery sees every record that is left.
ASSUME LocalWalIsTheSequence ==
  \A ops \in UNION {[1 .. n -> MCOps] : n \in 0 .. 6} :
    LET wal == MCLocalAfter(ops)
    IN  /\ LocalRecords(wal) = MCReference(ops)
        /\ wal.next_segment_id = Len(wal.segments)
        /\ \A k \in DOMAIN wal.segments :
             /\ wal.segments[k].segment_id = k - 1
             /\ k < Len(wal.segments) => Len(wal.segments[k].records) = MCMaxRecords
        /\ LET left == LocalRecords(LocalRecover(wal, MCMaxRecords))
           IN  /\ left # << >> => Last(left).valid
               /\ left # LocalRecords(wal) => BeforeDamage(left) = left

\* Sorted is the order the ids of a directory are read in.
ASSUME SortedIsTheOrder ==
  \A ids \in SUBSET (0 .. 6) : Sorted(ids) = SetToSortSeq(ids, <)

--------------------------------------------------------------------------------
MCLogIds == [term : 1 .. 2, index : 0 .. 2]

\* The validators together: a snapshot that may be installed lets its own tail
\* follow, a tail that follows has no entry the append decision calls compacted,
\* and a valid storage fence never claims a durable index nobody committed.
ASSUME FencesAgree ==
  \A snapshot \in MCLogIds, first \in 0 .. 3, indexes \in [1 .. 2 -> 0 .. 4] :
    LET fence == [installed_snapshot_index |-> snapshot.index,
                  first_retained_log_index |-> first]
        tail  == [k \in 1 .. 2 |-> [index |-> indexes[k]]]
    IN  /\ SnapshotInstallValid(snapshot, fence) <=>
             first = 0 \/ first > snapshot.index
        /\ TailCatchUpValid(snapshot, tail) /\ first <= snapshot.index + 1 =>
             /\ AppendSafety(first, snapshot.index, 0, {indexes[1], indexes[2]})
                  = "accepted"
             /\ AppendSafety(first, snapshot.index, snapshot.index,
                             {indexes[1], indexes[2]}) # "entry_compacted"
        /\ \A f \in MCFences :
             /\ StorageFenceValid(f) =>
                  f.durable_applied_index <= f.committed_index
             /\ DurabilityBlockers(TRUE, snapshot, fence, tail, f) = {} =>
                  /\ StorageFenceValid(f)
                  /\ \A k \in 1 .. 2 : tail[k].index > snapshot.index
================================================================================
