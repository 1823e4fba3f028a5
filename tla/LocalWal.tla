------------------------------- MODULE LocalWal -------------------------------
(***************************************************************************)
(* The write-ahead log kept in memory (LocalRaftWal) as pure operators.    *)
(* A log is the sequence of its segments and the next segment's id; a      *)
(* record is what was appended and whether its checksum matches.           *)
(***************************************************************************)
EXTENDS Naturals, SequencesExt

LocalSegment(id) == [segment_id |-> id, records |-> << >>]

NewLocalWal == [segments |-> << LocalSegment(0) >>, next_segment_id |-> 1]

\* A full last segment is sealed and followed by a new one.
RolledIfFull(wal, max_records) ==
  IF Len(Last(wal.segments).records) < max_records THEN wal
  ELSE [segments |-> Append(wal.segments, LocalSegment(wal.next_segment_id)),
        next_segment_id |-> wal.next_segment_id + 1]

\* append computes the record's checksum, so what it stores is valid.
LocalAppend(wal, record, max_records) ==
  LET rolled == RolledIfFull(wal, max_records)
  IN  [rolled EXCEPT !.segments[Len(rolled.segments)].records =
         Append(@, [record EXCEPT !.valid = TRUE])]

LocalRecords(wal) ==
  FlattenSeq([k \in DOMAIN wal.segments |-> wal.segments[k].records])

\* corrupt_tail_for_test
CorruptTail(wal) ==
  LET last == Last(wal.segments).records
  IN  IF last = << >> THEN wal
      ELSE [wal EXCEPT !.segments[Len(wal.segments)].records[Len(last)].valid = FALSE]

\* The records without the damaged ones at the end.
WithoutDamagedTail(records) ==
  SubSeq(records, 1, Max({0} \cup {k \in DOMAIN records : records[k].valid}))

\* recover rebuilds the log from the records left if it cut any: damaged ones
\* between them get a checksum that matches again.
LocalRecover(wal, max_records) ==
  LET records == LocalRecords(wal)
      left    == WithoutDamagedTail(records)
      rebuilt[k \in 0 .. Len(left)] ==
        IF k = 0 THEN NewLocalWal
        ELSE LocalAppend(rebuilt[k - 1], left[k], max_records)
  IN  IF left = records THEN wal ELSE rebuilt[Len(left)]

\* What recover reports as recovered is searched among the records up to the
\* first damaged one.
BeforeDamage(records) ==
  SubSeq(records, 1, Min({Len(records)} \cup
                         {k - 1 : k \in {j \in DOMAIN records : ~ records[j].valid}}))
================================================================================
