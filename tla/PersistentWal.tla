----------------------------- MODULE PersistentWal -----------------------------
(***************************************************************************)
(* The write-ahead log of RustRaft: struct PersistentRaftWal in src/lib.rs.*)
(*                                                                         *)
(* A log is a directory of numbered segment files of one record per line.  *)
(* append and compact_through are split at their file operations: between  *)
(* any two of them the process may die (Crash) or the operation may return *)
(* an error to a caller that goes on (the actions whose name ends in       *)
(* Fails).  A write that is cut short leaves nothing, a part of the line,  *)
(* or the line without its newline.                                        *)
(*                                                                         *)
(* A record is its position in the order of appends and its committed      *)
(* index; the log holds records of one member, whose committed index never *)
(* falls.  The record's size matters only to the byte limit of a segment,  *)
(* so an append chooses whether it exceeds that limit.  fsync_on_append is *)
(* on: what a completed write left is still there after a crash.  The      *)
(* sealed flags and the released count are only reported and left out.     *)
(***************************************************************************)
EXTENDS StorageFences, SequencesExt

CONSTANTS
  MaxRecordsPerSegment,  \* PersistentRaftWalOptions.max_records_per_segment
  MinKeepSegments,       \* PersistentRaftWalOptions.min_keep_segments
  Fences,                \* the fences a fenced compaction may be given
  MaxAppends,            \* bound: appends begun
  MaxIndex,              \* bound: committed indexes
  MaxFaults              \* bound: crashes and failed file operations

ASSUME WalAssumption ==
  /\ MaxRecordsPerSegment \in Nat \ {0} /\ MinKeepSegments \in Nat \ {0}
  /\ Fences \subseteq
       [ committed_index : Nat, applied_index : Nat, durable_applied_index : Nat,
         storage_flushed_index : Nat, installed_snapshot_index : Nat,
         first_retained_log_index : Nat ]
  /\ MaxAppends \in Nat /\ MaxIndex \in Nat /\ MaxFaults \in Nat

VARIABLES
  disk,             \* segment id -> file
  segments,         \* memory: sequence of [segment_id, records]
  next_segment_id,
  step,             \* the file operation that comes next
  pending,          \* the last record handed to append, or recovered
  rewritten,        \* records of the sealed segment written again so far
  removing,         \* segment ids compact_through still has to remove
  appends,          \* history: appends begun
  returned,         \* history: the records append returned Ok for
  released,         \* history: the records in the files compaction removed
  faults            \* history: crashes and failed file operations

vars == <<disk, segments, next_segment_id, step, pending, rewritten, removing,
          appends, returned, released, faults>>

memory == <<segments, next_segment_id>>
history == <<appends, returned, released>>

NoRecord == [id |-> 0, index |-> 0]

--------------------------------------------------------------------------------
(***************************************************************************)
(* Files.  A line holds the records whose text runs into it: exactly one   *)
(* if the line can be decoded, more if a record followed an unended line.  *)
(***************************************************************************)
EmptyFile == [lines |-> << >>, ended |-> TRUE]

Readable(line) == Len(line.records) = 1 /\ ~ line.torn

\* The file after the text of a record, or a part of it, and no newline yet.
WithText(file, records, torn) ==
  LET last == Last(file.lines)
  IN  [ lines |-> IF file.ended
                    THEN Append(file.lines, [records |-> records, torn |-> torn])
                    ELSE Append(Front(file.lines),
                                [records |-> last.records \o records,
                                 torn    |-> last.torn \/ torn]),
        ended |-> FALSE ]

WithRecord(file, r) == [WithText(file, <<r>>, FALSE) EXCEPT !.ended = TRUE]

\* What a write of r that stops before its newline may leave.
CutShort(file, r) ==
  {file, WithText(file, << >>, TRUE), WithText(file, <<r>>, FALSE)}

\* read_wal_segment_file keeps the lines before the first it cannot decode, and
\* cuts the file there.
Truncated(file) ==
  LET bad == {k \in DOMAIN file.lines : ~ Readable(file.lines[k])}
  IN  IF bad = {} THEN file
      ELSE [lines |-> SubSeq(file.lines, 1, Min(bad) - 1), ended |-> TRUE]

Records(file) ==
  [k \in DOMAIN Truncated(file).lines |-> file.lines[k].records[1]]

\* Numbers in their order: the j-th is the one with j of them up to it.
Sorted(numbers) ==
  LET nth(j) == CHOOSE i \in numbers : Cardinality({m \in numbers : m <= i}) = j
  IN  [j \in 1 .. Cardinality(numbers) |-> nth(j)]

\* The segments of the files with these ids.
SegmentsOf(files, ids) ==
  [k \in DOMAIN ids |->
     [segment_id |-> ids[k], records |-> Records(files[ids[k]])]]

\* Mutant: the files are not sorted by id.
ReadSegmentsBackwards(files) == SegmentsOf(files, Reverse(Sorted(DOMAIN files)))

\* The segments of a directory in the order of their ids.
ReadSegments(files) == SegmentsOf(files, Sorted(DOMAIN files))

AllRecords(segs) == FlattenSeq([k \in DOMAIN segs |-> segs[k].records])

\* rustraft_recover_latest_wal_record: the last of the records with the highest
\* committed index.
LatestOf(records) ==
  LET highest == Max({records[k].index : k \in DOMAIN records})
  IN  IF records = << >> THEN NoRecord
      ELSE records[Max({k \in DOMAIN records : records[k].index = highest})]

LastIndexOf(segment) ==
  IF segment.records = << >> THEN 0 ELSE Last(segment.records).index

ActiveId == Last(segments).segment_id

ActiveRecords == Last(segments).records

--------------------------------------------------------------------------------
Init ==
  /\ disk = << >>
  /\ segments = << >> /\ next_segment_id = 0
  /\ step = "closed" /\ pending = NoRecord
  /\ rewritten = 0 /\ removing = {}
  /\ appends = 0 /\ returned = {} /\ released = {} /\ faults = 0

\* Mutants of Load: the next id is the number of files; it follows the first one.
LoadCountingFiles ==
  LET files == IF DOMAIN disk = {} THEN [i \in {0} |-> EmptyFile]
               ELSE [i \in DOMAIN disk |-> Truncated(disk[i])]
  IN  /\ disk' = files
      /\ segments' = ReadSegments(files)
      /\ next_segment_id' = Cardinality(DOMAIN files)
      /\ pending' = LatestOf(AllRecords(segments'))
      /\ step' = "idle"
      /\ UNCHANGED <<rewritten, removing, history, faults>>

LoadBehindFirst ==
  LET files == IF DOMAIN disk = {} THEN [i \in {0} |-> EmptyFile]
               ELSE [i \in DOMAIN disk |-> Truncated(disk[i])]
  IN  /\ disk' = files
      /\ segments' = ReadSegments(files)
      /\ next_segment_id' = Min(DOMAIN files) + 1
      /\ pending' = LatestOf(AllRecords(segments'))
      /\ step' = "idle"
      /\ UNCHANGED <<rewritten, removing, history, faults>>

\* open and recover read the directory, cutting damaged files, and go on behind
\* the last segment; the member continues from the record recovered.
Load ==
  LET files == IF DOMAIN disk = {} THEN [i \in {0} |-> EmptyFile]
               ELSE [i \in DOMAIN disk |-> Truncated(disk[i])]
  IN  /\ disk' = files
      /\ segments' = ReadSegments(files)
      /\ next_segment_id' = Max(DOMAIN files) + 1
      /\ pending' = LatestOf(AllRecords(segments'))
      /\ step' = "idle"
      /\ UNCHANGED <<rewritten, removing, history, faults>>

Open == step = "closed" /\ Load

Recover == step = "idle" /\ Load

Close ==
  /\ step = "idle"
  /\ step' = "closed"
  /\ segments' = << >> /\ next_segment_id' = 0 /\ pending' = NoRecord
  /\ UNCHANGED <<disk, rewritten, removing, history, faults>>

--------------------------------------------------------------------------------
(***************************************************************************)
(* append.                                                                 *)
(***************************************************************************)
Handed(index) ==
  /\ step = "idle"
  /\ appends < MaxAppends /\ index >= pending.index
  /\ appends' = appends + 1
  /\ pending' = [id |-> appends + 1, index |-> index]

SegmentFull == Len(ActiveRecords) >= MaxRecordsPerSegment

\* The record fits into the active segment.
BeginAppend(index) ==
  /\ Handed(index)
  /\ ~ SegmentFull
  /\ step' = "writing"
  /\ UNCHANGED <<disk, memory, rewritten, removing, returned, released, faults>>

\* roll_segment: the active segment is full, or it holds records and this one
\* exceeds its bytes.  The segment's file is created anew, which empties it.
BeginRoll(index) ==
  /\ Handed(index)
  /\ SegmentFull \/ ActiveRecords # << >>
  /\ disk' = [disk EXCEPT ![ActiveId] = EmptyFile]
  /\ step' = "rewriting" /\ rewritten' = 0
  /\ UNCHANGED <<memory, removing, returned, released, faults>>

\* write_wal_segment_file writes the segment's records from memory.
Rewrite ==
  /\ step = "rewriting" /\ rewritten < Len(ActiveRecords)
  /\ disk' = [disk EXCEPT ![ActiveId] =
                WithRecord(@, ActiveRecords[rewritten + 1])]
  /\ rewritten' = rewritten + 1
  /\ UNCHANGED <<memory, step, pending, removing, history, faults>>

\* The file of the next segment, created anew too.
WithNextSegment(files) ==
  [i \in DOMAIN files \cup {next_segment_id} |->
     IF i = next_segment_id THEN EmptyFile ELSE files[i]]

CreateSegment ==
  /\ step = "rewriting" /\ rewritten = Len(ActiveRecords)
  /\ disk' = WithNextSegment(disk)
  /\ segments' = Append(segments,
                        [segment_id |-> next_segment_id, records |-> << >>])
  /\ next_segment_id' = next_segment_id + 1
  /\ step' = "writing" /\ rewritten' = 0
  /\ UNCHANGED <<pending, removing, history, faults>>

\* The line is written and synced, memory follows, and append returns.
Write ==
  /\ step = "writing"
  /\ disk' = [disk EXCEPT ![ActiveId] = WithRecord(@, pending)]
  /\ segments' = [segments EXCEPT ![Len(segments)].records = Append(@, pending)]
  /\ returned' = returned \cup {pending}
  /\ step' = "idle"
  /\ UNCHANGED <<next_segment_id, pending, rewritten, removing, appends,
                 released, faults>>

--------------------------------------------------------------------------------
(***************************************************************************)
(* compact_through.                                                        *)
(***************************************************************************)
\* Mutant: one segment too few is kept.
RemovableOneMore(log_index) ==
  {k \in 1 .. Len(segments) - MinKeepSegments + 1 :
     LastIndexOf(segments[k]) \in 1 .. log_index}

Removable(log_index) ==
  {k \in 1 .. Len(segments) - MinKeepSegments :
     LastIndexOf(segments[k]) \in 1 .. log_index}

BeginCompact(log_index) ==
  /\ step = "idle"
  /\ Removable(log_index) # {}
  /\ removing' = {segments[k].segment_id : k \in Removable(log_index)}
  /\ step' = "compacting"
  /\ UNCHANGED <<disk, memory, pending, rewritten, history, faults>>

\* Mutant: the fence's durable index is not compared.
FenceCoversFlushed(fence, log_index) ==
  StorageFenceValid(fence) /\ fence.storage_flushed_index >= log_index

FenceCovers(fence, log_index) ==
  /\ StorageFenceValid(fence)
  /\ fence.durable_applied_index >= log_index
  /\ fence.storage_flushed_index >= log_index

\* compact_through_with_fence: a fence that is not valid, or behind the index,
\* releases nothing.
BeginFencedCompact(log_index, fence) ==
  /\ FenceCovers(fence, log_index)
  /\ BeginCompact(log_index)

\* One file after the other, lowest id first; a missing file is passed over.
RemoveFile ==
  LET id == Min(removing \cap DOMAIN disk)
  IN  /\ step = "compacting" /\ removing \cap DOMAIN disk # {}
      /\ disk' = [i \in DOMAIN disk \ {id} |-> disk[i]]
      /\ released' = released \cup
           UNION {ToSet(segments[k].records) :
                    k \in {j \in DOMAIN segments : segments[j].segment_id = id}}
      /\ UNCHANGED <<memory, step, pending, rewritten, removing, appends,
                     returned, faults>>

EndCompact ==
  /\ step = "compacting" /\ removing \cap DOMAIN disk = {}
  /\ LET kept == Sorted({k \in DOMAIN segments :
                            segments[k].segment_id \notin removing})
     IN  segments' = [j \in DOMAIN kept |-> segments[kept[j]]]
  /\ step' = "idle" /\ removing' = {}
  /\ UNCHANGED <<disk, next_segment_id, pending, rewritten, history, faults>>

--------------------------------------------------------------------------------
(***************************************************************************)
(* Faults.                                                                 *)
(***************************************************************************)
\* What the operation under way may leave of the active file if it stops now.
Interrupted ==
  IF step = "rewriting" /\ rewritten < Len(ActiveRecords)
    THEN CutShort(disk[ActiveId], ActiveRecords[rewritten + 1])
  ELSE IF step = "writing" THEN CutShort(disk[ActiveId], pending)
  ELSE {disk[ActiveId]}

\* The process dies and its memory with it.
Crash ==
  /\ step # "closed" /\ faults < MaxFaults
  /\ \E file \in Interrupted : disk' = [disk EXCEPT ![ActiveId] = file]
  /\ step' = "closed" /\ faults' = faults + 1
  /\ segments' = << >> /\ next_segment_id' = 0 /\ pending' = NoRecord
  /\ rewritten' = 0 /\ removing' = {}
  /\ UNCHANGED history

\* An operation returns an error and the caller goes on: memory is as before.
Failed(at) ==
  /\ step = at /\ faults < MaxFaults
  /\ step' = "idle" /\ faults' = faults + 1
  /\ rewritten' = 0 /\ removing' = {}
  /\ UNCHANGED <<segments, pending, history>>

\* The write fails, or the sync after a complete write.
WriteFails ==
  /\ Failed("writing")
  /\ \E file \in Interrupted \cup {WithRecord(disk[ActiveId], pending)} :
       disk' = [disk EXCEPT ![ActiveId] = file]
  /\ UNCHANGED next_segment_id

RewriteFails ==
  /\ Failed("rewriting")
  /\ \E file \in Interrupted : disk' = [disk EXCEPT ![ActiveId] = file]
  /\ UNCHANGED next_segment_id

\* The next id is used up whether its file came to be or not.
CreateSegmentFails ==
  /\ Failed("rewriting") /\ rewritten = Len(ActiveRecords)
  /\ disk' \in {disk, WithNextSegment(disk)}
  /\ next_segment_id' = next_segment_id + 1

\* Memory still lists the segments already removed.
RemoveFails ==
  /\ Failed("compacting") /\ removing \cap DOMAIN disk # {}
  /\ UNCHANGED <<disk, next_segment_id>>

Next ==
  \/ Open
  \/ Recover
  \/ Close
  \/ \E index \in 0 .. MaxIndex : BeginAppend(index)
  \/ \E index \in 0 .. MaxIndex : BeginRoll(index)
  \/ Rewrite
  \/ CreateSegment
  \/ Write
  \/ \E log_index \in 0 .. MaxIndex : BeginCompact(log_index)
  \/ \E log_index \in 0 .. MaxIndex, fence \in Fences :
       BeginFencedCompact(log_index, fence)
  \/ RemoveFile
  \/ EndCompact
  \/ Crash
  \/ WriteFails
  \/ RewriteFails
  \/ CreateSegmentFails
  \/ RemoveFails

Spec == Init /\ [][Next]_vars

--------------------------------------------------------------------------------
(***************************************************************************)
(* Properties.                                                             *)
(***************************************************************************)
OnDisk == AllRecords(ReadSegments(disk))

\* src/fault.rs, slow WAL fsync: "committed_write_survived_restart".  A record
\* append returned, and compaction did not release, is read back whenever the
\* log is opened.
CommittedWriteSurvivesRestart ==
  step = "closed" => returned \ released \subseteq ToSet(OnDisk)

\* A fault damages the newest records only: once a later segment holds a record,
\* whatever is cut short, emptied, rewritten or read again, the records of a file
\* stay as they are until compaction removes it whole.
Followed(i) ==
  \E j \in DOMAIN disk : j > i /\ Records(disk[j]) # << >>

OnlyNewestDamaged ==
  [][\A i \in DOMAIN disk \cap DOMAIN disk' :
       Followed(i) => Records(disk'[i]) = Records(disk[i])]_vars

\* However damaged the log is, recovery reads records in the order they were
\* appended and none twice, so the last of equal committed indexes is the
\* newest hard state.
RecordsInOrder ==
  \A j, k \in DOMAIN OnDisk : j < k => OnDisk[j].id < OnDisk[k].id

\* Removing files never changes the record a recovery would pick, as long as one
\* of the segments min_keep_segments keeps has a readable record.  The condition
\* is needed: the count includes segments that failed creations left empty.
KeepsRecord ==
  \E k \in Len(segments) - MinKeepSegments + 1 .. Len(segments) :
    /\ segments[k].segment_id \in DOMAIN disk
    /\ Records(disk[segments[k].segment_id]) # << >>

CompactionKeepsLatest ==
  [][step = "compacting" /\ KeepsRecord =>
       LatestOf(AllRecords(ReadSegments(disk'))) = LatestOf(OnDisk)]_vars

\* A fenced compaction takes no file with a record, known to memory or left by a
\* write that failed, of more than storage applied durably and the group
\* committed.
FencedMeansDurable ==
  [][\A log_index \in 0 .. MaxIndex, fence \in Fences :
       BeginFencedCompact(log_index, fence) =>
         \A i \in removing' \cap DOMAIN disk : \A r \in ToSet(Records(disk[i])) :
           r.index <= fence.durable_applied_index
             /\ r.index <= fence.committed_index]_vars

\* A new segment never takes the place of a file that is there, after failed
\* creations and compactions too.
SegmentIdsFresh ==
  step # "closed" => next_segment_id \notin DOMAIN disk
================================================================================
