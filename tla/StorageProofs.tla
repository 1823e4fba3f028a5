----------------------------- MODULE StorageProofs -----------------------------
(***************************************************************************)
(* Proofs about what a member keeps and hands on.  The write-ahead log, for*)
(* any sizes of segments, any number of appends and any faults: a new      *)
(* segment never takes the place of a file that is there, recovery reads   *)
(* records in the order of their appends, faults damage the newest only,   *)
(* and a compaction removes neither the newest record nor, under a fence,  *)
(* more than was applied durably.  And a snapshot sent in chunks arrives   *)
(* whole, for any snapshots, limits and losses, and a send that completes  *)
(* was installed.                                                          *)
(***************************************************************************)
EXTENDS PersistentWal, SnapshotLifecycle, RaftNodeProofs

--------------------------------------------------------------------------------
(***************************************************************************)
(* The ids of the write-ahead log's segments.                              *)
(***************************************************************************)

\* The files are numbered, finitely many of them, and while the log is open the
\* next id is above every one of them, whether memory still lists it or not.
IdsTracked ==
  /\ disk = [i \in DOMAIN disk |-> disk[i]]
  /\ DOMAIN disk \subseteq Nat
  /\ \E b \in Nat : \A i \in DOMAIN disk : i <= b
  /\ step # "closed" =>
       next_segment_id \in Nat /\ \A i \in DOMAIN disk : i < next_segment_id

\* A step that rewrites files or removes some, and may use up the next id.
LEMMA OldFilesKeep ==
  ASSUME IdsTracked, step # "closed",
         disk' = [i \in DOMAIN disk' |-> disk'[i]],
         DOMAIN disk' \subseteq DOMAIN disk,
         next_segment_id' \in {next_segment_id, next_segment_id + 1}
  PROVE  IdsTracked'
  BY DEF IdsTracked

\* The file of the next segment is created.
LEMMA NextFileKeeps ==
  ASSUME IdsTracked, step # "closed", disk' = WithNextSegment(disk),
         next_segment_id' = next_segment_id + 1
  PROVE  IdsTracked'
<1>1. /\ DOMAIN disk' = DOMAIN disk \cup {next_segment_id}
      /\ disk' = [i \in DOMAIN disk' |-> disk'[i]]
      /\ next_segment_id \in Nat
      /\ \A i \in DOMAIN disk : i \in Nat /\ i < next_segment_id
  BY DEF IdsTracked, WithNextSegment
<1> QED
  BY <1>1 DEF IdsTracked

\* Loading numbers the next segment above those on disk.
LEMMA LoadKeeps ==
  ASSUME IdsTracked, Load
  PROVE  IdsTracked'
<1>1. \/ DOMAIN disk' = DOMAIN disk /\ DOMAIN disk # {}
      \/ DOMAIN disk' = {0}
  BY DEF Load
<1>2. disk' = [i \in DOMAIN disk' |-> disk'[i]] /\ next_segment_id' = Max(DOMAIN disk') + 1
  BY DEF Load
<1>3. PICK b \in Nat : \A i \in DOMAIN disk' : i <= b
  BY <1>1 DEF IdsTracked
<1>4. DOMAIN disk' \in SUBSET Nat /\ DOMAIN disk' # {}
  BY <1>1 DEF IdsTracked
<1>5. Max(DOMAIN disk') \in Nat /\ \A i \in DOMAIN disk' : i <= Max(DOMAIN disk')
  BY <1>3, <1>4, MaxNat
<1> QED
  BY <1>2, <1>3, <1>4, <1>5 DEF IdsTracked

\* Every step keeps the segment ids tracked.
LEMMA IdsKept == IdsTracked /\ [Next]_vars => IdsTracked'
<1> SUFFICES ASSUME IdsTracked, [Next]_vars PROVE IdsTracked'
  OBVIOUS
<1>1. CASE Open \/ Recover
  BY <1>1, LoadKeeps DEF Open, Recover
<1>2. CASE Close \/ Crash
  <2>1. DOMAIN disk' = DOMAIN disk /\ disk' = [i \in DOMAIN disk' |-> disk'[i]]
    BY <1>2 DEF Close, Crash, IdsTracked
  <2> QED
    BY <1>2, <2>1 DEF Close, Crash, IdsTracked
<1>3. CASE \E index \in 0 .. MaxIndex : BeginAppend(index)
  BY <1>3, OldFilesKeep DEF BeginAppend, Handed, memory, IdsTracked
<1>4. CASE \E index \in 0 .. MaxIndex : BeginRoll(index)
  <2>1. /\ DOMAIN disk' = DOMAIN disk /\ disk' = [i \in DOMAIN disk' |-> disk'[i]]
        /\ UNCHANGED next_segment_id /\ step # "closed"
    BY <1>4 DEF BeginRoll, Handed, memory
  <2> QED
    BY <2>1, OldFilesKeep
<1>5. CASE Rewrite \/ Write
  <2>1. /\ DOMAIN disk' = DOMAIN disk /\ disk' = [i \in DOMAIN disk' |-> disk'[i]]
        /\ UNCHANGED next_segment_id /\ step # "closed"
    BY <1>5 DEF Rewrite, Write, memory
  <2> QED
    BY <2>1, OldFilesKeep
<1>6. CASE CreateSegment
  BY <1>6, NextFileKeeps DEF CreateSegment
<1>7. CASE \/ \E log_index \in 0 .. MaxIndex : BeginCompact(log_index)
           \/ \E log_index \in 0 .. MaxIndex, fence \in Fences :
                BeginFencedCompact(log_index, fence)
           \/ EndCompact
  <2>1. UNCHANGED <<disk, next_segment_id>> /\ step # "closed"
    BY <1>7 DEF BeginCompact, BeginFencedCompact, EndCompact, memory
  <2> QED
    BY <2>1, OldFilesKeep DEF IdsTracked
<1>8. CASE RemoveFile
  <2>1. /\ disk' = [i \in DOMAIN disk \ {Min(removing \cap DOMAIN disk)} |-> disk[i]]
        /\ UNCHANGED next_segment_id /\ step # "closed"
    BY <1>8 DEF RemoveFile, memory
  <2> QED
    BY <2>1, OldFilesKeep
<1>9. CASE WriteFails \/ RewriteFails \/ RemoveFails
  <2>1. /\ DOMAIN disk' = DOMAIN disk /\ disk' = [i \in DOMAIN disk' |-> disk'[i]]
        /\ UNCHANGED next_segment_id /\ step # "closed"
    BY <1>9 DEF WriteFails, RewriteFails, RemoveFails, Failed, IdsTracked
  <2> QED
    BY <2>1, OldFilesKeep
<1>10. CASE CreateSegmentFails
  <2>1. /\ disk' \in {disk, WithNextSegment(disk)} /\ step # "closed"
        /\ next_segment_id' = next_segment_id + 1
    BY <1>10 DEF CreateSegmentFails, Failed
  <2> QED
    BY <2>1, OldFilesKeep, NextFileKeeps DEF IdsTracked
<1>11. CASE UNCHANGED vars
  BY <1>11 DEF vars, memory, IdsTracked
<1> QED
  BY <1>1, <1>2, <1>3, <1>4, <1>5, <1>6, <1>7, <1>8, <1>9, <1>10, <1>11 DEF Next

\* The id roll_segment gives a new file is never one of a file that is there,
\* after failed creations, compactions that stopped half-way and crashes too.
THEOREM NextIdFree == Spec => []SegmentIdsFresh
<1>1. Init => IdsTracked
  BY DEF Init, IdsTracked
<1>2. IdsTracked => SegmentIdsFresh
  BY DEF IdsTracked, SegmentIdsFresh
<1> QED
  BY <1>1, <1>2, IdsKept, PTL DEF Spec

--------------------------------------------------------------------------------
(***************************************************************************)
(* The records in the write-ahead log: files and memory against each other.*)
(***************************************************************************)
WalRecordType == [id : Nat, index : Nat]
WalLine == [records : Seq(WalRecordType), torn : BOOLEAN]
WalSegment == [segment_id : Nat, records : Seq(WalRecordType)]

\* A file that misses its last newline has a line.
WalFile == {file \in [lines : Seq(WalLine), ended : BOOLEAN] :
              file.ended \/ file.lines # << >>}

\* r was appended before s: it has the lower id, and no higher committed index.
Before(r, s) == r.id < s.id /\ r.index <= s.index

AllBefore(R, S) == \A r \in R, s \in S : Before(r, s)

Increasing(records) ==
  \A j, k \in DOMAIN records : j < k => Before(records[j], records[k])

\* The records whose text is in a file, readable or not.
Written(file) == UNION {ToSet(file.lines[k].records) : k \in DOMAIN file.lines}

\* A file whose lines hold records in the order they were appended.
OrderedFile(file) ==
  /\ file \in WalFile
  /\ \A j, k \in DOMAIN file.lines : j < k =>
       AllBefore(ToSet(file.lines[j].records), ToSet(file.lines[k].records))

\* The file write_wal_segment_file has written after n of the records.
RewrittenFile(records, n) ==
  [ lines |-> [k \in 1 .. n |-> [records |-> <<records[k]>>, torn |-> FALSE]],
    ended |-> TRUE ]

\* Files in the order of their ids.
FilesOrdered(files) ==
  /\ files = [i \in DOMAIN files |-> files[i]]
  /\ \A i \in DOMAIN files : OrderedFile(files[i])
  /\ \A i, j \in DOMAIN files : i < j =>
       AllBefore(Written(files[i]), Written(files[j]))

\* Segments in memory against the files: a sealed segment whose file is still
\* there has exactly its records; the files behind the active one are empty.
SegmentsMatch(files, segs) ==
  LET active == Last(segs).segment_id
  IN  /\ segs \in Seq(WalSegment) /\ segs # << >>
      /\ \A j, k \in DOMAIN segs : j < k => segs[j].segment_id < segs[k].segment_id
      /\ \A k \in DOMAIN segs : Increasing(segs[k].records)
      /\ active \in DOMAIN files
      /\ \A i \in DOMAIN files : i > active => files[i] = EmptyFile
      /\ \A i \in DOMAIN files : i < active =>
           AllBefore(Written(files[i]), ToSet(Last(segs).records))
      /\ \A k \in 1 .. Len(segs) - 1 : segs[k].segment_id \in DOMAIN files =>
           Records(files[segs[k].segment_id]) = segs[k].records

\* The last segment, and the records it holds.
ActiveHolds(segs, id, records) ==
  Last(segs).segment_id = id /\ ToSet(Last(segs).records) = records

SameActive(new, segs) == Last(new) = Last(segs)

\* What append goes on from: every record the log may still hold.
Known(files, segs) ==
  ToSet(Last(segs).records) \cup UNION {Written(files[i]) : i \in DOMAIN files}

Writing(at) == at \in {"writing", "rewriting"}

\* The record at hand comes after everything in files and memory.
PendingLast ==
  /\ pending \in WalRecordType
  /\ \A r \in Known(disk, segments) : r.id <= appends /\ r.index <= pending.index
  /\ Writing(step) =>
       pending.id = appends /\ \A r \in Known(disk, segments) : r.id < appends

MemoryInv ==
  /\ SegmentsMatch(disk, segments)
  /\ ActiveId < next_segment_id
  /\ PendingLast
  /\ step = "rewriting" =>
       /\ rewritten \in 0 .. Len(ActiveRecords)
       /\ disk[ActiveId] = RewrittenFile(ActiveRecords, rewritten)
  /\ step = "compacting" =>
       removing \subseteq
         {segments[k].segment_id : k \in 1 .. Len(segments) - MinKeepSegments}

WalInv ==
  /\ IdsTracked
  /\ FilesOrdered(disk)
  /\ appends \in Nat
  /\ \A i \in DOMAIN disk : \A r \in Written(disk[i]) : r.id <= appends
  /\ step \in {"closed", "idle", "writing", "rewriting", "compacting"}
  /\ step # "closed" => MemoryInv

\* Sorted lists the numbers, each once and in their order.
LEMMA SortedLists ==
  ASSUME NEW S \in SUBSET Nat, IsFiniteSet(S)
  PROVE  /\ Cardinality(S) \in Nat
         /\ Sorted(S) \in [1 .. Cardinality(S) -> S]
         /\ \A j, k \in 1 .. Cardinality(S) : j < k => Sorted(S)[j] < Sorted(S)[k]
         /\ \A i \in S : \E j \in 1 .. Cardinality(S) : Sorted(S)[j] = i
<1> DEFINE upTo(i) == {m \in S : m <= i}
           n == Cardinality(S)
<1>1. n \in Nat
  BY FS_CardinalityType
<1> DEFINE nth(j) == CHOOSE i \in S : Cardinality({m \in S : m <= i}) = j
<1>0. Sorted(S) = [j \in 1 .. n |-> nth(j)]
  BY DEF Sorted
<1>2. ASSUME NEW j \in 1 .. n
      PROVE  nth(j) \in S /\ Cardinality(upTo(nth(j))) = j
  <2>1. \E i \in S : Cardinality({m \in S : m <= i}) = j
    BY Numbered
  <2> QED
    BY <2>1
<1> HIDE DEF nth
<1>3. ASSUME NEW i \in S, NEW k \in S
      PROVE  /\ IsFiniteSet(upTo(k)) /\ Cardinality(upTo(k)) \in Nat
             /\ i <= k => Cardinality(upTo(i)) <= Cardinality(upTo(k))
             /\ i < k => Cardinality(upTo(i)) < Cardinality(upTo(k))
  <2>1. IsFiniteSet(upTo(k)) /\ IsFiniteSet(upTo(i))
    BY FS_Subset
  <2>0. i \in Nat /\ k \in Nat /\ \A m \in S : m \in Nat
    OBVIOUS
  <2>2. i <= k => upTo(i) \subseteq upTo(k)
    <3> SUFFICES ASSUME i <= k, NEW m \in S, m <= i PROVE m <= k
      OBVIOUS
    <3> QED
      BY <2>0
  <2>3. i < k => k \in upTo(k) /\ k \notin upTo(i)
    OBVIOUS
  <2>4. i <= k => Cardinality(upTo(i)) <= Cardinality(upTo(k))
    BY <2>1, <2>2, FS_Subset
  <2>5. i < k => Cardinality(upTo(i)) < Cardinality(upTo(k))
    <3>1. SUFFICES ASSUME i < k PROVE Cardinality(upTo(i)) < Cardinality(upTo(k))
      OBVIOUS
    <3>2. upTo(i) \subseteq upTo(k) /\ upTo(i) # upTo(k)
      BY <2>2, <2>3, <3>1
    <3> HIDE DEF upTo
    <3>3. /\ Cardinality(upTo(i)) <= Cardinality(upTo(k))
          /\ Cardinality(upTo(i)) # Cardinality(upTo(k))
      BY <2>1, <3>2, FS_Subset
    <3>4. Cardinality(upTo(i)) \in Nat /\ Cardinality(upTo(k)) \in Nat
      BY <2>1, FS_CardinalityType
    <3> QED
      BY <3>3, <3>4
  <2> QED
    BY <2>1, <2>4, <2>5, FS_CardinalityType
<1>4. ASSUME NEW i \in S PROVE Cardinality(upTo(i)) \in 1 .. n
  <2>1. upTo(i) \subseteq S /\ i \in upTo(i)
    OBVIOUS
  <2>2. upTo(i) # {} /\ Cardinality(upTo(i)) \in Nat /\ IsFiniteSet(upTo(i))
    BY <1>3, <2>1
  <2> HIDE DEF upTo
  <2>3. Cardinality(upTo(i)) <= n
    BY <2>1, FS_Subset
  <2>4. Cardinality(upTo(i)) # 0
    BY <2>2, FS_EmptySet
  <2> HIDE DEF n
  <2> QED
    BY <1>1, <2>2, <2>3, <2>4
<1>5. Sorted(S) \in [1 .. n -> S]
  <2>1. \A j \in 1 .. n : nth(j) \in S
    BY <1>2
  <2> HIDE DEF n
  <2> QED
    BY <1>0, <2>1
<1>6. ASSUME NEW j \in 1 .. n, NEW k \in 1 .. n, j < k
      PROVE  Sorted(S)[j] < Sorted(S)[k]
  <2>1. /\ Sorted(S)[j] \in S /\ Cardinality(upTo(Sorted(S)[j])) = j
        /\ Sorted(S)[k] \in S /\ Cardinality(upTo(Sorted(S)[k])) = k
    BY <1>0, <1>2
  <2> DEFINE a == Sorted(S)[j]
             b == Sorted(S)[k]
  <2>2. b <= a => Cardinality(upTo(b)) <= Cardinality(upTo(a))
    BY <1>3, <2>1
  <2>3. a \in Nat /\ b \in Nat
    BY <2>1
  <2>4. j \in Nat /\ k \in Nat
    BY <1>1
  <2> HIDE DEF a, b, upTo, n
  <2>5. b <= a => k <= j
    BY <2>1, <2>2 DEF a, b
  <2> QED
    BY <1>6, <2>3, <2>4, <2>5 DEF a, b
<1>7. ASSUME NEW i \in S PROVE \E j \in 1 .. n : Sorted(S)[j] = i
  <2> DEFINE j == Cardinality(upTo(i))
  <2>1. j \in 1 .. n
    BY <1>4
  <2>2. Sorted(S)[j] \in S /\ Cardinality(upTo(Sorted(S)[j])) = j
    BY <1>0, <1>2, <2>1
  <2> DEFINE a == Sorted(S)[j]
  <2>3. /\ i < a => Cardinality(upTo(i)) < Cardinality(upTo(a))
        /\ a < i => Cardinality(upTo(a)) < Cardinality(upTo(i))
        /\ a \in Nat /\ i \in Nat /\ Cardinality(upTo(i)) \in Nat
    BY <1>3, <2>2
  <2>4. Cardinality(upTo(a)) = Cardinality(upTo(i))
    BY <2>2
  <2> HIDE DEF upTo, a
  <2>5. ~ (a < i) /\ ~ (i < a)
    BY <2>3, <2>4
  <2>6. a = i
    BY <2>3, <2>5
  <2> QED
    BY <2>1, <2>6 DEF a
<1> QED
  BY <1>1, <1>5, <1>6, <1>7

\* One ordered sequence of records behind another.
LEMMA ConcatOrdered ==
  ASSUME NEW a \in Seq(WalRecordType), NEW b \in Seq(WalRecordType),
         Increasing(a), Increasing(b), AllBefore(ToSet(a), ToSet(b))
  PROVE  /\ a \o b \in Seq(WalRecordType)
         /\ Increasing(a \o b)
         /\ ToSet(a \o b) = ToSet(a) \cup ToSet(b)
<1> DEFINE c == a \o b
<1>1. /\ Len(a) \in Nat /\ DOMAIN a = 1 .. Len(a)
      /\ Len(b) \in Nat /\ DOMAIN b = 1 .. Len(b)
      /\ c \in Seq(WalRecordType) /\ DOMAIN c = 1 .. Len(a) + Len(b)
  BY LenProperties, ConcatProperties
<1>2. \A i \in DOMAIN c : c[i] = IF i <= Len(a) THEN a[i] ELSE b[i - Len(a)]
  BY <1>1, ConcatProperties
<1> HIDE DEF c
<1>3. \A i \in DOMAIN c :
        \/ i \in DOMAIN a /\ c[i] = a[i]
        \/ i > Len(a) /\ i - Len(a) \in DOMAIN b /\ c[i] = b[i - Len(a)]
  BY <1>1, <1>2
<1>4. /\ \A i \in DOMAIN a : i \in DOMAIN c /\ c[i] = a[i]
      /\ \A i \in DOMAIN b : i + Len(a) \in DOMAIN c /\ c[i + Len(a)] = b[i]
  <2>1. ASSUME NEW i \in DOMAIN a PROVE i \in DOMAIN c /\ c[i] = a[i]
    <3>1. i \in DOMAIN c /\ i <= Len(a)
      BY <1>1
    <3> QED
      BY <1>2, <3>1
  <2>2. ASSUME NEW i \in DOMAIN b
        PROVE  i + Len(a) \in DOMAIN c /\ c[i + Len(a)] = b[i]
    <3>1. i + Len(a) \in DOMAIN c /\ ~ (i + Len(a) <= Len(a)) /\ i + Len(a) - Len(a) = i
      BY <1>1
    <3> QED
      BY <1>2, <3>1
  <2> QED
    BY <2>1, <2>2
<1>5. Increasing(c)
  <2> SUFFICES ASSUME NEW j \in DOMAIN c, NEW k \in DOMAIN c, j < k
               PROVE  Before(c[j], c[k])
    BY DEF Increasing
  <2>1. CASE j \in DOMAIN a /\ c[j] = a[j] /\ k \in DOMAIN a /\ c[k] = a[k]
    BY <2>1 DEF Increasing
  <2>2. CASE /\ j \in DOMAIN a /\ c[j] = a[j]
             /\ k - Len(a) \in DOMAIN b /\ c[k] = b[k - Len(a)]
    BY <2>2 DEF AllBefore, ToSet
  <2>3. CASE /\ j - Len(a) \in DOMAIN b /\ c[j] = b[j - Len(a)]
             /\ k - Len(a) \in DOMAIN b /\ c[k] = b[k - Len(a)]
    <3>1. j - Len(a) < k - Len(a)
      BY <1>1
    <3> QED
      BY <2>3, <3>1 DEF Increasing
  <2>4. ~ (j > Len(a) /\ k \in DOMAIN a)
    BY <1>1
  <2> QED
    BY <1>3, <2>1, <2>2, <2>3, <2>4
<1>6. ToSet(c) = ToSet(a) \cup ToSet(b)
  <2>1. ASSUME NEW r \in ToSet(c) PROVE r \in ToSet(a) \cup ToSet(b)
    BY <1>3 DEF ToSet
  <2>2. ASSUME NEW r \in ToSet(a) \cup ToSet(b) PROVE r \in ToSet(c)
    BY <1>4 DEF ToSet
  <2> QED
    BY <2>1, <2>2
<1> QED
  BY <1>1, <1>5, <1>6 DEF c

\* Ordered segments, one behind the other, are one ordered sequence.
LEMMA FlattenOrdered ==
  ASSUME NEW ss \in Seq(Seq(WalRecordType)),
         \A k \in DOMAIN ss : Increasing(ss[k]),
         \A j, k \in DOMAIN ss : j < k => AllBefore(ToSet(ss[j]), ToSet(ss[k]))
  PROVE  /\ FlattenSeq(ss) \in Seq(WalRecordType)
         /\ Increasing(FlattenSeq(ss))
         /\ ToSet(FlattenSeq(ss)) = UNION {ToSet(ss[k]) : k \in DOMAIN ss}
<1> DEFINE n == Len(ss)
           Loop(g, m) == g = [i \in 1 .. m |-> IF i = 1 THEN ss[i] ELSE g[i - 1] \o ss[i]]
           flatten == CHOOSE g : Loop(g, n)
           Upto(m) == UNION {ToSet(ss[k]) : k \in 1 .. m}
           Flat(s, m) == /\ s \in Seq(WalRecordType)
                         /\ Increasing(s)
                         /\ ToSet(s) = Upto(m)
<1>1. n \in Nat /\ DOMAIN ss = 1 .. n /\ \A k \in 1 .. n : ss[k] \in Seq(WalRecordType)
  BY ElementOfSeq, LenProperties
<1>2. CASE n = 0
  <2>1. ss = << >> /\ FlattenSeq(ss) = ss
    BY <1>2, EmptySeq DEF FlattenSeq
  <2>2. << >> \in Seq(WalRecordType) /\ ToSet(<< >>) = {} /\ Increasing(<< >>)
    BY EmptySeq DEF ToSet, Increasing
  <2>3. DOMAIN ss = {}
    BY <1>1, <1>2
  <2>4. UNION {ToSet(ss[k]) : k \in DOMAIN ss} = {}
    BY <2>3
  <2> QED
    BY <2>1, <2>2, <2>4
<1>3. CASE n # 0
  <2>1. FlattenSeq(ss) = flatten[n]
    BY <1>3 DEF FlattenSeq
  <2> HIDE DEF n
  <2>2. \A m \in Nat : m >= 1 => \E g : Loop(g, m)
    <3> DEFINE Solved == {m \in Nat : m >= 1 => \E g : Loop(g, m)}
    <3> HIDE DEF Loop
    <3>1. Solved \in SUBSET Nat /\ 0 \in Solved
      OBVIOUS
    <3>2. ASSUME NEW m \in Solved PROVE m + 1 \in Solved
      <4>1. CASE m = 0
        <5> DEFINE g == [i \in 1 .. 1 |-> ss[1]]
        <5>1. Loop(g, 1)
          BY DEF Loop
        <5> HIDE DEF g
        <5>2. m + 1 = 1
          BY <4>1
        <5> QED
          BY <5>1, <5>2
      <4>2. CASE m >= 1
        <5>1. m \in Nat
          OBVIOUS
        <5>2. PICK g : Loop(g, m)
          BY <4>2
        <5> DEFINE next == g[m] \o ss[m + 1]
                   h == [i \in 1 .. m + 1 |-> IF i = m + 1 THEN next ELSE g[i]]
        <5> HIDE DEF next
        <5>3. h[m + 1] = next /\ \A i \in 1 .. m : h[i] = g[i]
          BY <5>1
        <5>4. h = [i \in 1 .. m + 1 |-> h[i]]
          OBVIOUS
        <5> HIDE DEF h
        <5>5. \A i \in 1 .. m + 1 :
                h[i] = IF i = 1 THEN ss[i] ELSE h[i - 1] \o ss[i]
          <6> SUFFICES ASSUME NEW i \in 1 .. m + 1
                       PROVE  h[i] = IF i = 1 THEN ss[i] ELSE h[i - 1] \o ss[i]
            OBVIOUS
          <6> USE DEF next
          <6>1. CASE i = m + 1
            <7>1. i # 1 /\ i - 1 = m /\ m \in 1 .. m
              BY <4>2, <5>1, <6>1
            <7> QED
              BY <5>3, <6>1, <7>1
          <6>2. CASE i \in 1 .. m
            <7>1. g[i] = IF i = 1 THEN ss[i] ELSE g[i - 1] \o ss[i]
              BY <5>2, <6>2 DEF Loop
            <7>2. i # 1 => i - 1 \in 1 .. m
              BY <5>1, <6>2
            <7> QED
              BY <5>3, <6>2, <7>1, <7>2
          <6> QED
            BY <5>1, <6>1, <6>2
        <5>6. Loop(h, m + 1)
          BY <5>4, <5>5 DEF Loop
        <5> QED
          BY <5>1, <5>6
      <4>3. m = 0 \/ m >= 1
        BY <3>1
      <4> QED
        BY <4>1, <4>2, <4>3
    <3> HIDE DEF Solved
    <3>3. \A m \in Nat : m \in Solved
      BY <3>1, <3>2, NatSet
    <3> QED
      BY <3>3 DEF Solved
  <2>3. Loop(flatten, n)
    <3>1. \E g : Loop(g, n)
      <4>1. n \in Nat /\ n >= 1
        BY <1>1, <1>3
      <4> HIDE DEF Loop
      <4> QED
        BY <2>2, <4>1
    <3> HIDE DEF Loop
    <3> QED
      BY <3>1
  <2> HIDE DEF flatten
  <2>4. \A i \in 1 .. n :
          flatten[i] = IF i = 1 THEN ss[i] ELSE flatten[i - 1] \o ss[i]
    BY <2>3
  <2> HIDE DEF Loop
  <2>5. \A m \in Nat : m \in 1 .. n => Flat(flatten[m], m)
    <3> DEFINE Good == {m \in Nat : m \in 1 .. n => Flat(flatten[m], m)}
    <3>1. Good \in SUBSET Nat /\ 0 \in Good
      OBVIOUS
    <3>2. ASSUME NEW m \in Good, m + 1 \in 1 .. n PROVE Flat(flatten[m + 1], m + 1)
      <4>1. m \in Nat /\ m + 1 \in DOMAIN ss /\ ss[m + 1] \in Seq(WalRecordType)
        BY <1>1, <3>2
      <4>2. CASE m = 0
        <5>1. flatten[1] = ss[1] /\ Upto(1) = ToSet(ss[1])
          BY <2>4, <3>2, <4>2
        <5> HIDE DEF Upto
        <5> QED
          BY <4>1, <4>2, <5>1
      <4>3. CASE m # 0
        <5>1. m \in 1 .. n /\ m + 1 # 1 /\ (m + 1) - 1 = m
          BY <1>1, <3>2, <4>1, <4>3
        <5>2. Flat(flatten[m], m)
          BY <5>1
        <5>3. flatten[m + 1] = flatten[m] \o ss[m + 1]
          BY <2>4, <3>2, <5>1
        <5>4. AllBefore(Upto(m), ToSet(ss[m + 1]))
          <6> SUFFICES ASSUME NEW k \in 1 .. m, NEW r \in ToSet(ss[k]),
                              NEW s \in ToSet(ss[m + 1])
                       PROVE  Before(r, s)
            BY DEF AllBefore
          <6>1. k \in DOMAIN ss /\ k < m + 1
            BY <1>1, <4>1, <5>1
          <6> QED
            BY <4>1, <6>1 DEF AllBefore
        <5>5. Upto(m + 1) = Upto(m) \cup ToSet(ss[m + 1])
          <6>1. 1 .. m + 1 = (1 .. m) \cup {m + 1}
            BY <4>1
          <6> QED
            BY <6>1
        <5>6. Increasing(ss[m + 1])
          BY <4>1
        <5> HIDE DEF Upto
        <5> QED
          BY <4>1, <5>2, <5>3, <5>4, <5>5, <5>6, ConcatOrdered
      <4> QED
        BY <4>2, <4>3
    <3>3. \A m \in Good : m + 1 \in Good
      <4> HIDE DEF Flat
      <4> QED
        BY <3>1, <3>2
    <3> HIDE DEF Good
    <3>4. \A m \in Nat : m \in Good
      BY <3>1, <3>3, NatSet
    <3> QED
      BY <3>4 DEF Good
  <2>6. Flat(flatten[n], n)
    <3>1. n \in 1 .. n
      BY <1>1, <1>3
    <3> HIDE DEF Flat
    <3> QED
      BY <1>1, <2>5, <3>1
  <2> QED
    BY <1>1, <2>1, <2>6
<1> QED
  BY <1>2, <1>3

\* Where read_wal_segment_file stops, n lines are kept.
KeepsLines(file, n) ==
  /\ n \in 0 .. Len(file.lines)
  /\ \A k \in 1 .. n : Readable(file.lines[k])
  /\ \/ n = Len(file.lines) /\ Truncated(file) = file
     \/ /\ n < Len(file.lines)
        /\ Truncated(file) = [lines |-> SubSeq(file.lines, 1, n), ended |-> TRUE]

\* The lines kept are the ones before the first that cannot be decoded.
LEMMA TruncatedKeeps ==
  ASSUME NEW file \in WalFile
  PROVE  \E n \in Nat : KeepsLines(file, n)
<1> DEFINE bad == {k \in DOMAIN file.lines : ~ Readable(file.lines[k])}
<1>1. /\ Len(file.lines) \in Nat /\ DOMAIN file.lines = 1 .. Len(file.lines)
  BY LenProperties DEF WalFile
<1>2. CASE bad = {}
  <2>1. Truncated(file) = file
    BY <1>2 DEF Truncated
  <2>2. KeepsLines(file, Len(file.lines))
    BY <1>1, <1>2, <2>1 DEF KeepsLines
  <2> QED
    BY <1>1, <2>2
<1>3. CASE bad # {}
  <2> DEFINE m == Min(bad)
  <2>1. m \in bad /\ \A k \in bad : m <= k
    <3>1. bad \in SUBSET Nat
      BY <1>1
    <3> HIDE DEF bad
    <3> QED
      BY <1>3, <3>1, MinNat
  <2>2. Truncated(file) = [lines |-> SubSeq(file.lines, 1, m - 1), ended |-> TRUE]
    BY <1>3 DEF Truncated
  <2> HIDE DEF m
  <2>3. m \in 1 .. Len(file.lines) /\ \A k \in 1 .. m - 1 : Readable(file.lines[k])
    <3>1. m \in 1 .. Len(file.lines)
      BY <1>1, <2>1
    <3>2. ASSUME NEW k \in 1 .. m - 1 PROVE Readable(file.lines[k])
      <4>1. k \in DOMAIN file.lines /\ ~ (m <= k)
        BY <1>1, <3>1
      <4> QED
        BY <2>1, <4>1
    <3> QED
      BY <3>1, <3>2
  <2>4. m - 1 \in 0 .. Len(file.lines) /\ m - 1 < Len(file.lines) /\ m - 1 \in Nat
    BY <1>1, <2>3
  <2>5. KeepsLines(file, m - 1)
    BY <2>2, <2>3, <2>4 DEF KeepsLines
  <2> QED
    BY <2>4, <2>5
<1> QED
  BY <1>2, <1>3

\* What reading a file gives, and that reading it again gives the same.
ReadsWell(file) ==
  /\ Records(file) \in Seq(WalRecordType)
  /\ Increasing(Records(file))
  /\ ToSet(Records(file)) \subseteq Written(file)
  /\ OrderedFile(Truncated(file))
  /\ Written(Truncated(file)) = ToSet(Records(file))
  /\ Records(Truncated(file)) = Records(file)

LEMMA FileReads ==
  ASSUME NEW file, OrderedFile(file)
  PROVE  ReadsWell(file)
<1> DEFINE t == Truncated(file)
<1>0. file \in WalFile
  BY DEF OrderedFile
<1>1. /\ Len(file.lines) \in Nat /\ DOMAIN file.lines = 1 .. Len(file.lines)
      /\ file.lines \in Seq(WalLine)
      /\ \A k \in DOMAIN file.lines : file.lines[k] \in WalLine
  BY <1>0, LenProperties, ElementOfSeq DEF WalFile
<1>2. PICK n \in Nat : KeepsLines(file, n)
  BY <1>0, TruncatedKeeps
<1>3. n <= Len(file.lines) /\ \A k \in 1 .. n : k \in DOMAIN file.lines
  BY <1>1, <1>2 DEF KeepsLines
<1>4. /\ t.lines \in Seq(WalLine) /\ DOMAIN t.lines = 1 .. n
      /\ \A k \in 1 .. n : t.lines[k] = file.lines[k] /\ Readable(t.lines[k])
      /\ t \in WalFile
  <2>1. CASE n = Len(file.lines) /\ t = file
    BY <1>0, <1>1, <1>2, <2>1 DEF KeepsLines
  <2>2. CASE n < Len(file.lines) /\ t = [lines |-> SubSeq(file.lines, 1, n), ended |-> TRUE]
    <3> DEFINE part == SubSeq(file.lines, 1, n)
    <3>1. \A k \in 1 .. n : file.lines[k] \in WalLine
      BY <1>1, <1>3
    <3>2. /\ part \in Seq(WalLine) /\ Len(part) = n
          /\ \A k \in 1 .. n : part[k] = file.lines[k]
      <4>1. 1 \in Int /\ n \in Int
        OBVIOUS
      <4>2. /\ part \in Seq(WalLine)
            /\ Len(part) = IF 1 <= n THEN n - 1 + 1 ELSE 0
            /\ \A k \in 1 .. n - 1 + 1 : part[k] = file.lines[1 + k - 1]
        BY <3>1, <4>1, SubSeqProperties
      <4> QED
        BY <4>2
    <3>3. DOMAIN part = 1 .. n
      BY <3>2, LenProperties
    <3> HIDE DEF part
    <3>4. t.lines = part /\ t.ended = TRUE /\ t = [lines |-> part, ended |-> TRUE]
      BY <2>2 DEF part
    <3> HIDE DEF t
    <3>5. t \in WalFile
      BY <3>2, <3>4 DEF WalFile
    <3> QED
      BY <1>2, <3>2, <3>3, <3>4, <3>5 DEF KeepsLines
  <2> QED
    BY <1>2, <2>1, <2>2 DEF KeepsLines
<1> HIDE DEF t
<1> DEFINE rs == Records(file)
<1>5. rs = [k \in 1 .. n |-> file.lines[k].records[1]]
  BY <1>4 DEF Records, t
<1>6. \A k \in 1 .. n :
        /\ rs[k] \in WalRecordType
        /\ rs[k] = file.lines[k].records[1]
        /\ ToSet(file.lines[k].records) = {rs[k]}
  <2> SUFFICES ASSUME NEW k \in 1 .. n
               PROVE  /\ rs[k] \in WalRecordType
                      /\ rs[k] = file.lines[k].records[1]
                      /\ ToSet(file.lines[k].records) = {rs[k]}
    OBVIOUS
  <2> DEFINE line == file.lines[k].records
  <2>1. line \in Seq(WalRecordType) /\ Len(line) = 1
    BY <1>1, <1>3, <1>4 DEF WalLine, Readable
  <2>2. rs[k] = line[1]
    BY <1>5
  <2> HIDE DEF line, rs
  <2>3. DOMAIN line = 1 .. 1 /\ 1 \in 1 .. Len(line)
    BY <2>1, LenProperties
  <2>4. line[1] \in WalRecordType
    BY <2>1, <2>3, ElementOfSeq
  <2>5. ToSet(line) = {line[1]}
    BY <2>3 DEF ToSet
  <2> QED
    BY <2>2, <2>4, <2>5 DEF line
<1>7. rs \in Seq(WalRecordType) /\ DOMAIN rs = 1 .. n
  <2>1. \A k \in 1 .. n : file.lines[k].records[1] \in WalRecordType
    BY <1>6
  <2>2. [k \in 1 .. n |-> file.lines[k].records[1]] \in Seq(WalRecordType)
    BY <1>2, <2>1, IsASeq
  <2> QED
    BY <1>5, <2>2
<1> HIDE DEF rs
<1>8. Increasing(rs)
  <2> SUFFICES ASSUME NEW j \in 1 .. n, NEW k \in 1 .. n, j < k
               PROVE  Before(rs[j], rs[k])
    BY <1>7 DEF Increasing
  <2>1. AllBefore(ToSet(file.lines[j].records), ToSet(file.lines[k].records))
    BY <1>3 DEF OrderedFile
  <2> QED
    BY <1>6, <2>1 DEF AllBefore
<1>9. ToSet(rs) = UNION {ToSet(file.lines[k].records) : k \in 1 .. n}
  <2>1. ToSet(rs) = {rs[k] : k \in 1 .. n}
    BY <1>7 DEF ToSet
  <2>2. \A r : r \in ToSet(rs) <=> \E k \in 1 .. n : r \in ToSet(file.lines[k].records)
    BY <1>6, <2>1
  <2> QED
    BY <2>2
<1>10. Written(t) = ToSet(rs)
  <2>1. Written(t) = UNION {ToSet(file.lines[k].records) : k \in 1 .. n}
    BY <1>4 DEF Written
  <2> QED
    BY <1>9, <2>1
<1>11. ToSet(rs) \subseteq Written(file)
  BY <1>3, <1>9 DEF Written
<1>12. OrderedFile(t)
  BY <1>3, <1>4 DEF OrderedFile
<1>13. Records(t) = rs
  <2>1. {k \in DOMAIN t.lines : ~ Readable(t.lines[k])} = {}
    BY <1>4
  <2>2. Truncated(t) = t
    BY <2>1 DEF Truncated
  <2>3. Records(t) = [k \in 1 .. n |-> t.lines[k].records[1]]
    BY <1>4, <2>2 DEF Records
  <2> QED
    BY <1>4, <1>5, <2>3 DEF rs
<1> QED
  BY <1>7, <1>8, <1>10, <1>11, <1>12, <1>13 DEF ReadsWell, t, rs

\* An empty file.
LEMMA EmptyFileReads ==
  OrderedFile(EmptyFile) /\ Written(EmptyFile) = {} /\ Records(EmptyFile) = << >>
<1>1. /\ EmptyFile.lines = << >> /\ EmptyFile.ended = TRUE
      /\ DOMAIN EmptyFile.lines = {} /\ EmptyFile.lines \in Seq(WalLine)
  BY EmptySeq DEF EmptyFile
<1>2. EmptyFile \in WalFile
  BY <1>1 DEF WalFile, EmptyFile
<1>3. Truncated(EmptyFile) = EmptyFile
  BY <1>1 DEF Truncated
<1>4. Records(EmptyFile) = << >>
  BY <1>1, <1>3 DEF Records
<1> QED
  BY <1>1, <1>2, <1>4 DEF OrderedFile, Written

\* A file that grew by a record, by a part of it, or not at all.
Grown(new, file, r) == OrderedFile(new) /\ Written(new) \subseteq Written(file) \cup {r}

\* Text behind what the file holds.
LEMMA TextGrows ==
  ASSUME NEW file, OrderedFile(file), NEW r \in WalRecordType,
         AllBefore(Written(file), {r}),
         NEW records \in Seq(WalRecordType), ToSet(records) \subseteq {r},
         NEW torn \in BOOLEAN
  PROVE  /\ Grown(WithText(file, records, torn), file, r)
         /\ WithText(file, records, torn).lines # << >>
<1> DEFINE lines == file.lines
           m == IF file.ended THEN Len(lines) ELSE Len(lines) - 1
           old == IF file.ended THEN << >> ELSE Last(lines).records
           line == [records |-> old \o records,
                    torn |-> IF file.ended THEN torn ELSE Last(lines).torn \/ torn]
           kept == IF file.ended THEN lines ELSE Front(lines)
           new == WithText(file, records, torn)
<1>1. /\ file \in WalFile /\ lines \in Seq(WalLine) /\ file.ended \in BOOLEAN
      /\ Len(lines) \in Nat /\ DOMAIN lines = 1 .. Len(lines)
      /\ \A k \in DOMAIN lines : lines[k] \in WalLine
      /\ ~ file.ended => lines # << >> /\ Len(lines) >= 1
  <2>1. file \in WalFile
    BY DEF OrderedFile
  <2>2. lines \in Seq(WalLine) /\ file.ended \in BOOLEAN /\ (~ file.ended => lines # << >>)
    BY <2>1 DEF WalFile
  <2> HIDE DEF lines
  <2> QED
    BY <2>1, <2>2, LenProperties, ElementOfSeq, EmptySeq
<1>2. m \in Nat /\ m <= Len(lines)
  BY <1>1
<1>3. ~ file.ended => /\ Last(lines) = lines[m + 1] /\ m + 1 \in DOMAIN lines
                      /\ Last(lines) \in WalLine
  BY <1>1 DEF Last
<1>4. old \in Seq(WalRecordType)
  <2>1. CASE file.ended
    BY <2>1, EmptySeq
  <2>2. CASE ~ file.ended
    BY <1>3, <2>2 DEF WalLine
  <2> QED
    BY <2>1, <2>2
<1>5. line \in WalLine /\ line.records = old \o records
  <2>1. old \o records \in Seq(WalRecordType)
    BY <1>4, ConcatProperties
  <2>2. ~ file.ended => (Last(lines).torn \/ torn) \in BOOLEAN
    OBVIOUS
  <2> HIDE DEF old
  <2> QED
    BY <2>1, <2>2 DEF WalLine
<1>6. ToSet(line.records) \subseteq ToSet(old) \cup {r}
  <2>1. /\ DOMAIN old = 1 .. Len(old) /\ DOMAIN records = 1 .. Len(records)
        /\ Len(old) \in Nat /\ Len(records) \in Nat
        /\ DOMAIN (old \o records) = 1 .. Len(old) + Len(records)
    BY <1>4, LenProperties, ConcatProperties
  <2>2. \A k \in 1 .. Len(old) + Len(records) :
          (old \o records)[k] = IF k <= Len(old) THEN old[k] ELSE records[k - Len(old)]
    BY <1>4, ConcatProperties
  <2> HIDE DEF old, line
  <2>3. ASSUME NEW k \in 1 .. Len(old) + Len(records)
        PROVE  (old \o records)[k] \in ToSet(old) \cup {r}
    <3>1. CASE k <= Len(old)
      BY <2>1, <2>2, <3>1 DEF ToSet
    <3>2. CASE k > Len(old)
      <4>1. k - Len(old) \in DOMAIN records
        BY <2>1, <3>2
      <4>2. records[k - Len(old)] \in ToSet(records)
        BY <4>1 DEF ToSet
      <4>3. (old \o records)[k] = records[k - Len(old)]
        BY <2>1, <2>2, <3>2
      <4> QED
        BY <4>2, <4>3
    <3> QED
      BY <2>1, <3>1, <3>2
  <2> DEFINE both == old \o records
  <2> HIDE DEF both
  <2>4. ToSet(both) \subseteq ToSet(old) \cup {r}
    BY <2>1, <2>3 DEF ToSet, both
  <2> QED
    BY <1>5, <2>4 DEF both
<1>7. /\ kept \in Seq(WalLine) /\ Len(kept) = m
      /\ \A k \in 1 .. m : kept[k] = lines[k]
  <2>1. CASE file.ended
    BY <1>1, <2>1
  <2>2. CASE ~ file.ended
    <3>1. 1 \in Int /\ m \in Int /\ \A k \in 1 .. m : lines[k] \in WalLine
      BY <1>1, <1>2
    <3> DEFINE part == SubSeq(lines, 1, m)
    <3>2. /\ part \in Seq(WalLine)
          /\ Len(part) = IF 1 <= m THEN m - 1 + 1 ELSE 0
          /\ \A k \in 1 .. m - 1 + 1 : part[k] = lines[1 + k - 1]
      <4> HIDE DEF m, lines
      <4> QED
        BY <3>1, SubSeqProperties
    <3>3. kept = part
      BY <2>2 DEF Front
    <3> HIDE DEF part, kept, m, lines
    <3> QED
      BY <1>2, <3>2, <3>3
  <2> QED
    BY <1>1, <2>1, <2>2
<1>8. new = [lines |-> Append(kept, line), ended |-> FALSE]
  <2>1. << >> \o records = records
    BY ConcatEmptySeq
  <2> QED
    BY <1>1, <2>1 DEF WithText
<1> HIDE DEF line, kept, m, old, lines
<1>9. /\ Append(kept, line) \in Seq(WalLine) /\ Append(kept, line) # << >>
      /\ Len(Append(kept, line)) = m + 1
      /\ DOMAIN Append(kept, line) = 1 .. m + 1
      /\ \A k \in 1 .. m : Append(kept, line)[k] = lines[k]
      /\ Append(kept, line)[m + 1] = line
  <2> DEFINE all == Append(kept, line)
  <2>1. /\ all \in Seq(WalLine) /\ all # << >> /\ Len(all) = Len(kept) + 1
        /\ \A k \in 1 .. Len(kept) : all[k] = kept[k]
        /\ all[Len(kept) + 1] = line
    BY <1>5, <1>7, AppendProperties
  <2> HIDE DEF all
  <2>2. DOMAIN all = 1 .. Len(all)
    BY <2>1, LenProperties
  <2> QED
    BY <1>7, <2>1, <2>2 DEF all
<1>10. /\ new \in WalFile /\ new.lines # << >> /\ DOMAIN new.lines = 1 .. m + 1
       /\ \A k \in 1 .. m : new.lines[k] = lines[k]
       /\ new.lines[m + 1] = line
  <2> DEFINE all == Append(kept, line)
  <2> HIDE DEF all
  <2>1. new = [lines |-> all, ended |-> FALSE]
    BY <1>8 DEF all
  <2> HIDE DEF new
  <2>2. new \in WalFile
    BY <1>9, <2>1 DEF WalFile, all
  <2> QED
    BY <1>9, <2>1, <2>2 DEF all
<1> HIDE DEF new
<1>11. \A k \in 1 .. m + 1 : k = m + 1 \/ (k \in 1 .. m /\ k \in DOMAIN lines)
  BY <1>1, <1>2
<1>12. \A k \in 1 .. m : ToSet(lines[k].records) \subseteq Written(file)
  <2>1. \A k \in 1 .. m : k \in DOMAIN lines
    BY <1>1, <1>2
  <2> QED
    BY <2>1 DEF Written, lines
<1>13. /\ ToSet(old) \subseteq Written(file)
       /\ \A k \in 1 .. m : AllBefore(ToSet(lines[k].records), ToSet(old))
  <2>1. CASE file.ended
    BY <2>1 DEF old, ToSet, AllBefore
  <2>2. CASE ~ file.ended
    <3>1. old = lines[m + 1].records /\ m + 1 \in DOMAIN lines
      BY <1>3, <2>2 DEF old
    <3>2. ToSet(old) \subseteq Written(file)
      BY <3>1 DEF Written, lines
    <3>3. \A k \in 1 .. m : k < m + 1 /\ k \in DOMAIN lines
      BY <1>1, <1>2
    <3> QED
      BY <3>1, <3>2, <3>3 DEF OrderedFile, lines
  <2> QED
    BY <2>1, <2>2
<1>14. OrderedFile(new)
  <2> SUFFICES ASSUME NEW j \in 1 .. m + 1, NEW k \in 1 .. m + 1, j < k
               PROVE  AllBefore(ToSet(new.lines[j].records), ToSet(new.lines[k].records))
    BY <1>10 DEF OrderedFile
  <2>1. j \in 1 .. m /\ j \in DOMAIN lines
    BY <1>2, <1>11
  <2>2. CASE k \in 1 .. m /\ k \in DOMAIN lines
    BY <1>10, <2>1, <2>2 DEF OrderedFile, lines
  <2>3. CASE k = m + 1
    <3>1. AllBefore(ToSet(lines[j].records), ToSet(old) \cup {r})
      BY <1>12, <1>13, <2>1 DEF AllBefore
    <3> QED
      BY <1>6, <1>10, <2>1, <2>3, <3>1 DEF AllBefore
  <2> QED
    BY <1>11, <2>2, <2>3
<1>15. Written(new) \subseteq Written(file) \cup {r}
  <2> SUFFICES ASSUME NEW k \in 1 .. m + 1
               PROVE  ToSet(new.lines[k].records) \subseteq Written(file) \cup {r}
    BY <1>10 DEF Written
  <2> QED
    BY <1>6, <1>10, <1>11, <1>12, <1>13
<1> QED
  BY <1>10, <1>14, <1>15 DEF Grown, new

\* A record with its newline.
LEMMA RecordGrows ==
  ASSUME NEW file, OrderedFile(file), NEW r \in WalRecordType,
         AllBefore(Written(file), {r})
  PROVE  Grown(WithRecord(file, r), file, r)
<1> DEFINE text == WithText(file, <<r>>, FALSE)
           new == WithRecord(file, r)
<1>1. <<r>> \in Seq(WalRecordType) /\ ToSet(<<r>>) \subseteq {r}
  BY DEF ToSet
<1>2. Grown(text, file, r) /\ text.lines # << >>
  BY <1>1, TextGrows
<1>3. new = [text EXCEPT !.ended = TRUE]
  BY DEF WithRecord
<1> HIDE DEF text, new
<1>4. text \in [lines : Seq(WalLine), ended : BOOLEAN]
  BY <1>2 DEF Grown, OrderedFile, WalFile
<1>5. new.lines = text.lines /\ new.ended = TRUE /\ new \in WalFile
  BY <1>3, <1>4 DEF WalFile
<1>6. OrderedFile(new) /\ Written(new) = Written(text)
  BY <1>2, <1>5 DEF Grown, OrderedFile, Written
<1> QED
  BY <1>2, <1>6 DEF Grown, new

\* A write cut short.
LEMMA CutShortGrows ==
  ASSUME NEW file, OrderedFile(file), NEW r \in WalRecordType,
         AllBefore(Written(file), {r}), NEW new \in CutShort(file, r)
  PROVE  Grown(new, file, r)
<1>1. <<r>> \in Seq(WalRecordType) /\ ToSet(<<r>>) \subseteq {r}
  BY DEF ToSet
<1>2. << >> \in Seq(WalRecordType) /\ ToSet(<< >>) \subseteq {r}
  BY DEF ToSet
<1>3. Grown(WithText(file, <<r>>, FALSE), file, r)
  BY <1>1, TextGrows
<1>4. Grown(WithText(file, << >>, TRUE), file, r)
  BY <1>2, TextGrows
<1>5. Grown(file, file, r)
  BY DEF Grown
<1> QED
  BY <1>3, <1>4, <1>5 DEF CutShort

\* The file write_wal_segment_file leaves after some of the records.
LEMMA RewrittenReads ==
  ASSUME NEW records \in Seq(WalRecordType), Increasing(records),
         NEW n \in 0 .. Len(records)
  PROVE  /\ OrderedFile(RewrittenFile(records, n))
         /\ Written(RewrittenFile(records, n)) = {records[k] : k \in 1 .. n}
         /\ Records(RewrittenFile(records, Len(records))) = records
         /\ RewrittenFile(records, 0) = EmptyFile
         /\ n < Len(records) =>
              WithRecord(RewrittenFile(records, n), records[n + 1])
                = RewrittenFile(records, n + 1)
<1> DEFINE line(k) == [records |-> <<records[k]>>, torn |-> FALSE]
           file(m) == RewrittenFile(records, m)
<1>1. /\ Len(records) \in Nat /\ DOMAIN records = 1 .. Len(records) /\ n \in Nat
      /\ \A k \in DOMAIN records : records[k] \in WalRecordType
  BY LenProperties, ElementOfSeq
<1>2. \A k \in DOMAIN records :
        /\ line(k) \in WalLine /\ Readable(line(k))
        /\ line(k).records[1] = records[k] /\ ToSet(line(k).records) = {records[k]}
  BY <1>1 DEF WalLine, Readable, ToSet
<1>3. ASSUME NEW m \in 0 .. Len(records)
      PROVE  /\ file(m).lines = [k \in 1 .. m |-> line(k)] /\ file(m).ended = TRUE
             /\ file(m).lines \in Seq(WalLine) /\ file(m) \in WalFile
             /\ Len(file(m).lines) = m /\ DOMAIN file(m).lines = 1 .. m
             /\ \A k \in 1 .. m : k \in DOMAIN records /\ file(m).lines[k] = line(k)
  <2>1. m \in Nat /\ \A k \in 1 .. m : k \in DOMAIN records
    BY <1>1
  <2>2. \A k \in 1 .. m : line(k) \in WalLine
    BY <1>2, <2>1
  <2>3. [k \in 1 .. m |-> line(k)] \in Seq(WalLine)
    <3> HIDE DEF line
    <3> QED
      BY <2>1, <2>2, IsASeq
  <2>4. file(m).lines = [k \in 1 .. m |-> line(k)] /\ file(m).ended = TRUE
    BY DEF RewrittenFile
  <2>5. file(m) = [lines |-> [k \in 1 .. m |-> line(k)], ended |-> TRUE]
    BY DEF RewrittenFile
  <2> HIDE DEF line, file
  <2>6. file(m) \in WalFile
    BY <2>3, <2>5 DEF WalFile
  <2> QED
    BY <2>1, <2>3, <2>4, <2>6
<1> HIDE DEF file
<1>4. OrderedFile(file(n)) /\ Written(file(n)) = {records[k] : k \in 1 .. n}
  <2>1. \A k \in 1 .. n : ToSet(file(n).lines[k].records) = {records[k]}
    BY <1>2, <1>3
  <2>2. ASSUME NEW j \in 1 .. n, NEW k \in 1 .. n, j < k
        PROVE  AllBefore({records[j]}, {records[k]})
    BY <1>3, <2>2 DEF AllBefore, Increasing
  <2> HIDE DEF line
  <2>3. OrderedFile(file(n))
    <3>1. \A j, k \in 1 .. n : j < k =>
            AllBefore(ToSet(file(n).lines[j].records), ToSet(file(n).lines[k].records))
      BY <2>1, <2>2
    <3>2. file(n) \in WalFile /\ DOMAIN file(n).lines = 1 .. n
      BY <1>3
    <3> QED
      BY <3>1, <3>2 DEF OrderedFile
  <2>4. Written(file(n)) = UNION {ToSet(file(n).lines[k].records) : k \in 1 .. n}
    BY <1>3 DEF Written
  <2>5. \A r : r \in Written(file(n)) <=> \E k \in 1 .. n : r = records[k]
    BY <2>1, <2>4
  <2> QED
    BY <2>3, <2>5
<1>5. Records(file(Len(records))) = records
  <2> DEFINE f == file(Len(records))
  <2>1. Len(records) \in 0 .. Len(records)
    BY <1>1
  <2>2. /\ DOMAIN f.lines = 1 .. Len(records)
        /\ \A k \in 1 .. Len(records) : f.lines[k] = line(k)
    BY <1>3, <2>1
  <2>3. {k \in DOMAIN f.lines : ~ Readable(f.lines[k])} = {}
    BY <1>1, <1>2, <2>2
  <2> HIDE DEF f
  <2>4. Truncated(f) = f
    BY <2>3 DEF Truncated
  <2>5. Records(f) = [k \in 1 .. Len(records) |-> f.lines[k].records[1]]
    BY <2>2, <2>4 DEF Records
  <2>6. \A k \in 1 .. Len(records) : f.lines[k].records[1] = records[k]
    BY <1>1, <1>2, <2>2
  <2>7. records = [k \in 1 .. Len(records) |-> records[k]]
    BY LenProperties
  <2> HIDE DEF line
  <2> QED
    BY <2>5, <2>6, <2>7 DEF f
<1>6. file(0) = EmptyFile
  <2>1. file(0) = [lines |-> [k \in 1 .. 0 |-> line(k)], ended |-> TRUE]
    BY DEF file, RewrittenFile
  <2>2. [k \in 1 .. 0 |-> line(k)] = << >>
    OBVIOUS
  <2> QED
    BY <2>1, <2>2 DEF EmptyFile
<1>7. ASSUME n < Len(records)
      PROVE  WithRecord(file(n), records[n + 1]) = file(n + 1)
  <2> DEFINE r == records[n + 1]
             old == file(n).lines
  <2>1. /\ n + 1 \in 0 .. Len(records) /\ n + 1 \in DOMAIN records
        /\ old \in Seq(WalLine) /\ Len(old) = n /\ file(n).ended = TRUE
        /\ \A k \in 1 .. n : old[k] = line(k)
    <3>1. n + 1 \in 0 .. Len(records) /\ n + 1 \in DOMAIN records
      BY <1>1, <1>7
    <3> HIDE DEF line
    <3> QED
      BY <1>3, <3>1
  <2>2. WithRecord(file(n), r) = [lines |-> Append(old, line(n + 1)), ended |-> TRUE]
    <3>1. WithText(file(n), <<r>>, FALSE)
            = [lines |-> Append(old, line(n + 1)), ended |-> FALSE]
      BY <2>1 DEF WithText
    <3> DEFINE all == Append(old, line(n + 1))
    <3>2. WithText(file(n), <<r>>, FALSE) = [lines |-> all, ended |-> FALSE]
      BY <3>1
    <3> DEFINE text == WithText(file(n), <<r>>, FALSE)
    <3>3. WithRecord(file(n), r) = [text EXCEPT !.ended = TRUE]
      BY DEF WithRecord
    <3> HIDE DEF all, text, r
    <3>4. text = [lines |-> all, ended |-> FALSE]
      BY <3>2 DEF text
    <3>5. [text EXCEPT !.ended = TRUE] = [lines |-> all, ended |-> TRUE]
      <4>1. text \in [lines : {all}, ended : BOOLEAN]
        BY <3>4
      <4> DEFINE new == [text EXCEPT !.ended = TRUE]
      <4>2. new \in [lines : {all}, ended : {TRUE}]
        BY <4>1
      <4> HIDE DEF new
      <4>3. new = [lines |-> new.lines, ended |-> new.ended]
        BY <4>2
      <4>4. new.lines = all /\ new.ended = TRUE
        BY <4>2
      <4> QED
        BY <4>3, <4>4 DEF new
    <3> QED
      BY <3>3, <3>5 DEF all
  <2>3. line(n + 1) \in WalLine
    BY <1>2, <2>1
  <2> HIDE DEF old
  <2>4. /\ Append(old, line(n + 1)) \in Seq(WalLine)
        /\ Len(Append(old, line(n + 1))) = Len(old) + 1
        /\ \A k \in 1 .. Len(old) : Append(old, line(n + 1))[k] = old[k]
        /\ Append(old, line(n + 1))[Len(old) + 1] = line(n + 1)
    BY <2>1, <2>3, AppendProperties
  <2>5. file(n + 1) = [lines |-> file(n + 1).lines, ended |-> TRUE]
    BY DEF file, RewrittenFile
  <2>6. /\ file(n + 1).lines \in Seq(WalLine) /\ Len(file(n + 1).lines) = n + 1
        /\ \A k \in 1 .. n + 1 : file(n + 1).lines[k] = line(k)
    BY <1>3, <2>1
  <2> DEFINE a == Append(old, line(n + 1))
             b == file(n + 1).lines
  <2>7. \A k \in 1 .. n + 1 : a[k] = line(k)
    <3>1. \A k \in 1 .. n + 1 : k \in 1 .. n \/ k = n + 1
      BY <1>1
    <3> HIDE DEF line, a
    <3> QED
      BY <2>1, <2>4, <3>1 DEF a
  <2>8. a = b
    <3>1. a \in Seq(WalLine) /\ b \in Seq(WalLine) /\ Len(a) = n + 1 /\ Len(b) = n + 1
      BY <2>1, <2>4, <2>6
    <3>2. \A k \in 1 .. Len(a) : a[k] = b[k]
      <4> HIDE DEF line, a, b
      <4> QED
        BY <2>6, <2>7, <3>1 DEF b
    <3> HIDE DEF a, b
    <3> QED
      BY <3>1, <3>2, SeqEqual
  <2> HIDE DEF line
  <2> QED
    BY <2>2, <2>5, <2>8
<1> QED
  BY <1>4, <1>5, <1>6, <1>7 DEF file

\* What reading a directory gives.
DirectoryRead(files, segs) ==
  /\ Cardinality(DOMAIN files) \in Nat
  /\ segs \in Seq(WalSegment) /\ Len(segs) = Cardinality(DOMAIN files)
  /\ \A k \in DOMAIN segs :
       /\ segs[k].segment_id \in DOMAIN files
       /\ segs[k].records = Records(files[segs[k].segment_id])
  /\ \A j, k \in DOMAIN segs : j < k => segs[j].segment_id < segs[k].segment_id
  /\ \A i \in DOMAIN files : \E k \in DOMAIN segs : segs[k].segment_id = i
  /\ AllRecords(segs) \in Seq(WalRecordType) /\ Increasing(AllRecords(segs))
  /\ ToSet(AllRecords(segs)) = UNION {ToSet(Records(files[i])) : i \in DOMAIN files}

LEMMA DirectoryReads ==
  ASSUME NEW files, FilesOrdered(files),
         DOMAIN files \in SUBSET Nat, IsFiniteSet(DOMAIN files)
  PROVE  DirectoryRead(files, ReadSegments(files))
<1> DEFINE ids == Sorted(DOMAIN files)
           n == Cardinality(DOMAIN files)
           segs == ReadSegments(files)
           recs(k) == Records(files[ids[k]])
<1>1. /\ n \in Nat /\ ids \in [1 .. n -> DOMAIN files]
      /\ \A j, k \in 1 .. n : j < k => ids[j] < ids[k]
      /\ \A i \in DOMAIN files : \E j \in 1 .. n : ids[j] = i
  BY SortedLists
<1> HIDE DEF ids, n
<1>2. \A i \in DOMAIN files : /\ OrderedFile(files[i]) /\ i \in Nat
                              /\ Records(files[i]) \in Seq(WalRecordType)
                              /\ Increasing(Records(files[i]))
                              /\ ToSet(Records(files[i])) \subseteq Written(files[i])
  BY FileReads DEF FilesOrdered, ReadsWell
<1>3. segs = [k \in 1 .. n |-> [segment_id |-> ids[k], records |-> recs(k)]]
  BY <1>1 DEF ReadSegments, SegmentsOf, ids
<1>4. \A k \in 1 .. n : ids[k] \in DOMAIN files /\ recs(k) \in Seq(WalRecordType)
  BY <1>1, <1>2
<1>5. segs \in Seq(WalSegment) /\ Len(segs) = n /\ DOMAIN segs = 1 .. n
  <2>1. \A k \in 1 .. n : [segment_id |-> ids[k], records |-> recs(k)] \in WalSegment
    BY <1>2, <1>4 DEF WalSegment
  <2> HIDE DEF recs
  <2>2. [k \in 1 .. n |-> [segment_id |-> ids[k], records |-> recs(k)]] \in Seq(WalSegment)
    BY <1>1, <2>1, IsASeq
  <2> QED
    BY <1>1, <1>3, <2>2
<1>6. \A k \in 1 .. n : segs[k].segment_id = ids[k] /\ segs[k].records = recs(k)
  BY <1>3
<1> HIDE DEF segs
<1> DEFINE ss == [k \in DOMAIN segs |-> segs[k].records]
<1>7. /\ ss \in Seq(Seq(WalRecordType)) /\ DOMAIN ss = 1 .. n
      /\ \A k \in 1 .. n : ss[k] = recs(k)
  <2>1. \A k \in 1 .. n : segs[k].records \in Seq(WalRecordType)
    BY <1>4, <1>6
  <2>2. [k \in 1 .. n |-> segs[k].records] \in Seq(Seq(WalRecordType))
    BY <1>1, <2>1, IsASeq
  <2>3. ss = [k \in 1 .. n |-> segs[k].records]
    BY <1>5
  <2> QED
    BY <1>6, <2>2, <2>3
<1>8. AllRecords(segs) = FlattenSeq(ss)
  BY DEF AllRecords
<1> HIDE DEF ss
<1>9. \A k \in DOMAIN ss : Increasing(ss[k])
  BY <1>1, <1>2, <1>7
<1>10. ASSUME NEW j \in DOMAIN ss, NEW k \in DOMAIN ss, j < k
       PROVE  AllBefore(ToSet(ss[j]), ToSet(ss[k]))
  <2>1. /\ ids[j] \in DOMAIN files /\ ids[k] \in DOMAIN files /\ ids[j] < ids[k]
        /\ ss[j] = Records(files[ids[j]]) /\ ss[k] = Records(files[ids[k]])
    BY <1>1, <1>7, <1>10
  <2>2. AllBefore(Written(files[ids[j]]), Written(files[ids[k]]))
    BY <2>1 DEF FilesOrdered
  <2> QED
    BY <1>2, <2>1, <2>2 DEF AllBefore
<1>11. /\ FlattenSeq(ss) \in Seq(WalRecordType) /\ Increasing(FlattenSeq(ss))
       /\ ToSet(FlattenSeq(ss)) = UNION {ToSet(ss[k]) : k \in DOMAIN ss}
  BY <1>7, <1>9, <1>10, FlattenOrdered
<1>12. UNION {ToSet(ss[k]) : k \in DOMAIN ss}
         = UNION {ToSet(Records(files[i])) : i \in DOMAIN files}
  <2>1. ASSUME NEW k \in 1 .. n
        PROVE  ids[k] \in DOMAIN files /\ ss[k] = Records(files[ids[k]])
    BY <1>1, <1>7
  <2>2. \A i \in DOMAIN files : \E k \in 1 .. n : ss[k] = Records(files[i])
    BY <1>1, <2>1
  <2> QED
    BY <1>7, <2>1, <2>2
<1>13. \A i \in DOMAIN files : \E k \in DOMAIN segs : segs[k].segment_id = i
  BY <1>1, <1>5, <1>6
<1>14. \A j, k \in DOMAIN segs : j < k => segs[j].segment_id < segs[k].segment_id
  BY <1>1, <1>5, <1>6
<1>15. \A k \in DOMAIN segs : /\ segs[k].segment_id \in DOMAIN files
                              /\ segs[k].records = Records(files[segs[k].segment_id])
  BY <1>4, <1>5, <1>6
<1> QED
  BY <1>1, <1>5, <1>8, <1>11, <1>12, <1>13, <1>14, <1>15 DEF DirectoryRead, segs, n

\* r is the newest of the records.
Newest(records, r) ==
  /\ r \in WalRecordType
  /\ \A s \in ToSet(records) : s.id <= r.id /\ s.index <= r.index
  /\ records # << >> => r = records[Len(records)] /\ r \in ToSet(records)

\* Of records in their order recovery picks the newest.
LEMMA LatestIsNewest ==
  ASSUME NEW records \in Seq(WalRecordType), Increasing(records)
  PROVE  Newest(records, LatestOf(records))
<1> DEFINE n == Len(records)
           last == records[n]
<1>1. /\ n \in Nat /\ DOMAIN records = 1 .. n
      /\ \A k \in 1 .. n : records[k] \in [id : Nat, index : Nat]
  BY LenProperties, ElementOfSeq DEF WalRecordType
<1>2. CASE records = << >>
  <2>1. LatestOf(records) = NoRecord /\ ToSet(records) = {}
    BY <1>2 DEF LatestOf, ToSet
  <2> QED
    BY <1>2, <2>1 DEF Newest, WalRecordType, NoRecord
<1>3. CASE records # << >>
  <2>1. n \in DOMAIN records /\ last \in WalRecordType
    BY <1>1, <1>3, EmptySeq DEF WalRecordType
  <2>2. ASSUME NEW k \in DOMAIN records
        PROVE  records[k].id <= last.id /\ records[k].index <= last.index
    <3>1. CASE k = n
      BY <1>1, <2>1, <3>1
    <3>2. CASE k < n
      <4>1. Before(records[k], last)
        BY <2>1, <3>2 DEF Increasing
      <4> QED
        BY <1>1, <2>1, <4>1 DEF Before
    <3> QED
      BY <1>1, <3>1, <3>2
  <2> DEFINE S == {records[k].index : k \in DOMAIN records}
             highest == Max(S)
  <2>3. highest = last.index
    <3>1. S \in SUBSET Nat /\ last.index \in S /\ last.index \in Nat
      BY <1>1, <2>1
    <3>2. \A y \in S : y <= last.index
      BY <2>2
    <3> HIDE DEF S
    <3>3. Max(S) \in S /\ \A y \in S : y <= Max(S)
      BY <3>1, <3>2, MaxNat
    <3>4. Max(S) \in Nat /\ last.index <= Max(S) /\ Max(S) <= last.index
      BY <3>1, <3>2, <3>3
    <3> QED
      BY <3>1, <3>4
  <2> DEFINE T == {k \in DOMAIN records : records[k].index = highest}
  <2>4. LatestOf(records) = records[Max(T)]
    BY <1>3 DEF LatestOf
  <2> HIDE DEF highest
  <2>5. Max(T) = n
    <3>1. T \in SUBSET Nat /\ n \in T /\ \A y \in T : y <= n
      BY <1>1, <2>1, <2>3
    <3> HIDE DEF T
    <3>2. Max(T) \in T /\ \A y \in T : y <= Max(T)
      BY <1>1, <3>1, MaxNat
    <3>3. Max(T) \in Nat /\ n <= Max(T) /\ Max(T) <= n
      BY <3>1, <3>2
    <3> QED
      BY <1>1, <3>3
  <2>6. LatestOf(records) = last
    BY <2>4, <2>5
  <2>7. last \in ToSet(records) /\ \A s \in ToSet(records) :
                                      s.id <= last.id /\ s.index <= last.index
    BY <2>1, <2>2 DEF ToSet
  <2> HIDE DEF last
  <2>8. Newest(records, last)
    BY <2>1, <2>7 DEF Newest, last
  <2> QED
    BY <2>6, <2>8
<1> QED
  BY <1>2, <1>3

\* Taking records away, but not the newest one, does not change which it is.
LEMMA NewestStays ==
  ASSUME NEW a \in Seq(WalRecordType), Increasing(a),
         NEW b \in Seq(WalRecordType), Increasing(b),
         ToSet(b) \subseteq ToSet(a), LatestOf(a) \in ToSet(b)
  PROVE  LatestOf(b) = LatestOf(a)
<1> DEFINE r == LatestOf(a)
           s == LatestOf(b)
<1>1. Newest(a, r) /\ Newest(b, s)
  BY LatestIsNewest
<1>2. r \in ToSet(b)
  OBVIOUS
<1> HIDE DEF r, s
<1>3. a # << >> /\ b # << >>
  <2>1. ToSet(b) # {} /\ ToSet(a) # {}
    BY <1>2
  <2> QED
    BY <2>1 DEF ToSet
<1>4. s \in ToSet(a) /\ r = a[Len(a)] /\ r \in WalRecordType /\ s \in WalRecordType
  BY <1>1, <1>3 DEF Newest
<1>5. PICK k \in DOMAIN a : s = a[k]
  BY <1>4 DEF ToSet
<1>6. r.id <= s.id /\ r.id \in Nat /\ s.id \in Nat
  BY <1>1, <1>2, <1>4 DEF Newest, WalRecordType
<1>7. Len(a) \in Nat /\ DOMAIN a = 1 .. Len(a) /\ Len(a) \in DOMAIN a
  BY <1>3, LenProperties, EmptySeq
<1>8. k < Len(a) => s.id < r.id
  BY <1>4, <1>5, <1>7 DEF Increasing, Before
<1>9. k = Len(a)
  BY <1>5, <1>6, <1>7, <1>8
<1> QED
  BY <1>4, <1>5, <1>9 DEF r, s

\* The active segment is the last one.
LEMMA ActiveIsLast ==
  ASSUME NEW files, NEW segs, SegmentsMatch(files, segs)
  PROVE  /\ Len(segs) \in Nat \ {0} /\ DOMAIN segs = 1 .. Len(segs)
         /\ Last(segs) = segs[Len(segs)] /\ Last(segs) \in WalSegment
         /\ Last(segs).segment_id \in Nat /\ Last(segs).segment_id \in DOMAIN files
         /\ Last(segs).records \in Seq(WalRecordType) /\ Increasing(Last(segs).records)
         /\ \A k \in DOMAIN segs : segs[k].segment_id \in Nat
         /\ \A k \in 1 .. Len(segs) - 1 :
              k \in DOMAIN segs /\ segs[k].segment_id < Last(segs).segment_id
<1>1. segs \in Seq(WalSegment) /\ segs # << >>
  BY DEF SegmentsMatch
<1>2. Len(segs) \in Nat \ {0} /\ DOMAIN segs = 1 .. Len(segs)
  BY <1>1, LenProperties, EmptySeq
<1>3. Len(segs) \in DOMAIN segs /\ Last(segs) = segs[Len(segs)]
  BY <1>2 DEF Last
<1>4. \A k \in DOMAIN segs : segs[k] \in WalSegment
  BY <1>1, <1>2, ElementOfSeq
<1>5. \A k \in 1 .. Len(segs) - 1 : k \in DOMAIN segs /\ k < Len(segs)
  BY <1>2
<1>6. \A k \in DOMAIN segs : segs[k].segment_id \in Nat
  BY <1>4 DEF WalSegment
<1>7. Last(segs).records \in Seq(WalRecordType)
  BY <1>3, <1>4 DEF WalSegment
<1> QED
  BY <1>2, <1>3, <1>4, <1>5, <1>6, <1>7 DEF SegmentsMatch

\* The active file is written.
LEMMA ActiveFileSet ==
  ASSUME NEW files, DOMAIN files \in SUBSET Nat, FilesOrdered(files),
         NEW segs, SegmentsMatch(files, segs),
         NEW file, OrderedFile(file),
         \A i \in DOMAIN files : i < Last(segs).segment_id =>
           AllBefore(Written(files[i]), Written(file))
  PROVE  /\ FilesOrdered([files EXCEPT ![Last(segs).segment_id] = file])
         /\ SegmentsMatch([files EXCEPT ![Last(segs).segment_id] = file], segs)
<1> DEFINE a == Last(segs).segment_id
           new == [files EXCEPT ![a] = file]
<1>1. /\ a \in DOMAIN files /\ a \in Nat
      /\ \A k \in 1 .. Len(segs) - 1 : k \in DOMAIN segs /\ segs[k].segment_id < a
      /\ \A k \in DOMAIN segs : segs[k].segment_id \in Nat
  BY ActiveIsLast
<1>2. /\ DOMAIN new = DOMAIN files /\ new[a] = file
      /\ \A i \in DOMAIN files : i # a => new[i] = files[i]
      /\ new = [i \in DOMAIN new |-> new[i]]
  BY <1>1
<1>3. /\ \A i \in DOMAIN files : i > a => files[i] = EmptyFile
      /\ \A i \in DOMAIN files : i < a => AllBefore(Written(files[i]), Written(file))
      /\ \A i \in DOMAIN files : i < a =>
           AllBefore(Written(files[i]), ToSet(Last(segs).records))
      /\ \A k \in 1 .. Len(segs) - 1 : segs[k].segment_id \in DOMAIN files =>
           Records(files[segs[k].segment_id]) = segs[k].records
  BY DEF SegmentsMatch
<1> HIDE DEF new, a
<1>4. FilesOrdered(new)
  <2>1. \A i \in DOMAIN new : OrderedFile(new[i])
    BY <1>2 DEF FilesOrdered
  <2>2. ASSUME NEW i \in DOMAIN new, NEW j \in DOMAIN new, i < j
        PROVE  AllBefore(Written(new[i]), Written(new[j]))
    <3>1. CASE j = a
      BY <1>1, <1>2, <1>3, <2>2, <3>1
    <3>2. CASE i = a
      <4>1. new[j] = EmptyFile
        BY <1>1, <1>2, <1>3, <2>2, <3>2
      <4> QED
        BY <4>1, EmptyFileReads DEF AllBefore
    <3>3. CASE i # a /\ j # a
      BY <1>2, <2>2, <3>3 DEF FilesOrdered
    <3> QED
      BY <3>1, <3>2, <3>3
  <2> QED
    BY <1>2, <2>1, <2>2 DEF FilesOrdered
<1>5. SegmentsMatch(new, segs)
  <2>1. \A i \in DOMAIN new : i > a => new[i] = EmptyFile
    BY <1>1, <1>2, <1>3
  <2>2. \A i \in DOMAIN new : i < a =>
          AllBefore(Written(new[i]), ToSet(Last(segs).records))
    BY <1>1, <1>2, <1>3
  <2>3. \A k \in 1 .. Len(segs) - 1 : segs[k].segment_id \in DOMAIN new =>
          Records(new[segs[k].segment_id]) = segs[k].records
    <3> SUFFICES ASSUME NEW k \in 1 .. Len(segs) - 1, segs[k].segment_id \in DOMAIN new
                 PROVE  Records(new[segs[k].segment_id]) = segs[k].records
      OBVIOUS
    <3>1. segs[k].segment_id # a
      BY <1>1
    <3> QED
      BY <1>2, <1>3, <3>1
  <2> QED
    BY <1>1, <1>2, <2>1, <2>2, <2>3 DEF SegmentsMatch, a
<1> QED
  BY <1>4, <1>5 DEF new, a

\* A record is added to the active segment in memory, its file being written.
LEMMA ActiveRecordsGrow ==
  ASSUME NEW files, NEW segs, SegmentsMatch(files, segs),
         NEW r \in WalRecordType,
         AllBefore(ToSet(Last(segs).records), {r}),
         \A i \in DOMAIN files : i < Last(segs).segment_id =>
           AllBefore(Written(files[i]), {r}),
         NEW new, new = [segs EXCEPT ![Len(segs)].records = Append(@, r)]
  PROVE  /\ SegmentsMatch(files, new)
         /\ ActiveHolds(new, Last(segs).segment_id, ToSet(Last(segs).records) \cup {r})
<1> DEFINE n == Len(segs)
           old == Last(segs).records
           all == Append(old, r)
<1>1. /\ n \in Nat \ {0} /\ DOMAIN segs = 1 .. n /\ n \in DOMAIN segs
      /\ Last(segs) = segs[n] /\ segs[n] \in WalSegment
      /\ old \in Seq(WalRecordType) /\ Increasing(old) /\ segs \in Seq(WalSegment)
  BY ActiveIsLast DEF SegmentsMatch
<1>2. /\ all \in Seq(WalRecordType) /\ Len(all) = Len(old) + 1
      /\ \A i \in 1 .. Len(old) : all[i] = old[i]
      /\ all[Len(old) + 1] = r
      /\ Len(old) \in Nat /\ DOMAIN old = 1 .. Len(old) /\ DOMAIN all = 1 .. Len(old) + 1
  <2>1. Len(old) \in Nat /\ DOMAIN old = 1 .. Len(old)
    BY <1>1, LenProperties
  <2>2. /\ all \in Seq(WalRecordType) /\ Len(all) = Len(old) + 1
        /\ \A i \in 1 .. Len(old) : all[i] = old[i]
        /\ all[Len(old) + 1] = r
    BY <1>1, AppendProperties
  <2> HIDE DEF all
  <2>3. DOMAIN all = 1 .. Len(all)
    BY <2>2, LenProperties
  <2> QED
    BY <2>1, <2>2, <2>3
<1>3. new = [segs EXCEPT ![n] = [segs[n] EXCEPT !.records = all]]
  BY <1>1
<1> HIDE DEF all, n, old
<1>4. ToSet(all) = ToSet(old) \cup {r}
  <2>1. \A k \in DOMAIN all : k \in DOMAIN old \/ k = Len(old) + 1
    BY <1>2
  <2>2. \A k \in DOMAIN old : k \in DOMAIN all /\ all[k] = old[k]
    BY <1>2
  <2>3. Len(old) + 1 \in DOMAIN all
    BY <1>2
  <2> QED
    BY <1>2, <2>1, <2>2, <2>3 DEF ToSet
<1>5. Increasing(all)
  <2> SUFFICES ASSUME NEW j \in DOMAIN all, NEW k \in DOMAIN all, j < k
               PROVE  Before(all[j], all[k])
    BY DEF Increasing
  <2>1. j \in DOMAIN old /\ all[j] = old[j]
    BY <1>2
  <2>2. CASE k \in DOMAIN old
    BY <1>1, <1>2, <2>1, <2>2 DEF Increasing
  <2>3. CASE k = Len(old) + 1
    BY <1>2, <2>1, <2>3 DEF AllBefore, ToSet, old
  <2> QED
    BY <1>2, <2>2, <2>3
<1>6. /\ DOMAIN new = DOMAIN segs
      /\ new[n].segment_id = segs[n].segment_id /\ new[n].records = all
      /\ new[n] \in WalSegment
      /\ \A k \in DOMAIN segs : k # n => new[k] = segs[k]
  BY <1>1, <1>2, <1>3 DEF WalSegment
<1>7. new \in Seq(WalSegment) /\ Len(new) = n
  <2> DEFINE seg == [segs[n] EXCEPT !.records = all]
  <2>1. seg \in WalSegment /\ new = [segs EXCEPT ![n] = seg]
    BY <1>1, <1>2, <1>3 DEF WalSegment
  <2>2. n \in 1 .. Len(segs)
    BY <1>1 DEF n
  <2> HIDE DEF seg
  <2>3. /\ [segs EXCEPT ![n] = seg] \in Seq(WalSegment)
        /\ Len([segs EXCEPT ![n] = seg]) = Len(segs)
    <3>1. segs \in Seq(WalSegment) /\ seg \in WalSegment
      BY <1>1, <2>1
    <3> QED
      BY <2>2, <3>1, ExceptSeq
  <2> QED
    BY <2>1, <2>3 DEF n
<1>8. Last(new) = new[n] /\ new # << >>
  <2>1. Len(new) # 0
    BY <1>1, <1>7
  <2> QED
    BY <1>7, <2>1, EmptySeq DEF Last
<1>9. \A k \in DOMAIN new : new[k].segment_id = segs[k].segment_id
  BY <1>6
<1>10. \A k \in 1 .. n - 1 : k \in DOMAIN segs /\ new[k] = segs[k]
  BY <1>1, <1>6
<1>11. Last(new).segment_id = Last(segs).segment_id
  BY <1>1, <1>6, <1>8
<1>12. \A k \in DOMAIN new : Increasing(new[k].records)
  BY <1>5, <1>6 DEF SegmentsMatch
<1>13. \A i \in DOMAIN files : i < Last(new).segment_id =>
         AllBefore(Written(files[i]), ToSet(Last(new).records))
  <2> SUFFICES ASSUME NEW i \in DOMAIN files, i < Last(segs).segment_id
               PROVE  AllBefore(Written(files[i]), ToSet(old) \cup {r})
    BY <1>4, <1>6, <1>8, <1>11
  <2>1. AllBefore(Written(files[i]), ToSet(old)) /\ AllBefore(Written(files[i]), {r})
    BY DEF SegmentsMatch, old
  <2> QED
    BY <2>1 DEF AllBefore
<1>14. \A k \in 1 .. Len(new) - 1 : new[k].segment_id \in DOMAIN files =>
         Records(files[new[k].segment_id]) = new[k].records
  BY <1>7, <1>10 DEF SegmentsMatch, n
<1>15. /\ Last(new).segment_id \in DOMAIN files
       /\ \A i \in DOMAIN files : i > Last(new).segment_id => files[i] = EmptyFile
       /\ \A j, k \in DOMAIN new : j < k => new[j].segment_id < new[k].segment_id
  BY <1>6, <1>9, <1>11 DEF SegmentsMatch
<1>16. SegmentsMatch(files, new)
  BY <1>7, <1>8, <1>12, <1>13, <1>14, <1>15 DEF SegmentsMatch
<1> QED
  BY <1>4, <1>6, <1>8, <1>11, <1>16 DEF ActiveHolds, old

\* The file of the next segment is created.
LEMMA NextFileAdded ==
  ASSUME NEW files, DOMAIN files \in SUBSET Nat, FilesOrdered(files),
         NEW segs, SegmentsMatch(files, segs),
         NEW next \in Nat, \A i \in DOMAIN files : i < next,
         NEW new, new = [i \in DOMAIN files \cup {next} |->
                           IF i = next THEN EmptyFile ELSE files[i]]
  PROVE  FilesOrdered(new) /\ SegmentsMatch(new, segs)
<1> DEFINE a == Last(segs).segment_id
<1>1. /\ a \in DOMAIN files /\ a \in Nat
      /\ \A k \in 1 .. Len(segs) - 1 : segs[k].segment_id < a
      /\ \A k \in 1 .. Len(segs) - 1 : segs[k].segment_id \in Nat
  BY ActiveIsLast
<1>2. /\ DOMAIN new = DOMAIN files \cup {next} /\ new[next] = EmptyFile
      /\ \A i \in DOMAIN files : i # next /\ new[i] = files[i]
      /\ new = [i \in DOMAIN new |-> new[i]] /\ a < next
  BY <1>1
<1> HIDE DEF a
<1>3. FilesOrdered(new)
  <2>1. \A i \in DOMAIN new : OrderedFile(new[i])
    BY <1>2, EmptyFileReads DEF FilesOrdered
  <2>2. ASSUME NEW i \in DOMAIN new, NEW j \in DOMAIN new, i < j
        PROVE  AllBefore(Written(new[i]), Written(new[j]))
    <3>1. CASE j = next
      BY <1>2, <3>1, EmptyFileReads DEF AllBefore
    <3>2. CASE i = next
      BY <1>2, <3>2, EmptyFileReads DEF AllBefore
    <3>3. CASE i \in DOMAIN files /\ j \in DOMAIN files
      BY <1>2, <2>2, <3>3 DEF FilesOrdered
    <3> QED
      BY <1>2, <3>1, <3>2, <3>3
  <2> QED
    BY <1>2, <2>1, <2>2 DEF FilesOrdered
<1>4. SegmentsMatch(new, segs)
  <2>1. \A i \in DOMAIN new : i > a => new[i] = EmptyFile
    BY <1>2 DEF SegmentsMatch, a
  <2>2. \A i \in DOMAIN new : i < a =>
          AllBefore(Written(new[i]), ToSet(Last(segs).records))
    <3> SUFFICES ASSUME NEW i \in DOMAIN new, i < a
                 PROVE  AllBefore(Written(new[i]), ToSet(Last(segs).records))
      OBVIOUS
    <3>1. i \in DOMAIN files
      BY <1>1, <1>2
    <3> QED
      BY <1>2, <3>1 DEF SegmentsMatch, a
  <2>3. \A k \in 1 .. Len(segs) - 1 : segs[k].segment_id \in DOMAIN new =>
          Records(new[segs[k].segment_id]) = segs[k].records
    <3> SUFFICES ASSUME NEW k \in 1 .. Len(segs) - 1, segs[k].segment_id \in DOMAIN new
                 PROVE  Records(new[segs[k].segment_id]) = segs[k].records
      OBVIOUS
    <3>1. segs[k].segment_id \in DOMAIN files
      BY <1>1, <1>2
    <3> QED
      BY <1>2, <3>1 DEF SegmentsMatch
  <2> QED
    BY <1>1, <1>2, <2>1, <2>2, <2>3 DEF SegmentsMatch, a
<1> QED
  BY <1>3, <1>4

\* The next segment becomes the active one, the last being written completely.
LEMMA NextSegmentAdded ==
  ASSUME NEW files, NEW segs, SegmentsMatch(files, segs),
         NEW next \in DOMAIN files, next \in Nat, Last(segs).segment_id < next,
         \A i \in DOMAIN files : i \in Nat /\ i <= next,
         Records(files[Last(segs).segment_id]) = Last(segs).records,
         NEW new, new = Append(segs, [segment_id |-> next, records |-> << >>])
  PROVE  /\ SegmentsMatch(files, new)
         /\ ActiveHolds(new, next, {})
<1> DEFINE n == Len(segs)
           seg == [segment_id |-> next, records |-> << >>]
<1>1. /\ n \in Nat \ {0} /\ DOMAIN segs = 1 .. n
      /\ Last(segs) = segs[n] /\ segs \in Seq(WalSegment)
      /\ \A k \in 1 .. n - 1 : segs[k].segment_id < Last(segs).segment_id
      /\ \A k \in DOMAIN segs : segs[k].segment_id \in Nat
  BY ActiveIsLast DEF SegmentsMatch
<1>2. seg \in WalSegment /\ Increasing(seg.records) /\ ToSet(seg.records) = {}
  <2>1. << >> \in Seq(WalRecordType)
    BY EmptySeq
  <2> QED
    BY <2>1 DEF WalSegment, Increasing, ToSet
<1>3. /\ new \in Seq(WalSegment) /\ new # << >> /\ Len(new) = n + 1
      /\ \A k \in 1 .. n : new[k] = segs[k]
      /\ new[n + 1] = seg
  <2> HIDE DEF seg
  <2> QED
    BY <1>1, <1>2, AppendProperties DEF seg
<1>4. seg.segment_id = next /\ seg.records = << >>
  OBVIOUS
<1> HIDE DEF n, seg
<1>5. DOMAIN new = 1 .. n + 1 /\ Last(new) = seg
  BY <1>3, LenProperties DEF Last
<1>6. \A k \in 1 .. n + 1 : k \in 1 .. n \/ k = n + 1
  BY <1>1
<1>7. \A k \in 1 .. n : segs[k].segment_id < next
  <2> SUFFICES ASSUME NEW k \in 1 .. n PROVE segs[k].segment_id < next
    OBVIOUS
  <2>1. k \in 1 .. n - 1 \/ k = n
    BY <1>1
  <2>2. segs[k].segment_id \in Nat /\ Last(segs).segment_id \in Nat
    BY <1>1
  <2> QED
    BY <1>1, <2>1, <2>2
<1>8. ASSUME NEW j \in DOMAIN new, NEW k \in DOMAIN new, j < k
      PROVE  new[j].segment_id < new[k].segment_id
  <2>1. j \in 1 .. n
    BY <1>1, <1>5, <1>8
  <2>2. CASE k = n + 1
    BY <1>3, <1>4, <1>7, <2>1, <2>2
  <2>3. CASE k \in 1 .. n
    BY <1>1, <1>3, <1>8, <2>1, <2>3 DEF SegmentsMatch
  <2> QED
    BY <1>5, <1>6, <2>2, <2>3
<1>9. \A k \in DOMAIN new : Increasing(new[k].records)
  BY <1>1, <1>2, <1>3, <1>5, <1>6 DEF SegmentsMatch
<1>10. \A i \in DOMAIN files : ~ (i > next)
  OBVIOUS
<1>11. \A k \in 1 .. Len(new) - 1 : new[k].segment_id \in DOMAIN files =>
         Records(files[new[k].segment_id]) = new[k].records
  <2> SUFFICES ASSUME NEW k \in 1 .. n, segs[k].segment_id \in DOMAIN files
               PROVE  Records(files[segs[k].segment_id]) = segs[k].records
    BY <1>1, <1>3
  <2>1. CASE k = n
    BY <1>1, <2>1
  <2>2. CASE k \in 1 .. n - 1
    BY <2>2 DEF SegmentsMatch, n
  <2> QED
    BY <1>1, <2>1, <2>2
<1>12. \A i \in DOMAIN files : AllBefore(Written(files[i]), ToSet(seg.records))
  BY <1>2 DEF AllBefore
<1> QED
  <2>1. SegmentsMatch(files, new)
    BY <1>3, <1>4, <1>5, <1>8, <1>9, <1>10, <1>11, <1>12 DEF SegmentsMatch
  <2>2. ActiveHolds(new, next, {})
    BY <1>2, <1>4, <1>5 DEF ActiveHolds
  <2> QED
    BY <2>1, <2>2

\* Files other than the active one are removed.
LEMMA FilesRemoved ==
  ASSUME NEW files, FilesOrdered(files), NEW segs, SegmentsMatch(files, segs),
         NEW D \in SUBSET DOMAIN files, Last(segs).segment_id \in D,
         NEW new, new = [i \in D |-> files[i]]
  PROVE  FilesOrdered(new) /\ SegmentsMatch(new, segs)
<1>1. /\ DOMAIN new = D /\ new = [i \in DOMAIN new |-> new[i]]
      /\ \A i \in D : i \in DOMAIN files /\ new[i] = files[i]
  OBVIOUS
<1>2. FilesOrdered(new)
  BY <1>1 DEF FilesOrdered
<1>3. SegmentsMatch(new, segs)
  BY <1>1 DEF SegmentsMatch
<1> QED
  BY <1>2, <1>3

\* Segments in memory other than the active one are dropped.
LEMMA SegmentsDropped ==
  ASSUME NEW files, NEW segs, SegmentsMatch(files, segs),
         NEW K \in SUBSET DOMAIN segs, Len(segs) \in K,
         NEW new, new = [j \in DOMAIN Sorted(K) |-> segs[Sorted(K)[j]]]
  PROVE  SegmentsMatch(files, new) /\ SameActive(new, segs)
<1> DEFINE n == Len(segs)
           m == Cardinality(K)
           s == Sorted(K)
<1>1. /\ n \in Nat \ {0} /\ DOMAIN segs = 1 .. n
      /\ Last(segs) = segs[n] /\ segs \in Seq(WalSegment)
      /\ \A k \in DOMAIN segs : segs[k] \in WalSegment
  BY ActiveIsLast, ElementOfSeq DEF SegmentsMatch
<1>2. K \in SUBSET Nat /\ IsFiniteSet(K)
  <2>1. IsFiniteSet(1 .. n)
    BY <1>1, FS_Interval
  <2> HIDE DEF n
  <2> QED
    BY <1>1, <2>1, FS_Subset
<1>3. /\ m \in Nat /\ s \in [1 .. m -> K]
      /\ \A j, k \in 1 .. m : j < k => s[j] < s[k]
      /\ \A i \in K : \E j \in 1 .. m : s[j] = i
  BY <1>2, SortedLists
<1> HIDE DEF m, s
<1>4. m \in 1 .. m /\ s[m] = n
  <2>1. PICK j \in 1 .. m : s[j] = n
    BY <1>3
  <2>2. m \in 1 .. m
    BY <1>3, <2>1
  <2>3. s[m] \in Nat /\ s[m] <= n
    BY <1>1, <1>3, <2>2
  <2>4. ~ (j < m)
    <3>1. j < m => s[j] < s[m]
      BY <1>3, <2>2
    <3> QED
      BY <1>1, <2>1, <2>3, <3>1
  <2>5. j = m
    BY <1>3, <2>4
  <2> QED
    BY <2>1, <2>2, <2>5
<1>5. new = [j \in 1 .. m |-> segs[s[j]]]
  BY <1>3 DEF s
<1>6. /\ DOMAIN new = 1 .. m
      /\ \A j \in 1 .. m : s[j] \in DOMAIN segs /\ new[j] = segs[s[j]]
  BY <1>3, <1>5
<1>7. new \in Seq(WalSegment) /\ Len(new) = m
  <2>1. \A j \in 1 .. m : segs[s[j]] \in WalSegment
    BY <1>1, <1>6
  <2>2. [j \in 1 .. m |-> segs[s[j]]] \in Seq(WalSegment)
    BY <1>3, <2>1, IsASeq
  <2> QED
    BY <1>3, <1>5, <2>2
<1>8. Last(new) = Last(segs) /\ new # << >>
  <2>1. Last(new) = Last(segs)
    BY <1>1, <1>4, <1>6, <1>7 DEF Last
  <2>2. Len(new) # 0
    BY <1>3, <1>4, <1>7
  <2> QED
    BY <1>7, <2>1, <2>2, EmptySeq
<1>9. \A j, k \in DOMAIN new : j < k => new[j].segment_id < new[k].segment_id
  BY <1>3, <1>6 DEF SegmentsMatch
<1>10. \A k \in DOMAIN new : Increasing(new[k].records)
  BY <1>6 DEF SegmentsMatch
<1>11. \A k \in 1 .. Len(new) - 1 : new[k].segment_id \in DOMAIN files =>
         Records(files[new[k].segment_id]) = new[k].records
  <2> SUFFICES ASSUME NEW k \in 1 .. m - 1, new[k].segment_id \in DOMAIN files
               PROVE  Records(files[new[k].segment_id]) = new[k].records
    BY <1>7
  <2>1. k \in 1 .. m /\ k < m
    BY <1>3
  <2>2. s[k] < n /\ s[k] \in 1 .. n - 1
    <3>1. s[k] < s[m]
      BY <1>3, <1>4, <2>1
    <3> QED
      BY <1>1, <1>4, <1>6, <2>1, <3>1
  <2> QED
    BY <1>6, <2>1, <2>2 DEF SegmentsMatch, n
<1> QED
  BY <1>7, <1>8, <1>9, <1>10, <1>11 DEF SegmentsMatch, SameActive

\* What a file holds are records.
LEMMA WrittenTyped ==
  ASSUME NEW file, OrderedFile(file)
  PROVE  Written(file) \in SUBSET WalRecordType
<1>1. /\ DOMAIN file.lines = 1 .. Len(file.lines)
      /\ \A k \in 1 .. Len(file.lines) : file.lines[k] \in WalLine
  <2>1. file.lines \in Seq(WalLine)
    BY DEF OrderedFile, WalFile
  <2> QED
    BY <2>1, LenProperties, ElementOfSeq
<1>2. ASSUME NEW k \in DOMAIN file.lines, NEW r \in ToSet(file.lines[k].records)
      PROVE  r \in WalRecordType
  <2>1. file.lines[k].records \in Seq(WalRecordType)
    BY <1>1 DEF WalLine
  <2> QED
    BY <2>1, LenProperties, ElementOfSeq DEF ToSet
<1> QED
  BY <1>2 DEF Written

\* Known records are in a file or in the active segment.
LEMMA KnownAre ==
  ASSUME NEW files, NEW segs
  PROVE  /\ \A i \in DOMAIN files : Written(files[i]) \subseteq Known(files, segs)
         /\ ToSet(Last(segs).records) \subseteq Known(files, segs)
         /\ \A R : (\A i \in DOMAIN files : Written(files[i]) \subseteq R)
                   /\ ToSet(Last(segs).records) \subseteq R
                  => Known(files, segs) \subseteq R
<1> DEFINE active == ToSet(Last(segs).records)
<1>1. Known(files, segs) = active \cup UNION {Written(files[i]) : i \in DOMAIN files}
  BY DEF Known
<1> HIDE DEF active
<1>2. \A r : r \in Known(files, segs) <=>
             (\E i \in DOMAIN files : r \in Written(files[i])) \/ r \in active
  BY <1>1
<1>3. /\ \A i \in DOMAIN files : Written(files[i]) \subseteq Known(files, segs)
      /\ active \subseteq Known(files, segs)
  BY <1>2
<1>4. ASSUME NEW R, \A i \in DOMAIN files : Written(files[i]) \subseteq R,
             active \subseteq R
      PROVE  Known(files, segs) \subseteq R
  BY <1>2, <1>4
<1> QED
  BY <1>3, <1>4 DEF active

\* The state of an open log.
LEMMA OpenLog ==
  ASSUME WalInv, step # "closed"
  PROVE  /\ DOMAIN disk \in SUBSET Nat /\ FilesOrdered(disk) /\ SegmentsMatch(disk, segments)
         /\ next_segment_id \in Nat /\ \A i \in DOMAIN disk : i < next_segment_id
         /\ ActiveId \in DOMAIN disk /\ ActiveId \in Nat /\ OrderedFile(disk[ActiveId])
         /\ ActiveRecords \in Seq(WalRecordType) /\ Increasing(ActiveRecords)
         /\ Known(disk, segments) \in SUBSET WalRecordType
         /\ Written(disk[ActiveId]) \subseteq Known(disk, segments)
         /\ ToSet(ActiveRecords) \subseteq Known(disk, segments)
         /\ pending \in WalRecordType /\ appends \in Nat
         /\ \A r \in Known(disk, segments) : r.id <= appends /\ r.index <= pending.index
<1>1. /\ DOMAIN disk \in SUBSET Nat /\ FilesOrdered(disk) /\ SegmentsMatch(disk, segments)
      /\ next_segment_id \in Nat /\ \A i \in DOMAIN disk : i < next_segment_id
      /\ pending \in WalRecordType /\ appends \in Nat
      /\ \A r \in Known(disk, segments) : r.id <= appends /\ r.index <= pending.index
  BY DEF WalInv, IdsTracked, MemoryInv, PendingLast
<1>2. /\ ActiveId \in DOMAIN disk /\ ActiveId \in Nat
      /\ ActiveRecords \in Seq(WalRecordType) /\ Increasing(ActiveRecords)
  BY <1>1, ActiveIsLast DEF ActiveId, ActiveRecords
<1>3. \A i \in DOMAIN disk : OrderedFile(disk[i])
  BY <1>1 DEF FilesOrdered
<1>4. ToSet(ActiveRecords) \in SUBSET WalRecordType
  <2> DEFINE rs == ActiveRecords
  <2>1. DOMAIN rs = 1 .. Len(rs) /\ \A k \in 1 .. Len(rs) : rs[k] \in WalRecordType
    BY <1>2, LenProperties, ElementOfSeq
  <2> HIDE DEF rs
  <2>2. ToSet(rs) \in SUBSET WalRecordType
    BY <2>1 DEF ToSet
  <2> QED
    BY <2>2 DEF rs
<1>5. Known(disk, segments) \in SUBSET WalRecordType
  <2>1. \A i \in DOMAIN disk : Written(disk[i]) \subseteq WalRecordType
    BY <1>3, WrittenTyped
  <2>2. ToSet(Last(segments).records) \subseteq WalRecordType
    BY <1>4 DEF ActiveRecords
  <2> QED
    BY <2>1, <2>2, KnownAre
<1>6. /\ \A i \in DOMAIN disk : Written(disk[i]) \subseteq Known(disk, segments)
      /\ ToSet(ActiveRecords) \subseteq Known(disk, segments)
  BY KnownAre DEF ActiveRecords
<1> QED
  BY <1>1, <1>2, <1>3, <1>5, <1>6

\* What the active file may hold next: of records that are not known yet only
\* the one being written.
AtHand == IF step = "writing" THEN {pending} ELSE {}

MayBecome(file) ==
  /\ OrderedFile(file)
  /\ \A i \in DOMAIN disk : i < ActiveId => AllBefore(Written(disk[i]), Written(file))
  /\ Written(file) \subseteq Known(disk, segments) \cup AtHand

LEMMA EmptyFits == MayBecome(EmptyFile)
  BY EmptyFileReads DEF MayBecome, AllBefore

\* The record being written comes behind all others.
LEMMA PendingBehind ==
  ASSUME WalInv, Writing(step)
  PROVE  AllBefore(Known(disk, segments), {pending}) /\ pending.id = appends
<1>1. step # "closed"
  BY DEF Writing
<1>2. /\ pending.id = appends
      /\ \A r \in Known(disk, segments) : r.id < appends /\ r.index <= pending.index
  BY <1>1 DEF WalInv, MemoryInv, PendingLast
<1> QED
  BY <1>2 DEF AllBefore, Before

\* What the write leaves, cut short or complete.
LEMMA WriteFits ==
  ASSUME WalInv, step = "writing",
         NEW file \in CutShort(disk[ActiveId], pending) \cup
                        {WithRecord(disk[ActiveId], pending)}
  PROVE  MayBecome(file)
<1> DEFINE old == disk[ActiveId]
<1>1. /\ OrderedFile(old) /\ pending \in WalRecordType
      /\ Written(old) \subseteq Known(disk, segments) /\ FilesOrdered(disk)
      /\ \A i \in DOMAIN disk : Written(disk[i]) \subseteq Known(disk, segments)
      /\ ActiveId \in DOMAIN disk
  <2>1. step # "closed"
    OBVIOUS
  <2>2. \A i \in DOMAIN disk : Written(disk[i]) \subseteq Known(disk, segments)
    BY KnownAre
  <2> QED
    BY <2>1, <2>2, OpenLog
<1>2. AllBefore(Known(disk, segments), {pending})
  BY PendingBehind DEF Writing
<1>3. AllBefore(Written(old), {pending})
  BY <1>1, <1>2 DEF AllBefore
<1>4. Grown(file, old, pending)
  <2> HIDE DEF old
  <2>1. file \in CutShort(old, pending) \/ file = WithRecord(old, pending)
    BY DEF old
  <2> QED
    BY <1>1, <1>3, <2>1, CutShortGrows, RecordGrows
<1>5. ASSUME NEW i \in DOMAIN disk, i < ActiveId
      PROVE  AllBefore(Written(disk[i]), Written(file))
  <2>1. AllBefore(Written(disk[i]), Written(old))
    BY <1>1, <1>5 DEF FilesOrdered
  <2>2. AllBefore(Written(disk[i]), {pending})
    BY <1>1, <1>2 DEF AllBefore
  <2> QED
    BY <1>4, <2>1, <2>2 DEF Grown, AllBefore
<1> QED
  BY <1>1, <1>4, <1>5 DEF MayBecome, Grown, AtHand

\* What rewriting leaves, cut short or with one record more.
LEMMA RewriteFits ==
  ASSUME WalInv, step = "rewriting", rewritten < Len(ActiveRecords),
         NEW file \in CutShort(disk[ActiveId], ActiveRecords[rewritten + 1]) \cup
                        {WithRecord(disk[ActiveId], ActiveRecords[rewritten + 1])}
  PROVE  MayBecome(file)
<1> DEFINE old == disk[ActiveId]
           rs == ActiveRecords
           r == rs[rewritten + 1]
<1>1. /\ rs \in Seq(WalRecordType) /\ Increasing(rs) /\ OrderedFile(old)
      /\ ToSet(rs) \subseteq Known(disk, segments)
      /\ Written(old) \subseteq Known(disk, segments)
      /\ FilesOrdered(disk) /\ SegmentsMatch(disk, segments) /\ ActiveId \in DOMAIN disk
  BY OpenLog
<1>2. rewritten \in 0 .. Len(rs) /\ old = RewrittenFile(rs, rewritten)
  BY DEF WalInv, MemoryInv
<1>3. Len(rs) \in Nat /\ DOMAIN rs = 1 .. Len(rs)
  BY <1>1, LenProperties
<1>4. /\ rewritten + 1 \in DOMAIN rs /\ r \in WalRecordType /\ r \in ToSet(rs)
      /\ \A k \in 1 .. rewritten : k \in DOMAIN rs /\ k < rewritten + 1
  <2>1. /\ rewritten + 1 \in DOMAIN rs
        /\ \A k \in 1 .. rewritten : k \in DOMAIN rs /\ k < rewritten + 1
    BY <1>2, <1>3
  <2> QED
    BY <1>1, <1>3, <2>1, ElementOfSeq DEF ToSet
<1> HIDE DEF old
<1>5. Written(old) = {rs[k] : k \in 1 .. rewritten}
  BY <1>1, <1>2, RewrittenReads
<1>6. AllBefore(Written(old), {r})
  <2>1. \A k \in 1 .. rewritten : Before(rs[k], r)
    BY <1>1, <1>4 DEF Increasing
  <2> QED
    BY <1>5, <2>1 DEF AllBefore
<1>7. Grown(file, old, r)
  <2>1. file \in CutShort(old, r) \/ file = WithRecord(old, r)
    BY DEF old
  <2> HIDE DEF r
  <2> QED
    BY <1>1, <1>4, <1>6, <2>1, CutShortGrows, RecordGrows
<1> HIDE DEF r, rs
<1>8. ASSUME NEW i \in DOMAIN disk, i < ActiveId
      PROVE  AllBefore(Written(disk[i]), Written(file))
  <2>1. AllBefore(Written(disk[i]), Written(old))
    BY <1>1, <1>8 DEF FilesOrdered, old
  <2>2. AllBefore(Written(disk[i]), ToSet(rs))
    BY <1>1, <1>8 DEF SegmentsMatch, ActiveId, ActiveRecords, rs
  <2> QED
    BY <1>4, <1>7, <2>1, <2>2 DEF Grown, AllBefore
<1> QED
  BY <1>1, <1>4, <1>7, <1>8 DEF MayBecome, Grown

\* What an operation that stops may leave.
LEMMA InterruptedFits ==
  ASSUME WalInv, step # "closed", NEW file \in Interrupted
  PROVE  MayBecome(file)
<1>1. CASE step = "rewriting" /\ rewritten < Len(ActiveRecords)
  BY <1>1, RewriteFits DEF Interrupted
<1>2. CASE step = "writing"
  BY <1>2, WriteFits DEF Interrupted
<1>3. CASE file = disk[ActiveId]
  <2>1. /\ OrderedFile(disk[ActiveId]) /\ FilesOrdered(disk) /\ ActiveId \in DOMAIN disk
        /\ Written(disk[ActiveId]) \subseteq Known(disk, segments)
    BY OpenLog
  <2> QED
    BY <1>3, <2>1 DEF MayBecome, FilesOrdered
<1> QED
  BY <1>1, <1>2, <1>3 DEF Interrupted

\* A file that fits takes the place of the active one.
LEMMA FittingFileSet ==
  ASSUME WalInv, step # "closed", NEW file, MayBecome(file),
         disk' = [disk EXCEPT ![ActiveId] = file]
  PROVE  /\ FilesOrdered(disk') /\ SegmentsMatch(disk', segments)
         /\ Known(disk', segments) \subseteq Known(disk, segments) \cup AtHand
         /\ \A i \in DOMAIN disk' : \A r \in Written(disk'[i]) : r.id <= appends
         /\ DOMAIN disk' = DOMAIN disk /\ disk'[ActiveId] = file
         /\ \A i \in DOMAIN disk : i # ActiveId => disk'[i] = disk[i]
<1>1. /\ DOMAIN disk \in SUBSET Nat /\ FilesOrdered(disk) /\ SegmentsMatch(disk, segments)
      /\ ActiveId \in DOMAIN disk /\ pending \in WalRecordType /\ appends \in Nat
      /\ \A r \in Known(disk, segments) : r.id <= appends
  BY OpenLog
<1>2. /\ OrderedFile(file)
      /\ \A i \in DOMAIN disk : i < Last(segments).segment_id =>
           AllBefore(Written(disk[i]), Written(file))
  BY DEF MayBecome, ActiveId
<1>3. FilesOrdered(disk') /\ SegmentsMatch(disk', segments)
  BY <1>1, <1>2, ActiveFileSet DEF ActiveId
<1>4. /\ DOMAIN disk' = DOMAIN disk /\ disk'[ActiveId] = file
      /\ \A i \in DOMAIN disk : i # ActiveId => disk'[i] = disk[i]
  BY <1>1
<1>5. \A i \in DOMAIN disk' : Written(disk'[i]) \subseteq Known(disk, segments) \cup AtHand
  <2>1. \A i \in DOMAIN disk : Written(disk[i]) \subseteq Known(disk, segments)
    BY KnownAre
  <2> QED
    BY <1>4, <2>1 DEF MayBecome
<1>6. Known(disk', segments) \subseteq Known(disk, segments) \cup AtHand
  <2>1. ToSet(Last(segments).records) \subseteq Known(disk, segments) \cup AtHand
    BY KnownAre
  <2> QED
    BY <1>5, <2>1, KnownAre
<1>7. \A r \in AtHand : r.id <= appends
  BY <1>1, PendingBehind DEF AtHand, Writing
<1> QED
  BY <1>1, <1>3, <1>4, <1>5, <1>6, <1>7

\* A record is handed over: it comes behind everything.
LEMMA HandedBehind ==
  ASSUME WalInv, NEW index \in 0 .. MaxIndex, Handed(index)
  PROVE  /\ pending' \in WalRecordType /\ appends' \in Nat
         /\ pending'.id = appends' /\ appends <= appends' /\ step = "idle"
         /\ \A r \in Known(disk, segments) :
              r.id <= appends' /\ r.id < appends' /\ r.index <= pending'.index
<1>1. step = "idle" /\ index >= pending.index /\ appends' = appends + 1
      /\ pending' = [id |-> appends + 1, index |-> index]
  BY DEF Handed
<1>2. /\ Known(disk, segments) \in SUBSET WalRecordType /\ appends \in Nat
      /\ pending \in WalRecordType
      /\ \A r \in Known(disk, segments) : r.id <= appends /\ r.index <= pending.index
  BY <1>1, OpenLog
<1>3. index \in Nat /\ pending.index \in Nat
  BY <1>2, WalAssumption DEF WalRecordType
<1>4. /\ pending' \in WalRecordType /\ pending'.id = appends' /\ pending'.index = index
      /\ appends' \in Nat /\ appends < appends' /\ appends <= appends'
  BY <1>1, <1>2, <1>3 DEF WalRecordType
<1>5. ASSUME NEW r \in Known(disk, segments)
      PROVE  r.id <= appends' /\ r.id < appends' /\ r.index <= pending'.index
  <2>1. r.id \in Nat /\ r.index \in Nat /\ r.id <= appends /\ r.index <= pending.index
    BY <1>2 DEF WalRecordType
  <2> QED
    BY <1>1, <1>2, <1>3, <1>4, <2>1
<1> QED
  BY <1>1, <1>4, <1>5

\* append begins where the record fits.
LEMMA BeginAppendKeeps ==
  ASSUME WalInv, IdsTracked', NEW index \in 0 .. MaxIndex, BeginAppend(index)
  PROVE  WalInv'
<1>1. /\ UNCHANGED <<disk, segments, next_segment_id>> /\ step' = "writing"
      /\ Handed(index)
  BY DEF BeginAppend, memory
<1>2. /\ pending' \in WalRecordType /\ appends' \in Nat
      /\ pending'.id = appends' /\ step = "idle"
      /\ \A r \in Known(disk, segments) :
           r.id <= appends' /\ r.id < appends' /\ r.index <= pending'.index
  BY <1>1, HandedBehind
<1>3. /\ FilesOrdered(disk) /\ SegmentsMatch(disk, segments) /\ ActiveId < next_segment_id
  BY <1>2 DEF WalInv, MemoryInv
<1>4. \A i \in DOMAIN disk : \A r \in Written(disk[i]) : r.id <= appends'
  BY <1>2, KnownAre
<1>5. PendingLast'
  BY <1>1, <1>2 DEF PendingLast
<1>6. MemoryInv'
  BY <1>1, <1>3, <1>5 DEF MemoryInv, ActiveId
<1> QED
  BY <1>1, <1>2, <1>3, <1>4, <1>6 DEF WalInv

\* The roll empties the active file.
LEMMA BeginRollKeeps ==
  ASSUME WalInv, IdsTracked', NEW index \in 0 .. MaxIndex, BeginRoll(index)
  PROVE  WalInv'
<1>1. /\ UNCHANGED <<segments, next_segment_id>>
      /\ step' = "rewriting" /\ rewritten' = 0 /\ Handed(index)
      /\ disk' = [disk EXCEPT ![ActiveId] = EmptyFile]
  BY DEF BeginRoll, memory
<1>2. /\ pending' \in WalRecordType /\ appends' \in Nat
      /\ pending'.id = appends' /\ step = "idle"
      /\ \A r \in Known(disk, segments) :
           r.id <= appends' /\ r.id < appends' /\ r.index <= pending'.index
  BY <1>1, HandedBehind
<1>3. /\ FilesOrdered(disk') /\ SegmentsMatch(disk', segments)
      /\ Known(disk', segments) \subseteq Known(disk, segments) \cup AtHand
      /\ disk'[ActiveId] = EmptyFile
  BY <1>1, <1>2, EmptyFits, FittingFileSet
<1>4. Known(disk', segments) \subseteq Known(disk, segments)
  BY <1>2, <1>3 DEF AtHand
<1>5. \A i \in DOMAIN disk' : \A r \in Written(disk'[i]) : r.id <= appends'
  <2>1. \A i \in DOMAIN disk' : Written(disk'[i]) \subseteq Known(disk', segments)
    BY KnownAre
  <2> QED
    BY <1>2, <1>4, <2>1
<1>6. PendingLast'
  BY <1>1, <1>2, <1>4 DEF PendingLast
<1>7. /\ 0 \in 0 .. Len(ActiveRecords) /\ disk'[ActiveId] = RewrittenFile(ActiveRecords, 0)
      /\ ActiveId < next_segment_id
  <2>1. /\ ActiveRecords \in Seq(WalRecordType) /\ Increasing(ActiveRecords)
        /\ ActiveId < next_segment_id
    BY <1>2, OpenLog DEF WalInv, MemoryInv
  <2>2. 0 \in 0 .. Len(ActiveRecords)
    BY <2>1, LenProperties
  <2> QED
    BY <1>3, <2>1, <2>2, RewrittenReads
<1>8. MemoryInv'
  BY <1>1, <1>3, <1>6, <1>7 DEF MemoryInv, ActiveId, ActiveRecords
<1> QED
  BY <1>1, <1>2, <1>3, <1>5, <1>8 DEF WalInv

\* One record more is written again.
LEMMA RewriteKeeps ==
  ASSUME WalInv, IdsTracked', Rewrite
  PROVE  WalInv'
<1> DEFINE rs == ActiveRecords
           r == rs[rewritten + 1]
<1>1. /\ UNCHANGED <<segments, next_segment_id, pending, appends>>
      /\ step = "rewriting" /\ step' = step /\ rewritten' = rewritten + 1
      /\ rewritten < Len(rs)
      /\ disk' = [disk EXCEPT ![ActiveId] = WithRecord(disk[ActiveId], r)]
  BY DEF Rewrite, memory, history
<1>2. MayBecome(WithRecord(disk[ActiveId], r))
  BY <1>1, RewriteFits
<1>3. /\ FilesOrdered(disk') /\ SegmentsMatch(disk', segments)
      /\ Known(disk', segments) \subseteq Known(disk, segments) \cup AtHand
      /\ \A i \in DOMAIN disk' : \A s \in Written(disk'[i]) : s.id <= appends
      /\ disk'[ActiveId] = WithRecord(disk[ActiveId], r)
  <2> HIDE DEF r, rs
  <2> QED
    BY <1>1, <1>2, FittingFileSet
<1>4. Known(disk', segments) \subseteq Known(disk, segments)
  BY <1>1, <1>3 DEF AtHand
<1>5. MemoryInv /\ rs \in Seq(WalRecordType) /\ Increasing(rs) /\ appends \in Nat
  BY <1>1, OpenLog DEF WalInv
<1>6. /\ rewritten + 1 \in 0 .. Len(rs)
      /\ disk'[ActiveId] = RewrittenFile(rs, rewritten + 1)
  <2>1. rewritten \in 0 .. Len(rs) /\ disk[ActiveId] = RewrittenFile(rs, rewritten)
    BY <1>1, <1>5 DEF MemoryInv
  <2>2. Len(rs) \in Nat
    BY <1>5, LenProperties
  <2> HIDE DEF rs
  <2>3. rewritten + 1 \in 0 .. Len(rs)
    BY <1>1, <2>1, <2>2
  <2>4. WithRecord(RewrittenFile(rs, rewritten), rs[rewritten + 1])
          = RewrittenFile(rs, rewritten + 1)
    BY <1>1, <1>5, <2>1, RewrittenReads
  <2> QED
    BY <1>3, <2>1, <2>3, <2>4
<1>7. PendingLast'
  BY <1>1, <1>4, <1>5 DEF PendingLast, MemoryInv
<1>8. MemoryInv'
  BY <1>1, <1>3, <1>5, <1>6, <1>7 DEF MemoryInv, ActiveId, ActiveRecords
<1> QED
  BY <1>1, <1>3, <1>5, <1>8 DEF WalInv

\* The next segment is created behind the one rewritten.
LEMMA CreateSegmentKeeps ==
  ASSUME WalInv, IdsTracked', CreateSegment
  PROVE  WalInv'
<1> DEFINE rs == ActiveRecords
<1>1. /\ UNCHANGED <<pending, appends>>
      /\ step = "rewriting" /\ step' = "writing" /\ rewritten = Len(rs)
      /\ disk' = WithNextSegment(disk)
      /\ segments' = Append(segments, [segment_id |-> next_segment_id, records |-> << >>])
      /\ next_segment_id' = next_segment_id + 1
  BY DEF CreateSegment, history
<1>2. /\ DOMAIN disk \in SUBSET Nat /\ FilesOrdered(disk) /\ SegmentsMatch(disk, segments)
      /\ next_segment_id \in Nat /\ \A i \in DOMAIN disk : i < next_segment_id
      /\ ActiveId \in DOMAIN disk /\ ActiveId \in Nat
      /\ rs \in Seq(WalRecordType) /\ Increasing(rs) /\ appends \in Nat
      /\ \A r \in Known(disk, segments) : r.id <= appends
  BY <1>1, OpenLog
<1>3. /\ FilesOrdered(disk') /\ SegmentsMatch(disk', segments)
  BY <1>1, <1>2, NextFileAdded DEF WithNextSegment
<1>4. /\ DOMAIN disk' = DOMAIN disk \cup {next_segment_id}
      /\ disk'[next_segment_id] = EmptyFile
      /\ \A i \in DOMAIN disk : disk'[i] = disk[i]
  BY <1>1, <1>2 DEF WithNextSegment
<1>5. Records(disk'[ActiveId]) = rs
  <2>1. disk[ActiveId] = RewrittenFile(rs, Len(rs)) /\ Len(rs) \in 0 .. Len(rs)
    BY <1>1 DEF WalInv, MemoryInv
  <2> HIDE DEF rs
  <2>2. Records(disk[ActiveId]) = rs
    BY <1>2, <2>1, RewrittenReads
  <2> QED
    BY <1>2, <1>4, <2>2
<1>6. /\ SegmentsMatch(disk', segments')
      /\ Last(segments').segment_id = next_segment_id
      /\ ToSet(Last(segments').records) = {}
  <2>1. /\ next_segment_id \in DOMAIN disk' /\ Last(segments).segment_id < next_segment_id
        /\ \A i \in DOMAIN disk' : i \in Nat /\ i <= next_segment_id
    BY <1>2, <1>4 DEF ActiveId
  <2>2. Records(disk'[Last(segments).segment_id]) = Last(segments).records
    BY <1>5 DEF ActiveId, ActiveRecords
  <2>3. /\ next_segment_id \in Nat /\ SegmentsMatch(disk', segments)
        /\ segments' = Append(segments, [segment_id |-> next_segment_id, records |-> << >>])
    BY <1>1, <1>2, <1>3
  <2>4. SegmentsMatch(disk', segments') /\ ActiveHolds(segments', next_segment_id, {})
    BY <2>1, <2>2, <2>3, NextSegmentAdded
  <2> QED
    BY <2>4 DEF ActiveHolds
<1>7. Known(disk', segments') \subseteq Known(disk, segments)
  <2>1. \A i \in DOMAIN disk : Written(disk[i]) \subseteq Known(disk, segments)
    BY KnownAre
  <2>2. \A i \in DOMAIN disk' : Written(disk'[i]) \subseteq Known(disk, segments)
    BY <1>4, <2>1, EmptyFileReads
  <2>3. ToSet(Last(segments').records) \subseteq Known(disk, segments)
    BY <1>6
  <2> QED
    BY <2>2, <2>3, KnownAre
<1>8. \A i \in DOMAIN disk' : \A r \in Written(disk'[i]) : r.id <= appends
  <2>1. \A i \in DOMAIN disk' : Written(disk'[i]) \subseteq Known(disk', segments')
    BY KnownAre
  <2> QED
    BY <1>2, <1>7, <2>1
<1>9. PendingLast'
  BY <1>1, <1>7 DEF PendingLast, WalInv, MemoryInv, Writing
<1>10. MemoryInv'
  <2>1. ActiveId' < next_segment_id'
    BY <1>1, <1>2, <1>6 DEF ActiveId
  <2> QED
    BY <1>1, <1>6, <1>9, <2>1 DEF MemoryInv
<1> QED
  BY <1>1, <1>2, <1>3, <1>8, <1>10 DEF WalInv

\* A record is written and follows in memory.
LEMMA WriteKeeps ==
  ASSUME WalInv, IdsTracked', Write
  PROVE  WalInv'
<1>1. /\ UNCHANGED <<pending, appends, next_segment_id>>
      /\ step = "writing" /\ step' = "idle"
      /\ disk' = [disk EXCEPT ![ActiveId] = WithRecord(disk[ActiveId], pending)]
      /\ segments' = [segments EXCEPT ![Len(segments)].records = Append(@, pending)]
  BY DEF Write
<1>2. /\ pending \in WalRecordType /\ appends \in Nat /\ MemoryInv
      /\ ToSet(ActiveRecords) \subseteq Known(disk, segments)
      /\ \A r \in Known(disk, segments) : r.id <= appends /\ r.index <= pending.index
  BY <1>1, OpenLog DEF WalInv
<1>3. MayBecome(WithRecord(disk[ActiveId], pending))
  BY <1>1, WriteFits
<1>4. /\ FilesOrdered(disk') /\ SegmentsMatch(disk', segments)
      /\ Known(disk', segments) \subseteq Known(disk, segments) \cup AtHand
      /\ \A i \in DOMAIN disk' : \A r \in Written(disk'[i]) : r.id <= appends
      /\ DOMAIN disk' = DOMAIN disk
      /\ \A i \in DOMAIN disk : i # ActiveId => disk'[i] = disk[i]
  BY <1>1, <1>3, FittingFileSet
<1>5. AllBefore(Known(disk, segments), {pending}) /\ pending.id = appends
  BY <1>1, PendingBehind DEF Writing
<1>6. /\ SegmentsMatch(disk', segments')
      /\ Last(segments').segment_id = ActiveId
      /\ ToSet(Last(segments').records) = ToSet(ActiveRecords) \cup {pending}
  <2>1. AllBefore(ToSet(Last(segments).records), {pending})
    BY <1>2, <1>5 DEF AllBefore, ActiveRecords
  <2>2. \A i \in DOMAIN disk' : i < Last(segments).segment_id =>
          AllBefore(Written(disk'[i]), {pending})
    <3> SUFFICES ASSUME NEW i \in DOMAIN disk', i < ActiveId
                 PROVE  AllBefore(Written(disk'[i]), {pending})
      BY DEF ActiveId
    <3>1. ActiveId \in Nat /\ DOMAIN disk \in SUBSET Nat
      BY <1>1, OpenLog
    <3>2. disk'[i] = disk[i] /\ i \in DOMAIN disk
      BY <1>4, <3>1
    <3>3. Written(disk[i]) \subseteq Known(disk, segments)
      BY <3>2, KnownAre
    <3> QED
      BY <1>5, <3>2, <3>3 DEF AllBefore
  <2>3. /\ SegmentsMatch(disk', segments) /\ pending \in WalRecordType
        /\ segments' = [segments EXCEPT ![Len(segments)].records = Append(@, pending)]
    BY <1>1, <1>2, <1>4
  <2>4. /\ SegmentsMatch(disk', segments')
        /\ ActiveHolds(segments', Last(segments).segment_id,
                       ToSet(Last(segments).records) \cup {pending})
    BY <2>1, <2>2, <2>3, ActiveRecordsGrow
  <2> QED
    BY <2>4 DEF ActiveHolds, ActiveId, ActiveRecords
<1>7. Known(disk', segments') \subseteq Known(disk, segments) \cup {pending}
  <2>1. Known(disk', segments) \subseteq Known(disk, segments) \cup {pending}
    BY <1>1, <1>4 DEF AtHand
  <2>2. \A i \in DOMAIN disk' : Written(disk'[i]) \subseteq Known(disk, segments) \cup {pending}
    BY <2>1, KnownAre
  <2>3. ToSet(Last(segments').records) \subseteq Known(disk, segments) \cup {pending}
    BY <1>2, <1>6
  <2> QED
    BY <2>2, <2>3, KnownAre
<1>8. PendingLast'
  <2>1. pending.id <= appends /\ pending.index <= pending.index
    BY <1>2, <1>5 DEF WalRecordType
  <2>2. \A r \in Known(disk', segments') : r.id <= appends /\ r.index <= pending.index
    BY <1>2, <1>7, <2>1
  <2> QED
    BY <1>1, <1>2, <2>2 DEF PendingLast, Writing
<1>9. MemoryInv'
  <2>1. ActiveId' < next_segment_id'
    BY <1>1, <1>2, <1>6 DEF ActiveId, MemoryInv
  <2> QED
    BY <1>1, <1>6, <1>8, <2>1 DEF MemoryInv
<1> QED
  BY <1>1, <1>2, <1>4, <1>9 DEF WalInv

\* A write or a rewrite fails.
LEMMA WriteFailsKeeps ==
  ASSUME WalInv, IdsTracked', WriteFails \/ RewriteFails
  PROVE  WalInv'
<1>1. /\ UNCHANGED <<segments, next_segment_id, pending, appends>>
      /\ step \in {"writing", "rewriting"} /\ step' = "idle"
  BY DEF WriteFails, RewriteFails, Failed, history
<1>2. PICK file : MayBecome(file) /\ disk' = [disk EXCEPT ![ActiveId] = file]
  <2>1. CASE WriteFails
    <3>1. step = "writing"
      BY <2>1 DEF WriteFails, Failed
    <3>2. PICK file \in Interrupted \cup {WithRecord(disk[ActiveId], pending)} :
            disk' = [disk EXCEPT ![ActiveId] = file]
      BY <2>1 DEF WriteFails
    <3>3. MayBecome(file)
      BY <1>1, <3>1, <3>2, InterruptedFits, WriteFits
    <3> QED
      BY <3>2, <3>3
  <2>2. CASE RewriteFails
    BY <1>1, <2>2, InterruptedFits DEF RewriteFails
  <2> QED
    BY <2>1, <2>2
<1>3. /\ FilesOrdered(disk') /\ SegmentsMatch(disk', segments)
      /\ Known(disk', segments) \subseteq Known(disk, segments) \cup AtHand
      /\ \A i \in DOMAIN disk' : \A r \in Written(disk'[i]) : r.id <= appends
  BY <1>1, <1>2, FittingFileSet
<1>4. /\ pending \in WalRecordType /\ appends \in Nat /\ MemoryInv
      /\ \A r \in Known(disk, segments) : r.id <= appends /\ r.index <= pending.index
  BY <1>1, OpenLog DEF WalInv
<1>5. \A r \in Known(disk', segments) : r.id <= appends /\ r.index <= pending.index
  <2>1. pending.id = appends
    BY <1>1, PendingBehind DEF Writing
  <2>2. \A r \in AtHand : r.id <= appends /\ r.index <= pending.index
    BY <1>4, <2>1 DEF AtHand, WalRecordType
  <2> QED
    BY <1>3, <1>4, <2>2
<1>6. PendingLast'
  BY <1>1, <1>4, <1>5 DEF PendingLast, Writing
<1>7. MemoryInv'
  BY <1>1, <1>3, <1>4, <1>6 DEF MemoryInv, ActiveId
<1> QED
  BY <1>1, <1>3, <1>4, <1>7 DEF WalInv

\* The next segment's file may be there or not when its creation fails.
LEMMA CreateSegmentFailsKeeps ==
  ASSUME WalInv, IdsTracked', CreateSegmentFails
  PROVE  WalInv'
<1>1. /\ UNCHANGED <<segments, pending, appends>>
      /\ step = "rewriting" /\ step' = "idle"
      /\ disk' \in {disk, WithNextSegment(disk)}
      /\ next_segment_id' = next_segment_id + 1
  BY DEF CreateSegmentFails, Failed, history
<1>2. /\ DOMAIN disk \in SUBSET Nat /\ FilesOrdered(disk) /\ SegmentsMatch(disk, segments)
      /\ next_segment_id \in Nat /\ \A i \in DOMAIN disk : i < next_segment_id
      /\ ActiveId \in DOMAIN disk /\ ActiveId \in Nat
      /\ pending \in WalRecordType /\ appends \in Nat
      /\ \A r \in Known(disk, segments) : r.id <= appends /\ r.index <= pending.index
  BY <1>1, OpenLog
<1>3. /\ FilesOrdered(disk') /\ SegmentsMatch(disk', segments)
      /\ \A i \in DOMAIN disk' : Written(disk'[i]) \subseteq Known(disk, segments)
  <2>0. \A i \in DOMAIN disk : Written(disk[i]) \subseteq Known(disk, segments)
    BY KnownAre
  <2>1. CASE disk' = disk
    BY <1>2, <2>0, <2>1
  <2>2. CASE disk' = WithNextSegment(disk)
    <3>1. FilesOrdered(disk') /\ SegmentsMatch(disk', segments)
      BY <1>2, <2>2, NextFileAdded DEF WithNextSegment
    <3>2. \A i \in DOMAIN disk' : Written(disk'[i]) \subseteq Known(disk, segments)
      BY <2>0, <2>2, EmptyFileReads DEF WithNextSegment
    <3> QED
      BY <3>1, <3>2
  <2> QED
    BY <1>1, <2>1, <2>2
<1>4. Known(disk', segments) \subseteq Known(disk, segments)
  BY <1>3, KnownAre
<1>5. PendingLast'
  BY <1>1, <1>2, <1>4 DEF PendingLast, Writing
<1>6. MemoryInv'
  <2>1. ActiveId' < next_segment_id'
    BY <1>1, <1>2 DEF ActiveId
  <2> QED
    BY <1>1, <1>3, <1>5, <2>1 DEF MemoryInv
<1>7. \A i \in DOMAIN disk' : \A r \in Written(disk'[i]) : r.id <= appends
  BY <1>2, <1>3
<1> QED
  BY <1>1, <1>2, <1>3, <1>6, <1>7 DEF WalInv

\* The process dies.
LEMMA CrashKeeps ==
  ASSUME WalInv, IdsTracked', Crash
  PROVE  WalInv'
<1>1. step # "closed" /\ step' = "closed" /\ appends' = appends
  BY DEF Crash, history
<1>2. PICK file \in Interrupted : disk' = [disk EXCEPT ![ActiveId] = file]
  BY DEF Crash
<1>3. /\ FilesOrdered(disk')
      /\ \A i \in DOMAIN disk' : \A r \in Written(disk'[i]) : r.id <= appends
  BY <1>1, <1>2, InterruptedFits, FittingFileSet
<1> QED
  BY <1>1, <1>3 DEF WalInv

\* The log is closed.
LEMMA CloseKeeps ==
  ASSUME WalInv, IdsTracked', Close
  PROVE  WalInv'
  BY DEF WalInv, Close, history

\* Compaction never takes the active segment.
LEMMA ActiveStays ==
  ASSUME WalInv, step = "compacting"
  PROVE  ActiveId \notin removing
<1>1. MemoryInv /\ SegmentsMatch(disk, segments)
  BY DEF WalInv, MemoryInv
<1>2. /\ Len(segments) \in Nat \ {0} /\ Last(segments).segment_id \in Nat
      /\ \A k \in DOMAIN segments : segments[k].segment_id \in Nat
      /\ \A k \in 1 .. Len(segments) - 1 :
           k \in DOMAIN segments /\ segments[k].segment_id < Last(segments).segment_id
  BY <1>1, ActiveIsLast
<1>3. \A k \in 1 .. Len(segments) - MinKeepSegments : k \in 1 .. Len(segments) - 1
  BY <1>2, WalAssumption
<1>4. \A k \in 1 .. Len(segments) - MinKeepSegments :
        segments[k].segment_id # Last(segments).segment_id
  BY <1>2, <1>3
<1> QED
  BY <1>1, <1>4 DEF MemoryInv, ActiveId

\* compact_through picks the segments to remove.
LEMMA BeginCompactKeeps ==
  ASSUME WalInv, IdsTracked', NEW log_index \in 0 .. MaxIndex, BeginCompact(log_index)
  PROVE  WalInv'
<1>1. /\ UNCHANGED <<disk, segments, next_segment_id, pending, appends>>
      /\ step = "idle" /\ step' = "compacting"
      /\ removing' = {segments[k].segment_id : k \in Removable(log_index)}
  BY DEF BeginCompact, memory, history
<1>2. MemoryInv
  BY <1>1 DEF WalInv
<1>3. removing' \subseteq
        {segments[k].segment_id : k \in 1 .. Len(segments) - MinKeepSegments}
  BY <1>1 DEF Removable
<1>4. PendingLast'
  BY <1>1, <1>2 DEF PendingLast, MemoryInv, Writing
<1>5. MemoryInv'
  BY <1>1, <1>2, <1>3, <1>4 DEF MemoryInv, ActiveId
<1> QED
  BY <1>1, <1>5 DEF WalInv

\* Removing a file fails: memory still lists the segments already removed.
LEMMA RemoveFailsKeeps ==
  ASSUME WalInv, IdsTracked', RemoveFails
  PROVE  WalInv'
<1>1. /\ UNCHANGED <<disk, segments, next_segment_id, pending, appends>>
      /\ step = "compacting" /\ step' = "idle"
  BY DEF RemoveFails, Failed, history
<1>2. MemoryInv
  BY <1>1 DEF WalInv
<1>3. PendingLast'
  BY <1>1, <1>2 DEF PendingLast, MemoryInv, Writing
<1>4. MemoryInv'
  BY <1>1, <1>2, <1>3 DEF MemoryInv, ActiveId
<1> QED
  BY <1>1, <1>4 DEF WalInv

\* What removing the next file does.
LEMMA RemovedFile ==
  ASSUME WalInv, RemoveFile
  PROVE  LET id == Min(removing \cap DOMAIN disk)
         IN  /\ id \in removing /\ id \in DOMAIN disk /\ id # ActiveId
             /\ disk' = [i \in DOMAIN disk \ {id} |-> disk[i]]
             /\ step = "compacting"
<1> DEFINE left == removing \cap DOMAIN disk
<1>1. /\ step = "compacting" /\ left # {}
      /\ disk' = [i \in DOMAIN disk \ {Min(left)} |-> disk[i]]
  BY DEF RemoveFile
<1>2. DOMAIN disk \in SUBSET Nat
  BY <1>1, OpenLog
<1>3. left \in SUBSET Nat
  BY <1>2
<1>4. Min(left) \in left
  <2> HIDE DEF left
  <2> QED
    BY <1>1, <1>3, MinNat
<1>5. ActiveId \notin removing
  BY <1>1, ActiveStays
<1> QED
  BY <1>1, <1>4, <1>5

\* One file is removed.
LEMMA RemoveFileKeeps ==
  ASSUME WalInv, IdsTracked', RemoveFile
  PROVE  WalInv'
<1> DEFINE id == Min(removing \cap DOMAIN disk)
           D == DOMAIN disk \ {id}
<1>1. /\ UNCHANGED <<segments, next_segment_id, pending, removing, appends>>
      /\ step = "compacting" /\ step' = step
  BY DEF RemoveFile, memory
<1>2. id # ActiveId /\ disk' = [i \in D |-> disk[i]]
  BY RemovedFile
<1>3. MemoryInv /\ SegmentsMatch(disk, segments) /\ FilesOrdered(disk)
  BY <1>1 DEF WalInv, MemoryInv
<1>4. ActiveId \in DOMAIN disk
  BY <1>1, OpenLog
<1> HIDE DEF id
<1>5. FilesOrdered(disk') /\ SegmentsMatch(disk', segments)
  <2>1. D \in SUBSET DOMAIN disk /\ Last(segments).segment_id \in D
    BY <1>2, <1>4 DEF ActiveId
  <2> HIDE DEF D
  <2> QED
    BY <1>2, <1>3, <2>1, FilesRemoved
<1>6. \A i \in DOMAIN disk' : i \in DOMAIN disk /\ disk'[i] = disk[i]
  BY <1>2
<1>7. Known(disk', segments) \subseteq Known(disk, segments)
  BY <1>6, KnownAre
<1>8. PendingLast'
  BY <1>1, <1>3, <1>7 DEF PendingLast, MemoryInv, Writing
<1>9. MemoryInv'
  BY <1>1, <1>3, <1>5, <1>8 DEF MemoryInv, ActiveId
<1> QED
  BY <1>1, <1>5, <1>6, <1>9 DEF WalInv

\* Memory follows when the files are gone.
LEMMA EndCompactKeeps ==
  ASSUME WalInv, IdsTracked', EndCompact
  PROVE  WalInv'
<1> DEFINE K == {k \in DOMAIN segments : segments[k].segment_id \notin removing}
<1>1. /\ UNCHANGED <<disk, next_segment_id, pending, appends>>
      /\ step = "compacting" /\ step' = "idle"
      /\ segments' = [j \in DOMAIN Sorted(K) |-> segments[Sorted(K)[j]]]
  BY DEF EndCompact, history
<1>2. MemoryInv /\ SegmentsMatch(disk, segments) /\ ActiveId < next_segment_id
  BY <1>1 DEF WalInv, MemoryInv
<1>3. K \in SUBSET DOMAIN segments /\ Len(segments) \in K
  <2>1. ActiveId \notin removing
    BY <1>1, ActiveStays
  <2>2. Len(segments) \in DOMAIN segments /\ Last(segments) = segments[Len(segments)]
    BY <1>2, ActiveIsLast
  <2> QED
    BY <2>1, <2>2 DEF ActiveId
<1> HIDE DEF K
<1>4. SegmentsMatch(disk, segments') /\ SameActive(segments', segments)
  BY <1>1, <1>2, <1>3, SegmentsDropped
<1>5. Last(segments') = Last(segments)
  BY <1>4 DEF SameActive
<1>6. Known(disk, segments') = Known(disk, segments)
  BY <1>5 DEF Known
<1>7. PendingLast'
  BY <1>1, <1>2, <1>6 DEF PendingLast, MemoryInv, Writing
<1>8. MemoryInv'
  BY <1>1, <1>2, <1>4, <1>5, <1>7 DEF MemoryInv, ActiveId
<1> QED
  BY <1>1, <1>8 DEF WalInv

\* A directory whose files hold nothing but the records read from them.
LEMMA MemoryFromFiles ==
  ASSUME NEW files, FilesOrdered(files), DOMAIN files # {},
         DOMAIN files \in SUBSET Nat, IsFiniteSet(DOMAIN files),
         \A i \in DOMAIN files : Written(files[i]) = ToSet(Records(files[i]))
  PROVE  /\ SegmentsMatch(files, ReadSegments(files))
         /\ Known(files, ReadSegments(files)) \subseteq
              ToSet(AllRecords(ReadSegments(files)))
<1> DEFINE segs == ReadSegments(files)
           n == Len(segs)
           active == Last(segs).segment_id
<1>1. DirectoryRead(files, segs)
  BY DirectoryReads
<1> HIDE DEF segs
<1>2. /\ n \in Nat /\ DOMAIN segs = 1 .. n /\ segs \in Seq(WalSegment)
      /\ \A k \in DOMAIN segs : /\ segs[k].segment_id \in DOMAIN files
                                /\ segs[k].records = Records(files[segs[k].segment_id])
      /\ \A j, k \in DOMAIN segs : j < k => segs[j].segment_id < segs[k].segment_id
      /\ \A i \in DOMAIN files : \E k \in DOMAIN segs : segs[k].segment_id = i
      /\ ToSet(AllRecords(segs)) = UNION {ToSet(Records(files[i])) : i \in DOMAIN files}
  <2>1. segs \in Seq(WalSegment)
    BY <1>1 DEF DirectoryRead
  <2> QED
    BY <1>1, <2>1, LenProperties DEF DirectoryRead
<1>3. n \in 1 .. n /\ Last(segs) = segs[n] /\ segs # << >>
  <2>1. PICK k \in 1 .. n : TRUE
    BY <1>2
  <2> QED
    BY <1>2, <2>1, EmptySeq DEF Last
<1> HIDE DEF n
<1>4. active \in DOMAIN files /\ Last(segs).records = Records(files[active])
  BY <1>2, <1>3
<1>5. \A i \in DOMAIN files : i <= active
  <2> SUFFICES ASSUME NEW i \in DOMAIN files PROVE i <= active
    OBVIOUS
  <2>1. PICK k \in 1 .. n : segs[k].segment_id = i
    BY <1>2
  <2>2. CASE k = n
    BY <1>3, <2>1, <2>2
  <2>3. CASE k < n
    <3>1. segs[k].segment_id < segs[n].segment_id
      BY <1>2, <1>3, <2>3
    <3>2. i \in Nat /\ segs[n].segment_id \in Nat
      BY <1>2, <1>3
    <3> QED
      BY <1>3, <2>1, <3>1, <3>2
  <2> QED
    BY <1>2, <2>1, <2>2, <2>3
<1>6. \A k \in DOMAIN segs : Increasing(segs[k].records)
  BY <1>2, FileReads DEF FilesOrdered, ReadsWell
<1>7. \A i \in DOMAIN files : i < active =>
        AllBefore(Written(files[i]), ToSet(Last(segs).records))
  BY <1>4 DEF FilesOrdered
<1>8. \A i \in DOMAIN files : ~ (i > active)
  BY <1>4, <1>5
<1>9. \A k \in 1 .. Len(segs) - 1 : k \in DOMAIN segs
  BY <1>2 DEF n
<1> HIDE DEF active
<1>10. SegmentsMatch(files, segs)
  BY <1>2, <1>3, <1>4, <1>6, <1>7, <1>8, <1>9 DEF SegmentsMatch, active
<1>11. Known(files, segs) \subseteq ToSet(AllRecords(segs))
  <2>1. \A i \in DOMAIN files : Written(files[i]) \subseteq ToSet(AllRecords(segs))
    BY <1>2
  <2>2. ToSet(Last(segs).records) \subseteq ToSet(AllRecords(segs))
    BY <1>2, <1>4
  <2> QED
    BY <2>1, <2>2, KnownAre
<1> QED
  BY <1>10, <1>11 DEF segs

\* Numbers with an upper bound are finitely many.
LEMMA BoundedFinite ==
  ASSUME NEW S \in SUBSET Nat, \E b \in Nat : \A i \in S : i <= b
  PROVE  IsFiniteSet(S)
<1>1. PICK b \in Nat : \A i \in S : i <= b
  OBVIOUS
<1>2. IsFiniteSet(0 .. b) /\ S \subseteq 0 .. b
  BY <1>1, FS_Interval
<1> QED
  BY <1>2, FS_Subset

\* What loading leaves of the files.
LEMMA LoadedFiles ==
  ASSUME WalInv, Load
  PROVE  /\ FilesOrdered(disk') /\ DOMAIN disk' # {}
         /\ \A i \in DOMAIN disk' : /\ Written(disk'[i]) = ToSet(Records(disk'[i]))
                                    /\ \A r \in Written(disk'[i]) : r.id <= appends
         /\ \A i \in DOMAIN disk : /\ i \in DOMAIN disk'
                                   /\ Records(disk'[i]) = Records(disk[i])
<1>1. FilesOrdered(disk) /\ \A i \in DOMAIN disk : \A r \in Written(disk[i]) : r.id <= appends
  BY DEF WalInv
<1>2. CASE DOMAIN disk = {}
  <2>1. disk' = [i \in {0} |-> EmptyFile]
    BY <1>2 DEF Load
  <2>2. /\ DOMAIN disk' = {0} /\ disk' = [i \in DOMAIN disk' |-> disk'[i]]
        /\ \A i \in DOMAIN disk' : disk'[i] = EmptyFile
    BY <2>1
  <2>3. \A i, j \in DOMAIN disk' : ~ (i < j)
    BY <2>2
  <2>4. ToSet(Records(EmptyFile)) = {}
    BY EmptyFileReads DEF ToSet
  <2> QED
    BY <1>2, <2>2, <2>3, <2>4, EmptyFileReads DEF FilesOrdered
<1>3. CASE DOMAIN disk # {}
  <2>1. disk' = [i \in DOMAIN disk |-> Truncated(disk[i])]
    BY <1>3 DEF Load
  <2>2. /\ DOMAIN disk' = DOMAIN disk /\ disk' = [i \in DOMAIN disk' |-> disk'[i]]
        /\ \A i \in DOMAIN disk : disk'[i] = Truncated(disk[i])
    BY <2>1
  <2>3. \A i \in DOMAIN disk : /\ OrderedFile(disk'[i])
                               /\ Written(disk'[i]) = ToSet(Records(disk'[i]))
                               /\ Written(disk'[i]) \subseteq Written(disk[i])
                               /\ Records(disk'[i]) = Records(disk[i])
    BY <1>1, <2>2, FileReads DEF FilesOrdered, ReadsWell
  <2>4. \A i, j \in DOMAIN disk : i < j => AllBefore(Written(disk'[i]), Written(disk'[j]))
    BY <1>1, <2>3 DEF FilesOrdered, AllBefore
  <2>5. FilesOrdered(disk')
    BY <2>2, <2>3, <2>4 DEF FilesOrdered
  <2> QED
    BY <1>1, <1>3, <2>2, <2>3, <2>5
<1> QED
  BY <1>2, <1>3

\* The log is read: open and recover.
LEMMA LoadKeepsRecords ==
  ASSUME WalInv, IdsTracked', Load
  PROVE  WalInv'
<1>1. /\ segments' = ReadSegments(disk') /\ step' = "idle" /\ appends' = appends
      /\ pending' = LatestOf(AllRecords(segments'))
  BY DEF Load, history
<1>2. /\ FilesOrdered(disk') /\ DOMAIN disk' # {}
      /\ \A i \in DOMAIN disk' : /\ Written(disk'[i]) = ToSet(Records(disk'[i]))
                                 /\ \A r \in Written(disk'[i]) : r.id <= appends
  BY LoadedFiles
<1>3. DOMAIN disk' \in SUBSET Nat /\ IsFiniteSet(DOMAIN disk')
  <2>1. DOMAIN disk' \in SUBSET Nat /\ \E b \in Nat : \A i \in DOMAIN disk' : i <= b
    BY DEF IdsTracked
  <2> QED
    BY <2>1, BoundedFinite
<1>4. /\ SegmentsMatch(disk', segments')
      /\ Known(disk', segments') \subseteq ToSet(AllRecords(segments'))
  BY <1>1, <1>2, <1>3, MemoryFromFiles
<1>5. Newest(AllRecords(segments'), pending')
  <2>1. DirectoryRead(disk', segments')
    BY <1>1, <1>2, <1>3, DirectoryReads
  <2>2. AllRecords(segments') \in Seq(WalRecordType) /\ Increasing(AllRecords(segments'))
    BY <2>1 DEF DirectoryRead
  <2> QED
    BY <1>1, <2>2, LatestIsNewest
<1>6. \A r \in Known(disk', segments') : r.index <= pending'.index
  BY <1>4, <1>5 DEF Newest
<1>7. \A r \in Known(disk', segments') : r.id <= appends
  <2> DEFINE R == {r \in Known(disk', segments') : r.id <= appends}
  <2>1. \A i \in DOMAIN disk' : Written(disk'[i]) \subseteq R
    BY <1>2, KnownAre
  <2>2. ToSet(Last(segments').records) \subseteq R
    <3>1. DirectoryRead(disk', segments') /\ Last(segments').segment_id \in DOMAIN disk'
      BY <1>1, <1>2, <1>3, <1>4, DirectoryReads, ActiveIsLast
    <3>2. Last(segments') = segments'[Len(segments')] /\ Len(segments') \in DOMAIN segments'
      BY <1>4, ActiveIsLast
    <3>3. ToSet(Last(segments').records) = Written(disk'[Last(segments').segment_id])
      BY <1>2, <3>1, <3>2 DEF DirectoryRead
    <3> QED
      BY <2>1, <3>1, <3>3
  <2>3. Known(disk', segments') \subseteq R
    <3> HIDE DEF R
    <3> QED
      BY <2>1, <2>2, KnownAre
  <2> QED
    BY <2>3
<1>8. PendingLast'
  <2>1. pending' \in WalRecordType
    BY <1>5 DEF Newest
  <2> QED
    BY <1>1, <1>6, <1>7, <2>1 DEF PendingLast, Writing
<1>9. MemoryInv'
  <2>1. Last(segments').segment_id \in DOMAIN disk'
    BY <1>4, ActiveIsLast
  <2>2. ActiveId' < next_segment_id'
    BY <1>1, <2>1 DEF IdsTracked, ActiveId
  <2> QED
    BY <1>1, <1>4, <1>8, <2>2 DEF MemoryInv
<1>10. appends \in Nat
  BY DEF WalInv
<1> QED
  BY <1>1, <1>2, <1>9, <1>10 DEF WalInv

\* Every step keeps the records in order.
LEMMA WalKept == WalInv /\ [Next]_vars => WalInv'
<1> SUFFICES ASSUME WalInv, [Next]_vars PROVE WalInv'
  OBVIOUS
<1>0. IdsTracked'
  BY IdsKept DEF WalInv
<1>1. CASE Open \/ Recover
  BY <1>0, <1>1, LoadKeepsRecords DEF Open, Recover
<1>2. CASE Close
  BY <1>0, <1>2, CloseKeeps
<1>3. CASE \E index \in 0 .. MaxIndex : BeginAppend(index)
  BY <1>0, <1>3, BeginAppendKeeps
<1>4. CASE \E index \in 0 .. MaxIndex : BeginRoll(index)
  BY <1>0, <1>4, BeginRollKeeps
<1>5. CASE Rewrite
  BY <1>0, <1>5, RewriteKeeps
<1>6. CASE CreateSegment
  BY <1>0, <1>6, CreateSegmentKeeps
<1>7. CASE Write
  BY <1>0, <1>7, WriteKeeps
<1>8. CASE \E log_index \in 0 .. MaxIndex : BeginCompact(log_index)
  BY <1>0, <1>8, BeginCompactKeeps
<1>9. CASE \E log_index \in 0 .. MaxIndex, fence \in Fences :
             BeginFencedCompact(log_index, fence)
  BY <1>0, <1>9, BeginCompactKeeps DEF BeginFencedCompact
<1>10. CASE RemoveFile
  BY <1>0, <1>10, RemoveFileKeeps
<1>11. CASE EndCompact
  BY <1>0, <1>11, EndCompactKeeps
<1>12. CASE Crash
  BY <1>0, <1>12, CrashKeeps
<1>13. CASE WriteFails \/ RewriteFails
  BY <1>0, <1>13, WriteFailsKeeps
<1>14. CASE CreateSegmentFails
  BY <1>0, <1>14, CreateSegmentFailsKeeps
<1>15. CASE RemoveFails
  BY <1>0, <1>15, RemoveFailsKeeps
<1>16. CASE UNCHANGED vars
  <2>1. UNCHANGED <<disk, segments, next_segment_id, step, pending, rewritten,
                    removing, appends>>
    BY <1>16 DEF vars
  <2> QED
    BY <1>0, <2>1 DEF WalInv, MemoryInv, PendingLast, ActiveId, ActiveRecords
<1> QED
  BY <1>1, <1>2, <1>3, <1>4, <1>5, <1>6, <1>7, <1>8, <1>9, <1>10, <1>11, <1>12,
     <1>13, <1>14, <1>15, <1>16 DEF Next

\* An empty directory and a closed log.
LEMMA WalBegins == Init => WalInv
<1> SUFFICES ASSUME Init PROVE WalInv
  OBVIOUS
<1>1. /\ DOMAIN disk = {} /\ disk = [i \in DOMAIN disk |-> disk[i]]
      /\ appends = 0 /\ step = "closed"
  BY DEF Init
<1>2. IdsTracked
  BY <1>1 DEF IdsTracked
<1>3. FilesOrdered(disk)
  BY <1>1 DEF FilesOrdered
<1> QED
  BY <1>1, <1>2, <1>3 DEF WalInv

\* What a recovery reads of the files there are.
LEMMA DiskReads ==
  ASSUME WalInv
  PROVE  DirectoryRead(disk, ReadSegments(disk))
<1>1. /\ FilesOrdered(disk) /\ DOMAIN disk \in SUBSET Nat
      /\ \E b \in Nat : \A i \in DOMAIN disk : i <= b
  BY DEF WalInv, IdsTracked
<1> QED
  BY <1>1, BoundedFinite, DirectoryReads

\* However damaged the log is, recovery reads records in the order they were
\* appended and none twice.
THEOREM RecordsStayOrdered == Spec => []RecordsInOrder
<1>1. WalInv => RecordsInOrder
  <2> SUFFICES ASSUME WalInv PROVE RecordsInOrder
    OBVIOUS
  <2>1. Increasing(OnDisk)
    BY DiskReads DEF DirectoryRead, OnDisk
  <2> QED
    BY <2>1 DEF Increasing, Before, RecordsInOrder
<1> QED
  BY <1>1, WalBegins, WalKept, PTL DEF Spec

\* What a step may do to the files.
LEMMA DiskChanges ==
  ASSUME WalInv, [Next]_vars
  PROVE  \/ Load
         \/ disk' = disk
         \/ step # "closed" /\ \E file : disk' = [disk EXCEPT ![ActiveId] = file]
         \/ step # "closed" /\ disk' = WithNextSegment(disk)
         \/ RemoveFile
<1>1. CASE Open \/ Recover
  BY <1>1 DEF Open, Recover
<1>2. CASE \/ Close \/ EndCompact \/ RemoveFails \/ UNCHANGED vars
           \/ \E index \in 0 .. MaxIndex : BeginAppend(index)
           \/ \E log_index \in 0 .. MaxIndex : BeginCompact(log_index)
           \/ \E log_index \in 0 .. MaxIndex, fence \in Fences :
                BeginFencedCompact(log_index, fence)
  BY <1>2 DEF Close, EndCompact, RemoveFails, vars, BeginAppend, BeginCompact,
              BeginFencedCompact
<1>3. CASE \/ Rewrite \/ Write \/ Crash \/ WriteFails \/ RewriteFails
           \/ \E index \in 0 .. MaxIndex : BeginRoll(index)
  <2>1. step # "closed"
    BY <1>3 DEF Rewrite, Write, Crash, WriteFails, RewriteFails, Failed, BeginRoll, Handed
  <2>2. \E file : disk' = [disk EXCEPT ![ActiveId] = file]
    <3>1. CASE Rewrite \/ Write
      BY <3>1 DEF Rewrite, Write
    <3>2. CASE Crash
      BY <3>2 DEF Crash
    <3>3. CASE WriteFails \/ RewriteFails
      BY <3>3 DEF WriteFails, RewriteFails
    <3>4. CASE \E index \in 0 .. MaxIndex : BeginRoll(index)
      BY <3>4 DEF BeginRoll
    <3> QED
      BY <1>3, <3>1, <3>2, <3>3, <3>4
  <2> QED
    BY <2>1, <2>2
<1>4. CASE CreateSegment \/ CreateSegmentFails
  BY <1>4 DEF CreateSegment, CreateSegmentFails, Failed
<1>5. CASE RemoveFile
  BY <1>5
<1> QED
  BY <1>1, <1>2, <1>3, <1>4, <1>5 DEF Next

\* The active file is the last with a record: no other record follows its own.
LEMMA ActiveNotFollowed ==
  ASSUME WalInv, step # "closed"
  PROVE  ~ Followed(ActiveId)
<1>1. \A j \in DOMAIN disk : j > ActiveId => disk[j] = EmptyFile
  BY DEF WalInv, MemoryInv, SegmentsMatch, ActiveId
<1> QED
  BY <1>1, EmptyFileReads DEF Followed

\* Once a later segment holds a record, nothing changes the records of a file
\* until compaction removes it whole.
THEOREM NewestDamaged == Spec => OnlyNewestDamaged
<1> DEFINE Damaged ==
      \A i \in DOMAIN disk \cap DOMAIN disk' :
        Followed(i) => Records(disk'[i]) = Records(disk[i])
<1>1. WalInv /\ [Next]_vars => Damaged
  <2> SUFFICES ASSUME WalInv, [Next]_vars,
                      NEW i \in DOMAIN disk \cap DOMAIN disk', Followed(i)
               PROVE  Records(disk'[i]) = Records(disk[i])
    OBVIOUS
  <2>1. CASE Load
    BY <2>1, LoadedFiles
  <2>2. CASE disk' = disk
    BY <2>2
  <2>3. CASE step # "closed" /\ \E file : disk' = [disk EXCEPT ![ActiveId] = file]
    <3>1. i # ActiveId
      BY <2>3, ActiveNotFollowed
    <3> QED
      BY <2>3, <3>1
  <2>4. CASE step # "closed" /\ disk' = WithNextSegment(disk)
    <3>1. i # next_segment_id
      BY <2>4 DEF WalInv, IdsTracked
    <3> QED
      BY <2>4, <3>1 DEF WithNextSegment
  <2>5. CASE RemoveFile
    BY <2>5 DEF RemoveFile
  <2> QED
    BY <2>1, <2>2, <2>3, <2>4, <2>5, DiskChanges
<1>2. WalInv /\ [Next]_vars => [Damaged]_vars
  BY <1>1
<1> QED
  BY <1>2, WalBegins, WalKept, PTL DEF Spec, OnlyNewestDamaged

\* What a compaction leaves of the files: all of them, or all but one below a
\* segment min_keep_segments keeps.
LEMMA CompactingStep ==
  ASSUME WalInv, [Next]_vars, step = "compacting"
  PROVE  disk' = disk \/ RemoveFile
<1>1. CASE RemoveFile
  BY <1>1
<1>2. CASE Crash
  <2>1. disk' = [disk EXCEPT ![ActiveId] = disk[ActiveId]]
    BY <1>2 DEF Crash, Interrupted
  <2>2. disk = [i \in DOMAIN disk |-> disk[i]]
    BY DEF WalInv, IdsTracked
  <2> QED
    BY <2>1, <2>2
<1>3. CASE EndCompact \/ RemoveFails \/ UNCHANGED vars
  BY <1>3 DEF EndCompact, RemoveFails, vars
<1> QED
  BY <1>1, <1>2, <1>3 DEF Next, Open, Recover, Close, BeginAppend, BeginRoll, Handed,
     Rewrite, CreateSegment, Write, BeginCompact, BeginFencedCompact, WriteFails,
     RewriteFails, CreateSegmentFails, Failed

\* The file removed is below one that is kept and has a record.
LEMMA KeptAbove ==
  ASSUME WalInv, RemoveFile, KeepsRecord
  PROVE  \E c \in DOMAIN disk :
           Min(removing \cap DOMAIN disk) < c /\ Records(disk[c]) # << >>
<1> DEFINE id == Min(removing \cap DOMAIN disk)
           n == Len(segments)
<1>1. id \in removing /\ step = "compacting"
  BY RemovedFile
<1> HIDE DEF id
<1>2. MemoryInv /\ SegmentsMatch(disk, segments)
  BY <1>1 DEF WalInv, MemoryInv
<1>3. n \in Nat /\ DOMAIN segments = 1 .. n /\ MinKeepSegments \in Nat
  BY <1>2, ActiveIsLast, WalAssumption
<1>4. PICK k \in n - MinKeepSegments + 1 .. n :
             /\ segments[k].segment_id \in DOMAIN disk
             /\ Records(disk[segments[k].segment_id]) # << >>
  BY DEF KeepsRecord
<1>5. PICK j \in 1 .. n - MinKeepSegments : segments[j].segment_id = id
  BY <1>1, <1>2 DEF MemoryInv
<1>6. j \in DOMAIN segments /\ k \in DOMAIN segments /\ j < k
  BY <1>3, <1>4, <1>5
<1>7. segments[j].segment_id < segments[k].segment_id
  BY <1>2, <1>6 DEF SegmentsMatch
<1> QED
  BY <1>4, <1>5, <1>7 DEF id

\* Without a file below one with a record, a directory has the same newest record.
LEMMA LatestKept ==
  ASSUME NEW files, FilesOrdered(files),
         DOMAIN files \in SUBSET Nat, IsFiniteSet(DOMAIN files),
         NEW id \in DOMAIN files, NEW c \in DOMAIN files, id < c,
         Records(files[c]) # << >>,
         NEW new, new = [i \in DOMAIN files \ {id} |-> files[i]]
  PROVE  LatestOf(AllRecords(ReadSegments(new))) = LatestOf(AllRecords(ReadSegments(files)))
<1> DEFINE a == AllRecords(ReadSegments(files))
           b == AllRecords(ReadSegments(new))
           r == LatestOf(a)
<1>1. /\ DOMAIN new = DOMAIN files \ {id} /\ new = [i \in DOMAIN new |-> new[i]]
      /\ \A i \in DOMAIN new : i \in DOMAIN files /\ new[i] = files[i]
  OBVIOUS
<1>2. FilesOrdered(new) /\ DOMAIN new \in SUBSET Nat /\ IsFiniteSet(DOMAIN new)
  <2>1. IsFiniteSet(DOMAIN new)
    BY <1>1, FS_Subset
  <2> QED
    BY <1>1, <2>1 DEF FilesOrdered
<1>3. /\ a \in Seq(WalRecordType) /\ Increasing(a)
      /\ ToSet(a) = UNION {ToSet(Records(files[i])) : i \in DOMAIN files}
  BY DirectoryReads DEF DirectoryRead
<1>4. /\ b \in Seq(WalRecordType) /\ Increasing(b)
      /\ ToSet(b) = UNION {ToSet(Records(new[i])) : i \in DOMAIN new}
  <2>1. DirectoryRead(new, ReadSegments(new))
    BY <1>2, DirectoryReads
  <2> QED
    BY <2>1 DEF DirectoryRead
<1> HIDE DEF b
<1>5. ToSet(b) \subseteq ToSet(a)
  BY <1>1, <1>3, <1>4
<1>6. Newest(a, r)
  BY <1>3, LatestIsNewest
<1> HIDE DEF r, a
<1>7. /\ OrderedFile(files[c]) /\ OrderedFile(files[id])
      /\ AllBefore(Written(files[id]), Written(files[c]))
  BY DEF FilesOrdered
<1>8. PICK s \in ToSet(Records(files[c])) : s \in WalRecordType /\ s \in Written(files[c])
  <2>1. Records(files[c]) \in Seq(WalRecordType) /\ ToSet(Records(files[c])) \subseteq Written(files[c])
    BY <1>7, FileReads DEF ReadsWell
  <2>2. PICK k \in DOMAIN Records(files[c]) : Records(files[c])[k] \in WalRecordType
    <3>1. Len(Records(files[c])) \in Nat \ {0}
          /\ DOMAIN Records(files[c]) = 1 .. Len(Records(files[c]))
      BY <2>1, LenProperties, EmptySeq
    <3>2. 1 \in DOMAIN Records(files[c])
      BY <3>1
    <3> QED
      BY <2>1, <3>1, <3>2, ElementOfSeq
  <2> QED
    BY <2>1, <2>2 DEF ToSet
<1>9. s \in ToSet(a)
  BY <1>3, <1>8
<1>10. r \in ToSet(a) /\ r \in WalRecordType /\ s.id <= r.id
  <2>1. a # << >>
    BY <1>9 DEF ToSet
  <2> QED
    BY <1>6, <1>9, <2>1 DEF Newest
<1>11. PICK i \in DOMAIN files : r \in ToSet(Records(files[i]))
  BY <1>3, <1>10
<1>12. i # id
  <2> SUFFICES ASSUME i = id PROVE FALSE
    OBVIOUS
  <2>1. r \in Written(files[id])
    BY <1>7, <1>11, FileReads DEF ReadsWell
  <2>2. r.id < s.id
    BY <1>7, <1>8, <2>1 DEF AllBefore, Before
  <2> QED
    BY <1>8, <1>10, <2>2 DEF WalRecordType
<1>13. r \in ToSet(b)
  BY <1>1, <1>4, <1>11, <1>12
<1>14. LatestOf(b) = LatestOf(a)
  BY <1>3, <1>4, <1>5, <1>13, NewestStays DEF r
<1> QED
  BY <1>14 DEF a, b

\* Removing files never changes the record a recovery would pick, as long as a
\* segment min_keep_segments keeps has a readable record.
THEOREM LatestSurvivesCompaction == Spec => CompactionKeepsLatest
<1> DEFINE Keeps == step = "compacting" /\ KeepsRecord =>
             LatestOf(AllRecords(ReadSegments(disk'))) = LatestOf(OnDisk)
<1>1. WalInv /\ [Next]_vars => Keeps
  <2> SUFFICES ASSUME WalInv, [Next]_vars, step = "compacting", KeepsRecord
               PROVE  LatestOf(AllRecords(ReadSegments(disk')))
                        = LatestOf(AllRecords(ReadSegments(disk)))
    BY DEF OnDisk
  <2>1. CASE disk' = disk
    BY <2>1
  <2>2. CASE RemoveFile
    <3> DEFINE id == Min(removing \cap DOMAIN disk)
    <3>1. id \in DOMAIN disk /\ disk' = [i \in DOMAIN disk \ {id} |-> disk[i]]
      BY <2>2, RemovedFile
    <3>2. PICK c \in DOMAIN disk : id < c /\ Records(disk[c]) # << >>
      BY <2>2, KeptAbove
    <3>3. FilesOrdered(disk) /\ DOMAIN disk \in SUBSET Nat /\ IsFiniteSet(DOMAIN disk)
      <4>1. DOMAIN disk \in SUBSET Nat /\ \E b \in Nat : \A i \in DOMAIN disk : i <= b
        BY DEF WalInv, IdsTracked
      <4> QED
        BY <4>1, BoundedFinite DEF WalInv
    <3> HIDE DEF id
    <3> QED
      BY <3>1, <3>2, <3>3, LatestKept
  <2> QED
    BY <2>1, <2>2, CompactingStep
<1>2. WalInv /\ [Next]_vars => [Keeps]_vars
  BY <1>1
<1> QED
  BY <1>2, WalBegins, WalKept, PTL DEF Spec, CompactionKeepsLatest

\* The records of a sealed segment are no newer than its last one.
LEMMA SegmentBelowLast ==
  ASSUME NEW segment \in WalSegment, Increasing(segment.records),
         NEW r \in ToSet(segment.records)
  PROVE  r.index \in Nat /\ LastIndexOf(segment) \in Nat /\ r.index <= LastIndexOf(segment)
<1> DEFINE rs == segment.records
           n == Len(rs)
<1>1. /\ rs \in Seq(WalRecordType) /\ n \in Nat /\ DOMAIN rs = 1 .. n
      /\ \A k \in 1 .. n : rs[k] \in WalRecordType
  <2>1. rs \in Seq(WalRecordType)
    BY DEF WalSegment
  <2> HIDE DEF rs
  <2> QED
    BY <2>1, LenProperties, ElementOfSeq
<1>2. PICK k \in 1 .. n : r = rs[k]
  BY <1>1 DEF ToSet
<1>3. rs # << >> /\ Last(rs) = rs[n] /\ n \in 1 .. n
  <2>1. n # 0
    BY <1>1, <1>2
  <2> QED
    BY <1>1, <2>1, EmptySeq DEF Last
<1>4. LastIndexOf(segment) = rs[n].index
  BY <1>3 DEF LastIndexOf
<1> HIDE DEF rs
<1>5. CASE k = n
  BY <1>1, <1>2, <1>3, <1>4, <1>5 DEF WalRecordType
<1>6. CASE k < n
  <2>1. Before(rs[k], rs[n])
    BY <1>1, <1>2, <1>3, <1>6 DEF Increasing, rs
  <2> QED
    BY <1>1, <1>2, <1>3, <1>4, <2>1 DEF Before, WalRecordType
<1> HIDE DEF n
<1>7. k = n \/ k < n
  BY <1>1, <1>2
<1> QED
  BY <1>5, <1>6, <1>7

\* A fenced compaction takes no file with a record of more than storage applied
\* durably and the group committed.
THEOREM FencedCompaction == Spec => FencedMeansDurable
<1> DEFINE Durable ==
      \A log_index \in 0 .. MaxIndex, fence \in Fences :
        BeginFencedCompact(log_index, fence) =>
          \A i \in removing' \cap DOMAIN disk : \A r \in ToSet(Records(disk[i])) :
            r.index <= fence.durable_applied_index /\ r.index <= fence.committed_index
<1>1. WalInv => Durable
  <2> SUFFICES ASSUME WalInv, NEW log_index \in 0 .. MaxIndex, NEW fence \in Fences,
                      BeginFencedCompact(log_index, fence),
                      NEW i \in removing' \cap DOMAIN disk, NEW r \in ToSet(Records(disk[i]))
               PROVE  r.index <= fence.durable_applied_index
                        /\ r.index <= fence.committed_index
    OBVIOUS
  <2>1. /\ step = "idle" /\ FenceCovers(fence, log_index)
        /\ removing' = {segments[k].segment_id : k \in Removable(log_index)}
    BY DEF BeginFencedCompact, BeginCompact
  <2>2. SegmentsMatch(disk, segments)
    BY <2>1 DEF WalInv, MemoryInv
  <2>3. PICK k \in Removable(log_index) : segments[k].segment_id = i
    BY <2>1
  <2>4. /\ Len(segments) \in Nat \ {0} /\ DOMAIN segments = 1 .. Len(segments)
        /\ segments \in Seq(WalSegment)
    BY <2>2, ActiveIsLast DEF SegmentsMatch
  <2>5. /\ k \in 1 .. Len(segments) - 1 /\ k \in DOMAIN segments
        /\ LastIndexOf(segments[k]) \in 1 .. log_index
    BY <2>3, <2>4, WalAssumption DEF Removable
  <2>6. segments[k] \in WalSegment /\ Increasing(segments[k].records)
    BY <2>2, <2>4, <2>5, ElementOfSeq DEF SegmentsMatch
  <2>7. Records(disk[i]) = segments[k].records
    BY <2>2, <2>3, <2>5 DEF SegmentsMatch
  <2>8. /\ r.index \in Nat /\ LastIndexOf(segments[k]) \in Nat
        /\ r.index <= LastIndexOf(segments[k])
    BY <2>6, <2>7, SegmentBelowLast
  <2>9. r.index <= log_index /\ log_index \in Nat
    BY <2>5, <2>8, WalAssumption
  <2>10. /\ {fence.durable_applied_index, fence.applied_index, fence.committed_index}
              \subseteq Nat
    BY WalAssumption
  <2> QED
    BY <2>1, <2>8, <2>9, <2>10 DEF FenceCovers, StorageFenceValid
<1>2. WalInv => [Durable]_vars
  BY <1>1
<1> QED
  BY <1>2, WalBegins, WalKept, PTL DEF Spec, FencedMeansDurable

--------------------------------------------------------------------------------
(***************************************************************************)
(* Sending a snapshot in chunks.                                           *)
(***************************************************************************)

\* Division and multiplication by a number of bytes.
LEMMA DivBounds ==
  ASSUME NEW a \in Nat, NEW b \in Nat \ {0}
  PROVE  a \div b \in Nat /\ b * (a \div b) <= a /\ a < b * (a \div b) + b
  BY SMT

\* Three facts on products, for the offsets of chunks.
LEMMA TimesMonotone ==
  ASSUME NEW a \in Nat, NEW b \in Nat, NEW c \in Nat, a <= b
  PROVE  a * c \in Nat /\ b * c \in Nat /\ a * c <= b * c
  BY SMT

LEMMA TimesSucc ==
  ASSUME NEW a \in Nat, NEW c \in Nat
  PROVE  a * c \in Nat /\ (a + 1) * c = a * c + c
  BY SMT

LEMMA TimesCancels ==
  ASSUME NEW a \in Nat, NEW b \in Nat, NEW c \in Nat \ {0}, a * c = b * c
  PROVE  a = b
<1>1. ASSUME NEW x \in Nat, NEW y \in Nat, x < y PROVE x * c # y * c
  <2>1. (x + 1) * c <= y * c /\ (x + 1) * c \in Nat
    BY <1>1, TimesMonotone
  <2>2. (x + 1) * c = x * c + c /\ x * c \in Nat
    BY TimesSucc
  <2> QED
    BY <2>1, <2>2
<1>2. CASE a < b
  BY <1>1, <1>2
<1>3. CASE b < a
  BY <1>1, <1>3
<1> QED
  BY <1>2, <1>3

\* A snapshot is cut into as many chunks as its bytes need, at least one.
LEMMA ChunkCountFits ==
  ASSUME NEW s \in Snapshot
  PROVE  /\ ChunkCount(s) \in Nat \ {0} /\ ChunkSize \in Nat \ {0} /\ Size[s] \in Nat
         /\ (ChunkCount(s) - 1) * ChunkSize <= Size[s]
         /\ Size[s] <= ChunkCount(s) * ChunkSize
<1> DEFINE q == (Size[s] + ChunkSize - 1) \div ChunkSize
<1>1. Size[s] \in Nat /\ ChunkSize \in Nat \ {0}
  BY LifecycleAssumption
<1>2. /\ q \in Nat /\ ChunkSize * q <= Size[s] + ChunkSize - 1
      /\ Size[s] + ChunkSize - 1 < ChunkSize * q + ChunkSize
  <2>1. Size[s] + ChunkSize - 1 \in Nat
    BY <1>1
  <2> QED
    BY <1>1, <2>1, DivBounds
<1>3. ChunkCount(s) = Max({1, q})
  BY DEF ChunkCount
<1> HIDE DEF q
<1>4. ChunkCount(s) = IF 1 >= q THEN 1 ELSE q
  BY <1>2, <1>3, MaxPair
<1>5. CASE q = 0
  <2>1. Size[s] = 0
    BY <1>1, <1>2, <1>5
  <2> QED
    BY <1>1, <1>4, <1>5, <2>1
<1>6. CASE q >= 1
  <2>1. ChunkCount(s) = q
    BY <1>2, <1>4, <1>6
  <2>2. q - 1 \in Nat
    BY <1>2, <1>6
  <2>3. q * ChunkSize = (q - 1) * ChunkSize + ChunkSize
    <3>1. ((q - 1) + 1) * ChunkSize = (q - 1) * ChunkSize + ChunkSize
      BY <1>1, <2>2, TimesSucc
    <3>2. (q - 1) + 1 = q
      BY <1>2
    <3> QED
      BY <3>1, <3>2
  <2>4. ChunkSize * q = q * ChunkSize /\ q * ChunkSize \in Nat
        /\ (q - 1) * ChunkSize \in Nat
    BY <1>1, <1>2, <2>2
  <2> QED
    BY <1>1, <1>2, <1>6, <2>1, <2>3, <2>4
<1> QED
  BY <1>2, <1>5, <1>6

\* All chunks but the last are full, and the last one ends the payload.
LEMMA ChunkFields ==
  ASSUME NEW s \in Snapshot, NEW k \in 1 .. ChunkCount(s)
  PROVE  /\ Chunks(s)[k].snapshot = s
         /\ Chunks(s)[k].offset = (k - 1) * ChunkSize
         /\ Chunks(s)[k].done <=> k = ChunkCount(s)
         /\ k < ChunkCount(s) => Chunks(s)[k].length = ChunkSize
         /\ k = ChunkCount(s) =>
              Chunks(s)[k].offset + Chunks(s)[k].length = Size[s]
<1> DEFINE before == (k - 1) * ChunkSize
           left   == Size[s] - before
           count  == ChunkCount(s)
<1>1. Chunks(s)[k] = [ snapshot |-> s, offset |-> before,
                       length |-> Min({ChunkSize, left}), done |-> k = count ]
  BY DEF Chunks
<1>2. /\ count \in Nat \ {0} /\ ChunkSize \in Nat \ {0} /\ Size[s] \in Nat
      /\ (count - 1) * ChunkSize <= Size[s] /\ Size[s] <= count * ChunkSize
  BY ChunkCountFits
<1>3. k \in Nat /\ k - 1 \in Nat /\ k - 1 <= count - 1 /\ count - 1 \in Nat
  BY <1>2
<1> HIDE DEF count
<1>4. before \in Nat /\ before <= Size[s]
  <2>1. /\ before \in Nat /\ (count - 1) * ChunkSize \in Nat
        /\ before <= (count - 1) * ChunkSize
    BY <1>2, <1>3, TimesMonotone
  <2> HIDE DEF before
  <2> QED
    BY <1>2, <2>1
<1>5. k < count => before + ChunkSize <= Size[s]
  <2> SUFFICES ASSUME k < count PROVE before + ChunkSize <= Size[s]
    OBVIOUS
  <2>1. k <= count - 1
    BY <1>2, <1>3
  <2>2. /\ k * ChunkSize <= (count - 1) * ChunkSize
        /\ k * ChunkSize \in Nat /\ (count - 1) * ChunkSize \in Nat
    BY <1>2, <1>3, <2>1, TimesMonotone
  <2>3. ((k - 1) + 1) * ChunkSize = before + ChunkSize
    BY <1>2, <1>3, TimesSucc
  <2>4. (k - 1) + 1 = k
    BY <1>3
  <2> HIDE DEF before
  <2> QED
    BY <1>2, <1>4, <2>2, <2>3, <2>4
<1>6. k = count => Size[s] <= before + ChunkSize
  <2>1. ((k - 1) + 1) * ChunkSize = before + ChunkSize
    BY <1>2, <1>3, TimesSucc
  <2>2. (k - 1) + 1 = k
    BY <1>3
  <2> HIDE DEF before
  <2> QED
    BY <1>2, <2>1, <2>2
<1> HIDE DEF before
<1>7. left \in Nat
  BY <1>2, <1>4
<1>8. Min({ChunkSize, left}) = IF ChunkSize <= left THEN ChunkSize ELSE left
  <2> HIDE DEF left
  <2> QED
    BY <1>2, <1>7, MinPair
<1>9. /\ k < count => Min({ChunkSize, left}) = ChunkSize
      /\ k = count => before + Min({ChunkSize, left}) = Size[s]
  BY <1>2, <1>4, <1>5, <1>6, <1>8
<1> DEFINE length == Min({ChunkSize, left})
<1> HIDE DEF left, length
<1>10. /\ Chunks(s)[k].snapshot = s /\ Chunks(s)[k].offset = before
       /\ Chunks(s)[k].length = length /\ Chunks(s)[k].done = (k = count)
  BY <1>1 DEF length
<1>11. /\ k < count => length = ChunkSize
       /\ k = count => before + length = Size[s]
  BY <1>9 DEF length
<1> QED
  BY <1>10, <1>11 DEF before, count

--------------------------------------------------------------------------------
(***************************************************************************)
(* The inductive invariant.                                                *)
(***************************************************************************)
SenderRecord == [snapshot : Snapshot, next_chunk : Nat \ {0},
                 accepted_chunks : Nat, retry_count : Nat]

\* The chunks checkpoint makes.
AnyChunk == UNION {{Chunks(s)[k] : k \in 1 .. ChunkCount(s)} : s \in Snapshot}

\* An installation under way holds the first chunks of its snapshot, and not yet
\* the last one.
InstallerInv(state) ==
  /\ state = [snapshot |-> state.snapshot, next_offset |-> state.next_offset,
              chunks |-> state.chunks]
  /\ state.snapshot \in Snapshot
  /\ state.chunks \in Seq(AnyChunk)
  /\ Len(state.chunks) < ChunkCount(state.snapshot)
  /\ state.next_offset = Len(state.chunks) * ChunkSize
  /\ \A k \in 1 .. Len(state.chunks) : state.chunks[k] = Chunks(state.snapshot)[k]

Received == IF installer = << >> THEN 0 ELSE Len(installer[1].chunks)

Acknowledgements(answers) == {r \in answers : r.accepted}

\* The snapshot last begun is the one last handed on.
Delivered ==
  deliveries # << >> /\ deliveries[Len(deliveries)][1].snapshot = snapshot_id

\* No message of an earlier send is under way, and while the snapshot has not been
\* handed on, no more answers count or may still count than chunks were stored.
UndisturbedInv ==
  /\ \A chunk \in requests : chunk.snapshot = snapshot_id
  /\ installer # << >> => installer[1].snapshot = snapshot_id
  /\ Delivered
     \/ /\ ~ sent
        /\ sender # << >> =>
             sender[1].accepted_chunks + Cardinality(Acknowledgements(responses))
               <= Received

LifecycleInv ==
  /\ sender = << >> \/ sender \in [1 .. 1 -> SenderRecord]
  /\ sender # << >> => sender[1].snapshot = snapshot_id
  /\ requests \subseteq AnyChunk
  /\ IsFiniteSet(responses)
  /\ \/ installer = << >>
     \/ installer = <<installer[1]>> /\ InstallerInv(installer[1])
  /\ deliveries \in Seq(Seq(AnyChunk))
  /\ InstalledWhole
  /\ undisturbed => UndisturbedInv

\* Without an installation under way a chunk starts an empty one.
LEMMA StartedHolds ==
  ASSUME LifecycleInv, NEW chunk \in requests
  PROVE  /\ InstallerInv(Started(chunk))
         /\ Len(Started(chunk).chunks) = Received
         /\ Started(chunk).snapshot = IF installer = << >> THEN chunk.snapshot
                                      ELSE installer[1].snapshot
<1>1. CASE installer = << >>
  <2>1. Started(chunk) = [snapshot |-> chunk.snapshot, next_offset |-> 0,
                          chunks |-> << >>]
    BY <1>1 DEF Started
  <2>2. chunk.snapshot \in Snapshot
    BY ChunkFields DEF LifecycleInv, AnyChunk
  <2>3. ChunkCount(chunk.snapshot) \in Nat \ {0} /\ ChunkSize \in Nat \ {0}
    BY <2>2, ChunkCountFits
  <2>4. << >> \in Seq(AnyChunk) /\ Len(<< >>) = 0 /\ 0 * ChunkSize = 0
    BY <2>3
  <2> QED
    BY <1>1, <2>1, <2>2, <2>3, <2>4 DEF InstallerInv, Received
<1>2. CASE installer # << >>
  BY <1>2 DEF Started, LifecycleInv, Received
<1> QED
  BY <1>1, <1>2

\* A chunk that fits is the next one of the snapshot.
LEMMA FittingIsNext ==
  ASSUME NEW state, InstallerInv(state), NEW chunk \in AnyChunk, Fits(state, chunk)
  PROVE  /\ Len(state.chunks) \in Nat
         /\ Len(state.chunks) + 1 \in 1 .. ChunkCount(state.snapshot)
         /\ chunk = Chunks(state.snapshot)[Len(state.chunks) + 1]
         /\ chunk.done <=> Len(state.chunks) + 1 = ChunkCount(state.snapshot)
<1>1. PICK s \in Snapshot : \E k \in 1 .. ChunkCount(s) : chunk = Chunks(s)[k]
  BY DEF AnyChunk
<1>2. PICK k \in 1 .. ChunkCount(s) : chunk = Chunks(s)[k]
  BY <1>1
<1> DEFINE held == Len(state.chunks)
<1>3. /\ s = state.snapshot /\ (k - 1) * ChunkSize = held * ChunkSize
      /\ chunk.done <=> k = ChunkCount(s)
  BY <1>2, ChunkFields DEF Fits, InstallerInv
<1>4. held \in Nat
  BY LenProperties DEF InstallerInv
<1>5. ChunkSize \in Nat \ {0} /\ ChunkCount(s) \in Nat /\ k - 1 \in Nat
  BY ChunkCountFits
<1> HIDE DEF held
<1>6. k - 1 = held
  BY <1>3, <1>4, <1>5, TimesCancels
<1>7. k = held + 1
  BY <1>4, <1>5, <1>6
<1> QED
  BY <1>2, <1>3, <1>4, <1>5, <1>7 DEF held

\* The installation with the next chunk stored, which was not the last one.
LEMMA ReceivedHolds ==
  ASSUME NEW state, InstallerInv(state), NEW chunk \in AnyChunk, Fits(state, chunk),
         ~ chunk.done, NEW stored,
         stored = [state EXCEPT !.next_offset = @ + chunk.length,
                                !.chunks      = Append(@, chunk)]
  PROVE  /\ InstallerInv(stored)
         /\ Len(stored.chunks) = Len(state.chunks) + 1
         /\ stored.snapshot = state.snapshot
<1> DEFINE held == Len(state.chunks)
           s    == state.snapshot
           more == Append(state.chunks, chunk)
<1>1. /\ stored.snapshot = s /\ stored.chunks = more
      /\ stored.next_offset = state.next_offset + chunk.length
      /\ stored = [snapshot |-> stored.snapshot, next_offset |-> stored.next_offset,
                   chunks |-> stored.chunks]
  BY DEF InstallerInv
<1>2. /\ held \in Nat /\ held + 1 \in 1 .. ChunkCount(s)
      /\ chunk = Chunks(s)[held + 1]
      /\ held + 1 # ChunkCount(s)
  BY FittingIsNext
<1>3. s \in Snapshot /\ ChunkCount(s) \in Nat /\ ChunkSize \in Nat
  BY ChunkCountFits DEF InstallerInv
<1>4. held + 1 < ChunkCount(s)
  BY <1>2, <1>3
<1>5. chunk.length = ChunkSize
  BY <1>2, <1>3, <1>4, ChunkFields
<1>6. stored.next_offset = (held + 1) * ChunkSize
  BY <1>1, <1>2, <1>3, <1>5, TimesSucc DEF InstallerInv
<1>7. /\ more \in Seq(AnyChunk) /\ Len(more) = held + 1
      /\ \A k \in 1 .. held : more[k] = state.chunks[k]
      /\ more[held + 1] = chunk
  BY AppendProperties DEF InstallerInv
<1>8. \A k \in 1 .. held : state.chunks[k] = Chunks(s)[k]
  BY DEF InstallerInv
<1> HIDE DEF held, more
<1>9. \A k \in 1 .. held + 1 : more[k] = Chunks(s)[k]
  BY <1>2, <1>7, <1>8
<1> QED
  BY <1>1, <1>3, <1>4, <1>6, <1>7, <1>9 DEF InstallerInv, held

\* The snapshot the last chunk completes is whole.
LEMMA InstalledHolds ==
  ASSUME NEW state, InstallerInv(state), NEW chunk \in AnyChunk, Fits(state, chunk),
         chunk.done, NEW chunks, chunks = Append(state.chunks, chunk)
  PROVE  /\ chunks \in Seq(AnyChunk) /\ Whole(chunks)
         /\ chunks[1].snapshot = state.snapshot
<1> DEFINE held == Len(state.chunks)
           s    == state.snapshot
<1>1. /\ held \in Nat /\ held + 1 \in 1 .. ChunkCount(s)
      /\ chunk = Chunks(s)[held + 1]
      /\ held + 1 = ChunkCount(s)
  BY FittingIsNext
<1>2. s \in Snapshot /\ ChunkSize \in Nat
  BY ChunkCountFits DEF InstallerInv
<1>3. /\ chunks \in Seq(AnyChunk) /\ Len(chunks) = held + 1
      /\ \A k \in 1 .. held : chunks[k] = state.chunks[k]
      /\ chunks[held + 1] = chunk
  BY AppendProperties DEF InstallerInv
<1>4. \A k \in 1 .. held : state.chunks[k] = Chunks(s)[k]
  BY DEF InstallerInv
<1> HIDE DEF held
<1>5. \A k \in 1 .. held + 1 : chunks[k] = Chunks(s)[k]
  BY <1>1, <1>3, <1>4
<1>6. ASSUME NEW k \in 1 .. held + 1
      PROVE  /\ chunks[k].snapshot = s
             /\ chunks[k].offset = (k - 1) * ChunkSize
  <2>1. k \in 1 .. ChunkCount(s)
    BY <1>1
  <2> HIDE DEF s
  <2>2. Chunks(s)[k].snapshot = s /\ Chunks(s)[k].offset = (k - 1) * ChunkSize
    BY <1>2, <2>1, ChunkFields
  <2> QED
    BY <1>5, <2>2
<1>7. 1 \in 1 .. held + 1 /\ held + 1 \in 1 .. held + 1
  BY <1>1
<1>8. chunks[1].snapshot = s /\ chunks[1].offset = 0
  BY <1>2, <1>6, <1>7
<1>9. ASSUME NEW k \in 2 .. Len(chunks)
      PROVE  /\ chunks[k].snapshot = chunks[1].snapshot
             /\ chunks[k].offset = chunks[k - 1].offset + chunks[k - 1].length
  <2>1. /\ k \in 1 .. held + 1 /\ k - 1 \in 1 .. held + 1 /\ k - 2 \in Nat
        /\ k - 1 < ChunkCount(s) /\ k - 1 \in 1 .. ChunkCount(s)
        /\ (k - 1) - 1 = k - 2 /\ (k - 2) + 1 = k - 1
    BY <1>1, <1>3
  <2>2. chunks[k - 1].length = ChunkSize
    BY <1>2, <1>5, <2>1, ChunkFields
  <2>3. chunks[k].offset = (k - 1) * ChunkSize
    BY <1>6, <2>1
  <2>4. chunks[k - 1].offset = (k - 2) * ChunkSize
    BY <1>6, <2>1
  <2>5. ((k - 2) + 1) * ChunkSize = (k - 2) * ChunkSize + ChunkSize
    BY <1>2, <2>1, TimesSucc
  <2>6. chunks[k].snapshot = s
    BY <1>6, <2>1
  <2> QED
    BY <1>8, <2>1, <2>2, <2>3, <2>4, <2>5, <2>6
<1>10. Last(chunks).offset + Last(chunks).length = Size[chunks[1].snapshot]
  <2>1. Last(chunks) = Chunks(s)[ChunkCount(s)]
    BY <1>1, <1>3, <1>5, <1>7 DEF Last
  <2> QED
    BY <1>1, <1>2, <1>8, <2>1, ChunkFields
<1>11. Whole(chunks)
  BY <1>8, <1>9, <1>10 DEF Whole
<1> QED
  BY <1>3, <1>8, <1>11

--------------------------------------------------------------------------------
(***************************************************************************)
(* The steps.                                                              *)
(***************************************************************************)

\* An answer more, and an answer less.
LEMMA AnswerAdded ==
  ASSUME NEW answers, IsFiniteSet(answers), NEW r
  PROVE  /\ IsFiniteSet(answers \cup {r})
         /\ Cardinality(Acknowledgements(answers)) \in Nat
         /\ Cardinality(Acknowledgements(answers \cup {r})) \in Nat
         /\ Cardinality(Acknowledgements(answers \cup {r}))
              <= Cardinality(Acknowledgements(answers)) + 1
         /\ ~ r.accepted =>
              Acknowledgements(answers \cup {r}) = Acknowledgements(answers)
<1> DEFINE before == Acknowledgements(answers)
           after  == Acknowledgements(answers \cup {r})
<1>1. IsFiniteSet(answers \cup {r})
  BY FS_AddElement
<1>2. IsFiniteSet(before) /\ Cardinality(before) \in Nat
  <2>1. before \subseteq answers
    BY DEF Acknowledgements
  <2> QED
    BY <2>1, FS_Subset, FS_CardinalityType
<1>3. after = before \/ after = before \cup {r}
  BY DEF Acknowledgements
<1>4. /\ Cardinality(before \cup {r}) \in Nat
      /\ Cardinality(before \cup {r}) <= Cardinality(before) + 1
  BY <1>2, FS_AddElement
<1>5. ~ r.accepted => after = before
  BY DEF Acknowledgements
<1> HIDE DEF before, after
<1>6. Cardinality(after) \in Nat /\ Cardinality(after) <= Cardinality(before) + 1
  BY <1>2, <1>3, <1>4
<1> QED
  BY <1>1, <1>2, <1>5, <1>6 DEF before, after

\* Taking an answer off the network leaves no more acknowledgements.
LEMMA AnswerTaken ==
  ASSUME NEW answers, IsFiniteSet(answers), NEW r \in answers
  PROVE  /\ IsFiniteSet(answers \ {r})
         /\ Cardinality(Acknowledgements(answers)) \in Nat
         /\ Cardinality(Acknowledgements(answers \ {r})) \in Nat
         /\ Cardinality(Acknowledgements(answers \ {r}))
              <= Cardinality(Acknowledgements(answers))
         /\ r.accepted =>
              Cardinality(Acknowledgements(answers \ {r})) + 1
                = Cardinality(Acknowledgements(answers))
<1> DEFINE before == Acknowledgements(answers)
           after  == Acknowledgements(answers \ {r})
<1>1. IsFiniteSet(answers \ {r})
  BY FS_RemoveElement
<1>2. IsFiniteSet(before) /\ Cardinality(before) \in Nat
  <2>1. before \subseteq answers
    BY DEF Acknowledgements
  <2> QED
    BY <2>1, FS_Subset, FS_CardinalityType
<1>3. CASE r.accepted
  <2>1. after = before \ {r} /\ r \in before
    BY <1>3 DEF Acknowledgements
  <2> HIDE DEF before, after
  <2>2. Cardinality(after) = Cardinality(before) - 1 /\ IsFiniteSet(after)
    BY <1>2, <2>1, FS_RemoveElement
  <2>3. Cardinality(after) \in Nat
    BY <2>2, FS_CardinalityType
  <2> QED
    BY <1>1, <1>2, <2>2, <2>3 DEF before, after
<1>4. CASE ~ r.accepted
  <2>1. after = before
    BY <1>4 DEF Acknowledgements
  <2> HIDE DEF before, after
  <2> QED
    BY <1>1, <1>2, <1>4, <2>1 DEF before, after
<1> QED
  BY <1>3, <1>4

\* No answer more.
LEMMA AnswersShrink ==
  ASSUME LifecycleInv,
         \/ responses' = responses
         \/ \E r \in responses : responses' = responses \ {r}
  PROVE  /\ IsFiniteSet(responses')
         /\ Cardinality(Acknowledgements(responses)) \in Nat
         /\ Cardinality(Acknowledgements(responses')) \in Nat
         /\ Cardinality(Acknowledgements(responses'))
              <= Cardinality(Acknowledgements(responses))
<1>1. IsFiniteSet(responses)
  BY DEF LifecycleInv
<1>2. CASE responses' = responses
  <2>1. Acknowledgements(responses) \subseteq responses
    BY DEF Acknowledgements
  <2>2. Cardinality(Acknowledgements(responses)) \in Nat
    BY <1>1, <2>1, FS_Subset, FS_CardinalityType
  <2> QED
    BY <1>1, <1>2, <2>2
<1>3. CASE \E r \in responses : responses' = responses \ {r}
  BY <1>1, <1>3, AnswerTaken
<1> QED
  BY <1>2, <1>3

\* The number of chunks received is a natural number.
LEMMA ReceivedNat ==
  ASSUME LifecycleInv
  PROVE  Received \in Nat
  BY LenProperties DEF Received, LifecycleInv, InstallerInv

\* A step of the leader or of the transport: the follower stays as it is.
LEMMA LeaderStep ==
  ASSUME LifecycleInv, UNCHANGED installVars,
         \/ sender' = << >>
         \/ sender' \in [1 .. 1 -> SenderRecord] /\ sender'[1].snapshot = snapshot_id',
         requests' \subseteq AnyChunk, IsFiniteSet(responses'),
         undisturbed' => UndisturbedInv'
  PROVE  LifecycleInv'
<1>1. /\ installer' = installer /\ deliveries' = deliveries
  BY DEF installVars
<1>2. InstalledWhole'
  BY <1>1 DEF LifecycleInv, InstalledWhole
<1> QED
  BY <1>1, <1>2 DEF LifecycleInv

\* The same within a send, of which messages are lost, sent again or answered.
LEMMA WithinSend ==
  ASSUME LifecycleInv, UNCHANGED <<installVars, snapshot_id, undisturbed>>,
         \/ sender' = << >>
         \/ /\ sender # << >> /\ sender' \in [1 .. 1 -> SenderRecord]
            /\ sender'[1].snapshot = sender[1].snapshot,
         requests' \subseteq AnyChunk,
         \A chunk \in requests' \ requests :
           sender # << >> /\ chunk.snapshot = sender[1].snapshot,
         IsFiniteSet(responses'),
         undisturbed /\ UndisturbedInv /\ ~ Delivered =>
           /\ ~ sent'
           /\ sender' # << >> =>
                sender'[1].accepted_chunks
                  + Cardinality(Acknowledgements(responses')) <= Received
  PROVE  LifecycleInv'
<1>1. /\ installer' = installer /\ deliveries' = deliveries
      /\ snapshot_id' = snapshot_id /\ undisturbed' = undisturbed
  BY DEF installVars
<1>2. sender # << >> => sender[1].snapshot = snapshot_id
  BY DEF LifecycleInv
<1>3. Delivered' <=> Delivered
  BY <1>1 DEF Delivered
<1>4. Received' = Received
  BY <1>1 DEF Received
<1>5. ASSUME undisturbed' PROVE UndisturbedInv'
  <2>1. undisturbed /\ UndisturbedInv
    BY <1>1, <1>5 DEF LifecycleInv
  <2>2. \A chunk \in requests' : chunk.snapshot = snapshot_id'
    BY <1>1, <1>2, <2>1 DEF UndisturbedInv
  <2>3. installer' # << >> => installer'[1].snapshot = snapshot_id'
    BY <1>1, <2>1 DEF UndisturbedInv
  <2>4. CASE Delivered
    BY <1>3, <2>2, <2>3, <2>4 DEF UndisturbedInv
  <2>5. CASE ~ Delivered
    BY <1>4, <2>1, <2>2, <2>3, <2>5 DEF UndisturbedInv
  <2> QED
    BY <2>4, <2>5
<1> QED
  BY <1>1, <1>2, <1>5, LeaderStep

\* Every send starts with the first chunk and nothing counted.
LEMMA BeginSendKeeps ==
  ASSUME LifecycleInv, NEW s \in Snapshot, BeginSend(s)
  PROVE  LifecycleInv'
<1> DEFINE begun == [snapshot |-> s, next_chunk |-> 1, accepted_chunks |-> 0,
                     retry_count |-> 0]
<1>1. /\ sender' = <<begun>> /\ snapshot_id' = s /\ sent' = FALSE
      /\ undisturbed' = (undisturbed /\ requests = {} /\ responses = {}
                           /\ installer = << >>)
      /\ UNCHANGED installVars /\ requests' = requests /\ responses' = responses
  BY DEF BeginSend
<1>2. begun \in SenderRecord /\ begun.snapshot = s /\ begun.accepted_chunks = 0
  BY DEF SenderRecord
<1> HIDE DEF begun
<1>3. /\ sender' \in [1 .. 1 -> SenderRecord] /\ sender'[1].snapshot = snapshot_id'
      /\ sender'[1].accepted_chunks = 0
  BY <1>1, <1>2
<1>4. ASSUME undisturbed' PROVE UndisturbedInv'
  <2>1. requests' = {} /\ responses' = {} /\ installer' = << >>
    BY <1>1, <1>4 DEF installVars
  <2>2. Cardinality(Acknowledgements(responses')) = 0
    <3>1. Acknowledgements(responses') = {}
      BY <2>1 DEF Acknowledgements
    <3> QED
      BY <3>1, FS_EmptySet
  <2>3. Received' = 0
    BY <2>1 DEF Received
  <2> QED
    BY <1>1, <1>3, <2>1, <2>2, <2>3 DEF UndisturbedInv
<1> QED
  BY <1>1, <1>3, <1>4, LeaderStep DEF LifecycleInv

\* What is sent are chunks of the snapshot.
LEMMA PollKeeps ==
  ASSUME LifecycleInv, Poll
  PROVE  LifecycleInv'
<1> DEFINE s      == sender[1].snapshot
           chunks == Chunks(s)
           from   == sender[1].next_chunk
           left   == SubSeq(chunks, from, Len(chunks))
           n      == TickChunks(left)
<1>1. /\ sender # << >> /\ sender' = [sender EXCEPT ![1].next_chunk = @ + n]
      /\ requests' = requests \cup {left[k] : k \in 1 .. n}
      /\ UNCHANGED <<snapshot_id, sending, sent, installVars, responses, countVars>>
  BY DEF Poll
<1>2. /\ sender \in [1 .. 1 -> SenderRecord] /\ sender[1] \in SenderRecord
      /\ s \in Snapshot /\ from \in Nat \ {0}
  BY <1>1 DEF LifecycleInv, SenderRecord
<1>3. /\ ChunkCount(s) \in Nat /\ chunks \in Seq(AnyChunk)
      /\ Len(chunks) = ChunkCount(s)
      /\ \A k \in 1 .. ChunkCount(s) : chunks[k].snapshot = s
  <2>1. ChunkCount(s) \in Nat
    BY <1>2, ChunkCountFits
  <2>2. chunks \in [1 .. ChunkCount(s) -> AnyChunk]
    <3>1. \A k \in 1 .. ChunkCount(s) : Chunks(s)[k] \in AnyChunk
      BY <1>2 DEF AnyChunk
    <3> QED
      BY <3>1 DEF Chunks
  <2>3. \A k \in 1 .. ChunkCount(s) : chunks[k].snapshot = s
    BY <1>2, ChunkFields
  <2> HIDE DEF chunks
  <2> QED
    BY <2>1, <2>2, <2>3, SeqDef, LenProperties
<1> HIDE DEF chunks, from, s
<1>4. /\ left \in Seq(AnyChunk) /\ Len(left) \in Nat
      /\ \A k \in 1 .. Len(left) : left[k].snapshot = s /\ left[k] \in AnyChunk
  <2>1. CASE from <= Len(chunks)
    <3>1. /\ left \in Seq(AnyChunk) /\ Len(left) = Len(chunks) - from + 1
          /\ \A k \in 1 .. Len(chunks) - from + 1 : left[k] = chunks[from + k - 1]
      BY <1>2, <1>3, <2>1, SubSeqProperties
    <3>2. \A k \in 1 .. Len(left) : from + k - 1 \in 1 .. Len(chunks)
      BY <1>2, <1>3, <2>1, <3>1
    <3>3. \A k \in 1 .. Len(left) : left[k] = chunks[from + k - 1]
      BY <3>1
    <3> HIDE DEF left
    <3>4. Len(left) \in Nat /\ \A k \in 1 .. Len(left) : left[k] \in AnyChunk
      BY <3>1, LenProperties, ElementOfSeq
    <3> QED
      BY <1>3, <3>1, <3>2, <3>3, <3>4
  <2>2. CASE from > Len(chunks)
    <3>1. left = << >>
      BY <1>2, <1>3, <2>2, SubSeqProperties, EmptySeq
    <3> QED
      BY <3>1
  <2> QED
    BY <1>2, <1>3, <2>1, <2>2
<1> HIDE DEF left
<1>5. n \in 0 .. Len(left)
  <2> DEFINE bytes(k) == FoldSeq(LAMBDA c, sum : c.length + sum, 0, SubSeq(left, 1, k))
             most == Min({Len(left), MaxChunksPerTick})
             S == {k \in 0 .. most : k <= 1 \/ bytes(k) <= MaxBytesPerTick}
  <2>1. n = Max(S)
    BY DEF TickChunks
  <2>2. most \in Nat /\ most <= Len(left)
    <3>1. MaxChunksPerTick \in Nat
      BY LifecycleAssumption
    <3> QED
      BY <1>4, <3>1, MinPair
  <2> HIDE DEF most, bytes
  <2>3. S \in SUBSET Nat /\ 0 \in S /\ \A k \in S : k <= most
    BY <2>2
  <2> HIDE DEF S, n
  <2>4. n \in Nat /\ n <= most
    <3>1. Max(S) \in S
      BY <2>2, <2>3, MaxNat
    <3> QED
      BY <2>1, <2>3, <3>1
  <2> QED
    BY <1>4, <2>2, <2>4
<1> HIDE DEF n
<1>6. /\ \A chunk \in requests' \ requests : chunk.snapshot = s
      /\ requests' \subseteq AnyChunk
  BY <1>1, <1>4, <1>5 DEF LifecycleInv
<1>7. /\ sender' \in [1 .. 1 -> SenderRecord]
      /\ sender'[1].snapshot = sender[1].snapshot
      /\ sender'[1].accepted_chunks = sender[1].accepted_chunks
      /\ sender' # << >>
  <2>1. n \in Nat
    BY <1>4, <1>5
  <2>2. sender' \in [1 .. 1 -> SenderRecord]
        /\ sender'[1] = [sender[1] EXCEPT !.next_chunk = @ + n]
    BY <1>1, <1>2, <2>1 DEF SenderRecord, from
  <2>3. sender' # << >>
    <3>1. 1 \in DOMAIN sender'
      BY <2>2
    <3> QED
      BY <3>1
  <2>4. /\ sender'[1].snapshot = sender[1].snapshot
        /\ sender'[1].accepted_chunks = sender[1].accepted_chunks
    BY <1>2, <2>2 DEF SenderRecord
  <2> QED
    BY <2>2, <2>3, <2>4
<1>8. UNCHANGED <<installVars, snapshot_id, undisturbed>>
      /\ responses' = responses /\ sent' = sent
  BY <1>1 DEF countVars
<1>9. undisturbed /\ UndisturbedInv /\ ~ Delivered =>
        /\ ~ sent'
        /\ sender' # << >> =>
             sender'[1].accepted_chunks
               + Cardinality(Acknowledgements(responses')) <= Received
  BY <1>1, <1>7, <1>8 DEF UndisturbedInv
<1>10. IsFiniteSet(responses')
  BY <1>8 DEF LifecycleInv
<1> QED
  BY <1>1, <1>6, <1>7, <1>8, <1>9, <1>10, WithinSend DEF s

\* The follower stores a chunk, hands a snapshot on, or refuses a chunk.
LEMMA FollowerStep ==
  ASSUME LifecycleInv, NEW chunk \in requests, NEW state, NEW accepted, NEW next_offset,
         UNCHANGED <<senderVars, countVars>>,
         \/ installer' = << >>
         \/ installer' = <<state>> /\ InstallerInv(state),
         installer' # << >> => state.snapshot = Started(chunk).snapshot,
         deliveries' \in Seq(Seq(AnyChunk)), InstalledWhole',
         requests' = requests \ {chunk},
         responses' = responses \cup {Answer(accepted, next_offset)},
         undisturbed /\ UndisturbedInv =>
           \/ Delivered'
           \/ /\ ~ Delivered
              /\ IF accepted THEN Received' = Received + 1 ELSE Received' = Received
  PROVE  LifecycleInv'
<1> DEFINE r == Answer(accepted, next_offset)
<1>1. r.accepted = accepted
  BY DEF Answer
<1> HIDE DEF r
<1>2. /\ sender' = sender /\ snapshot_id' = snapshot_id /\ sent' = sent
      /\ undisturbed' = undisturbed
  BY DEF senderVars, countVars
<1>3. /\ IsFiniteSet(responses')
      /\ Cardinality(Acknowledgements(responses)) \in Nat
      /\ Cardinality(Acknowledgements(responses')) \in Nat
      /\ Cardinality(Acknowledgements(responses'))
           <= Cardinality(Acknowledgements(responses)) + 1
      /\ ~ accepted =>
           Cardinality(Acknowledgements(responses'))
             = Cardinality(Acknowledgements(responses))
  <2>1. IsFiniteSet(responses) /\ responses' = responses \cup {r}
    BY DEF LifecycleInv, r
  <2> QED
    BY <1>1, <2>1, AnswerAdded
<1>4. \/ installer' = << >>
      \/ installer' = <<installer'[1]>> /\ InstallerInv(installer'[1])
  OBVIOUS
<1>5. Received \in Nat
  BY ReceivedNat
<1>6. ASSUME undisturbed' PROVE UndisturbedInv'
  <2>1. undisturbed /\ UndisturbedInv
    BY <1>2, <1>6 DEF LifecycleInv
  <2>2. \A c \in requests' : c.snapshot = snapshot_id'
    BY <1>2, <2>1 DEF UndisturbedInv
  <2>3. installer' # << >> => installer'[1].snapshot = snapshot_id'
    <3>1. Started(chunk).snapshot = snapshot_id
      BY <2>1, StartedHolds DEF UndisturbedInv
    <3> QED
      BY <1>2, <3>1
  <2>4. CASE Delivered'
    BY <2>2, <2>3, <2>4 DEF UndisturbedInv
  <2>5. CASE ~ Delivered'
    <3>1. /\ ~ sent
          /\ sender # << >> =>
               sender[1].accepted_chunks + Cardinality(Acknowledgements(responses))
                 <= Received
          /\ IF accepted THEN Received' = Received + 1 ELSE Received' = Received
      BY <2>1, <2>5 DEF UndisturbedInv
    <3>2. sender # << >> => sender[1].accepted_chunks \in Nat
      BY DEF LifecycleInv, SenderRecord
    <3>3. sender # << >> =>
            sender[1].accepted_chunks + Cardinality(Acknowledgements(responses'))
              <= Received'
      BY <1>3, <1>5, <3>1, <3>2
    <3> QED
      BY <1>2, <2>2, <2>3, <3>1, <3>3 DEF UndisturbedInv
  <2> QED
    BY <2>4, <2>5
<1> QED
  BY <1>2, <1>3, <1>4, <1>6 DEF LifecycleInv

\* A chunk that is taken in.
LEMMA ReceiveKeeps ==
  ASSUME LifecycleInv, NEW chunk \in requests, Receive(chunk)
  PROVE  LifecycleInv'
<1> DEFINE state  == Started(chunk)
           stored == [state EXCEPT !.next_offset = @ + chunk.length,
                                   !.chunks      = Append(@, chunk)]
<1>1. /\ Fits(state, chunk) /\ ~ chunk.done
      /\ installer' = <<stored>> /\ requests' = requests \ {chunk}
      /\ responses' = responses \cup {Answer(TRUE, chunk.offset + chunk.length)}
      /\ deliveries' = deliveries /\ snapshot_id' = snapshot_id
      /\ UNCHANGED <<senderVars, countVars>>
  BY DEF Receive, senderVars
<1>2. InstallerInv(state) /\ Len(state.chunks) = Received /\ chunk \in AnyChunk
  BY StartedHolds DEF LifecycleInv
<1>3. /\ InstallerInv(stored) /\ Len(stored.chunks) = Received + 1
      /\ stored.snapshot = state.snapshot
  <2> HIDE DEF state
  <2> QED
    BY <1>1, <1>2, ReceivedHolds
<1> HIDE DEF stored
<1>4. Received' = Received + 1 /\ installer' # << >>
  BY <1>1, <1>3 DEF Received
<1>5. InstalledWhole' /\ deliveries' \in Seq(Seq(AnyChunk))
  BY <1>1 DEF LifecycleInv, InstalledWhole
<1>6. Delivered' <=> Delivered
  BY <1>1 DEF Delivered
<1> QED
  BY <1>1, <1>3, <1>4, <1>5, <1>6, FollowerStep

\* A chunk that is refused.
LEMMA RefuseKeeps ==
  ASSUME LifecycleInv, NEW chunk \in requests, Refuse(chunk)
  PROVE  LifecycleInv'
<1> DEFINE state == Started(chunk)
<1>1. /\ installer' = <<state>> /\ requests' = requests \ {chunk}
      /\ responses' = responses \cup {Answer(FALSE, state.next_offset)}
      /\ deliveries' = deliveries /\ snapshot_id' = snapshot_id
      /\ UNCHANGED <<senderVars, countVars>>
  BY DEF Refuse, senderVars
<1>2. InstallerInv(state) /\ Len(state.chunks) = Received
  BY StartedHolds
<1>3. Received' = Received /\ installer' # << >>
  <2> HIDE DEF state
  <2> QED
    BY <1>1, <1>2 DEF Received
<1>4. InstalledWhole' /\ deliveries' \in Seq(Seq(AnyChunk))
  BY <1>1 DEF LifecycleInv, InstalledWhole
<1>5. Delivered' <=> Delivered
  BY <1>1 DEF Delivered
<1> QED
  BY <1>1, <1>2, <1>3, <1>4, <1>5, FollowerStep

\* The last chunk, with which the snapshot is installed.
LEMMA InstallKeeps ==
  ASSUME LifecycleInv, NEW chunk \in requests, Install(chunk)
  PROVE  LifecycleInv'
<1> DEFINE state  == Started(chunk)
           chunks == Append(state.chunks, chunk)
<1>1. /\ Fits(state, chunk) /\ chunk.done
      /\ installer' = << >> /\ requests' = requests \ {chunk}
      /\ responses' = responses \cup {Answer(TRUE, chunk.offset + chunk.length)}
      /\ deliveries' = Append(deliveries, chunks) /\ snapshot_id' = snapshot_id
      /\ UNCHANGED <<senderVars, countVars>>
  BY DEF Install, senderVars
<1>2. InstallerInv(state) /\ chunk \in AnyChunk
  BY StartedHolds DEF LifecycleInv
<1>3. /\ chunks \in Seq(AnyChunk) /\ Whole(chunks)
      /\ chunks[1].snapshot = state.snapshot
  <2> HIDE DEF state
  <2> QED
    BY <1>1, <1>2, InstalledHolds
<1> HIDE DEF chunks
<1>4. deliveries \in Seq(Seq(AnyChunk))
  BY DEF LifecycleInv
<1>5. /\ deliveries' \in Seq(Seq(AnyChunk)) /\ Len(deliveries) \in Nat
      /\ Len(deliveries') = Len(deliveries) + 1
      /\ DOMAIN deliveries' = 1 .. Len(deliveries) + 1
      /\ DOMAIN deliveries = 1 .. Len(deliveries)
      /\ \A k \in 1 .. Len(deliveries) : deliveries'[k] = deliveries[k]
      /\ deliveries'[Len(deliveries')] = chunks
  BY <1>1, <1>3, <1>4, AppendProperties, LenProperties
<1>6. InstalledWhole'
  <2>1. \A k \in 1 .. Len(deliveries) : Whole(deliveries[k])
    BY <1>5 DEF LifecycleInv, InstalledWhole
  <2>2. ASSUME NEW k \in DOMAIN deliveries' PROVE Whole(deliveries'[k])
    <3>1. k \in 1 .. Len(deliveries) \/ k = Len(deliveries')
      BY <1>5, <2>2
    <3>2. CASE k \in 1 .. Len(deliveries)
      <4>1. deliveries'[k] = deliveries[k] /\ Whole(deliveries[k])
        BY <1>5, <2>1, <3>2
      <4> QED
        BY <4>1
    <3>3. CASE k = Len(deliveries')
      <4>1. deliveries'[k] = chunks
        BY <1>5, <3>3
      <4> QED
        BY <1>3, <4>1
    <3> QED
      BY <3>1, <3>2, <3>3
  <2> QED
    BY <2>2 DEF InstalledWhole
<1>7. ASSUME undisturbed, UndisturbedInv PROVE Delivered'
  <2>1. state.snapshot = snapshot_id
    BY <1>7, StartedHolds DEF UndisturbedInv
  <2>2. deliveries' # << >>
    BY <1>5, EmptySeq
  <2>3. deliveries'[Len(deliveries')][1].snapshot = snapshot_id
    BY <1>3, <1>5, <2>1
  <2> QED
    BY <1>1, <2>2, <2>3 DEF Delivered
<1> QED
  BY <1>1, <1>5, <1>6, <1>7, FollowerStep

\* The leader counts an answer.  While the snapshot has not been handed on the
\* answers are fewer than the chunks.
LEMMA AcceptedKeeps ==
  ASSUME LifecycleInv, NEW r \in responses, Accepted(r)
  PROVE  LifecycleInv'
<1> DEFINE s        == sender[1].snapshot
           accepted == sender[1].accepted_chunks + 1
           all      == accepted >= ChunkCount(s)
<1>1. /\ r.accepted /\ sender # << >>
      /\ sender' = IF all THEN << >>
                   ELSE [sender EXCEPT ![1].accepted_chunks = accepted]
      /\ sent' = all /\ responses' = responses \ {r}
      /\ UNCHANGED <<snapshot_id, installVars, requests, countVars>>
  BY DEF Accepted
<1>2. /\ sender \in [1 .. 1 -> SenderRecord] /\ sender[1] \in SenderRecord
      /\ s \in Snapshot /\ sender[1].accepted_chunks \in Nat /\ s = snapshot_id
  BY <1>1 DEF LifecycleInv, SenderRecord
<1>3. ChunkCount(s) \in Nat
  BY <1>2, ChunkCountFits
<1>4. /\ IsFiniteSet(responses')
      /\ Cardinality(Acknowledgements(responses)) \in Nat
      /\ Cardinality(Acknowledgements(responses')) \in Nat
      /\ Cardinality(Acknowledgements(responses')) + 1
           = Cardinality(Acknowledgements(responses))
  <2>1. IsFiniteSet(responses)
    BY DEF LifecycleInv
  <2> QED
    BY <1>1, <2>1, AnswerTaken
<1>5. accepted \in Nat
  BY <1>2
<1> HIDE DEF s
<1>6. sender' = << >> \/ /\ sender' \in [1 .. 1 -> SenderRecord]
                         /\ sender'[1].snapshot = sender[1].snapshot
                         /\ sender'[1].accepted_chunks = accepted
  <2> HIDE DEF accepted
  <2>1. CASE all
    BY <1>1, <2>1
  <2>2. CASE ~ all
    <3>1. /\ sender' \in [1 .. 1 -> SenderRecord]
          /\ sender'[1] = [sender[1] EXCEPT !.accepted_chunks = accepted]
      BY <1>1, <1>2, <1>5, <2>2 DEF SenderRecord
    <3> QED
      BY <1>2, <3>1 DEF SenderRecord
  <2> QED
    BY <2>1, <2>2
<1>7. UNCHANGED <<installVars, snapshot_id, undisturbed>> /\ requests' = requests
      /\ requests' \subseteq AnyChunk
  BY <1>1 DEF countVars, LifecycleInv
<1>8. ASSUME undisturbed, UndisturbedInv, ~ Delivered
      PROVE  /\ ~ sent'
             /\ sender' # << >> =>
                  sender'[1].accepted_chunks
                    + Cardinality(Acknowledgements(responses')) <= Received
  <2>1. sender[1].accepted_chunks + Cardinality(Acknowledgements(responses))
          <= Received
    BY <1>1, <1>8 DEF UndisturbedInv
  <2>2. Received \in Nat /\ (Received > 0 => Received < ChunkCount(s))
    <3>1. CASE installer = << >>
      BY <3>1 DEF Received
    <3>2. CASE installer # << >>
      <4>1. InstallerInv(installer[1]) /\ installer[1].snapshot = s
        BY <1>2, <1>8, <3>2 DEF LifecycleInv, UndisturbedInv
      <4> QED
        BY <3>2, <4>1, LenProperties DEF Received, InstallerInv
    <3> QED
      BY <3>1, <3>2
  <2>3. accepted <= Received /\ Received > 0
    BY <1>2, <1>4, <2>1, <2>2
  <2>4. ~ all
    BY <1>3, <1>5, <2>2, <2>3
  <2>5. sender' # << >> => sender'[1].accepted_chunks = accepted
    BY <1>6
  <2>6. ~ sent'
    <3> HIDE DEF all
    <3> QED
      BY <1>1, <2>4
  <2>7. accepted + Cardinality(Acknowledgements(responses')) <= Received
    BY <1>2, <1>4, <2>1, <2>2
  <2> HIDE DEF accepted
  <2> QED
    BY <2>5, <2>6, <2>7
<1> HIDE DEF accepted
<1>9. IsFiniteSet(responses')
  BY <1>4
<1> QED
  BY <1>1, <1>6, <1>7, <1>8, <1>9, WithinSend

\* What an attempt changes in the sender's record.
LEMMA RetryRecord ==
  ASSUME NEW old \in [1 .. 1 -> SenderRecord],
         NEW attempts \in Nat, NEW next \in Nat \ {0},
         NEW new,
         new = [old EXCEPT ![1].retry_count = attempts, ![1].next_chunk = next]
  PROVE  /\ new \in [1 .. 1 -> SenderRecord]
         /\ new[1].snapshot = old[1].snapshot
         /\ new[1].accepted_chunks = old[1].accepted_chunks
BY DEF SenderRecord

\* A refusal or a timeout takes an attempt.
LEMMA RetryKeeps ==
  ASSUME LifecycleInv, sender # << >>, NEW next \in Nat \ {0}, Retry(next),
         \/ responses' = responses
         \/ \E r \in responses : responses' = responses \ {r},
         UNCHANGED <<installVars, requests, countVars>>
  PROVE  LifecycleInv'
<1>1. sender \in [1 .. 1 -> SenderRecord] /\ sender[1].retry_count + 1 \in Nat
  BY DEF LifecycleInv, SenderRecord
<1>2. PICK attempts \in Nat :
        /\ \/ sender' = << >>
           \/ sender' = [sender EXCEPT ![1].retry_count = attempts,
                                       ![1].next_chunk  = next]
        /\ UNCHANGED <<snapshot_id, sent>>
  BY <1>1 DEF Retry
<1>3. \/ sender' = << >>
      \/ /\ sender' \in [1 .. 1 -> SenderRecord]
         /\ sender'[1].snapshot = sender[1].snapshot
         /\ sender'[1].accepted_chunks = sender[1].accepted_chunks
  BY <1>1, <1>2, RetryRecord
<1>4. /\ IsFiniteSet(responses')
      /\ Cardinality(Acknowledgements(responses)) \in Nat
      /\ Cardinality(Acknowledgements(responses')) \in Nat
      /\ Cardinality(Acknowledgements(responses'))
           <= Cardinality(Acknowledgements(responses))
  BY AnswersShrink
<1>5. UNCHANGED <<installVars, snapshot_id, undisturbed>> /\ requests' = requests
      /\ requests' \subseteq AnyChunk
  BY <1>2 DEF countVars, LifecycleInv
<1>6. ASSUME undisturbed, UndisturbedInv, ~ Delivered
      PROVE  /\ ~ sent'
             /\ sender' # << >> =>
                  sender'[1].accepted_chunks
                    + Cardinality(Acknowledgements(responses')) <= Received
  <2>1. /\ ~ sent
        /\ sender[1].accepted_chunks + Cardinality(Acknowledgements(responses))
             <= Received
    BY <1>6 DEF UndisturbedInv
  <2>2. Received \in Nat /\ sender[1].accepted_chunks \in Nat
    BY <1>1, ReceivedNat DEF SenderRecord
  <2> QED
    BY <1>2, <1>3, <1>4, <2>1, <2>2
<1> QED
  BY <1>3, <1>4, <1>5, <1>6, WithinSend

\* Messages that are lost, and answers nobody waits for.
LEMMA LossKeeps ==
  ASSUME LifecycleInv, UNCHANGED <<senderVars, installVars, countVars>>,
         requests' \subseteq requests,
         \/ responses' = responses
         \/ \E r \in responses : responses' = responses \ {r}
  PROVE  LifecycleInv'
<1>1. /\ IsFiniteSet(responses')
      /\ Cardinality(Acknowledgements(responses)) \in Nat
      /\ Cardinality(Acknowledgements(responses')) \in Nat
      /\ Cardinality(Acknowledgements(responses'))
           <= Cardinality(Acknowledgements(responses))
  BY AnswersShrink
<1>2. /\ UNCHANGED <<installVars, snapshot_id, undisturbed>>
      /\ sender' = sender /\ sent' = sent /\ requests' \subseteq AnyChunk
      /\ requests' \ requests = {}
  BY DEF senderVars, countVars, LifecycleInv
<1>3. sender # << >> => sender \in [1 .. 1 -> SenderRecord]
                        /\ sender[1].accepted_chunks \in Nat
  BY DEF LifecycleInv, SenderRecord
<1>4. ASSUME undisturbed, UndisturbedInv, ~ Delivered
      PROVE  /\ ~ sent'
             /\ sender' # << >> =>
                  sender'[1].accepted_chunks
                    + Cardinality(Acknowledgements(responses')) <= Received
  <2>1. /\ ~ sent
        /\ sender # << >> =>
             sender[1].accepted_chunks + Cardinality(Acknowledgements(responses))
               <= Received
    BY <1>4 DEF UndisturbedInv
  <2>2. Received \in Nat
    BY ReceivedNat
  <2> QED
    BY <1>1, <1>2, <1>3, <2>1, <2>2
<1> QED
  BY <1>1, <1>2, <1>3, <1>4, WithinSend

\* A refusal sends the sender back to the offset it names.
LEMMA RefusedKeeps ==
  ASSUME LifecycleInv, NEW r \in responses, Refused(r)
  PROVE  LifecycleInv'
<1> DEFINE chunks == Chunks(sender[1].snapshot)
           from   == {k \in DOMAIN chunks : chunks[k].offset >= r.next_offset}
           next   == IF from = {} THEN Len(chunks) + 1 ELSE Min(from)
<1>1. /\ sender # << >> /\ Retry(next) /\ responses' = responses \ {r}
      /\ UNCHANGED <<installVars, requests, countVars>>
  BY DEF Refused
<1>2. next \in Nat \ {0}
  <2>1. sender[1].snapshot \in Snapshot
    BY <1>1 DEF LifecycleInv, SenderRecord
  <2>2. /\ ChunkCount(sender[1].snapshot) \in Nat
        /\ DOMAIN chunks = 1 .. ChunkCount(sender[1].snapshot)
        /\ Len(chunks) = ChunkCount(sender[1].snapshot)
    BY <2>1, ChunkCountFits DEF Chunks
  <2> HIDE DEF chunks
  <2>3. from \in SUBSET Nat /\ 0 \notin from
    BY <2>2
  <2> HIDE DEF from
  <2>4. CASE from # {}
    <3>1. Min(from) \in from
      BY <2>3, <2>4, MinNat
    <3> QED
      BY <2>3, <2>4, <3>1
  <2>5. CASE from = {}
    <3>1. next = Len(chunks) + 1
      BY <2>5
    <3> HIDE DEF next
    <3> QED
      BY <2>2, <3>1
  <2> QED
    BY <2>4, <2>5
<1> HIDE DEF next
<1> QED
  BY <1>1, <1>2, RetryKeeps

\* Every step of sender, network and installer keeps the invariant.
LEMMA LifecycleNextInv ==
  LifecycleInv /\ [LifecycleNext]_lifecycleVars => LifecycleInv'
<1> SUFFICES ASSUME LifecycleInv, [LifecycleNext]_lifecycleVars PROVE LifecycleInv'
  OBVIOUS
<1>1. CASE \E s \in Snapshot : BeginSend(s)
  BY <1>1, BeginSendKeeps
<1>2. CASE Poll
  BY <1>2, PollKeeps
<1>3. CASE \E chunk \in requests :
             Receive(chunk) \/ Install(chunk) \/ Refuse(chunk) \/ LoseRequest(chunk)
  <2>1. PICK chunk \in requests :
          Receive(chunk) \/ Install(chunk) \/ Refuse(chunk) \/ LoseRequest(chunk)
    BY <1>3
  <2>2. CASE Receive(chunk) \/ Install(chunk) \/ Refuse(chunk)
    BY <2>2, ReceiveKeeps, InstallKeeps, RefuseKeeps
  <2>3. CASE LoseRequest(chunk)
    BY <2>3, LossKeeps DEF LoseRequest
  <2> QED
    BY <2>1, <2>2, <2>3
<1>4. CASE RollbackInstall
  <2>1. /\ installer' = << >> /\ deliveries' = deliveries /\ undisturbed' = FALSE
        /\ sender' = sender /\ snapshot_id' = snapshot_id
        /\ requests' = requests /\ responses' = responses
    BY <1>4 DEF RollbackInstall, senderVars
  <2>2. InstalledWhole'
    BY <2>1 DEF LifecycleInv, InstalledWhole
  <2> QED
    BY <2>1, <2>2 DEF LifecycleInv
<1>5. CASE \E r \in responses :
             Accepted(r) \/ Ignored(r) \/ Refused(r) \/ LoseResponse(r)
  <2>1. PICK r \in responses :
          Accepted(r) \/ Ignored(r) \/ Refused(r) \/ LoseResponse(r)
    BY <1>5
  <2>2. CASE Accepted(r) \/ Refused(r)
    BY <2>2, AcceptedKeeps, RefusedKeeps
  <2>3. CASE Ignored(r) \/ LoseResponse(r)
    BY <2>3, LossKeeps DEF Ignored, LoseResponse
  <2> QED
    BY <2>1, <2>2, <2>3
<1>6. CASE Timeout
  <2>1. sender # << >> /\ sender[1].next_chunk \in Nat \ {0}
    BY <1>6 DEF Timeout, LifecycleInv, SenderRecord
  <2> QED
    BY <1>6, <2>1, RetryKeeps DEF Timeout
<1>7. CASE UNCHANGED lifecycleVars
  <2>1. UNCHANGED <<senderVars, installVars, requests, responses, countVars>>
    BY <1>7 DEF lifecycleVars
  <2> QED
    BY <2>1, LossKeeps
<1> QED
  BY <1>1, <1>2, <1>3, <1>4, <1>5, <1>6, <1>7 DEF LifecycleNext

\* The invariant of sending snapshots, for any snapshots, chunk sizes and limits.
THEOREM LifecycleSafety == LifecycleSpec => []LifecycleInv
<1>1. LifecycleInit => LifecycleInv
  <2> SUFFICES ASSUME LifecycleInit PROVE LifecycleInv
    OBVIOUS
  <2>1. /\ sender = << >> /\ installer = << >> /\ sent = FALSE
        /\ requests = {} /\ responses = {} /\ deliveries = << >>
    BY DEF LifecycleInit
  <2>2. IsFiniteSet(responses)
    BY <2>1, FS_EmptySet
  <2>3. InstalledWhole /\ deliveries \in Seq(Seq(AnyChunk))
    BY <2>1 DEF InstalledWhole
  <2>4. UndisturbedInv
    BY <2>1 DEF UndisturbedInv
  <2> QED
    BY <2>1, <2>2, <2>3, <2>4 DEF LifecycleInv
<1> QED
  BY <1>1, LifecycleNextInv, PTL DEF LifecycleSpec

\* A snapshot handed on is whole, whatever the transport loses, repeats, reorders
\* or mixes with the chunks of another snapshot.
THEOREM SnapshotsWhole == LifecycleSpec => []InstalledWhole
<1>1. LifecycleInv => InstalledWhole
  BY DEF LifecycleInv
<1> QED
  BY <1>1, LifecycleSafety, PTL

\* A send completed was installed, unless the follower rolled back or messages of
\* an earlier send were under way.
THEOREM SendsInstalled == LifecycleSpec => []CompletedMeansInstalled
<1>1. LifecycleInv => CompletedMeansInstalled
  BY DEF LifecycleInv, UndisturbedInv, Delivered, CompletedMeansInstalled, Last
<1> QED
  BY <1>1, LifecycleSafety, PTL

================================================================================
