----------------------- MODULE ReplicationPipelineProofs -----------------------
(***************************************************************************)
(* Safety of the replication pipeline, for every limit, payload and index. *)
(*                                                                         *)
(* The counters of the window are compared with sums over the batches in   *)
(* flight, so the module starts with what the proofs need to know about    *)
(* the sums of the community modules.                                      *)
(***************************************************************************)
EXTENDS ReplicationPipeline, RaftNodeProofs

(***************************************************************************)
(* Finite sums.                                                            *)
(***************************************************************************)

\* g obeys the recursion of SumFunctionOnSet on every subset of S.
SumRule(g, f, S) ==
  g = [s \in SUBSET S |->
         IF s = {} THEN 0
         ELSE f[CHOOSE x \in s : TRUE] + g[s \ {CHOOSE x \in s : TRUE}]]

\* The recursion has a solution on the subsets of a finite set.
LEMMA SumExists ==
  ASSUME NEW S, IsFiniteSet(S), NEW f
  PROVE  \E g : SumRule(g, f, S)
<1> DEFINE upto(n) == {s \in SUBSET S : Cardinality(s) <= n}
           pick(s) == CHOOSE x \in s : TRUE
           N == {n \in Nat : \E g : g = [s \in upto(n) |->
                   IF s = {} THEN 0 ELSE f[pick(s)] + g[s \ {pick(s)}]]}
<1>0. /\ \A s \in SUBSET S : IsFiniteSet(s) /\ Cardinality(s) \in Nat
                              /\ (Cardinality(s) = 0 <=> s = {})
      /\ \A s \in SUBSET S : s # {} =>
           /\ pick(s) \in s /\ s \ {pick(s)} \in SUBSET S
           /\ Cardinality(s \ {pick(s)}) = Cardinality(s) - 1
  <2>1. \A s \in SUBSET S : IsFiniteSet(s) /\ Cardinality(s) \in Nat
                              /\ (Cardinality(s) = 0 <=> s = {})
    BY FS_Subset, FS_CardinalityType, FS_EmptySet
  <2>2. \A s \in SUBSET S : s # {} => pick(s) \in s /\ s \ {pick(s)} \in SUBSET S
    OBVIOUS
  <2> HIDE DEF pick
  <2> QED
    BY <2>1, <2>2, FS_RemoveElement
<1> HIDE DEF pick
<1>1. 0 \in N
  <2> DEFINE g == [s \in upto(0) |-> 0]
  <2>1. \A s \in upto(0) : s = {}
    BY <1>0
  <2>2. g = [s \in upto(0) |-> IF s = {} THEN 0 ELSE f[pick(s)] + g[s \ {pick(s)}]]
    BY <2>1
  <2> HIDE DEF g
  <2> QED
    BY <2>2
<1>2. ASSUME NEW n \in N PROVE n + 1 \in N
  <2>1. PICK g : g = [s \in upto(n) |->
                        IF s = {} THEN 0 ELSE f[pick(s)] + g[s \ {pick(s)}]]
    OBVIOUS
  <2> DEFINE h == [s \in upto(n + 1) |->
                     IF s = {} THEN 0 ELSE f[pick(s)] + g[s \ {pick(s)}]]
  <2>2. n \in Nat /\ \A s \in upto(n) : s \in upto(n + 1)
    BY <1>0
  <2>3. \A s \in upto(n) : h[s] = g[s]
    BY <2>1, <2>2
  <2>4. \A s \in upto(n + 1) : s # {} => s \ {pick(s)} \in upto(n)
    BY <1>0, <2>2
  <2>5. h = [s \in upto(n + 1) |->
               IF s = {} THEN 0 ELSE f[pick(s)] + h[s \ {pick(s)}]]
    <3> HIDE DEF upto
    <3> QED
    BY <2>3, <2>4
  <2> HIDE DEF h, upto
  <2> QED
    BY <2>2, <2>5
<1>3. \A n \in Nat : n \in N
  <2> HIDE DEF N
  <2>1. N \in SUBSET Nat
    BY DEF N
  <2> QED
    BY <1>1, <1>2, <2>1, NatSet
<1>4. upto(Cardinality(S)) = SUBSET S
  BY <1>0, FS_Subset
<1>5. Cardinality(S) \in N
  BY <1>0, <1>3
<1>6. PICK g : g = [s \in upto(Cardinality(S)) |->
                      IF s = {} THEN 0 ELSE f[pick(s)] + g[s \ {pick(s)}]]
  <2> HIDE DEF upto
  <2> QED
    BY <1>5
<1>7. g = [s \in SUBSET S |-> IF s = {} THEN 0 ELSE f[pick(s)] + g[s \ {pick(s)}]]
  <2> HIDE DEF upto
  <2> QED
    BY <1>4, <1>6
<1> HIDE DEF upto, N
<1> QED
  BY <1>7 DEF pick, SumRule

\* SumFunctionOnSet is the value of such a solution.
LEMMA SumUnfold ==
  ASSUME NEW S, IsFiniteSet(S), NEW f
  PROVE  \E g : SumRule(g, f, S) /\ SumFunctionOnSet(f, S) = g[S]
<1> DEFINE it == CHOOSE g : SumRule(g, f, S)
<1>1. SumFunctionOnSet(f, S) = it[S]
  BY DEF SumFunctionOnSet, FoldFunctionOnSet, MapThenFoldSet, SumRule
<1>2. SumRule(it, f, S)
  BY SumExists
<1> HIDE DEF it
<1> QED
  BY <1>1, <1>2

\* Induction over the subsets of a finite set: a collection G that holds a
\* subset whenever it holds it less any one element holds them all.
LEMMA SubsetInduction ==
  ASSUME NEW S, IsFiniteSet(S), NEW G,
         \A s \in SUBSET S : (\A x \in s : s \ {x} \in G) => s \in G
  PROVE  \A s \in SUBSET S : s \in G
<1> DEFINE N == {n \in Nat : \A s \in SUBSET S : Cardinality(s) <= n => s \in G}
<1>1. \A s \in SUBSET S : IsFiniteSet(s) /\ Cardinality(s) \in Nat
                            /\ (Cardinality(s) = 0 <=> s = {})
  BY FS_Subset, FS_CardinalityType, FS_EmptySet
<1>2. 0 \in N
  <2>1. ASSUME NEW s \in SUBSET S, Cardinality(s) <= 0 PROVE s = {}
    BY <1>1, <2>1
  <2>2. {} \in G
    OBVIOUS
  <2> QED
    BY <2>1, <2>2
<1>3. ASSUME NEW n \in N PROVE n + 1 \in N
  <2> SUFFICES ASSUME NEW s \in SUBSET S, Cardinality(s) <= n + 1 PROVE s \in G
    OBVIOUS
  <2>1. ASSUME NEW x \in s PROVE s \ {x} \in G
    <3>1. s \ {x} \in SUBSET S /\ Cardinality(s \ {x}) = Cardinality(s) - 1
      BY <1>1, FS_RemoveElement
    <3>2. Cardinality(s \ {x}) <= n
      BY <1>1, <3>1
    <3> QED
      BY <3>1, <3>2
  <2> QED
    BY <2>1
<1>4. \A n \in Nat : n \in N
  <2>1. N \in SUBSET Nat
    OBVIOUS
  <2> HIDE DEF N
  <2> QED
    BY <1>2, <1>3, <2>1, NatSet
<1> SUFFICES ASSUME NEW s \in SUBSET S PROVE s \in G
  OBVIOUS
<1>5. Cardinality(s) \in Nat
  BY <1>1
<1> QED
  BY <1>4, <1>5

\* Two solutions agree wherever both are defined.
LEMMA SumUnique ==
  ASSUME NEW S, IsFiniteSet(S), NEW T \in SUBSET S, NEW f, NEW g, NEW h,
         SumRule(g, f, S), SumRule(h, f, T)
  PROVE  \A s \in SUBSET T : h[s] = g[s]
<1> DEFINE G == {s \in SUBSET T : h[s] = g[s]}
<1>1. IsFiniteSet(T)
  BY FS_Subset
<1>2. ASSUME NEW s \in SUBSET T, \A x \in s : s \ {x} \in G PROVE s \in G
  <2>1. CASE s = {}
    BY <2>1 DEF SumRule
  <2>2. CASE s # {}
    <3> DEFINE x == CHOOSE y \in s : TRUE
    <3>1. x \in s
      BY <2>2
    <3>2. h[s] = f[x] + h[s \ {x}] /\ g[s] = f[x] + g[s \ {x}]
      BY <2>2 DEF SumRule
    <3> HIDE DEF x
    <3> QED
      BY <1>2, <3>1, <3>2
  <2> QED
    BY <2>1, <2>2
<1> HIDE DEF G
<1>3. \A s \in SUBSET T : s \in G
  BY <1>1, <1>2, SubsetInduction
<1> QED
  BY <1>3 DEF G

\* The sums of f over the subsets of S are naturals, and any element can be
\* taken out of them.
Additive(f, S) ==
  /\ SumFunctionOnSet(f, {}) = 0
  /\ \A s \in SUBSET S :
       /\ SumFunctionOnSet(f, s) \in Nat
       /\ \A x \in s : SumFunctionOnSet(f, s)
                         = f[x] + SumFunctionOnSet(f, s \ {x})

\* Sums of naturals are additive, whatever order the recursion takes.
LEMMA SumRemoves ==
  ASSUME NEW S, IsFiniteSet(S), NEW f, \A x \in S : f[x] \in Nat
  PROVE  Additive(f, S)
<1>1. PICK g : SumRule(g, f, S)
  BY SumExists
<1>2. \A s \in SUBSET S : SumFunctionOnSet(f, s) = g[s]
  <2> SUFFICES ASSUME NEW s \in SUBSET S PROVE SumFunctionOnSet(f, s) = g[s]
    OBVIOUS
  <2>1. IsFiniteSet(s)
    BY FS_Subset
  <2>2. PICK h : SumRule(h, f, s) /\ SumFunctionOnSet(f, s) = h[s]
    BY <2>1, SumUnfold
  <2> QED
    BY <1>1, <2>2, SumUnique
<1> DEFINE pick(s) == CHOOSE x \in s : TRUE
<1>3. /\ g[{}] = 0
      /\ \A s \in SUBSET S : s # {} => /\ pick(s) \in s
                                       /\ g[s] = f[pick(s)] + g[s \ {pick(s)}]
  BY <1>1 DEF SumRule
<1> HIDE DEF pick
<1>4. \A s \in SUBSET S : g[s] \in Nat
  <2> DEFINE G == {s \in SUBSET S : g[s] \in Nat}
  <2>1. ASSUME NEW s \in SUBSET S, \A x \in s : s \ {x} \in G PROVE s \in G
    <3>1. CASE s = {}
      BY <1>3, <3>1
    <3>2. CASE s # {}
      <4>1. pick(s) \in s /\ g[s] = f[pick(s)] + g[s \ {pick(s)}]
        BY <1>3, <3>2
      <4>2. f[pick(s)] \in Nat /\ g[s \ {pick(s)}] \in Nat
        BY <2>1, <4>1
      <4> QED
        BY <4>1, <4>2
    <3> QED
      BY <3>1, <3>2
  <2> HIDE DEF G
  <2>2. \A s \in SUBSET S : s \in G
    BY <2>1, SubsetInduction
  <2> QED
    BY <2>2 DEF G
<1> DEFINE G == {s \in SUBSET S : \A x \in s : g[s] = f[x] + g[s \ {x}]}
<1>5. ASSUME NEW s \in SUBSET S, \A x \in s : s \ {x} \in G PROVE s \in G
  <2> SUFFICES ASSUME NEW x \in s PROVE g[s] = f[x] + g[s \ {x}]
    OBVIOUS
  <2> DEFINE p == pick(s)
  <2>1. p \in s /\ g[s] = f[p] + g[s \ {p}]
    BY <1>3
  <2> HIDE DEF p
  <2>2. CASE x # p
    <3> DEFINE rest == g[(s \ {p}) \ {x}]
    <3>1. g[s \ {p}] = f[x] + rest
      BY <1>5, <2>1, <2>2
    <3>2. g[s \ {x}] = f[p] + rest
      <4>1. g[s \ {x}] = f[p] + g[(s \ {x}) \ {p}]
        BY <1>5, <2>1, <2>2
      <4>2. (s \ {p}) \ {x} = (s \ {x}) \ {p}
        OBVIOUS
      <4> QED
        BY <4>1, <4>2
    <3>3. f[x] \in Nat /\ f[p] \in Nat
      BY <2>1
    <3>4. rest \in Nat
      BY <1>4
    <3> HIDE DEF rest
    <3>5. f[p] + (f[x] + rest) = f[x] + (f[p] + rest)
      BY <3>3, <3>4
    <3> QED
      BY <2>1, <3>1, <3>2, <3>5
  <2> QED
    BY <2>1, <2>2
<1> HIDE DEF G
<1>6. \A s \in SUBSET S : s \in G
  BY <1>5, SubsetInduction
<1> QED
  BY <1>2, <1>3, <1>4, <1>6 DEF G, Additive

\* Sums of functions that agree are equal.
LEMMA SumSame ==
  ASSUME NEW S, IsFiniteSet(S), NEW f, NEW h,
         \A x \in S : f[x] \in Nat /\ h[x] = f[x]
  PROVE  SumFunctionOnSet(h, S) = SumFunctionOnSet(f, S)
<1> DEFINE F(s) == SumFunctionOnSet(f, s)
           H(s) == SumFunctionOnSet(h, s)
<1>1. F({}) = 0 /\ \A s \in SUBSET S : \A x \in s : F(s) = f[x] + F(s \ {x})
  <2>1. \A x \in S : f[x] \in Nat
    OBVIOUS
  <2>2. Additive(f, S)
    BY <2>1, SumRemoves
  <2> QED
    BY <2>2 DEF Additive
<1>2. H({}) = 0 /\ \A s \in SUBSET S : \A x \in s : H(s) = h[x] + H(s \ {x})
  <2>1. \A x \in S : h[x] \in Nat
    OBVIOUS
  <2>2. Additive(h, S)
    BY <2>1, SumRemoves
  <2> QED
    BY <2>2 DEF Additive
<1> DEFINE G == {s \in SUBSET S : H(s) = F(s)}
<1> HIDE DEF F, H
<1>3. ASSUME NEW s \in SUBSET S, \A x \in s : s \ {x} \in G PROVE s \in G
  <2>1. CASE s = {}
    BY <1>1, <1>2, <2>1
  <2>2. CASE s # {}
    <3>1. PICK x \in s : TRUE
      BY <2>2
    <3>2. H(s \ {x}) = F(s \ {x}) /\ h[x] = f[x]
      BY <1>3
    <3>3. F(s) = f[x] + F(s \ {x}) /\ H(s) = h[x] + H(s \ {x})
      BY <1>1, <1>2
    <3> QED
      BY <3>2, <3>3
  <2> QED
    BY <2>1, <2>2
<1> HIDE DEF G
<1>4. \A s \in SUBSET S : s \in G
  BY <1>3, SubsetInduction
<1>5. S \in G
  BY <1>4
<1> QED
  BY <1>5 DEF G, F, H

--------------------------------------------------------------------------------
(***************************************************************************)
(* Sums over the positions of a sequence.                                  *)
(***************************************************************************)

\* A sum of naturals is a natural.
LEMMA SumNat ==
  ASSUME NEW n \in Nat, NEW f, \A k \in 1 .. n : f[k] \in Nat
  PROVE  SumFunctionOnSet(f, 1 .. n) \in Nat
<1>1. IsFiniteSet(1 .. n)
  BY FS_Interval
<1>2. Additive(f, 1 .. n)
  BY <1>1, SumRemoves
<1> QED
  BY <1>2 DEF Additive

\* One more term at the end.
LEMMA SumLast ==
  ASSUME NEW n \in Nat, NEW f, \A k \in 1 .. n + 1 : f[k] \in Nat
  PROVE  /\ SumFunctionOnSet(f, 1 .. n) \in Nat
         /\ SumFunctionOnSet(f, 1 .. n + 1)
              = SumFunctionOnSet(f, 1 .. n) + f[n + 1]
<1>1. IsFiniteSet(1 .. n + 1)
  BY FS_Interval
<1>2. /\ 1 .. n \in SUBSET (1 .. n + 1)
      /\ n + 1 \in 1 .. n + 1
      /\ (1 .. n + 1) \ {n + 1} = 1 .. n
  OBVIOUS
<1> DEFINE F(s) == SumFunctionOnSet(f, s)
<1>3. \A s \in SUBSET (1 .. n + 1) :
        F(s) \in Nat /\ \A x \in s : F(s) = f[x] + F(s \ {x})
  <2>1. Additive(f, 1 .. n + 1)
    BY <1>1, SumRemoves
  <2> QED
    BY <2>1 DEF Additive
<1> HIDE DEF F
<1>4. F(1 .. n) \in Nat /\ F(1 .. n + 1) = f[n + 1] + F(1 .. n)
  BY <1>2, <1>3
<1>5. F(1 .. n + 1) = F(1 .. n) + f[n + 1]
  BY <1>4
<1> QED
  BY <1>4, <1>5 DEF F

\* The empty sum.
LEMMA SumNone ==
  ASSUME NEW f
  PROVE  SumFunctionOnSet(f, 1 .. 0) = 0
<1>1. IsFiniteSet({}) /\ 1 .. 0 = {}
  BY FS_EmptySet
<1>2. Additive(f, {})
  BY <1>1, SumRemoves
<1> QED
  BY <1>1, <1>2 DEF Additive

\* A sum splits at any position.
LEMMA SumSplit ==
  ASSUME NEW n \in Nat, NEW m \in Nat, NEW f, NEW h,
         \A k \in 1 .. n + m : f[k] \in Nat,
         \A k \in 1 .. m : h[k] = f[n + k]
  PROVE  SumFunctionOnSet(f, 1 .. n + m)
           = SumFunctionOnSet(f, 1 .. n) + SumFunctionOnSet(h, 1 .. m)
<1> DEFINE F(k) == SumFunctionOnSet(f, 1 .. k)
           H(k) == SumFunctionOnSet(h, 1 .. k)
           G == {k \in Nat : k <= m => H(k) \in Nat /\ F(n + k) = F(n) + H(k)}
<1>1. H(0) = 0
  BY SumNone
<1>2. \A k \in Nat : k <= n + m => F(k) \in Nat
  <2> SUFFICES ASSUME NEW k \in Nat, k <= n + m PROVE F(k) \in Nat
    OBVIOUS
  <2>1. \A j \in 1 .. k : f[j] \in Nat
    OBVIOUS
  <2> QED
    BY <2>1, SumNat
<1>3. ASSUME NEW k \in Nat, k < n + m PROVE F(k + 1) = F(k) + f[k + 1]
  <2>1. \A j \in 1 .. k + 1 : f[j] \in Nat
    BY <1>3
  <2> QED
    BY <2>1, SumLast
<1>4. ASSUME NEW k \in Nat, k < m PROVE H(k + 1) = H(k) + h[k + 1]
  <2>1. \A j \in 1 .. k + 1 : h[j] \in Nat
    BY <1>4
  <2> QED
    BY <2>1, SumLast
<1> HIDE DEF F, H
<1>5. 0 \in G
  BY <1>1, <1>2
<1>6. ASSUME NEW k \in G PROVE k + 1 \in G
  <2> SUFFICES ASSUME k + 1 <= m
               PROVE  H(k + 1) \in Nat /\ F(n + (k + 1)) = F(n) + H(k + 1)
    OBVIOUS
  <2>1. H(k) \in Nat /\ F(n + k) = F(n) + H(k) /\ F(n) \in Nat
    BY <1>2
  <2>2. n + k \in Nat /\ n + k < n + m /\ (n + k) + 1 = n + (k + 1)
    OBVIOUS
  <2>3. F(n + (k + 1)) = F(n + k) + f[n + (k + 1)]
    BY <1>3, <2>2
  <2>4. H(k + 1) = H(k) + h[k + 1]
    BY <1>4
  <2>5. h[k + 1] = f[n + (k + 1)] /\ f[n + (k + 1)] \in Nat
    OBVIOUS
  <2> QED
    BY <2>1, <2>3, <2>4, <2>5
<1>7. G \in SUBSET Nat
  OBVIOUS
<1> HIDE DEF G
<1>8. m \in G
  BY <1>5, <1>6, <1>7, NatSet
<1> QED
  BY <1>8 DEF G, F, H

\* A function extended by one term.
LEMMA SumExtended ==
  ASSUME NEW n \in Nat, NEW f, NEW h,
         \A k \in 1 .. n : f[k] \in Nat /\ h[k] = f[k],
         h[n + 1] \in Nat
  PROVE  SumFunctionOnSet(h, 1 .. n + 1)
           = SumFunctionOnSet(f, 1 .. n) + h[n + 1]
<1>1. SumFunctionOnSet(h, 1 .. n) = SumFunctionOnSet(f, 1 .. n)
  <2>1. IsFiniteSet(1 .. n)
    BY FS_Interval
  <2> QED
    BY <2>1, SumSame
<1>2. \A k \in 1 .. n + 1 : h[k] \in Nat
  OBVIOUS
<1> QED
  BY <1>1, <1>2, SumLast

--------------------------------------------------------------------------------
(***************************************************************************)
(* The inductive invariant.                                                *)
(***************************************************************************)
QueueEntry == [index : Nat, payload : Payload]
Batch == [first_index : Nat, last_index : Nat, entry_count : Nat, bytes : Nat]
Transfer ==
  [snapshot_index : Nat, total_chunks : Nat, acknowledged_chunks : Nat]

Lengths(q) == [k \in DOMAIN q |-> EntryBytes(q[k])]
Counts(w) == [k \in DOMAIN w |-> w[k].entry_count]
Sizes(w)  == [k \in DOMAIN w |-> w[k].bytes]

PipeType(p) ==
  /\ DOMAIN p = DOMAIN NewPipeline(1)
  /\ p.append_queue \in Seq(QueueEntry)
  /\ p.inflight \in Seq(Batch)
  /\ p.snapshot_transfer \in Transfer \cup {None}
  /\ p.snapshot_sending \in BOOLEAN /\ p.snapshot_installing \in BOOLEAN

Accounted(p) ==
  /\ p.inflight_entries = SumFunctionOnSet(Counts(p.inflight), 1 .. Len(p.inflight))
  /\ p.inflight_bytes   = SumFunctionOnSet(Sizes(p.inflight), 1 .. Len(p.inflight))

\* LimitsKept, with the bound on the queue that bounds a batch.
Limited(p) ==
  LET w == p.inflight
  IN  /\ Len(p.append_queue) <= MaxInflightsReplicate
      /\ p.inflight_bytes + QueuedBytes(p) <= MaxMemoryReplicateLogBytes
      /\ w # << >> =>
           /\ p.inflight_entries - w[Len(w)].entry_count < MaxInflightsReplicate
           /\ w[Len(w)].entry_count <= MaxInflightsReplicate

\* WindowOrdered, with every index at most the last one offered.
InOrder(w, q, last) ==
  /\ \A k \in DOMAIN w : w[k].first_index <= w[k].last_index
  /\ \A j, k \in DOMAIN w : j < k => w[j].last_index < w[k].first_index
  /\ \A j \in DOMAIN w, k \in DOMAIN q : w[j].last_index < q[k].index
  /\ \A j, k \in DOMAIN q : j < k => q[j].index < q[k].index
  /\ \A k \in DOMAIN w : w[k].last_index <= last
  /\ \A k \in DOMAIN q : q[k].index <= last

Delivers(w, q, i) ==
  \/ \E k \in DOMAIN w : w[k].first_index <= i /\ i <= w[k].last_index
  \/ \E k \in DOMAIN q : q[k].index = i

NoneLost(p, accepted, last) ==
  \A i \in accepted : i <= last \/ Delivers(p.inflight, p.append_queue, i)

FlagsAgree(p) ==
  /\ TransferActive(p) <=> (p.snapshot_sending \/ p.snapshot_installing)
  /\ ~ (p.snapshot_sending /\ p.snapshot_installing)

PipeInv(p) ==
  /\ PipeType(p)
  /\ Accounted(p)
  /\ Limited(p)
  /\ InOrder(p.inflight, p.append_queue, offered)
  /\ NoneLost(p, queued, acked)
  /\ FlagsAgree(p)

PipelineInv ==
  /\ offered \in Nat
  /\ acked \in Nat
  /\ queued \in SUBSET Nat
  /\ PipeInv(pipe)

--------------------------------------------------------------------------------
(***************************************************************************)
(* The sums over queues and windows that grow at the end and shrink at the *)
(* front.                                                                  *)
(***************************************************************************)

\* What appending does to a sequence, position by position.
LEMMA Appended ==
  ASSUME NEW S, NEW q \in Seq(S), NEW e \in S
  PROVE  /\ Append(q, e) \in Seq(S)
         /\ Len(q) \in Nat /\ DOMAIN q = 1 .. Len(q)
         /\ Len(Append(q, e)) = Len(q) + 1
         /\ DOMAIN Append(q, e) = 1 .. Len(q) + 1
         /\ \A k \in 1 .. Len(q) : q[k] \in S /\ Append(q, e)[k] = q[k]
         /\ Append(q, e)[Len(q) + 1] = e
  OBVIOUS

\* What dropping a prefix does.
LEMMA Dropped ==
  ASSUME NEW S, NEW q \in Seq(S), NEW n \in 0 .. Len(q)
  PROVE  LET r == SubSeq(q, n + 1, Len(q))
         IN  /\ r \in Seq(S)
             /\ Len(q) \in Nat /\ DOMAIN q = 1 .. Len(q)
             /\ Len(r) = Len(q) - n /\ DOMAIN r = 1 .. Len(q) - n
             /\ \A k \in 1 .. Len(q) - n : r[k] = q[n + k]
             /\ \A k \in 1 .. Len(q) : q[k] \in S
  OBVIOUS

\* The bytes of a queue that an entry joins, and of one a prefix leaves.
LEMMA QueueBytes ==
  ASSUME PipelineAssumption, NEW q \in Seq(QueueEntry)
  PROVE  /\ \A n \in 0 .. Len(q) :
              /\ PrefixBytes(q, n) \in Nat
              /\ PrefixBytes(q, Len(q))
                   = PrefixBytes(q, n)
                     + PrefixBytes(SubSeq(q, n + 1, Len(q)), Len(q) - n)
         /\ \A e \in QueueEntry :
              PrefixBytes(Append(q, e), Len(q) + 1)
                = PrefixBytes(q, Len(q)) + EntryBytes(e)
<1>1. \A e \in QueueEntry : EntryBytes(e) \in Nat
  BY DEF PipelineAssumption, QueueEntry, EntryBytes
<1>2. Len(q) \in Nat /\ DOMAIN q = 1 .. Len(q) /\ \A k \in 1 .. Len(q) : q[k] \in QueueEntry
  OBVIOUS
<1>3. \A k \in 1 .. Len(q) : Lengths(q)[k] \in Nat
  BY <1>1, <1>2 DEF Lengths
<1>4. ASSUME NEW n \in 0 .. Len(q)
      PROVE  /\ PrefixBytes(q, n) \in Nat
             /\ PrefixBytes(q, Len(q))
                   = PrefixBytes(q, n)
                     + PrefixBytes(SubSeq(q, n + 1, Len(q)), Len(q) - n)
  <2> DEFINE r == SubSeq(q, n + 1, Len(q))
             m == Len(q) - n
  <2>1. /\ DOMAIN r = 1 .. m
        /\ \A k \in 1 .. m : r[k] = q[n + k]
    BY Dropped
  <2> HIDE DEF r
  <2>2. n \in Nat /\ m \in Nat
    BY <1>2
  <2>3. n \in Nat /\ m \in Nat /\ n + m = Len(q)
    BY <1>2
  <2>4. \A k \in 1 .. m : Lengths(r)[k] = Lengths(q)[n + k]
    BY <1>2, <2>1, <2>3 DEF Lengths
  <2>5. \A k \in 1 .. n + m : Lengths(q)[k] \in Nat
    BY <1>3, <2>3
  <2>6. \A k \in 1 .. n : Lengths(q)[k] \in Nat
    BY <2>3, <2>5
  <2> HIDE DEF m
  <2>7. SumFunctionOnSet(Lengths(q), 1 .. n + m)
          = SumFunctionOnSet(Lengths(q), 1 .. n) + SumFunctionOnSet(Lengths(r), 1 .. m)
    BY <2>2, <2>4, <2>5, SumSplit
  <2>8. SumFunctionOnSet(Lengths(q), 1 .. n) \in Nat
    BY <2>3, <2>6, SumNat
  <2> QED
    BY <2>3, <2>7, <2>8 DEF PrefixBytes, Lengths, r, m
<1>5. ASSUME NEW e \in QueueEntry
      PROVE  PrefixBytes(Append(q, e), Len(q) + 1) = PrefixBytes(q, Len(q)) + EntryBytes(e)
  <2> DEFINE r == Append(q, e)
             n == Len(q)
  <2>1. /\ DOMAIN r = 1 .. n + 1 /\ r[n + 1] = e
        /\ \A k \in 1 .. n : r[k] = q[k]
    BY Appended
  <2> HIDE DEF r
  <2>2. n \in Nat
    BY <1>2
  <2>3. /\ \A k \in 1 .. n : Lengths(q)[k] \in Nat /\ Lengths(r)[k] = Lengths(q)[k]
        /\ Lengths(r)[n + 1] = EntryBytes(e)
    BY <1>2, <1>3, <2>1, <2>2 DEF Lengths
  <2>4. EntryBytes(e) \in Nat
    BY <1>1
  <2> HIDE DEF n
  <2>5. SumFunctionOnSet(Lengths(r), 1 .. n + 1)
          = SumFunctionOnSet(Lengths(q), 1 .. n) + Lengths(r)[n + 1]
    BY <2>2, <2>3, <2>4, SumExtended
  <2> QED
    BY <2>3, <2>5 DEF PrefixBytes, Lengths, r, n
<1> QED
  BY <1>4, <1>5

\* The sums over a window that a batch joins, and over one a prefix leaves.
LEMMA WindowSums ==
  ASSUME NEW w \in Seq(Batch)
  PROVE  /\ \A n \in 0 .. Len(w) :
              LET r == SubSeq(w, n + 1, Len(w))
              IN  /\ SumFunctionOnSet(Counts(w), 1 .. n) \in Nat
                  /\ SumFunctionOnSet(Counts(r), 1 .. Len(w) - n) \in Nat
                  /\ SumFunctionOnSet(Counts(w), 1 .. Len(w))
                       = SumFunctionOnSet(Counts(w), 1 .. n)
                         + SumFunctionOnSet(Counts(r), 1 .. Len(w) - n)
                  /\ SumFunctionOnSet(Sizes(w), 1 .. n) \in Nat
                  /\ SumFunctionOnSet(Sizes(r), 1 .. Len(w) - n) \in Nat
                  /\ SumFunctionOnSet(Sizes(w), 1 .. Len(w))
                       = SumFunctionOnSet(Sizes(w), 1 .. n)
                         + SumFunctionOnSet(Sizes(r), 1 .. Len(w) - n)
         /\ \A b \in Batch :
              /\ SumFunctionOnSet(Counts(Append(w, b)), 1 .. Len(w) + 1)
                   = SumFunctionOnSet(Counts(w), 1 .. Len(w)) + b.entry_count
              /\ SumFunctionOnSet(Sizes(Append(w, b)), 1 .. Len(w) + 1)
                   = SumFunctionOnSet(Sizes(w), 1 .. Len(w)) + b.bytes
<1>1. \A b \in Batch : b.entry_count \in Nat /\ b.bytes \in Nat
  BY DEF Batch
<1>2. Len(w) \in Nat /\ DOMAIN w = 1 .. Len(w) /\ \A k \in 1 .. Len(w) : w[k] \in Batch
  OBVIOUS
<1>3. \A k \in 1 .. Len(w) : Counts(w)[k] \in Nat /\ Sizes(w)[k] \in Nat
  BY <1>1, <1>2 DEF Counts, Sizes
<1>4. ASSUME NEW n \in 0 .. Len(w)
      PROVE  LET r == SubSeq(w, n + 1, Len(w))
             IN  /\ SumFunctionOnSet(Counts(w), 1 .. n) \in Nat
                 /\ SumFunctionOnSet(Counts(r), 1 .. Len(w) - n) \in Nat
                 /\ SumFunctionOnSet(Counts(w), 1 .. Len(w))
                      = SumFunctionOnSet(Counts(w), 1 .. n)
                        + SumFunctionOnSet(Counts(r), 1 .. Len(w) - n)
                 /\ SumFunctionOnSet(Sizes(w), 1 .. n) \in Nat
                 /\ SumFunctionOnSet(Sizes(r), 1 .. Len(w) - n) \in Nat
                 /\ SumFunctionOnSet(Sizes(w), 1 .. Len(w))
                      = SumFunctionOnSet(Sizes(w), 1 .. n)
                        + SumFunctionOnSet(Sizes(r), 1 .. Len(w) - n)
  <2> DEFINE r == SubSeq(w, n + 1, Len(w))
             m == Len(w) - n
  <2>1. /\ DOMAIN r = 1 .. m
        /\ \A k \in 1 .. m : r[k] = w[n + k]
    BY Dropped
  <2> HIDE DEF r
  <2>2. n \in Nat /\ m \in Nat /\ n + m = Len(w)
    BY <1>2
  <2>3. \A k \in 1 .. m : /\ Counts(r)[k] = Counts(w)[n + k]
                          /\ Sizes(r)[k] = Sizes(w)[n + k]
    BY <1>2, <2>1, <2>2 DEF Counts, Sizes
  <2>4. \A k \in 1 .. n + m : Counts(w)[k] \in Nat /\ Sizes(w)[k] \in Nat
    BY <1>3, <2>2
  <2>5. /\ \A k \in 1 .. n : Counts(w)[k] \in Nat /\ Sizes(w)[k] \in Nat
        /\ \A k \in 1 .. m : Counts(r)[k] \in Nat /\ Sizes(r)[k] \in Nat
    BY <2>2, <2>3, <2>4
  <2> HIDE DEF m
  <2>6. SumFunctionOnSet(Counts(w), 1 .. n + m)
          = SumFunctionOnSet(Counts(w), 1 .. n) + SumFunctionOnSet(Counts(r), 1 .. m)
    BY <2>2, <2>3, <2>4, SumSplit
  <2>7. SumFunctionOnSet(Sizes(w), 1 .. n + m)
          = SumFunctionOnSet(Sizes(w), 1 .. n) + SumFunctionOnSet(Sizes(r), 1 .. m)
    BY <2>2, <2>3, <2>4, SumSplit
  <2>8. /\ SumFunctionOnSet(Counts(w), 1 .. n) \in Nat
        /\ SumFunctionOnSet(Sizes(w), 1 .. n) \in Nat
        /\ SumFunctionOnSet(Counts(r), 1 .. m) \in Nat
        /\ SumFunctionOnSet(Sizes(r), 1 .. m) \in Nat
    BY <2>2, <2>5, SumNat
  <2> QED
    BY <2>2, <2>6, <2>7, <2>8 DEF r, m
<1>5. ASSUME NEW b \in Batch
      PROVE  /\ SumFunctionOnSet(Counts(Append(w, b)), 1 .. Len(w) + 1)
                  = SumFunctionOnSet(Counts(w), 1 .. Len(w)) + b.entry_count
             /\ SumFunctionOnSet(Sizes(Append(w, b)), 1 .. Len(w) + 1)
                  = SumFunctionOnSet(Sizes(w), 1 .. Len(w)) + b.bytes
  <2> DEFINE r == Append(w, b)
             n == Len(w)
  <2>1. /\ DOMAIN r = 1 .. n + 1 /\ r[n + 1] = b
        /\ \A k \in 1 .. n : r[k] = w[k]
    BY Appended
  <2> HIDE DEF r
  <2>2. n \in Nat
    BY <1>2
  <2>3. /\ \A k \in 1 .. n : /\ Counts(w)[k] \in Nat /\ Counts(r)[k] = Counts(w)[k]
                             /\ Sizes(w)[k] \in Nat /\ Sizes(r)[k] = Sizes(w)[k]
        /\ Counts(r)[n + 1] = b.entry_count
        /\ Sizes(r)[n + 1] = b.bytes
    BY <1>2, <1>3, <2>1, <2>2 DEF Counts, Sizes
  <2>4. Counts(r)[n + 1] \in Nat /\ Sizes(r)[n + 1] \in Nat
    BY <1>1, <2>3
  <2> HIDE DEF n
  <2>5. SumFunctionOnSet(Counts(r), 1 .. n + 1)
          = SumFunctionOnSet(Counts(w), 1 .. n) + Counts(r)[n + 1]
    BY <2>2, <2>3, <2>4, SumExtended
  <2>6. SumFunctionOnSet(Sizes(r), 1 .. n + 1)
          = SumFunctionOnSet(Sizes(w), 1 .. n) + Sizes(r)[n + 1]
    BY <2>2, <2>3, <2>4, SumExtended
  <2> QED
    BY <2>3, <2>5, <2>6 DEF r, n
<1> QED
  BY <1>4, <1>5

--------------------------------------------------------------------------------
(***************************************************************************)
(* The operations on the window.                                           *)
(***************************************************************************)

\* The batch flush_append_batch takes is a prefix of the queue that fits the
\* memory left.
LEMMA BatchFits ==
  ASSUME PipelineAssumption, NEW p, PipeType(p), NEW a, NEW b
  PROVE  LET n == BatchLength(p, a, b)
         IN  /\ n \in 0 .. Len(p.append_queue)
             /\ n > 0 => p.inflight_bytes + PrefixBytes(p.append_queue, n)
                           <= MaxMemoryReplicateLogBytes
<1> DEFINE q == p.append_queue
           Fits(n) == /\ n <= Max({a, 1})
                      /\ n <= 1 \/ PrefixBytes(q, n) <= Max({b, 1})
                      /\ p.inflight_bytes + PrefixBytes(q, n)
                           <= MaxMemoryReplicateLogBytes
           S == {n \in 0 .. Len(q) : \A k \in 1 .. n : Fits(k)}
<1>1. Len(q) \in Nat
  BY DEF PipeType
<1> HIDE DEF Fits, q
<1>2. /\ S \in SUBSET Nat /\ S # {} /\ \A n \in S : n <= Len(q)
  <2>1. 0 \in S
    BY <1>1
  <2> QED
    BY <1>1, <2>1
<1>3. Max(S) \in S
  <2> HIDE DEF S
  <2> QED
    BY <1>1, <1>2, MaxNat
<1>4. BatchLength(p, a, b) = Max(S)
  BY DEF BatchLength, Fits, q
<1>5. Max(S) > 0 => Fits(Max(S))
  <2>1. ASSUME NEW n \in S, n > 0 PROVE Fits(n)
    <3>1. n \in 1 .. n
      BY <1>1, <2>1
    <3> QED
      BY <3>1
  <2> HIDE DEF S
  <2> QED
    BY <1>3, <2>1
<1>6. Max(S) \in 0 .. Len(q)
  BY <1>3
<1> HIDE DEF S
<1> QED
  BY <1>4, <1>5, <1>6 DEF Fits, q

\* A batch holds the indexes of the prefix it was made of, and leaves the order
\* of the rest alone.
LEMMA BatchMoves ==
  ASSUME NEW q \in Seq(QueueEntry), NEW w \in Seq(Batch), NEW n \in 1 .. Len(q),
         NEW batch \in Batch,
         batch.first_index = q[1].index, batch.last_index = q[n].index,
         NEW last \in Nat, InOrder(w, q, last)
  PROVE  LET r == SubSeq(q, n + 1, Len(q))
             v == Append(w, batch)
         IN  /\ InOrder(v, r, last)
             /\ \A i \in Nat : Delivers(w, q, i) => Delivers(v, r, i)
<1> DEFINE r == SubSeq(q, n + 1, Len(q))
           v == Append(w, batch)
<1>1. /\ DOMAIN q = 1 .. Len(q) /\ DOMAIN w = 1 .. Len(w)
      /\ Len(q) \in Nat /\ Len(w) \in Nat /\ n \in Nat
      /\ \A k \in 1 .. Len(q) : q[k].index \in Nat
      /\ \A k \in 1 .. Len(w) : w[k].first_index \in Nat /\ w[k].last_index \in Nat
  <2>1. \A e \in QueueEntry : e.index \in Nat
    BY DEF QueueEntry
  <2>2. \A b \in Batch : b.first_index \in Nat /\ b.last_index \in Nat
    BY DEF Batch
  <2>3. /\ DOMAIN q = 1 .. Len(q) /\ \A k \in 1 .. Len(q) : q[k] \in QueueEntry
        /\ DOMAIN w = 1 .. Len(w) /\ \A k \in 1 .. Len(w) : w[k] \in Batch
        /\ Len(q) \in Nat /\ Len(w) \in Nat /\ n \in Nat
    OBVIOUS
  <2> QED
    BY <2>1, <2>2, <2>3
<1>2. /\ DOMAIN r = 1 .. Len(q) - n
      /\ \A k \in 1 .. Len(q) - n : r[k] = q[n + k]
  <2>1. n \in 0 .. Len(q)
    OBVIOUS
  <2> QED
    BY <2>1, Dropped
<1>3. /\ DOMAIN v = 1 .. Len(w) + 1
      /\ \A k \in 1 .. Len(w) : v[k] = w[k]
      /\ v[Len(w) + 1] = batch
  BY Appended
<1> HIDE DEF r, v
<1>4. /\ \A j, k \in 1 .. Len(q) : j < k => q[j].index < q[k].index
      /\ \A j \in 1 .. Len(w), k \in 1 .. Len(q) : w[j].last_index < q[k].index
      /\ \A k \in 1 .. Len(q) : q[k].index <= last
      /\ \A k \in 1 .. Len(w) : w[k].first_index <= w[k].last_index
      /\ \A k \in 1 .. Len(w) : w[k].last_index <= last
      /\ \A j, k \in 1 .. Len(w) : j < k => w[j].last_index < w[k].first_index
  BY <1>1 DEF InOrder
<1>5. /\ 1 \in 1 .. Len(q) /\ n \in 1 .. Len(q)
      /\ \A k \in 1 .. n : q[1].index <= q[k].index /\ q[k].index <= q[n].index
  <2>1. 1 \in 1 .. Len(q) /\ n \in 1 .. Len(q) /\ \A k \in 1 .. n : k \in 1 .. Len(q)
    BY <1>1
  <2> SUFFICES ASSUME NEW k \in 1 .. n
               PROVE  q[1].index <= q[k].index /\ q[k].index <= q[n].index
    BY <2>1
  <2>2. q[1].index <= q[k].index
    <3>1. k = 1 \/ 1 < k
      BY <1>1
    <3> QED
      BY <1>1, <1>4, <2>1, <3>1
  <2>3. q[k].index <= q[n].index
    <3>1. k = n \/ k < n
      BY <1>1
    <3> QED
      BY <1>1, <1>4, <2>1, <3>1
  <2> QED
    BY <2>2, <2>3
<1>6. \A k \in 1 .. Len(q) - n : n + k \in 1 .. Len(q) /\ n < n + k
  BY <1>1
<1>7. InOrder(v, r, last)
  <2>1. \A k \in DOMAIN v : k \in 1 .. Len(w) \/ k = Len(w) + 1
    BY <1>1, <1>3
  <2>2. \A k \in DOMAIN v : /\ v[k].first_index <= v[k].last_index
                            /\ v[k].last_index <= last
    BY <1>3, <1>4, <1>5, <2>1
  <2>3. ASSUME NEW j \in DOMAIN v, NEW k \in DOMAIN v, j < k
        PROVE  v[j].last_index < v[k].first_index
    <3>1. j \in 1 .. Len(w)
      BY <1>1, <1>3, <2>3
    <3>2. CASE k \in 1 .. Len(w)
      BY <1>3, <1>4, <2>3, <3>1, <3>2
    <3>3. CASE k = Len(w) + 1
      BY <1>3, <1>4, <1>5, <3>1, <3>3
    <3> QED
      BY <2>1, <3>2, <3>3
  <2>4. ASSUME NEW j \in DOMAIN v, NEW k \in DOMAIN r
        PROVE  v[j].last_index < r[k].index
    <3>1. r[k] = q[n + k] /\ n + k \in 1 .. Len(q) /\ n < n + k
      BY <1>2, <1>6
    <3>2. CASE j \in 1 .. Len(w)
      BY <1>3, <1>4, <3>1, <3>2
    <3>3. CASE j = Len(w) + 1
      BY <1>3, <1>4, <1>5, <3>1, <3>3
    <3> QED
      BY <2>1, <3>2, <3>3
  <2>5. ASSUME NEW j \in DOMAIN r, NEW k \in DOMAIN r, j < k
        PROVE  r[j].index < r[k].index
    <3>1. /\ r[j] = q[n + j] /\ n + j \in 1 .. Len(q)
          /\ r[k] = q[n + k] /\ n + k \in 1 .. Len(q)
      BY <1>2, <1>6
    <3>2. n + j < n + k
      BY <1>1, <1>2, <2>5
    <3> QED
      BY <1>4, <3>1, <3>2
  <2>6. \A k \in DOMAIN r : r[k].index <= last
    BY <1>2, <1>4, <1>6
  <2> QED
    BY <2>2, <2>3, <2>4, <2>5, <2>6 DEF InOrder
<1>8. ASSUME NEW i \in Nat, Delivers(w, q, i) PROVE Delivers(v, r, i)
  <2>1. CASE \E k \in DOMAIN w : w[k].first_index <= i /\ i <= w[k].last_index
    <3>1. PICK k \in DOMAIN w : w[k].first_index <= i /\ i <= w[k].last_index
      BY <2>1
    <3>2. k \in DOMAIN v /\ v[k] = w[k]
      BY <1>1, <1>3
    <3> QED
      BY <3>1, <3>2 DEF Delivers
  <2>2. CASE \E k \in DOMAIN q : q[k].index = i
    <3>1. PICK k \in 1 .. Len(q) : q[k].index = i
      BY <1>1, <2>2
    <3>2. CASE k <= n
      <4>1. k \in 1 .. n
        BY <1>1, <3>2
      <4>2. q[1].index <= i /\ i <= q[n].index
        BY <1>5, <3>1, <4>1
      <4>3. Len(w) + 1 \in DOMAIN v
        BY <1>1, <1>3
      <4> QED
        BY <1>3, <4>2, <4>3 DEF Delivers
    <3>3. CASE ~ (k <= n)
      <4>1. k - n \in DOMAIN r /\ k - n \in 1 .. Len(q) - n /\ n + (k - n) = k
        BY <1>1, <1>2, <3>3
      <4>2. r[k - n] = q[k]
        BY <1>2, <4>1
      <4> QED
        BY <3>1, <4>1, <4>2 DEF Delivers
    <3> QED
      BY <3>2, <3>3
  <2> QED
    BY <1>8, <2>1, <2>2 DEF Delivers
<1> QED
  BY <1>7, <1>8 DEF r, v

\* One iteration of flush_append_batch keeps the invariant.
LEMMA FlushOnceKeeps ==
  ASSUME PipelineAssumption, NEW p, PipeInv(p), NEW a, NEW b,
         offered \in Nat, acked \in Nat, queued \in SUBSET Nat
  PROVE  PipeInv(FlushOnce(p, a, b))
<1> DEFINE q == p.append_queue
           w == p.inflight
           n == BatchLength(p, a, b)
           batch == [ first_index |-> q[1].index, last_index |-> q[n].index,
                      entry_count |-> n, bytes |-> PrefixBytes(q, n) ]
           p1 == FlushOnce(p, a, b)
           q1 == SubSeq(q, n + 1, Len(q))
           w1 == Append(w, batch)
<1>1. CASE ~ (p.inflight_entries < MaxInflightsReplicate /\ n > 0)
  <2>1. p1 = p
    BY <1>1 DEF FlushOnce
  <2> QED
    BY <2>1
<1>2. CASE p.inflight_entries < MaxInflightsReplicate /\ n > 0
  <2>1. /\ q \in Seq(QueueEntry) /\ w \in Seq(Batch)
        /\ Len(q) \in Nat /\ DOMAIN q = 1 .. Len(q)
        /\ Len(w) \in Nat /\ DOMAIN w = 1 .. Len(w)
    BY DEF PipeInv, PipeType
  <2>2. /\ n \in 1 .. Len(q) /\ n \in 0 .. Len(q) /\ n \in Nat
        /\ p.inflight_bytes + PrefixBytes(q, n) <= MaxMemoryReplicateLogBytes
    <3>1. PipeType(p)
      BY DEF PipeInv
    <3>2. /\ n \in 0 .. Len(q)
          /\ p.inflight_bytes + PrefixBytes(q, n) <= MaxMemoryReplicateLogBytes
      BY <1>2, <3>1, BatchFits
    <3> HIDE DEF n, q
    <3> QED
      BY <1>2, <2>1, <3>2
  <2>3. /\ p1.append_queue = q1 /\ p1.inflight = w1
        /\ p1.inflight_entries = p.inflight_entries + n
        /\ p1.inflight_bytes = p.inflight_bytes + PrefixBytes(q, n)
        /\ p1.snapshot_transfer = p.snapshot_transfer
        /\ p1.snapshot_sending = p.snapshot_sending
        /\ p1.snapshot_installing = p.snapshot_installing
        /\ DOMAIN p1 = DOMAIN p
    <3> HIDE DEF n
    <3> QED
      BY <1>2 DEF FlushOnce, PipeInv, PipeType, NewPipeline, n
  <2>4. /\ batch.entry_count = n /\ batch.bytes = PrefixBytes(q, n)
        /\ batch.first_index = q[1].index /\ batch.last_index = q[n].index
    OBVIOUS
  <2>5. /\ Accounted(p) /\ Limited(p) /\ InOrder(w, q, offered) /\ FlagsAgree(p)
        /\ PipeType(p) /\ NoneLost(p, queued, acked)
    BY DEF PipeInv
  <2> HIDE DEF n, p1
  <2>6. /\ PrefixBytes(q, n) \in Nat /\ PrefixBytes(q1, Len(q) - n) \in Nat
        /\ PrefixBytes(q, Len(q))
             = PrefixBytes(q, n) + PrefixBytes(q1, Len(q) - n)
    <3> HIDE DEF q
    <3>1. /\ PrefixBytes(q, n) \in Nat
          /\ PrefixBytes(q, Len(q))
               = PrefixBytes(q, n) + PrefixBytes(q1, Len(q) - n)
      BY <2>1, <2>2, QueueBytes
    <3>2. q1 \in Seq(QueueEntry) /\ Len(q) - n \in 0 .. Len(q1)
      BY <2>1, <2>2
    <3> QED
      BY <3>1, <3>2, QueueBytes
  <2>7. batch \in Batch
    <3> HIDE DEF q
    <3>1. q[1] \in QueueEntry /\ q[n] \in QueueEntry
      BY <2>1, <2>2
    <3>2. q[1].index \in Nat /\ q[n].index \in Nat
      BY <3>1 DEF QueueEntry
    <3> QED
      BY <2>2, <2>6, <3>2 DEF Batch
  <2> HIDE DEF batch, q, w
  <2>8. /\ q1 \in Seq(QueueEntry)
        /\ Len(q1) = Len(q) - n
    <3>1. q \in Seq(QueueEntry) /\ n \in 0 .. Len(q)
      BY <2>1, <2>2
    <3> QED
      BY <3>1, Dropped
  <2>9. /\ w1 \in Seq(Batch)
        /\ Len(w1) = Len(w) + 1
        /\ w1[Len(w) + 1] = batch
    BY <2>1, <2>7, Appended
  <2>10. /\ SumFunctionOnSet(Counts(w), 1 .. Len(w)) \in Nat
         /\ SumFunctionOnSet(Sizes(w), 1 .. Len(w)) \in Nat
         /\ SumFunctionOnSet(Counts(w1), 1 .. Len(w) + 1)
              = SumFunctionOnSet(Counts(w), 1 .. Len(w)) + batch.entry_count
         /\ SumFunctionOnSet(Sizes(w1), 1 .. Len(w) + 1)
              = SumFunctionOnSet(Sizes(w), 1 .. Len(w)) + batch.bytes
    <3>1. Len(w) \in 0 .. Len(w)
      BY <2>1
    <3> QED
      BY <2>1, <2>7, <3>1, WindowSums
  <2>11. /\ InOrder(w1, q1, offered)
         /\ \A i \in Nat : Delivers(w, q, i) => Delivers(w1, q1, i)
    BY <2>1, <2>2, <2>4, <2>5, <2>7, BatchMoves
  <2> HIDE DEF q1, w1
  <2>12. PipeType(p1)
    BY <2>3, <2>5, <2>8, <2>9 DEF PipeType
  <2>13. Accounted(p1)
    BY <2>3, <2>4, <2>5, <2>9, <2>10 DEF Accounted, w
  <2>14. Limited(p1)
    <3>1. p.inflight_entries \in Nat /\ p.inflight_bytes \in Nat
      BY <2>5, <2>10 DEF Accounted, w
    <3>2. MaxInflightsReplicate \in Nat /\ MaxMemoryReplicateLogBytes \in Nat
      BY DEF PipelineAssumption
    <3>3. /\ Len(q) <= MaxInflightsReplicate
          /\ p.inflight_bytes + PrefixBytes(q, Len(q)) <= MaxMemoryReplicateLogBytes
      BY <2>5 DEF Limited, QueuedBytes, q
    <3>4. Len(q1) <= MaxInflightsReplicate /\ n <= MaxInflightsReplicate
      BY <2>1, <2>2, <2>8, <3>2, <3>3
    <3>5. p1.inflight_bytes + QueuedBytes(p1) <= MaxMemoryReplicateLogBytes
      <4>1. QueuedBytes(p1) = PrefixBytes(q1, Len(q) - n)
        BY <2>3, <2>8 DEF QueuedBytes
      <4> QED
        BY <2>3, <2>6, <3>1, <3>2, <3>3, <4>1
    <3>6. w1[Len(w1)].entry_count = n
      BY <2>4, <2>9
    <3>7. (p.inflight_entries + n) - n < MaxInflightsReplicate
      BY <1>2, <2>2, <3>1, <3>2
    <3> QED
      BY <2>3, <3>4, <3>5, <3>6, <3>7 DEF Limited
  <2>15. NoneLost(p1, queued, acked)
    BY <2>3, <2>5, <2>11 DEF NoneLost, q, w
  <2>16. FlagsAgree(p1)
    BY <2>3, <2>5 DEF FlagsAgree, TransferActive
  <2>17. InOrder(p1.inflight, p1.append_queue, offered)
    BY <2>3, <2>11
  <2> QED
    BY <2>12, <2>13, <2>14, <2>15, <2>16, <2>17 DEF PipeInv, p1
<1> QED
  BY <1>1, <1>2

\* The iterations of flush_append_batch, up to the n-th.
FlushRule(g, p, a, b, n) ==
  g = [k \in 0 .. n |-> IF k = 0 THEN p ELSE FlushOnce(g[k - 1], a, b)]

\* The loop of flush_append_batches has a result after any number of turns.
LEMMA FlushExists ==
  ASSUME NEW p, NEW a, NEW b, NEW n \in Nat
  PROVE  \E g : FlushRule(g, p, a, b, n)
<1> DEFINE N == {m \in Nat : \E g : FlushRule(g, p, a, b, m)}
<1>1. 0 \in N
  <2> DEFINE g == [k \in 0 .. 0 |-> p]
  <2>1. \A k \in 0 .. 0 : k = 0
    OBVIOUS
  <2>2. g = [k \in 0 .. 0 |-> IF k = 0 THEN p ELSE FlushOnce(g[k - 1], a, b)]
    BY <2>1
  <2> HIDE DEF g
  <2> QED
    BY <2>2 DEF FlushRule
<1>2. ASSUME NEW m \in N PROVE m + 1 \in N
  <2>1. PICK g : FlushRule(g, p, a, b, m)
    OBVIOUS
  <2> DEFINE h == [k \in 0 .. m + 1 |-> IF k = 0 THEN p ELSE FlushOnce(g[k - 1], a, b)]
  <2>2. \A k \in 0 .. m : h[k] = g[k]
    BY <2>1 DEF FlushRule
  <2>3. \A k \in 0 .. m + 1 : k # 0 => k - 1 \in 0 .. m
    OBVIOUS
  <2>4. h = [k \in 0 .. m + 1 |-> IF k = 0 THEN p ELSE FlushOnce(h[k - 1], a, b)]
    BY <2>2, <2>3
  <2> HIDE DEF h
  <2> QED
    BY <2>4 DEF FlushRule
<1>3. N \in SUBSET Nat
  OBVIOUS
<1> HIDE DEF N
<1>4. n \in N
  BY <1>1, <1>2, <1>3, NatSet
<1> QED
  BY <1>4 DEF N

\* flush_append_batch keeps the invariant, however many batches it sends.
LEMMA FlushKeeps ==
  ASSUME PipelineAssumption, NEW p, PipeInv(p), NEW a, NEW b,
         offered \in Nat, acked \in Nat, queued \in SUBSET Nat
  PROVE  PipeInv(FlushAppendBatch(p, a, b))
<1> DEFINE n == Len(p.append_queue)
           it == CHOOSE g : FlushRule(g, p, a, b, n)
<1>1. n \in Nat
  BY DEF PipeInv, PipeType
<1>2. FlushAppendBatch(p, a, b) = it[n]
  BY DEF FlushAppendBatch, FlushRule
<1> HIDE DEF n
<1>3. FlushRule(it, p, a, b, n)
  BY <1>1, FlushExists
<1> HIDE DEF it
<1>4. /\ it[0] = p
      /\ \A k \in 0 .. n : k # 0 => it[k] = FlushOnce(it[k - 1], a, b)
  BY <1>1, <1>3 DEF FlushRule
<1> DEFINE N == {k \in Nat : k <= n => PipeInv(it[k])}
<1>5. 0 \in N
  BY <1>4
<1>6. ASSUME NEW k \in N PROVE k + 1 \in N
  <2> SUFFICES ASSUME k + 1 <= n PROVE PipeInv(it[k + 1])
    OBVIOUS
  <2>1. PipeInv(it[k])
    BY <1>1
  <2>2. k + 1 \in 0 .. n /\ k + 1 # 0 /\ (k + 1) - 1 = k
    BY <1>1
  <2>3. it[k + 1] = FlushOnce(it[k], a, b)
    BY <1>4, <2>2
  <2> QED
    BY <2>1, <2>3, FlushOnceKeeps
<1>7. N \in SUBSET Nat
  OBVIOUS
<1> HIDE DEF N
<1>8. n \in N
  BY <1>1, <1>5, <1>6, <1>7, NatSet
<1> QED
  BY <1>1, <1>2, <1>8 DEF N

\* queue_append keeps the invariant: the entry goes to the end of the queue.
LEMMA QueueKeeps ==
  ASSUME PipelineAssumption, PipelineInv, NEW payload \in Payload,
         NEW e, e = [index |-> offered + 1, payload |-> payload],
         QueueAccepts(pipe, e), pipe' = QueueAppend(pipe, e),
         offered' = offered + 1, queued' = queued \cup {e.index}, acked' = acked
  PROVE  PipeInv(pipe)'
<1> DEFINE q == pipe.append_queue
           w == pipe.inflight
           q1 == Append(q, e)
<1>1. /\ q \in Seq(QueueEntry) /\ w \in Seq(Batch)
      /\ Len(q) \in Nat /\ DOMAIN q = 1 .. Len(q)
      /\ Len(w) \in Nat /\ DOMAIN w = 1 .. Len(w)
  BY DEF PipelineInv, PipeInv, PipeType
<1>2. e \in QueueEntry /\ e.index = offered + 1 /\ offered \in Nat
  BY DEF QueueEntry, PipelineInv
<1>3. /\ pipe'.append_queue = q1 /\ pipe'.inflight = w
      /\ pipe'.inflight_entries = pipe.inflight_entries
      /\ pipe'.inflight_bytes = pipe.inflight_bytes
      /\ pipe'.snapshot_transfer = pipe.snapshot_transfer
      /\ pipe'.snapshot_sending = pipe.snapshot_sending
      /\ pipe'.snapshot_installing = pipe.snapshot_installing
      /\ DOMAIN pipe' = DOMAIN pipe
  BY DEF QueueAppend, PipelineInv, PipeInv, PipeType, NewPipeline
<1>4. /\ Accounted(pipe) /\ Limited(pipe) /\ InOrder(w, q, offered)
      /\ FlagsAgree(pipe) /\ PipeType(pipe) /\ NoneLost(pipe, queued, acked)
  BY DEF PipelineInv, PipeInv
<1> HIDE DEF q, w
<1>5. /\ q1 \in Seq(QueueEntry) /\ Len(q1) = Len(q) + 1
      /\ DOMAIN q1 = 1 .. Len(q) + 1
      /\ \A k \in 1 .. Len(q) : q1[k] = q[k]
      /\ q1[Len(q) + 1] = e
  BY <1>1, <1>2, Appended
<1>6. PrefixBytes(q1, Len(q) + 1) = PrefixBytes(q, Len(q)) + EntryBytes(e)
  BY <1>1, <1>2, QueueBytes
<1> HIDE DEF q1
<1>7. PipeType(pipe')
  BY <1>1, <1>3, <1>4, <1>5 DEF PipeType
<1>8. Accounted(pipe')
  BY <1>3, <1>4 DEF Accounted, w
<1>9. Limited(pipe')
  <2>1. Len(q1) <= MaxInflightsReplicate
    BY <1>1, <1>5 DEF QueueAccepts, PipelineAssumption, q
  <2>2. /\ pipe.inflight_bytes + PrefixBytes(q, Len(q)) + EntryBytes(e)
             <= MaxMemoryReplicateLogBytes
        /\ pipe.inflight_bytes \in Nat /\ PrefixBytes(q, Len(q)) \in Nat
        /\ EntryBytes(e) \in Nat
    <3>1. pipe.inflight_bytes \in Nat
      <4>1. SumFunctionOnSet(Sizes(w), 1 .. Len(w)) \in Nat
        <5>1. Len(w) \in 0 .. Len(w)
          BY <1>1
        <5> QED
          BY <1>1, <5>1, WindowSums
      <4> QED
        BY <1>4, <4>1 DEF Accounted, w
    <3>2. PrefixBytes(q, Len(q)) \in Nat
      <4>1. Len(q) \in 0 .. Len(q)
        BY <1>1
      <4> QED
        BY <1>1, <4>1, QueueBytes
    <3>3. EntryBytes(e) \in Nat
      BY <1>2 DEF EntryBytes, QueueEntry, PipelineAssumption
    <3> QED
      BY <3>1, <3>2, <3>3 DEF QueueAccepts, QueuedBytes, q
  <2>3. pipe'.inflight_bytes + QueuedBytes(pipe') <= MaxMemoryReplicateLogBytes
    <3>1. QueuedBytes(pipe') = PrefixBytes(q, Len(q)) + EntryBytes(e)
      BY <1>3, <1>5, <1>6 DEF QueuedBytes
    <3> QED
      BY <1>3, <2>2, <3>1 DEF PipelineAssumption
  <2> QED
    BY <1>3, <1>4, <2>1, <2>3 DEF Limited, w
<1>10. InOrder(w, q1, offered + 1)
  <2>1. \A k \in DOMAIN q1 : \/ k \in 1 .. Len(q) /\ q1[k] = q[k] /\ q[k].index \in Nat
                             \/ k = Len(q) + 1 /\ q1[k] = e
    <3>1. \A k \in 1 .. Len(q) : q[k] \in QueueEntry
      BY <1>1
    <3>2. \A x \in QueueEntry : x.index \in Nat
      BY DEF QueueEntry
    <3> QED
      BY <1>1, <1>5, <3>1, <3>2
  <2>2. \A k \in DOMAIN w : w[k].last_index \in Nat
    <3>1. \A k \in DOMAIN w : w[k] \in Batch
      BY <1>1
    <3> QED
      BY <3>1 DEF Batch
  <2>3. \A k \in DOMAIN w : w[k].last_index <= offered + 1 /\ w[k].last_index < offered + 1
    BY <1>2, <1>4, <2>2 DEF InOrder
  <2>4. \A k \in DOMAIN q1 : q1[k].index <= offered + 1
    BY <1>1, <1>2, <1>4, <2>1 DEF InOrder
  <2>5. \A j \in DOMAIN w, k \in DOMAIN q1 : w[j].last_index < q1[k].index
    BY <1>1, <1>2, <1>4, <2>1, <2>3 DEF InOrder
  <2>6. ASSUME NEW j \in DOMAIN q1, NEW k \in DOMAIN q1, j < k
        PROVE  q1[j].index < q1[k].index
    <3>1. j \in 1 .. Len(q) /\ q1[j] = q[j] /\ q[j].index \in Nat
      BY <1>1, <1>5, <2>1, <2>6
    <3>2. CASE k \in 1 .. Len(q)
      BY <1>1, <1>4, <1>5, <2>6, <3>1, <3>2 DEF InOrder
    <3>3. CASE k = Len(q) + 1
      BY <1>1, <1>2, <1>4, <1>5, <3>1, <3>3 DEF InOrder
    <3> QED
      BY <2>1, <3>2, <3>3
  <2> QED
    BY <1>4, <2>3, <2>4, <2>5, <2>6 DEF InOrder
<1>11. NoneLost(pipe', queued', acked')
  <2> SUFFICES ASSUME NEW i \in queued', ~ (i <= acked) PROVE Delivers(w, q1, i)
    BY <1>3 DEF NoneLost
  <2>1. CASE i = e.index
    <3>1. Len(q) + 1 \in DOMAIN q1
      BY <1>1, <1>5
    <3> QED
      BY <1>5, <2>1, <3>1 DEF Delivers
  <2>2. CASE i \in queued
    <3>1. Delivers(w, q, i)
      BY <1>4, <2>2 DEF NoneLost, q, w
    <3>2. \A k \in DOMAIN q : k \in DOMAIN q1 /\ q1[k] = q[k]
      BY <1>1, <1>5
    <3> QED
      BY <3>1, <3>2 DEF Delivers
  <2> QED
    BY <2>1, <2>2
<1>12. FlagsAgree(pipe')
  BY <1>3, <1>4 DEF FlagsAgree, TransferActive
<1>13. InOrder(pipe'.inflight, pipe'.append_queue, offered')
  BY <1>3, <1>10
<1> QED
  BY <1>7, <1>8, <1>9, <1>11, <1>12, <1>13 DEF PipeInv

\* release_inflight_through keeps the invariant once match_index counts as
\* acknowledged: what it drops from the window ends at or below that index, and
\* the subtractions never saturate.
LEMMA ReleaseKeeps ==
  ASSUME PipelineAssumption, NEW p, PipeInv(p), NEW m \in Nat,
         offered \in Nat, acked \in Nat, queued \in SUBSET Nat
  PROVE  LET r == ReleaseInflightThrough(p, m)
         IN  /\ PipeType(r) /\ Accounted(r) /\ Limited(r) /\ FlagsAgree(r)
             /\ InOrder(r.inflight, r.append_queue, offered)
             /\ NoneLost(r, queued, Max({acked, m}))
<1> DEFINE r == ReleaseInflightThrough(p, m)
           q == p.append_queue
           w == p.inflight
           D == {n \in 0 .. Len(w) : \A k \in 1 .. n : w[k].last_index <= m}
           d == Max(D)
           w1 == SubSeq(w, d + 1, Len(w))
           counts == SumFunctionOnSet(Counts(w), 1 .. d)
           sizes == SumFunctionOnSet(Sizes(w), 1 .. d)
           restCounts == SumFunctionOnSet(Counts(w1), 1 .. Len(w) - d)
           restSizes == SumFunctionOnSet(Sizes(w1), 1 .. Len(w) - d)
<1>1. /\ q \in Seq(QueueEntry) /\ w \in Seq(Batch)
      /\ Len(w) \in Nat /\ DOMAIN w = 1 .. Len(w)
  BY DEF PipeInv, PipeType
<1>2. /\ r.append_queue = q /\ r.inflight = w1
      /\ r.inflight_entries = Max({p.inflight_entries - counts, 0})
      /\ r.inflight_bytes = Max({p.inflight_bytes - sizes, 0})
      /\ r.snapshot_transfer = p.snapshot_transfer
      /\ r.snapshot_sending = p.snapshot_sending
      /\ r.snapshot_installing = p.snapshot_installing
      /\ DOMAIN r = DOMAIN p
  <2>1. DOMAIN p = DOMAIN NewPipeline(1)
    BY DEF PipeInv, PipeType
  <2>2. r = [p EXCEPT !.inflight = w1,
                      !.inflight_entries = Max({@ - counts, 0}),
                      !.inflight_bytes = Max({@ - sizes, 0})]
    BY DEF ReleaseInflightThrough, Counts, Sizes
  <2> HIDE DEF r, w1, counts, sizes
  <2> QED
    BY <2>1, <2>2 DEF NewPipeline
<1>3. /\ Accounted(p) /\ Limited(p) /\ InOrder(w, q, offered) /\ FlagsAgree(p)
      /\ PipeType(p) /\ NoneLost(p, queued, acked)
  BY DEF PipeInv
<1> HIDE DEF q, w, r
<1>4. d \in 0 .. Len(w) /\ \A k \in 1 .. d : w[k].last_index <= m
  <2>1. D \in SUBSET Nat /\ 0 \in D /\ \A n \in D : n <= Len(w)
    BY <1>1
  <2>2. Max(D) \in D
    <3> HIDE DEF D
    <3> QED
      BY <1>1, <2>1, MaxNat
  <2> QED
    BY <2>2
<1> HIDE DEF D, d
<1>5. /\ w1 \in Seq(Batch) /\ Len(w1) = Len(w) - d /\ DOMAIN w1 = 1 .. Len(w) - d
      /\ \A k \in 1 .. Len(w) - d : w1[k] = w[d + k]
  <2>1. w \in Seq(Batch) /\ d \in 0 .. Len(w)
    BY <1>1, <1>4
  <2> QED
    BY <2>1, Dropped
<1>6. /\ counts \in Nat /\ sizes \in Nat /\ restCounts \in Nat /\ restSizes \in Nat
      /\ SumFunctionOnSet(Counts(w), 1 .. Len(w)) = counts + restCounts
      /\ SumFunctionOnSet(Sizes(w), 1 .. Len(w)) = sizes + restSizes
  BY <1>1, <1>4, WindowSums
<1>7. p.inflight_entries = counts + restCounts /\ p.inflight_bytes = sizes + restSizes
  BY <1>3, <1>6 DEF Accounted, w
<1> HIDE DEF w1, counts, sizes
<1>8. r.inflight_entries = restCounts /\ r.inflight_bytes = restSizes
  <2> HIDE DEF restCounts, restSizes
  <2>1. /\ p.inflight_entries - counts = restCounts
        /\ p.inflight_bytes - sizes = restSizes
    BY <1>6, <1>7
  <2>2. Max({restCounts, 0}) = restCounts /\ Max({restSizes, 0}) = restSizes
    BY <1>6, MaxPair
  <2> QED
    BY <1>2, <2>1, <2>2
<1>9. \A k \in 1 .. Len(w) - d : d + k \in 1 .. Len(w) /\ d < d + k
  BY <1>1, <1>4
<1>10. PipeType(r)
  BY <1>1, <1>2, <1>3, <1>5 DEF PipeType
<1>11. Accounted(r)
  BY <1>2, <1>5, <1>8 DEF Accounted
<1> HIDE DEF restCounts, restSizes
<1>12. Limited(r)
  <2>1. PrefixBytes(q, Len(q)) \in Nat
    <3>1. Len(q) \in 0 .. Len(q)
      BY <1>1
    <3> QED
      BY <1>1, <3>1, QueueBytes
  <2>2. r.inflight_bytes + QueuedBytes(r) <= MaxMemoryReplicateLogBytes
    <3>1. /\ QueuedBytes(r) = PrefixBytes(q, Len(q))
          /\ p.inflight_bytes + PrefixBytes(q, Len(q)) <= MaxMemoryReplicateLogBytes
      BY <1>2, <1>3 DEF Limited, QueuedBytes, q
    <3> QED
      BY <1>6, <1>7, <1>8, <2>1, <3>1 DEF PipelineAssumption
  <2>3. ASSUME w1 # << >>
        PROVE  /\ r.inflight_entries - w1[Len(w1)].entry_count < MaxInflightsReplicate
               /\ w1[Len(w1)].entry_count <= MaxInflightsReplicate
    <3>1. Len(w) - d >= 1 /\ Len(w) >= 1 /\ w # << >>
      <4>1. Len(w1) # 0
        BY <1>5, <2>3
      <4>2. Len(w) \in Nat /\ d \in Nat /\ d <= Len(w)
        BY <1>1, <1>4
      <4>3. Len(w) - d # 0
        BY <1>5, <4>1
      <4>4. Len(w) - d >= 1 /\ Len(w) >= 1
        BY <4>2, <4>3
      <4> QED
        BY <4>4
    <3>2. w1[Len(w1)] = w[Len(w)]
      <4>1. Len(w) - d \in 1 .. Len(w) - d /\ d + (Len(w) - d) = Len(w)
        BY <1>1, <1>4, <3>1
      <4> QED
        BY <1>5, <4>1
    <3>3. /\ p.inflight_entries - w[Len(w)].entry_count < MaxInflightsReplicate
          /\ w[Len(w)].entry_count <= MaxInflightsReplicate
      BY <1>3, <3>1 DEF Limited, w
    <3>4. w[Len(w)].entry_count \in Nat
      <4>1. w[Len(w)] \in Batch
        BY <1>1, <1>4, <3>1
      <4> QED
        BY <4>1 DEF Batch
    <3>5. MaxInflightsReplicate \in Nat
      BY DEF PipelineAssumption
    <3>6. \A x, y, z, limit \in Nat : x = y + z =>
            \A c \in Nat : x - c < limit => z - c < limit
      OBVIOUS
    <3>7. restCounts - w[Len(w)].entry_count < MaxInflightsReplicate
      <4>1. p.inflight_entries \in Nat /\ counts \in Nat /\ restCounts \in Nat
        BY <1>6, <1>7
      <4> QED
        BY <1>7, <3>3, <3>4, <3>5, <3>6, <4>1
    <3> QED
      BY <1>8, <3>2, <3>3, <3>7
  <2> QED
    BY <1>2, <1>3, <2>2, <2>3 DEF Limited, q
<1>13. InOrder(w1, q, offered)
  <2>1. \A k \in DOMAIN w1 : w1[k] = w[d + k] /\ d + k \in DOMAIN w
    BY <1>1, <1>5, <1>9
  <2>2. \A j, k \in DOMAIN w1 : j < k => d + j < d + k
    <3>1. d \in Nat
      BY <1>4
    <3>2. \A k \in DOMAIN w1 : k \in Int
      BY <1>5
    <3> QED
      BY <3>1, <3>2
  <2> QED
    BY <1>3, <2>1, <2>2 DEF InOrder
<1>14. NoneLost(r, queued, Max({acked, m}))
  <2>1. Max({acked, m}) = IF acked >= m THEN acked ELSE m
    BY MaxPair
  <2> SUFFICES ASSUME NEW i \in queued, ~ (i <= Max({acked, m}))
               PROVE  Delivers(w1, q, i)
    BY <1>2 DEF NoneLost
  <2>2. i \in Nat /\ ~ (i <= acked) /\ ~ (i <= m)
    BY <2>1
  <2>3. Delivers(w, q, i)
    BY <1>3, <2>2 DEF NoneLost, q, w
  <2>4. CASE \E k \in DOMAIN w : w[k].first_index <= i /\ i <= w[k].last_index
    <3>1. PICK k \in DOMAIN w : w[k].first_index <= i /\ i <= w[k].last_index
      BY <2>4
    <3>2. w[k].last_index \in Nat
      <4>1. w[k] \in Batch
        BY <1>1
      <4> QED
        BY <4>1 DEF Batch
    <3>3. ~ (k <= d)
      <4>1. k <= d => k \in 1 .. d
        BY <1>1, <1>4
      <4> QED
        BY <1>4, <2>2, <3>1, <3>2, <4>1
    <3>4. k - d \in DOMAIN w1 /\ w1[k - d] = w[k]
      <4>1. k - d \in 1 .. Len(w) - d /\ d + (k - d) = k
        BY <1>1, <1>4, <3>3
      <4> QED
        BY <1>5, <4>1
    <3> QED
      BY <3>1, <3>4 DEF Delivers
  <2>5. CASE \E k \in DOMAIN q : q[k].index = i
    BY <2>5 DEF Delivers
  <2> QED
    BY <2>3, <2>4, <2>5 DEF Delivers
<1>15. FlagsAgree(r)
  BY <1>2, <1>3 DEF FlagsAgree, TransferActive
<1> QED
  BY <1>2, <1>10, <1>11, <1>12, <1>13, <1>14, <1>15 DEF r

--------------------------------------------------------------------------------
(***************************************************************************)
(* The operations that leave the window alone.                             *)
(***************************************************************************)
SameWindow(p, r) ==
  /\ DOMAIN r = DOMAIN p
  /\ r.append_queue = p.append_queue /\ r.inflight = p.inflight
  /\ r.inflight_entries = p.inflight_entries
  /\ r.inflight_bytes = p.inflight_bytes

SameTransfer(p, r) ==
  /\ r.snapshot_transfer = p.snapshot_transfer
  /\ r.snapshot_sending = p.snapshot_sending
  /\ r.snapshot_installing = p.snapshot_installing

\* Moving the indexes, the retry state or the reorder queue keeps the invariant.
LEMMA SameKeeps ==
  ASSUME NEW p, NEW r, PipeInv(p), SameWindow(p, r), SameTransfer(p, r)
  PROVE  PipeInv(r)
<1>1. PipeType(r)
  BY DEF PipeInv, PipeType, SameWindow, SameTransfer
<1>2. Accounted(r)
  BY DEF PipeInv, Accounted, SameWindow
<1>3. Limited(r)
  BY DEF PipeInv, Limited, QueuedBytes, SameWindow
<1>4. InOrder(r.inflight, r.append_queue, offered) /\ NoneLost(r, queued, acked)
  BY DEF PipeInv, NoneLost, SameWindow
<1>5. FlagsAgree(r)
  BY DEF PipeInv, FlagsAgree, TransferActive, SameTransfer
<1> QED
  BY <1>1, <1>2, <1>3, <1>4, <1>5 DEF PipeInv

\* A transfer whose flags agree with it keeps the invariant.
LEMMA TransferKeeps ==
  ASSUME NEW p, NEW r, PipeInv(p), SameWindow(p, r), FlagsAgree(r),
         r.snapshot_transfer \in Transfer \cup {None},
         r.snapshot_sending \in BOOLEAN, r.snapshot_installing \in BOOLEAN
  PROVE  PipeInv(r)
<1>1. PipeType(r)
  BY DEF PipeInv, PipeType, SameWindow
<1>2. Accounted(r)
  BY DEF PipeInv, Accounted, SameWindow
<1>3. Limited(r)
  BY DEF PipeInv, Limited, QueuedBytes, SameWindow
<1>4. InOrder(r.inflight, r.append_queue, offered) /\ NoneLost(r, queued, acked)
  BY DEF PipeInv, NoneLost, SameWindow
<1> QED
  BY <1>1, <1>2, <1>3, <1>4 DEF PipeInv

\* drain_reorder_queue and the paths that lead to it.
LEMMA ReorderKeeps ==
  ASSUME NEW p, DOMAIN p = DOMAIN NewPipeline(1)
  PROVE  /\ LET r == DrainReorderQueue(p)
            IN  SameWindow(p, r) /\ SameTransfer(p, r)
         /\ \A i : LET r == ReceiveOutOfOrder(p, i)
                   IN  SameWindow(p, r) /\ SameTransfer(p, r)
         /\ LET r == ExpireReorderQueue(p)
            IN  SameWindow(p, r) /\ SameTransfer(p, r)
<1>1. ASSUME NEW s, DOMAIN s = DOMAIN NewPipeline(1)
      PROVE  LET r == DrainReorderQueue(s)
             IN  SameWindow(s, r) /\ SameTransfer(s, r)
  BY <1>1 DEF DrainReorderQueue, NewPipeline, SameWindow, SameTransfer
<1>2. ASSUME NEW i
      PROVE  LET r == ReceiveOutOfOrder(p, i)
             IN  SameWindow(p, r) /\ SameTransfer(p, r)
  <2> DEFINE s == [p EXCEPT !.match_index = i, !.next_index = i + 1]
             parked == [p EXCEPT !.reorder_queue = @ \cup {i}]
  <2>1. /\ DOMAIN s = DOMAIN NewPipeline(1)
        /\ SameWindow(p, s) /\ SameTransfer(p, s)
    BY DEF NewPipeline, SameWindow, SameTransfer
  <2>2. SameWindow(p, parked) /\ SameTransfer(p, parked)
    BY DEF NewPipeline, SameWindow, SameTransfer
  <2>3. ReceiveOutOfOrder(p, i) = IF i = p.next_index THEN DrainReorderQueue(s) ELSE parked
    BY DEF ReceiveOutOfOrder
  <2> HIDE DEF s, parked
  <2>4. SameWindow(p, DrainReorderQueue(s)) /\ SameTransfer(p, DrainReorderQueue(s))
    <3>1. SameWindow(s, DrainReorderQueue(s)) /\ SameTransfer(s, DrainReorderQueue(s))
      BY <1>1, <2>1
    <3> QED
      BY <2>1, <3>1 DEF SameWindow, SameTransfer
  <2> QED
    BY <2>2, <2>3, <2>4
<1>3. LET r == ExpireReorderQueue(p)
      IN  SameWindow(p, r) /\ SameTransfer(p, r)
  BY DEF ExpireReorderQueue, NewPipeline, SameWindow, SameTransfer
<1> QED
  BY <1>1, <1>2, <1>3

\* handle_append_success releases the window through match_index and keeps the
\* invariant with match_index acknowledged.
LEMMA SuccessKeeps ==
  ASSUME PipelineAssumption, PipelineInv, NEW m \in Nat,
         pipe' = HandleAppendSuccess(pipe, m), acked' = Max({acked, m}),
         UNCHANGED <<offered, queued>>
  PROVE  PipeInv(pipe)'
<1> DEFINE matched == Max({pipe.match_index, m})
           moved == [pipe EXCEPT !.match_index = matched, !.next_index = matched + 1]
           released == ReleaseInflightThrough(moved, m)
           drained == DrainReorderQueue(released)
<1>1. PipeInv(pipe) /\ DOMAIN pipe = DOMAIN NewPipeline(1)
  BY DEF PipelineInv, PipeInv, PipeType
<1>2. SameWindow(pipe, moved) /\ SameTransfer(pipe, moved)
  <2> HIDE DEF matched
  <2> QED
    BY <1>1 DEF NewPipeline, SameWindow, SameTransfer
<1>3. pipe' = [drained EXCEPT !.retry_attempts = 0, !.backoff_ms = 0,
                              !.next_retry_after_ms = 0]
  BY DEF HandleAppendSuccess
<1> HIDE DEF moved
<1>4. PipeInv(moved)
  BY <1>1, <1>2, SameKeeps
<1>5. /\ PipeType(released) /\ Accounted(released) /\ Limited(released)
      /\ FlagsAgree(released)
      /\ InOrder(released.inflight, released.append_queue, offered)
      /\ NoneLost(released, queued, Max({acked, m}))
  BY <1>4, ReleaseKeeps DEF PipelineInv
<1> HIDE DEF released
<1>6. SameWindow(released, drained) /\ SameTransfer(released, drained)
  BY <1>5, ReorderKeeps DEF PipeType
<1> HIDE DEF drained
<1>7. SameWindow(released, pipe') /\ SameTransfer(released, pipe')
  BY <1>3, <1>5, <1>6 DEF PipeType, NewPipeline, SameWindow, SameTransfer
<1>8. PipeType(pipe')
  BY <1>5, <1>7 DEF PipeType, SameWindow, SameTransfer
<1>9. Accounted(pipe')
  BY <1>5, <1>7 DEF Accounted, SameWindow
<1>10. Limited(pipe')
  BY <1>5, <1>7 DEF Limited, QueuedBytes, SameWindow
<1>11. InOrder(pipe'.inflight, pipe'.append_queue, offered')
  BY <1>5, <1>7 DEF SameWindow
<1>12. NoneLost(pipe', queued', acked')
  BY <1>5, <1>7 DEF NoneLost, SameWindow
<1>13. FlagsAgree(pipe')
  BY <1>5, <1>7 DEF FlagsAgree, TransferActive, SameTransfer
<1> QED
  BY <1>8, <1>9, <1>10, <1>11, <1>12, <1>13 DEF PipeInv

\* Beginning a transfer, when none is flagged.
LEMMA BeginKeeps ==
  ASSUME PipelineAssumption, NEW p, PipeInv(p), NEW i \in Nat, NEW n \in Nat,
         BeginSnapshotAccepts(p)
  PROVE  PipeInv(BeginSnapshotSend(p, i, n)) /\ PipeInv(BeginSnapshotInstall(p, i, n))
<1> DEFINE s == BeginSnapshotSend(p, i, n)
           r == BeginSnapshotInstall(p, i, n)
<1>1. NewTransfer(i, n) \in Transfer /\ NewTransfer(i, n) # None
  <2>1. NewTransfer(i, n) \in Transfer
    BY DEF NewTransfer, Transfer
  <2> QED
    BY <2>1 DEF PipelineAssumption, Transfer
<1>2. PipeType(p)
  BY DEF PipeInv
<1>3. /\ SameWindow(p, s) /\ s.snapshot_transfer = NewTransfer(i, n)
      /\ s.snapshot_sending = TRUE /\ s.snapshot_installing = p.snapshot_installing
  BY <1>2 DEF BeginSnapshotSend, PipeType, NewPipeline, SameWindow
<1>4. /\ SameWindow(p, r) /\ r.snapshot_transfer = NewTransfer(i, n)
      /\ r.snapshot_installing = TRUE /\ r.snapshot_sending = p.snapshot_sending
  BY <1>2 DEF BeginSnapshotInstall, PipeType, NewPipeline, SameWindow
<1> HIDE DEF s, r
<1>5. p.snapshot_sending = FALSE /\ p.snapshot_installing = FALSE
  BY <1>2 DEF BeginSnapshotAccepts, PipeType
<1>6. FlagsAgree(s) /\ FlagsAgree(r)
  BY <1>1, <1>3, <1>4, <1>5 DEF FlagsAgree, TransferActive
<1>7. PipeInv(s)
  BY <1>1, <1>3, <1>5, <1>6, TransferKeeps
<1>8. PipeInv(r)
  BY <1>1, <1>4, <1>5, <1>6, TransferKeeps
<1> QED
  BY <1>7, <1>8 DEF s, r

\* Counting a chunk of an active transfer.
LEMMA CountKeeps ==
  ASSUME PipelineAssumption, NEW p, PipeInv(p), TransferActive(p)
  PROVE  PipeInv(CountChunk(p))
<1> DEFINE r == CountChunk(p)
           t == p.snapshot_transfer
           t1 == [t EXCEPT !.acknowledged_chunks = @ + 1]
<1>1. PipeType(p) /\ t \in Transfer
  BY DEF PipeInv, PipeType, TransferActive
<1>2. t1 \in Transfer
  BY <1>1 DEF Transfer
<1>3. t1 # None
  BY <1>2 DEF PipelineAssumption, Transfer
<1>4. /\ SameWindow(p, r) /\ r.snapshot_transfer = t1
      /\ r.snapshot_sending = p.snapshot_sending
      /\ r.snapshot_installing = p.snapshot_installing
  BY <1>1 DEF CountChunk, PipeType, NewPipeline, SameWindow
<1> HIDE DEF r, t1
<1>5. FlagsAgree(r)
  BY <1>3, <1>4 DEF PipeInv, FlagsAgree, TransferActive
<1>6. PipeInv(r)
  BY <1>1, <1>2, <1>4, <1>5, TransferKeeps DEF PipeType
<1> QED
  BY <1>6 DEF r

\* Finishing a transfer, or rolling one back, clears the flags with it.
LEMMA FinishKeeps ==
  ASSUME NEW p, PipeInv(p)
  PROVE  PipeInv(FinishSnapshotInstall(p)) /\ PipeInv(RollbackSnapshotInstall(p))
<1> DEFINE f == FinishSnapshotInstall(p)
           r == RollbackSnapshotInstall(p)
<1>1. DOMAIN p = DOMAIN NewPipeline(1)
  BY DEF PipeInv, PipeType
<1>2. /\ SameWindow(p, f) /\ f.snapshot_transfer = None
      /\ f.snapshot_sending = FALSE /\ f.snapshot_installing = FALSE
  BY <1>1 DEF FinishSnapshotInstall, NewPipeline, SameWindow
<1>3. /\ SameWindow(p, r) /\ r.snapshot_transfer = None
      /\ r.snapshot_sending = FALSE /\ r.snapshot_installing = FALSE
  BY <1>1 DEF RollbackSnapshotInstall, NewPipeline, SameWindow
<1> HIDE DEF f, r
<1>4. FlagsAgree(f) /\ FlagsAgree(r)
  BY <1>2, <1>3 DEF FlagsAgree, TransferActive
<1>5. PipeInv(f)
  BY <1>2, <1>4, TransferKeeps
<1>6. PipeInv(r)
  BY <1>3, <1>4, TransferKeeps
<1> QED
  BY <1>5, <1>6 DEF f, r

\* The transfer steps together: a chunk counted, the last one, a rollback, and
\* install_snapshot_to over whatever transfer is active.
LEMMA TransferStepsKeep ==
  ASSUME PipelineAssumption, NEW p, PipeInv(p)
  PROVE  /\ TransferActive(p) =>
              /\ PipeInv(AcknowledgeSnapshotChunk(p))
              /\ \A done \in BOOLEAN : PipeInv(ReceiveSnapshotChunk(p, done))
         /\ \A i \in Nat : PipeInv(InstalledPipeline(p, i))
<1>1. ASSUME NEW r, PipeInv(r), TransferActive(r)
      PROVE  PipeInv(CountChunk(r)) /\ PipeInv(FinishSnapshotInstall(CountChunk(r)))
  <2>1. PipeInv(CountChunk(r))
    BY <1>1, CountKeeps
  <2> QED
    BY <2>1, FinishKeeps
<1>2. ASSUME TransferActive(p)
      PROVE  /\ PipeInv(AcknowledgeSnapshotChunk(p))
             /\ \A done \in BOOLEAN : PipeInv(ReceiveSnapshotChunk(p, done))
  BY <1>1, <1>2 DEF AcknowledgeSnapshotChunk, ReceiveSnapshotChunk
<1>3. ASSUME NEW i \in Nat PROVE PipeInv(InstalledPipeline(p, i))
  <2> DEFINE r == IF BeginSnapshotAccepts(p) THEN BeginSnapshotInstall(p, i, 1) ELSE p
  <2>1. PipeInv(r)
    BY BeginKeeps
  <2>2. TransferActive(r)
    <3>1. CASE BeginSnapshotAccepts(p)
      <4>1. r = BeginSnapshotInstall(p, i, 1)
        BY <3>1
      <4>2. DOMAIN p = DOMAIN NewPipeline(1)
        BY DEF PipeInv, PipeType
      <4>3. r.snapshot_installing
        BY <4>1, <4>2 DEF BeginSnapshotInstall, NewPipeline
      <4> QED
        BY <2>1, <4>3 DEF PipeInv, FlagsAgree
    <3>2. CASE ~ BeginSnapshotAccepts(p)
      BY <2>1, <3>2 DEF BeginSnapshotAccepts, PipeInv, FlagsAgree
    <3> QED
      BY <3>1, <3>2
  <2>3. InstalledPipeline(p, i) = FinishSnapshotInstall(CountChunk(r))
    BY DEF InstalledPipeline, ReceiveSnapshotChunk
  <2> HIDE DEF r
  <2> QED
    BY <1>1, <2>1, <2>2, <2>3
<1> QED
  BY <1>2, <1>3

--------------------------------------------------------------------------------
(***************************************************************************)
(* The theorems.                                                           *)
(***************************************************************************)
LEMMA InitInv ==
  ASSUME PipelineAssumption, Init
  PROVE  PipelineInv
<1>1. /\ pipe.append_queue = << >> /\ pipe.inflight = << >>
      /\ pipe.inflight_entries = 0 /\ pipe.inflight_bytes = 0
      /\ pipe.snapshot_transfer = None
      /\ pipe.snapshot_sending = FALSE /\ pipe.snapshot_installing = FALSE
      /\ DOMAIN pipe = DOMAIN NewPipeline(1)
  BY DEF Init, NewPipeline
<1>2. << >> \in Seq(QueueEntry) /\ << >> \in Seq(Batch) /\ Len(<< >>) = 0
      /\ DOMAIN << >> = {}
  OBVIOUS
<1>3. PipeType(pipe)
  BY <1>1, <1>2 DEF PipeType
<1>4. Accounted(pipe)
  BY <1>1, <1>2, SumNone DEF Accounted
<1>5. Limited(pipe)
  <2>1. QueuedBytes(pipe) = 0
    BY <1>1, <1>2, SumNone DEF QueuedBytes, PrefixBytes
  <2> QED
    BY <1>1, <1>2, <2>1 DEF Limited, PipelineAssumption
<1>6. InOrder(pipe.inflight, pipe.append_queue, offered)
  BY <1>1, <1>2 DEF InOrder
<1>7. NoneLost(pipe, queued, acked) /\ FlagsAgree(pipe)
  BY <1>1 DEF NoneLost, FlagsAgree, TransferActive, Init
<1> QED
  BY <1>3, <1>4, <1>5, <1>6, <1>7 DEF PipelineInv, PipeInv, Init

\* An action that changes the pipeline alone.
LEMMA PipeAlone ==
  ASSUME PipelineInv, UNCHANGED <<offered, queued, acked>>, NEW r, pipe' = r, PipeInv(r)
  PROVE  PipelineInv'
<1>1. PipeInv(r)'
  BY DEF PipeInv
<1> QED
  BY <1>1 DEF PipelineInv

\* Every step of the pipeline keeps the invariant.
LEMMA StepInv ==
  ASSUME PipelineAssumption, PipelineInv, [Next]_vars
  PROVE  PipelineInv'
<1>1. /\ PipeInv(pipe) /\ DOMAIN pipe = DOMAIN NewPipeline(1)
      /\ offered \in Nat /\ acked \in Nat /\ queued \in SUBSET Nat
  BY DEF PipelineInv, PipeInv, PipeType
<1>2. Index \subseteq Nat /\ SnapshotIndex \subseteq Nat
  BY DEF Index, PipelineAssumption
<1>3. ASSUME NEW payload \in Payload, Queue(payload) PROVE PipelineInv'
  <2> DEFINE e == [index |-> offered + 1, payload |-> payload]
  <2>1. offered' = offered + 1 /\ acked' = acked
    BY <1>3 DEF Queue
  <2>2. CASE /\ QueueAccepts(pipe, e)
             /\ pipe' = QueueAppend(pipe, e)
             /\ queued' = queued \cup {e.index}
    <3>1. PipeInv(pipe)'
      BY <2>1, <2>2, QueueKeeps
    <3>2. queued' \in SUBSET Nat
      BY <1>1, <2>2
    <3> QED
      BY <1>1, <2>1, <3>1, <3>2 DEF PipelineInv
  <2>3. CASE UNCHANGED <<pipe, queued>>
    <3>1. InOrder(pipe.inflight, pipe.append_queue, offered + 1)
      <4>1. InOrder(pipe.inflight, pipe.append_queue, offered)
        BY <1>1 DEF PipeInv
      <4>2. /\ \A k \in DOMAIN pipe.inflight : pipe.inflight[k].last_index \in Nat
            /\ \A k \in DOMAIN pipe.append_queue : pipe.append_queue[k].index \in Nat
        <5>1. /\ \A k \in DOMAIN pipe.inflight : pipe.inflight[k] \in Batch
              /\ \A k \in DOMAIN pipe.append_queue : pipe.append_queue[k] \in QueueEntry
          BY <1>1 DEF PipeInv, PipeType
        <5> QED
          BY <5>1 DEF Batch, QueueEntry
      <4>3. \A x \in Nat : x <= offered => x <= offered + 1
        BY <1>1
      <4> QED
        BY <4>1, <4>2, <4>3 DEF InOrder
    <3> QED
      BY <1>1, <2>1, <2>3, <3>1 DEF PipelineInv, PipeInv, NoneLost
  <2> QED
    BY <1>3, <2>2, <2>3 DEF Queue
<1>4. ASSUME NEW n \in BatchEntries, Flush(n) PROVE PipelineInv'
  BY <1>1, <1>4, FlushKeeps, PipeAlone DEF Flush
<1>5. ASSUME FlushWindow PROVE PipelineInv'
  BY <1>1, <1>5, FlushKeeps, PipeAlone DEF FlushWindow
<1>6. ASSUME NEW m \in Index, Accepted(m) PROVE PipelineInv'
  <2>1. m \in Nat
    BY <1>2
  <2>2. PipeInv(pipe)'
    BY <1>6, <2>1, SuccessKeeps DEF Accepted
  <2>3. acked' \in Nat
    BY <1>1, <1>6, <2>1, MaxPair DEF Accepted
  <2> QED
    BY <1>1, <1>6, <2>2, <2>3 DEF Accepted, PipelineInv
<1>7. ASSUME NEW hint \in Index \cup {None}, Rejected(hint) PROVE PipelineInv'
  <2>1. SameWindow(pipe, pipe') /\ SameTransfer(pipe, pipe')
    BY <1>1, <1>7 DEF Rejected, HandleAppendRejection, NewPipeline,
                      SameWindow, SameTransfer
  <2> QED
    BY <1>1, <1>7, <2>1, SameKeeps, PipeAlone DEF Rejected
<1>8. ASSUME NEW ms \in TickMs, Tick(ms) PROVE PipelineInv'
  <2>1. SameWindow(pipe, pipe') /\ SameTransfer(pipe, pipe')
    BY <1>1, <1>8 DEF Tick, RecordRetryBackoffTick, NewPipeline,
                      SameWindow, SameTransfer
  <2> QED
    BY <1>1, <1>8, <2>1, SameKeeps, PipeAlone DEF Tick
<1>9. ASSUME NEW i \in Index, OutOfOrder(i) PROVE PipelineInv'
  <2>1. SameWindow(pipe, pipe') /\ SameTransfer(pipe, pipe')
    BY <1>1, <1>9, ReorderKeeps DEF OutOfOrder
  <2> QED
    BY <1>1, <1>9, <2>1, SameKeeps, PipeAlone DEF OutOfOrder
<1>10. ASSUME Expire PROVE PipelineInv'
  <2>1. SameWindow(pipe, pipe') /\ SameTransfer(pipe, pipe')
    BY <1>1, <1>10, ReorderKeeps DEF Expire
  <2> QED
    BY <1>1, <1>10, <2>1, SameKeeps, PipeAlone DEF Expire
<1>11. ASSUME NEW i \in SnapshotIndex, NEW n \in 0 .. MaxChunks, BeginSend(i, n)
       PROVE  PipelineInv'
  <2>1. i \in Nat /\ n \in Nat
    BY <1>2 DEF PipelineAssumption
  <2> QED
    BY <1>1, <1>11, <2>1, BeginKeeps, PipeAlone DEF BeginSend
<1>12. ASSUME NEW i \in SnapshotIndex, NEW n \in 0 .. MaxChunks, BeginInstall(i, n)
       PROVE  PipelineInv'
  <2>1. i \in Nat /\ n \in Nat
    BY <1>2 DEF PipelineAssumption
  <2> QED
    BY <1>1, <1>12, <2>1, BeginKeeps, PipeAlone DEF BeginInstall
<1>13. ASSUME AcknowledgeChunk PROVE PipelineInv'
  BY <1>1, <1>13, TransferStepsKeep, PipeAlone DEF AcknowledgeChunk
<1>14. ASSUME NEW done \in BOOLEAN, ReceiveChunk(done) PROVE PipelineInv'
  BY <1>1, <1>14, TransferStepsKeep, PipeAlone DEF ReceiveChunk
<1>15. ASSUME NEW i \in SnapshotIndex, Install(i) PROVE PipelineInv'
  BY <1>1, <1>2, <1>15, TransferStepsKeep, PipeAlone DEF Install
<1>16. ASSUME Rollback PROVE PipelineInv'
  BY <1>1, <1>16, FinishKeeps, PipeAlone DEF Rollback
<1>17. ASSUME UNCHANGED vars PROVE PipelineInv'
  BY <1>1, <1>17 DEF vars, PipelineInv, PipeInv, NoneLost
<1> QED
  BY <1>3, <1>4, <1>5, <1>6, <1>7, <1>8, <1>9, <1>10, <1>11, <1>12, <1>13,
     <1>14, <1>15, <1>16, <1>17 DEF Next

\* The invariant of the pipeline holds in every reachable state, for every
\* limit, payload size, batch size and order of responses.
THEOREM PipelineSafety == Spec => []PipelineInv
<1>1. Init => PipelineInv
  BY PipelineAssumption, InitInv
<1>2. PipelineInv /\ [Next]_vars => PipelineInv'
  BY PipelineAssumption, StepInv
<1> QED
  BY <1>1, <1>2, PTL DEF Spec

\* The counters of flush_append_batch and release_inflight_through are the sums
\* over the batches in flight.
THEOREM WindowAccounted == Spec => []InflightAccounting
<1>1. PipelineInv => InflightAccounting
  <2> SUFFICES ASSUME PipelineInv PROVE InflightAccounting
    OBVIOUS
  <2>1. DOMAIN pipe.inflight = 1 .. Len(pipe.inflight) /\ Accounted(pipe)
    BY DEF PipelineInv, PipeInv, PipeType
  <2>2. /\ DOMAIN Counts(pipe.inflight) = 1 .. Len(pipe.inflight)
        /\ DOMAIN Sizes(pipe.inflight) = 1 .. Len(pipe.inflight)
    BY <2>1 DEF Counts, Sizes
  <2>3. /\ pipe.inflight_entries = SumFunction(Counts(pipe.inflight))
        /\ pipe.inflight_bytes = SumFunction(Sizes(pipe.inflight))
    BY <2>1, <2>2 DEF Accounted, SumFunction
  <2> QED
    BY <2>3 DEF InflightAccounting, InflightSum, Counts, Sizes
<1> QED
  BY <1>1, PipelineSafety, PTL

\* queue_append and flush_append_batch keep the memory and window limits.
THEOREM PipelineLimits == Spec => []LimitsKept
<1>1. PipelineInv => LimitsKept
  BY DEF PipelineInv, PipeInv, Limited, LimitsKept
<1> QED
  BY <1>1, PipelineSafety, PTL

\* An accepted entry stays queued or in flight until a success response covers
\* it.
THEOREM EntriesKept == Spec => []NoEntryLost
<1>1. PipelineInv => NoEntryLost
  BY DEF PipelineInv, PipeInv, NoneLost, NoEntryLost, Delivers, Outstanding
<1> QED
  BY <1>1, PipelineSafety, PTL

\* Batches and queued entries stand in log order.
THEOREM EntriesInOrder == Spec => []WindowOrdered
<1>1. PipelineInv => WindowOrdered
  BY DEF PipelineInv, PipeInv, InOrder, WindowOrdered
<1> QED
  BY <1>1, PipelineSafety, PTL

\* The transfer flags and the transfer stay in step.
THEOREM TransfersExclusive == Spec => []TransferFlagsAgree
<1>1. PipelineInv => TransferFlagsAgree
  BY DEF PipelineInv, PipeInv, FlagsAgree, TransferFlagsAgree
<1> QED
  BY <1>1, PipelineSafety, PTL
================================================================================
