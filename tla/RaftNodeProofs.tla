---------------------------- MODULE RaftNodeProofs ----------------------------
(***************************************************************************)
(* What the operators of RaftNode return, for every log and every member:  *)
(* the facts the proofs about the cluster rest on.                         *)
(***************************************************************************)
EXTENDS RaftNode, FiniteSetTheorems, SequenceTheorems, WellFoundedInduction,
        TLAPS

(***************************************************************************)
(* Maxima and minima of sets of naturals.                                  *)
(***************************************************************************)

\* Max of two naturals is the larger one.
LEMMA MaxPair ==
  ASSUME NEW a \in Nat, NEW b \in Nat
  PROVE  Max({a, b}) = IF a >= b THEN a ELSE b
<1>1. ASSUME NEW x \in {a, b}, \A y \in {a, b} : x >= y
      PROVE  x = IF a >= b THEN a ELSE b
  BY <1>1
<1>2. (IF a >= b THEN a ELSE b) \in {x \in {a, b} : \A y \in {a, b} : x >= y}
  OBVIOUS
<1> QED
  BY <1>1, <1>2 DEF Max

\* Min of two naturals is the smaller one.
LEMMA MinPair ==
  ASSUME NEW a \in Nat, NEW b \in Nat
  PROVE  Min({a, b}) = IF a <= b THEN a ELSE b
<1>1. ASSUME NEW x \in {a, b}, \A y \in {a, b} : x =< y
      PROVE  x = IF a <= b THEN a ELSE b
  BY <1>1
<1>2. (IF a <= b THEN a ELSE b) \in {x \in {a, b} : \A y \in {a, b} : x =< y}
  OBVIOUS
<1> QED
  BY <1>1, <1>2 DEF Min

\* A nonempty set of naturals has a least element, and Min is it.
LEMMA MinNat ==
  ASSUME NEW S \in SUBSET Nat, S # {}
  PROVE  Min(S) \in S /\ \A y \in S : Min(S) <= y
<1> DEFINE less == {p \in Nat \X Nat : p[1] < p[2]}
<1>1. IsWellFoundedOn(less, Nat)
  BY NatLessThanWellFounded DEF OpToRel
<1> HIDE DEF less
<1>2. PICK x \in S : \A y \in S : ~ (<<y, x>> \in less)
  BY <1>1, WFMin
<1>3. ASSUME NEW y \in S PROVE x <= y
  <2>1. x \in Nat /\ y \in Nat /\ <<y, x>> \in Nat \X Nat
    OBVIOUS
  <2>2. <<y, x>> \notin less
    BY <1>2
  <2>3. ~ (<<y, x>>[1] < <<y, x>>[2])
    BY <2>1, <2>2 DEF less
  <2> QED
    BY <2>1, <2>3
<1> QED
  BY <1>3 DEF Min

\* A nonempty bounded set of naturals has a greatest element, and Max is it.
LEMMA MaxNat ==
  ASSUME NEW S \in SUBSET Nat, S # {}, NEW b \in Nat, \A y \in S : y <= b
  PROVE  Max(S) \in S /\ \A y \in S : y <= Max(S)
<1> DEFINE U == {u \in Nat : \A y \in S : y <= u}
           m == Min(U)
<1>1. m \in U /\ \A u \in U : m <= u
  <2>1. U \in SUBSET Nat /\ b \in U
    OBVIOUS
  <2> QED
    BY <2>1, MinNat
<1>2. m \in S
  <2>1. SUFFICES ASSUME m \notin S PROVE FALSE
    OBVIOUS
  <2>2. PICK s \in S : TRUE
    OBVIOUS
  <2>3. \A y \in S : y < m
    BY <1>1, <2>1
  <2>4. m - 1 \in U
    BY <1>1, <2>2, <2>3
  <2> QED
    BY <1>1, <2>4
<1>3. m \in S /\ \A y \in S : m >= y
  BY <1>1, <1>2
<1>4. ASSUME NEW x \in S, \A y \in S : x >= y
      PROVE  \A y \in S : y <= x
  BY <1>4
<1> QED
  BY <1>3, <1>4 DEF Max

\* Induction on naturals, for a set of naturals.
LEMMA NatSet ==
  ASSUME NEW S \in SUBSET Nat, 0 \in S, \A n \in S : n + 1 \in S
  PROVE  \A n \in Nat : n \in S
<1> DEFINE U == Nat \ S
<1>1. CASE U = {}
  BY <1>1
<1>2. CASE U # {}
  <2> DEFINE m == Min(U)
  <2>1. m \in U /\ \A y \in U : m <= y
    <3>1. U \in SUBSET Nat
      OBVIOUS
    <3> HIDE DEF U
    <3> QED
      BY <1>2, <3>1, MinNat
  <2>2. m \in Nat /\ m # 0 /\ m - 1 \in Nat
    BY <2>1
  <2>3. m - 1 \in S
    BY <2>1, <2>2
  <2>4. m \in S
    BY <2>2, <2>3
  <2> QED
    BY <2>1, <2>4
<1> QED
  BY <1>1, <1>2

\* The maximum of a finite set of naturals.
LEMMA MaxFinite ==
  ASSUME NEW S \in SUBSET Nat, S # {}, IsFiniteSet(S)
  PROVE  Max(S) \in S /\ \A y \in S : y <= Max(S)
<1> DEFINE N == {n \in Nat : \A T \in SUBSET S :
                   Cardinality(T) = n => \E b \in Nat : \A y \in T : y <= b}
<1>1. \A T \in SUBSET S : IsFiniteSet(T) /\ Cardinality(T) \in Nat
                            /\ (Cardinality(T) = 0 <=> T = {})
  BY FS_Subset, FS_CardinalityType, FS_EmptySet
<1>2. 0 \in N
  BY <1>1
<1>3. ASSUME NEW n \in N PROVE n + 1 \in N
  <2> SUFFICES ASSUME NEW T \in SUBSET S, Cardinality(T) = n + 1
               PROVE  \E b \in Nat : \A y \in T : y <= b
    OBVIOUS
  <2>1. T # {}
    BY <1>1
  <2>2. PICK x \in T : TRUE
    BY <2>1
  <2>3. T \ {x} \in SUBSET S /\ Cardinality(T \ {x}) = n
    <3>1. Cardinality(T \ {x}) = Cardinality(T) - 1
      BY <1>1, FS_RemoveElement
    <3> QED
      BY <3>1
  <2>4. PICK b \in Nat : \A y \in T \ {x} : y <= b
    BY <2>3
  <2>5. b + x \in Nat /\ \A y \in T : y <= b + x
    BY <2>4
  <2> QED
    BY <2>5
<1>4. \A n \in Nat : n \in N
  <2>1. N \in SUBSET Nat
    OBVIOUS
  <2> HIDE DEF N
  <2> QED
    BY <1>2, <1>3, <2>1, NatSet
<1>5. \E b \in Nat : \A y \in S : y <= b
  BY <1>1, <1>4
<1> QED
  BY <1>5, MaxNat

\* The elements of a finite set of naturals can be numbered in their order.
LEMMA Numbered ==
  ASSUME NEW S \in SUBSET Nat, IsFiniteSet(S), NEW j \in 1 .. Cardinality(S)
  PROVE  \E k \in S : Cardinality({m \in S : m <= k}) = j
<1> DEFINE upTo(T, k) == {m \in T : m <= k}
           N == {n \in Nat : \A T \in SUBSET S : Cardinality(T) = n =>
                   \A i \in 1 .. n : \E k \in T : Cardinality(upTo(T, k)) = i}
<1>0. N \in SUBSET Nat
  OBVIOUS
<1>1. \A T \in SUBSET S : IsFiniteSet(T) /\ Cardinality(T) \in Nat
                            /\ (Cardinality(T) = 0 <=> T = {})
  BY FS_Subset, FS_CardinalityType, FS_EmptySet
<1>2. 0 \in N
  OBVIOUS
<1>3. ASSUME NEW n \in N PROVE n + 1 \in N
  <2> SUFFICES ASSUME NEW T \in SUBSET S, Cardinality(T) = n + 1,
                      NEW i \in 1 .. n + 1
               PROVE  \E k \in T : Cardinality(upTo(T, k)) = i
    OBVIOUS
  <2> DEFINE p == Max(T)
             R == T \ {p}
  <2>1. p \in T /\ \A y \in T : y <= p
    <3>1. T \in SUBSET Nat /\ T # {} /\ IsFiniteSet(T)
      BY <1>1
    <3> QED
      BY <3>1, MaxFinite
  <2> HIDE DEF p
  <2>2. R \in SUBSET S /\ Cardinality(R) = n
    <3>1. Cardinality(T \ {p}) = Cardinality(T) - 1
      BY <1>1, <2>1, FS_RemoveElement
    <3> HIDE DEF N
    <3>2. n \in Nat
      BY <1>0, <1>3
    <3>3. Cardinality(T \ {p}) = n
      BY <3>1, <3>2
    <3>4. T \ {p} \in SUBSET S
      OBVIOUS
    <3> QED
      BY <3>3, <3>4
  <2>3. CASE i = n + 1
    <3>1. upTo(T, p) = T
      BY <2>1
    <3> HIDE DEF upTo
    <3> QED
      BY <2>1, <2>3, <3>1
  <2>4. CASE i \in 1 .. n
    <3>1. PICK k \in R : Cardinality(upTo(R, k)) = i
      BY <2>2, <2>4
    <3>2. upTo(T, k) = upTo(R, k)
      <4>1. k \in T /\ k # p /\ k \in Nat /\ p \in Nat /\ k <= p
        BY <2>1
      <4>2. ~ (p <= k)
        BY <4>1
      <4> QED
        BY <4>2
    <3> HIDE DEF upTo
    <3> QED
      BY <3>1, <3>2
  <2> QED
    BY <2>3, <2>4
<1>4. \A n \in Nat : n \in N
  <2> HIDE DEF N
  <2> QED
    BY <1>0, <1>2, <1>3, NatSet
<1>5. Cardinality(S) \in N
  BY <1>1, <1>4
<1> QED
  BY <1>5

--------------------------------------------------------------------------------
(***************************************************************************)
(* Ordered logs: sequences over any set E of entries with an index.        *)
(***************************************************************************)

\* The last entry of an ordered log has the highest index.
LEMMA LastIndexIsHighest ==
  ASSUME NEW E, \A e \in E : e.index \in Nat,
         NEW log \in Seq(E), Ordered(log)
  PROVE  /\ LastIndex(log) \in Nat
         /\ \A k \in DOMAIN log : log[k].index <= LastIndex(log)
<1>1. CASE log = << >>
  BY <1>1 DEF LastIndex
<1>2. CASE log # << >>
  <2>1. Len(log) \in DOMAIN log /\ DOMAIN log = 1 .. Len(log) /\ Len(log) \in Nat
    BY <1>2, LenProperties, EmptySeq
  <2>2. \A k \in DOMAIN log : log[k] \in E
    BY ElementOfSeq, LenProperties
  <2> QED
    BY <1>2, <2>1, <2>2 DEF LastIndex, Ordered
<1> QED
  BY <1>1, <1>2

\* append_entry pushes an entry whose index is above all others and the log
\* stays ordered.
LEMMA AppendEntryPushes ==
  ASSUME NEW E, \A e \in E : e.index \in Nat,
         NEW log \in Seq(E), Ordered(log),
         NEW e \in E, e.index > LastIndex(log)
  PROVE  /\ AppendEntry(log, e) = Append(log, e)
         /\ AppendEntry(log, e) \in Seq(E)
         /\ Ordered(AppendEntry(log, e))
         /\ LastIndex(AppendEntry(log, e)) = e.index
<1>1. /\ LastIndex(log) \in Nat
      /\ \A k \in DOMAIN log : log[k].index <= LastIndex(log)
  BY LastIndexIsHighest
<1>2. \A k \in DOMAIN log : log[k] \in E /\ log[k].index \in Nat
  BY ElementOfSeq, LenProperties
<1>3. AppendEntry(log, e) = Append(log, e)
  <2>1. {k \in DOMAIN log : log[k].index = e.index} = {}
    BY <1>1, <1>2
  <2> QED
    BY <2>1 DEF AppendEntry
<1> DEFINE longer == Append(log, e)
<1>4. /\ longer \in Seq(E)
      /\ Len(longer) = Len(log) + 1
      /\ DOMAIN longer = 1 .. (Len(log) + 1) /\ DOMAIN log = 1 .. Len(log)
      /\ Len(log) \in Nat
      /\ \A k \in 1 .. Len(log) : longer[k] = log[k]
      /\ longer[Len(log) + 1] = e
  BY AppendProperties, LenProperties
<1> HIDE DEF longer
<1>5. LastIndex(longer) = e.index
  <2>1. longer # << >>
    BY <1>4, EmptySeq
  <2> QED
    BY <1>4, <2>1 DEF LastIndex
<1>6. Ordered(longer)
  <2> SUFFICES ASSUME NEW j \in DOMAIN longer, NEW k \in DOMAIN longer, j < k
               PROVE  longer[j].index < longer[k].index
    BY DEF Ordered
  <2>1. CASE k = Len(log) + 1
    BY <1>1, <1>2, <1>4, <2>1
  <2>2. CASE k \in 1 .. Len(log)
    BY <1>4, <2>2 DEF Ordered
  <2> QED
    BY <1>4, <2>1, <2>2
<1> QED
  BY <1>3, <1>4, <1>5, <1>6 DEF longer

\* Filtering an ordered log by index returns its entries above the index, all of
\* them and in order.
LEMMA EntriesAboveOrdered ==
  ASSUME NEW E, \A e \in E : e.index \in Nat,
         NEW log \in Seq(E), Ordered(log), NEW index \in Nat
  PROVE  /\ EntriesAbove(log, index) \in Seq(E)
         /\ Ordered(EntriesAbove(log, index))
         /\ \A k \in DOMAIN EntriesAbove(log, index) :
              /\ EntriesAbove(log, index)[k].index > index
              /\ \E j \in DOMAIN log : EntriesAbove(log, index)[k] = log[j]
         /\ \A k \in DOMAIN log : log[k].index > index =>
              \E j \in DOMAIN EntriesAbove(log, index) : EntriesAbove(log, index)[j] = log[k]
<1> DEFINE n == Len(log)
           kept == {k \in DOMAIN log : log[k].index > index}
           nth(j) == CHOOSE k \in kept : Cardinality({m \in kept : m <= k}) = j
           above == [j \in 1 .. Cardinality(kept) |-> log[nth(j)]]
<1>1. /\ n \in Nat /\ DOMAIN log = 1 .. n
      /\ \A k \in DOMAIN log : log[k] \in E /\ log[k].index \in Nat
  BY ElementOfSeq, LenProperties
<1>2. EntriesAbove(log, index) = above
  BY DEF EntriesAbove
<1>3. CASE kept = {}
  <2>1. Cardinality(kept) = 0
    BY <1>3, FS_EmptySet
  <2> HIDE DEF nth, kept
  <2>2. above = [j \in 1 .. 0 |-> log[nth(j)]]
    BY <2>1
  <2> HIDE DEF above
  <2>3. above \in Seq(E) /\ DOMAIN above = {}
    BY <2>2
  <2>4. \A k \in DOMAIN log : ~ (log[k].index > index)
    BY <1>3 DEF kept
  <2> QED
    BY <1>2, <2>3, <2>4 DEF Ordered
<1>4. CASE kept # {}
  <2> DEFINE p == Min(kept)
  <2>1. p \in kept /\ \A k \in kept : p <= k
    <3>1. kept \in SUBSET Nat
      BY <1>1
    <3> HIDE DEF kept
    <3> QED
      BY <1>4, <3>1, MinNat
  <2> HIDE DEF p
  <2>2. kept = p .. n
    <3>1. \A k \in p .. n : k \in kept
      <4> SUFFICES ASSUME NEW k \in p .. n PROVE k \in kept
        OBVIOUS
      <4>1. k \in DOMAIN log /\ p \in DOMAIN log /\ log[p].index > index
        BY <1>1, <2>1
      <4>2. k = p \/ log[p].index < log[k].index
        BY <1>1, <4>1 DEF Ordered
      <4> QED
        BY <1>1, <4>1, <4>2
    <3> QED
      BY <1>1, <2>1, <3>1
  <2>3. p \in 1 .. n
    BY <1>1, <2>1
  <2> HIDE DEF kept
  <2>4. Cardinality(kept) = n - p + 1
    BY <1>1, <2>2, <2>3, FS_Interval
  <2>5. ASSUME NEW k \in kept
        PROVE  Cardinality({m \in kept : m <= k}) = k - p + 1
    <3>1. {m \in kept : m <= k} = p .. k
      BY <1>1, <2>2, <2>3
    <3>2. p \in Int /\ k \in Int /\ p <= k
      BY <1>1, <2>2, <2>3
    <3>3. Cardinality(p .. k) = k - p + 1
      BY <3>2, FS_Interval
    <3> QED
      BY <3>1, <3>3
  <2>6. ASSUME NEW j \in 1 .. (n - p + 1)
        PROVE  nth(j) = p + j - 1
    <3>1. p + j - 1 \in kept
      BY <1>1, <2>2, <2>3
    <3>2. Cardinality({m \in kept : m <= p + j - 1}) = j
      BY <1>1, <2>3, <2>5, <3>1
    <3>3. \A k \in kept : Cardinality({m \in kept : m <= k}) = j => k = p + j - 1
      BY <1>1, <2>2, <2>3, <2>5
    <3> QED
      BY <3>1, <3>2, <3>3
  <2> HIDE DEF nth
  <2>7. above = [j \in 1 .. (n - p + 1) |-> log[p + j - 1]]
    BY <2>4, <2>6
  <2>8. \A j \in 1 .. (n - p + 1) :
          /\ p + j - 1 \in DOMAIN log
          /\ log[p + j - 1].index > index
    BY <1>1, <2>2, <2>3 DEF kept
  <2> HIDE DEF above
  <2>9. above \in Seq(E) /\ DOMAIN above = 1 .. (n - p + 1)
    <3>1. n - p + 1 \in Nat
      BY <1>1, <2>3
    <3>2. \A j \in 1 .. (n - p + 1) : log[p + j - 1] \in E
      BY <1>1, <2>8
    <3> QED
      BY <2>7, <3>1, <3>2, IsASeq
  <2>10. Ordered(above)
    <3> SUFFICES ASSUME NEW j \in 1 .. (n - p + 1), NEW k \in 1 .. (n - p + 1),
                        j < k
                 PROVE  above[j].index < above[k].index
      BY <2>9 DEF Ordered
    <3>1. p + j - 1 < p + k - 1
      BY <2>3, <1>1
    <3> QED
      BY <2>7, <2>8, <3>1 DEF Ordered
  <2>11. ASSUME NEW k \in DOMAIN log, log[k].index > index
         PROVE  \E j \in DOMAIN above : above[j] = log[k]
    <3>1. k \in p .. n
      BY <2>2, <2>11 DEF kept
    <3> DEFINE j == k - p + 1
    <3>2. j \in 1 .. (n - p + 1) /\ p + j - 1 = k
      BY <1>1, <2>3, <3>1
    <3> HIDE DEF j
    <3> QED
      BY <2>7, <2>9, <3>2
  <2> QED
    BY <1>2, <2>7, <2>8, <2>9, <2>10, <2>11
<1> QED
  BY <1>3, <1>4

\* The entries of a log stay where they are.
Prolongs(longer, log) ==
  \A k \in DOMAIN log : k \in DOMAIN longer /\ longer[k] = log[k]

\* Every entry is one of the log's or of the batch.
MadeOf(longer, log, es) ==
  \A k \in DOMAIN longer : \/ \E j \in DOMAIN log : longer[k] = log[j]
                           \/ \E j \in DOMAIN es : longer[k] = es[j]

\* Appending an ordered batch that starts above the log's last index only
\* pushes: the log stays ordered and never gets a lower last index.
LEMMA AppendEntriesPushes ==
  ASSUME NEW E, \A e \in E : e.index \in Nat,
         NEW log \in Seq(E), Ordered(log),
         NEW es \in Seq(E), Ordered(es),
         \A k \in DOMAIN es : es[k].index > LastIndex(log)
  PROVE  /\ AppendEntries(log, es) = log \o es
         /\ AppendEntries(log, es) \in Seq(E)
         /\ Ordered(AppendEntries(log, es))
         /\ LastIndex(AppendEntries(log, es)) >= LastIndex(log)
         /\ Prolongs(AppendEntries(log, es), log)
         /\ MadeOf(AppendEntries(log, es), log, es)
<1>1. /\ LastIndex(log) \in Nat
      /\ \A k \in DOMAIN log : log[k].index <= LastIndex(log)
  BY LastIndexIsHighest
<1>2. /\ \A k \in DOMAIN log : log[k] \in E /\ log[k].index \in Nat
      /\ \A k \in DOMAIN es : es[k] \in E /\ es[k].index \in Nat
      /\ Len(log) \in Nat /\ DOMAIN log = 1 .. Len(log)
      /\ Len(es) \in Nat /\ DOMAIN es = 1 .. Len(es)
  BY ElementOfSeq, LenProperties
<1>3. /\ \A i \in DOMAIN es, k \in DOMAIN log : log[k].index # es[i].index
      /\ \A i, j \in DOMAIN es : es[i].index = es[j].index => i = j
  <2>1. \A i \in DOMAIN es, k \in DOMAIN log : log[k].index # es[i].index
    BY <1>1, <1>2
  <2>2. ASSUME NEW i \in DOMAIN es, NEW j \in DOMAIN es,
               es[i].index = es[j].index, i # j
        PROVE  FALSE
    <3>1. i < j \/ j < i
      BY <1>2, <2>2
    <3> QED
      BY <1>2, <2>2, <3>1 DEF Ordered
  <2> QED
    BY <2>1, <2>2
<1>4. AppendEntries(log, es) = log \o es
  BY <1>3 DEF AppendEntries
<1> DEFINE both == log \o es
<1>5. /\ both \in Seq(E)
      /\ Len(both) = Len(log) + Len(es)
      /\ DOMAIN both = 1 .. (Len(log) + Len(es))
      /\ \A k \in 1 .. Len(log) : both[k] = log[k]
      /\ \A k \in (Len(log) + 1) .. (Len(log) + Len(es)) :
           both[k] = es[k - Len(log)] /\ k - Len(log) \in DOMAIN es
  <2>1. both \in Seq(E) /\ Len(both) = Len(log) + Len(es)
    BY ConcatProperties
  <2>2. \A k \in 1 .. (Len(log) + Len(es)) :
          both[k] = IF k <= Len(log) THEN log[k] ELSE es[k - Len(log)]
    BY ConcatProperties
  <2>3. DOMAIN both = 1 .. Len(both)
    BY <2>1, LenProperties
  <2> QED
    BY <1>2, <2>1, <2>2, <2>3
<1> HIDE DEF both
<1>6. Ordered(both)
  <2> SUFFICES ASSUME NEW j \in DOMAIN both, NEW k \in DOMAIN both, j < k
               PROVE  both[j].index < both[k].index
    BY DEF Ordered
  <2>1. CASE k <= Len(log)
    <3>1. both[j] = log[j] /\ j \in DOMAIN log
      BY <1>2, <1>5, <2>1
    <3>2. both[k] = log[k] /\ k \in DOMAIN log
      BY <1>2, <1>5, <2>1
    <3> QED
      BY <3>1, <3>2 DEF Ordered
  <2>2. CASE j <= Len(log) /\ k > Len(log)
    <3>1. both[j] = log[j] /\ j \in DOMAIN log
      BY <1>2, <1>5, <2>2
    <3>2. both[k] = es[k - Len(log)] /\ k - Len(log) \in DOMAIN es
      BY <1>2, <1>5, <2>2
    <3> QED
      BY <1>1, <1>2, <3>1, <3>2
  <2>3. CASE j > Len(log)
    <3>1. both[j] = es[j - Len(log)] /\ j - Len(log) \in DOMAIN es
      BY <1>2, <1>5, <2>3
    <3>2. both[k] = es[k - Len(log)] /\ k - Len(log) \in DOMAIN es
      BY <1>2, <1>5, <2>3
    <3>3. j - Len(log) < k - Len(log)
      BY <1>2, <1>5
    <3> QED
      BY <3>1, <3>2, <3>3 DEF Ordered
  <2> QED
    BY <1>2, <1>5, <2>1, <2>2, <2>3
<1>7. LastIndex(both) >= LastIndex(log)
  <2>1. CASE log = << >>
    <3>1. LastIndex(log) = 0
      BY <2>1 DEF LastIndex
    <3> QED
      BY <1>5, <1>6, <3>1, LastIndexIsHighest
  <2>2. CASE log # << >>
    <3>1. Len(log) \in DOMAIN log /\ Len(log) \in DOMAIN both
      BY <1>2, <1>5, <2>2, EmptySeq
    <3>2. both[Len(log)].index = LastIndex(log)
      BY <1>2, <1>5, <2>2, <3>1 DEF LastIndex
    <3> QED
      BY <1>5, <1>6, <3>1, <3>2, LastIndexIsHighest
  <2> QED
    BY <2>1, <2>2
<1>8. MadeOf(both, log, es)
  <2> SUFFICES ASSUME NEW k \in DOMAIN both
               PROVE  \/ \E j \in DOMAIN log : both[k] = log[j]
                      \/ \E j \in DOMAIN es : both[k] = es[j]
    BY DEF MadeOf
  <2>1. CASE k <= Len(log)
    BY <1>2, <1>5, <2>1
  <2>2. CASE k > Len(log)
    <3>1. k \in (Len(log) + 1) .. (Len(log) + Len(es))
      BY <1>2, <1>5, <2>2
    <3>2. both[k] = es[k - Len(log)] /\ k - Len(log) \in DOMAIN es
      BY <1>5, <3>1
    <3> QED
      BY <3>2
  <2>3. k <= Len(log) \/ k > Len(log)
    BY <1>2, <1>5
  <2> QED
    BY <2>1, <2>2, <2>3
<1>9. Prolongs(both, log)
  BY <1>2, <1>5 DEF Prolongs
<1> QED
  BY <1>4, <1>5, <1>6, <1>7, <1>8, <1>9 DEF both
==============================================================================
