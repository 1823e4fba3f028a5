---------------------------- MODULE FsmAdapterProofs ----------------------------
(***************************************************************************)
(* Every entry reaches the state machine once, for every set of log ids    *)
(* and every batch replayed, and the adapter implements AppliedLog.        *)
(***************************************************************************)
EXTENDS FsmAdapter, SequenceTheorems, TLAPS

\* Max of two naturals is one of them and not below either.
LEMMA LargerOfTwo ==
  ASSUME NEW a \in Nat, NEW b \in Nat
  PROVE  Max({a, b}) \in {a, b} /\ Max({a, b}) >= a /\ Max({a, b}) >= b
<1>1. \E x \in {a, b} : \A y \in {a, b} : x >= y
  <2>1. CASE a >= b
    BY <2>1
  <2>2. CASE b >= a
    BY <2>2
  <2> QED
    BY <2>1, <2>2
<1> QED
  BY <1>1 DEF Max

\* An appended history and an extended map of a fresh index still agree.
LEMMA AgreeExtends ==
  ASSUME NEW history \in Seq(LogId), NEW terms, NEW e \in LogId,
         Agree(history, terms), e.index \notin DOMAIN terms
  PROVE  /\ Append(history, e) \in Seq(LogId)
         /\ Agree(Append(history, e), With(terms, e.index, e.term))
<1> DEFINE longer == Append(history, e)
           more   == With(terms, e.index, e.term)
<1>1. /\ longer \in Seq(LogId)
      /\ DOMAIN longer = DOMAIN history \cup {Len(history) + 1}
      /\ Len(history) + 1 \notin DOMAIN history
      /\ \A k \in DOMAIN history : longer[k] = history[k]
      /\ longer[Len(history) + 1] = e
  OBVIOUS
<1>2. /\ DOMAIN more = DOMAIN terms \cup {e.index}
      /\ more[e.index] = e.term
      /\ \A i \in DOMAIN terms : more[i] = terms[i]
  BY DEF With
<1>3. \A k \in DOMAIN history : history[k].index \in DOMAIN terms
  BY DEF Agree
<1> HIDE DEF longer, more
<1>4. \A j, k \in DOMAIN longer : longer[j].index = longer[k].index => j = k
  BY <1>1, <1>3 DEF Agree
<1>5. DOMAIN more = {longer[k].index : k \in DOMAIN longer}
  <2>1. ASSUME NEW i \in DOMAIN more PROVE \E k \in DOMAIN longer : i = longer[k].index
    <3>1. CASE i = e.index
      BY <1>1, <3>1
    <3>2. CASE i \in DOMAIN terms
      <4>1. PICK k \in DOMAIN history : i = history[k].index
        BY <3>2 DEF Agree
      <4> QED
        BY <1>1, <4>1
    <3> QED
      BY <1>2, <2>1, <3>1, <3>2
  <2>2. ASSUME NEW k \in DOMAIN longer PROVE longer[k].index \in DOMAIN more
    BY <1>1, <1>2, <1>3
  <2> QED
    BY <2>1, <2>2
<1>6. \A k \in DOMAIN longer : more[longer[k].index] = longer[k].term
  <2> SUFFICES ASSUME NEW k \in DOMAIN longer
               PROVE  more[longer[k].index] = longer[k].term
    OBVIOUS
  <2>1. CASE k = Len(history) + 1
    BY <1>1, <1>2, <2>1
  <2>2. CASE k \in DOMAIN history
    <3>1. terms[history[k].index] = history[k].term
      BY <2>2 DEF Agree
    <3>2. more[history[k].index] = terms[history[k].index]
      BY <1>2, <1>3, <2>2
    <3> QED
      BY <1>1, <2>2, <3>1, <3>2
  <2> QED
    BY <1>1, <2>1, <2>2
<1>7. longer \in Seq(LogId) /\ Agree(longer, more)
  BY <1>1, <1>4, <1>5, <1>6 DEF Agree
<1> QED
  BY <1>7 DEF longer, more

\* A new adapter over an empty state machine satisfies the invariant.
LEMMA AdapterInit == Init => AdapterInv
  BY FsmAssumption DEF Init, AdapterInv, TypeOK, AppliedExactlyOnce, Agree,
     LastAppliedAgrees, Highest, ResponsesAgree, CheckpointsAgree

\* Applying an entry whose index is new keeps the invariant.
LEMMA ApplyNewInv ==
  ASSUME AdapterInv, NEW e \in LogId, ApplyNew(e), replaying' \in Seq(LogId)
  PROVE  AdapterInv'
<1>1. e.index \in Nat \ {0} /\ e.term \in Nat /\ e = [term |-> e.term, index |-> e.index]
  BY FsmAssumption
<1>2. state_machine' \in Seq(LogId) /\ AppliedExactlyOnce'
  <2>1. state_machine \in Seq(LogId) /\ Agree(state_machine, applied)
    BY DEF AdapterInv, TypeOK, AppliedExactlyOnce
  <2>2. e.index \notin DOMAIN applied
    BY DEF ApplyNew
  <2>3. Append(state_machine, e) \in Seq(LogId)
        /\ Agree(Append(state_machine, e), With(applied, e.index, e.term))
    BY <2>1, <2>2, AgreeExtends
  <2> QED
    BY <2>3 DEF ApplyNew, AppliedExactlyOnce
<1>3. /\ DOMAIN applied' = DOMAIN applied \cup {e.index}
      /\ applied'[e.index] = e.term
      /\ \A i \in DOMAIN applied : applied'[i] = applied[i]
  BY DEF ApplyNew, With
<1>4. /\ DOMAIN responses' = DOMAIN responses \cup {e.index}
      /\ responses'[e.index] = e
      /\ \A i \in DOMAIN responses \ {e.index} : responses'[i] = responses[i]
  BY DEF ApplyNew, With
<1>5. last_applied' \in Nat /\ LastAppliedAgrees'
  <2>1. /\ last_applied' \in {last_applied, e.index}
        /\ last_applied' >= last_applied /\ last_applied' >= e.index
    BY <1>1, LargerOfTwo DEF ApplyNew, AdapterInv, TypeOK
  <2>2. last_applied \in Nat /\ Highest(last_applied, applied)
        /\ DOMAIN applied \subseteq Nat \ {0}
    BY DEF AdapterInv, TypeOK, LastAppliedAgrees
  <2>3. \A i \in DOMAIN applied' : i <= last_applied'
    BY <1>1, <1>3, <2>1, <2>2 DEF Highest
  <2>4. last_applied' \in DOMAIN applied' \cup {0}
    BY <1>1, <1>3, <2>1, <2>2 DEF Highest
  <2> QED
    BY <1>1, <2>1, <2>2, <2>3, <2>4 DEF LastAppliedAgrees, Highest
<1>6. ResponsesAgree'
  BY <1>1, <1>3, <1>4 DEF AdapterInv, ResponsesAgree
<1>7. TypeOK'
  BY <1>1, <1>2, <1>3, <1>4, <1>5 DEF AdapterInv, TypeOK, ApplyNew
<1>8. CheckpointsAgree'
  BY DEF AdapterInv, CheckpointsAgree, ApplyNew
<1> QED
  BY <1>2, <1>5, <1>6, <1>7, <1>8 DEF AdapterInv

\* A step that leaves the adapter's own state and the checkpoints alone.
LEMMA UntouchedInv ==
  ASSUME AdapterInv, replaying' \in Seq(LogId),
         UNCHANGED <<state_machine, applied, responses, last_applied, checkpoints>>
  PROVE  AdapterInv'
  BY DEF AdapterInv, TypeOK, AppliedExactlyOnce, LastAppliedAgrees, ResponsesAgree,
     CheckpointsAgree

\* Taking a checkpoint keeps the invariant: it copies an adapter that satisfies it.
LEMMA CheckpointInv ==
  ASSUME AdapterInv, Checkpoint
  PROVE  AdapterInv'
<1> DEFINE taken == [last_applied |-> last_applied, applied |-> applied,
                     snapshot |-> state_machine]
<1>1. checkpoints' = checkpoints \cup {taken}
  BY DEF Checkpoint
<1>2. /\ taken.snapshot = state_machine /\ taken.applied = applied
      /\ taken.last_applied = last_applied
  OBVIOUS
<1> HIDE DEF taken
<1>3. UNCHANGED <<state_machine, applied, responses, last_applied, replaying>>
  BY DEF Checkpoint
<1>4. CheckpointsAgree'
  BY <1>1, <1>2 DEF AdapterInv, TypeOK, CheckpointsAgree, AppliedExactlyOnce,
     LastAppliedAgrees
<1>5. TypeOK'
  BY <1>1, <1>2, <1>3 DEF AdapterInv, TypeOK
<1> QED
  BY <1>3, <1>4, <1>5 DEF AdapterInv, AppliedExactlyOnce, LastAppliedAgrees,
     ResponsesAgree

\* Installing a checkpoint keeps the invariant, because every checkpoint taken agrees
\* with itself.
LEMMA InstallCheckpointInv ==
  ASSUME AdapterInv, NEW c \in checkpoints, InstallCheckpoint(c)
  PROVE  AdapterInv'
<1>1. /\ c.snapshot \in Seq(LogId) /\ c.last_applied \in Nat
      /\ Agree(c.snapshot, c.applied) /\ Highest(c.last_applied, c.applied)
  BY DEF AdapterInv, CheckpointsAgree
<1>2. DOMAIN c.applied \subseteq Nat \ {0}
  BY <1>1, FsmAssumption DEF Agree
<1> QED
  BY <1>1, <1>2 DEF InstallCheckpoint, AdapterInv, TypeOK, AppliedExactlyOnce,
     LastAppliedAgrees, ResponsesAgree, CheckpointsAgree

\* A restart, which leaves an empty adapter and an empty state machine, keeps the
\* invariant.
LEMMA RestartInv ==
  ASSUME AdapterInv, Restart
  PROVE  AdapterInv'
  BY DEF Restart, AdapterInv, TypeOK, AppliedExactlyOnce, Agree, LastAppliedAgrees,
     Highest, ResponsesAgree, CheckpointsAgree

\* What remains of a batch, and its first entry.
LEMMA BatchFacts ==
  ASSUME AdapterInv, replaying # << >>
  PROVE  Head(replaying) \in LogId /\ Tail(replaying) \in Seq(LogId)
  BY DEF AdapterInv, TypeOK

\* Every step, or stutter, keeps the invariant.
LEMMA AdapterStep == AdapterInv /\ [Next]_vars => AdapterInv'
<1> SUFFICES ASSUME AdapterInv, [Next]_vars PROVE AdapterInv'
  OBVIOUS
<1>1. ASSUME NEW e \in LogId, ApplyEntry(e) PROVE AdapterInv'
  <2>1. replaying' \in Seq(LogId) /\ ApplyNew(e)
    BY <1>1 DEF ApplyEntry, AdapterInv, TypeOK
  <2> QED
    BY <2>1, ApplyNewInv
<1>2. ASSUME NEW batch \in Batches, BeginReplay(batch) PROVE AdapterInv'
  BY <1>2, UntouchedInv, FsmAssumption DEF BeginReplay
<1>3. CASE ReplayApplies
  <2>1. replaying' \in Seq(LogId) /\ ApplyNew(Head(replaying))
        /\ Head(replaying) \in LogId
    BY <1>3, BatchFacts DEF ReplayApplies
  <2> QED
    BY <2>1, ApplyNewInv
<1>4. CASE ReplaySkips
  BY <1>4, BatchFacts, UntouchedInv DEF ReplaySkips
<1>5. CASE ReplayStops
  BY <1>5, UntouchedInv DEF ReplayStops
<1>6. CASE Checkpoint
  BY <1>6, CheckpointInv
<1>7. ASSUME NEW c \in checkpoints, InstallCheckpoint(c) PROVE AdapterInv'
  BY <1>7, InstallCheckpointInv
<1>8. CASE Restart
  BY <1>8, RestartInv
<1>9. CASE UNCHANGED vars
  BY <1>9, UntouchedInv DEF vars, AdapterInv, TypeOK
<1> QED
  BY <1>1, <1>2, <1>3, <1>4, <1>5, <1>6, <1>7, <1>8, <1>9 DEF Next

--------------------------------------------------------------------------------
\* The adapter's invariant holds whatever is applied, replayed, checkpointed,
\* installed or lost, for every set of log ids and batches.
THEOREM AdapterSafety == Spec => []AdapterInv
  BY AdapterInit, AdapterStep, PTL DEF Spec

\* The map of applied entries names what the state machine was handed, each
\* index once: replaying after a crash or from an old checkpoint applies
\* nothing twice.
THEOREM ExactlyOnce == Spec => []AppliedExactlyOnce
<1>1. AdapterInv => AppliedExactlyOnce
  BY DEF AdapterInv
<1> QED
  BY <1>1, AdapterSafety, PTL

\* A duplicate is answered with its own response or with an error.
THEOREM DuplicatesAnswered == Spec => []ResponsesAgree
<1>1. AdapterInv => ResponsesAgree
  BY DEF AdapterInv
<1> QED
  BY <1>1, AdapterSafety, PTL

\* Applying a new entry is the promise's Apply.
LEMMA ApplyNewImplements ==
  ASSUME AdapterInv, NEW e \in LogId, ApplyNew(e)
  PROVE  Abstract!Next
<1>1. Abstract!Fresh(e)
  BY DEF AdapterInv, AppliedExactlyOnce, Agree, ApplyNew, Abstract!Fresh
<1>2. Abstract!Apply(e)
  BY <1>1 DEF ApplyNew, Abstract!Apply
<1> QED
  BY <1>2 DEF Abstract!Next

\* Every step of the adapter is a step of the promise or leaves it unchanged.
LEMMA StepImplements ==
  AdapterInv /\ [Next]_vars => [Abstract!Next]_(Abstract!vars)
<1> SUFFICES ASSUME AdapterInv, [Next]_vars
             PROVE  Abstract!Next \/ UNCHANGED Abstract!vars
  OBVIOUS
<1>1. ASSUME NEW e \in LogId, ApplyEntry(e) PROVE Abstract!Next
  BY <1>1, ApplyNewImplements DEF ApplyEntry
<1>2. ASSUME NEW batch \in Batches, BeginReplay(batch) PROVE UNCHANGED Abstract!vars
  BY <1>2 DEF BeginReplay, Abstract!vars
<1>3. CASE ReplayApplies
  BY <1>3, BatchFacts, ApplyNewImplements DEF ReplayApplies
<1>4. CASE ReplaySkips \/ ReplayStops
  BY <1>4 DEF ReplaySkips, ReplayStops, Abstract!vars
<1>5. CASE Checkpoint
  <2> DEFINE taken == [last_applied |-> last_applied, applied |-> applied,
                       snapshot |-> state_machine]
  <2>1. checkpoints' = checkpoints \cup {taken} /\ taken.snapshot = state_machine
    BY <1>5 DEF Checkpoint
  <2> HIDE DEF taken
  <2>2. {c.snapshot : c \in checkpoints'}
          = {c.snapshot : c \in checkpoints} \cup {state_machine}
    BY <2>1
  <2>3. Abstract!Save
    BY <1>5, <2>2 DEF Checkpoint, Abstract!Save
  <2> QED
    BY <2>3 DEF Abstract!Next
<1>6. ASSUME NEW c \in checkpoints, InstallCheckpoint(c) PROVE Abstract!Next
  <2>1. Abstract!Restore
    BY <1>6 DEF InstallCheckpoint, Abstract!Restore
  <2> QED
    BY <2>1 DEF Abstract!Next
<1>7. CASE Restart
  <2>1. Abstract!Restart
    BY <1>7 DEF Restart, Abstract!Restart
  <2> QED
    BY <2>1 DEF Abstract!Next
<1>8. CASE UNCHANGED vars
  BY <1>8 DEF vars, Abstract!vars
<1> QED
  BY <1>1, <1>2, <1>3, <1>4, <1>5, <1>6, <1>7, <1>8 DEF Next

\* The adapter implements the promise of AppliedLog: no index is handed to the
\* state machine twice, and it goes back only to a checkpoint or to nothing.
THEOREM AdapterImplements == Spec => ImplementsAppliedLog
<1>1. Init => Abstract!Init
  BY DEF Init, Abstract!Init
<1> QED
  BY <1>1, StepImplements, AdapterSafety, PTL
     DEF Spec, ImplementsAppliedLog, Abstract!Spec
================================================================================
