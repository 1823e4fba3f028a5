------------------------------- MODULE FsmAdapter -------------------------------
(***************************************************************************)
(* The adapter between the log and the user's state machine: struct        *)
(* RaftFsmAdapter in src/lib.rs.                                           *)
(*                                                                         *)
(* The state machine is the sequence of the log ids it was handed; it      *)
(* answers with the index of the entry and may refuse an entry without a   *)
(* change.  replay_entries is one call of the code that applies a batch    *)
(* entry by entry and stops at the first error; here each entry is a step  *)
(* and no other call runs in between.  A crash loses the adapter and the   *)
(* state machine and keeps the checkpoints taken.                          *)
(***************************************************************************)
EXTENDS Integers, FiniteSets, Sequences, FiniteSetsExt

CONSTANTS
  LogId,           \* the log ids of the entries that may be applied
  Batches,         \* the batches that may be replayed: sequences of log ids
  MaxCheckpoints   \* bound: checkpoints taken

ASSUME FsmAssumption ==
  /\ LogId \subseteq [term : Nat, index : Nat \ {0}]
  /\ Batches \subseteq Seq(LogId)
  /\ MaxCheckpoints \in Nat

VARIABLES
  state_machine,   \* the log ids handed to the state machine, in order
  applied,         \* index -> term of the entries applied
  responses,       \* index -> the log id whose response is kept
  last_applied,
  replaying,       \* what is left of the batch being replayed
  checkpoints      \* the checkpoints taken

vars == <<state_machine, applied, responses, last_applied, replaying, checkpoints>>

Init ==
  /\ state_machine = << >>
  /\ applied = << >> /\ responses = << >> /\ last_applied = 0
  /\ replaying = << >> /\ checkpoints = {}

With(f, i, v) == [j \in DOMAIN f \cup {i} |-> IF j = i THEN v ELSE f[j]]

\* apply_entry of an index not applied before.
ApplyNew(e) ==
  /\ e.index \notin DOMAIN applied
  /\ state_machine' = Append(state_machine, e)
  /\ applied' = With(applied, e.index, e.term)
  /\ responses' = With(responses, e.index, e)
  /\ last_applied' = Max({last_applied, e.index})
  /\ UNCHANGED checkpoints

\* apply_entry of an entry applied before answers with the response kept.
Answered(e) ==
  e.index \in DOMAIN applied /\ applied[e.index] = e.term /\ e.index \in DOMAIN responses

\* Mutant: a replayed entry of another term is applied over the first.
ApplyEntryOverConflict(e) ==
  /\ replaying = << >>
  /\ (e.index \in DOMAIN applied => applied[e.index] # e.term)
  /\ state_machine' = Append(state_machine, e)
  /\ applied' = With(applied, e.index, e.term)
  /\ responses' = With(responses, e.index, e)
  /\ last_applied' = Max({last_applied, e.index})
  /\ UNCHANGED <<checkpoints, replaying>>

\* An error (another term, no response kept, a refusal of the state machine)
\* and an answered duplicate change nothing.
ApplyEntry(e) ==
  /\ replaying = << >>
  /\ ApplyNew(e)
  /\ UNCHANGED replaying

BeginReplay(batch) ==
  /\ replaying = << >>
  /\ replaying' = batch
  /\ UNCHANGED <<state_machine, applied, responses, last_applied, checkpoints>>

ReplayApplies ==
  /\ replaying # << >>
  /\ ApplyNew(Head(replaying))
  /\ replaying' = Tail(replaying)

ReplaySkips ==
  /\ replaying # << >>
  /\ Answered(Head(replaying))
  /\ replaying' = Tail(replaying)
  /\ UNCHANGED <<state_machine, applied, responses, last_applied, checkpoints>>

\* The rest of the batch is dropped: the entry was applied and cannot be
\* answered, or the state machine refuses it.
ReplayStops ==
  /\ replaying # << >>
  /\ ~ Answered(Head(replaying))
  /\ replaying' = << >>
  /\ UNCHANGED <<state_machine, applied, responses, last_applied, checkpoints>>

Checkpoint ==
  /\ replaying = << >> /\ Cardinality(checkpoints) < MaxCheckpoints
  /\ checkpoints' = checkpoints \cup
       {[ last_applied |-> last_applied, applied |-> applied,
          snapshot     |-> state_machine ]}
  /\ UNCHANGED <<state_machine, applied, responses, last_applied, replaying>>

\* Mutant: the responses of before stay.
InstallCheckpointKeepingResponses(c) ==
  /\ replaying = << >>
  /\ state_machine' = c.snapshot
  /\ last_applied' = c.last_applied /\ applied' = c.applied
  /\ UNCHANGED <<responses, replaying, checkpoints>>

\* The responses are gone: an entry of the checkpoint replayed later is an error.
InstallCheckpoint(c) ==
  /\ replaying = << >>
  /\ state_machine' = c.snapshot
  /\ last_applied' = c.last_applied
  /\ applied' = c.applied
  /\ responses' = << >>
  /\ UNCHANGED <<replaying, checkpoints>>

\* A new adapter over a new state machine.
Restart ==
  /\ state_machine' = << >>
  /\ applied' = << >> /\ responses' = << >> /\ last_applied' = 0
  /\ replaying' = << >>
  /\ UNCHANGED checkpoints

Next ==
  \/ \E e \in LogId : ApplyEntry(e)
  \/ \E batch \in Batches : BeginReplay(batch)
  \/ ReplayApplies
  \/ ReplaySkips
  \/ ReplayStops
  \/ Checkpoint
  \/ \E c \in checkpoints : InstallCheckpoint(c)
  \/ Restart

Spec == Init /\ [][Next]_vars

--------------------------------------------------------------------------------
\* A state machine's history and an applied map say the same: each index once,
\* with its term.
Agree(history, terms) ==
  /\ \A j, k \in DOMAIN history : history[j].index = history[k].index => j = k
  /\ DOMAIN terms = {history[k].index : k \in DOMAIN history}
  /\ \A k \in DOMAIN history : terms[history[k].index] = history[k].term

\* last is the highest index of an applied map.
Highest(last, terms) ==
  /\ \A i \in DOMAIN terms : i <= last
  /\ last \in DOMAIN terms \cup {0}

\* The types of the variables.
TypeOK ==
  /\ state_machine \in Seq(LogId)
  /\ DOMAIN applied \subseteq Nat \ {0}
  /\ DOMAIN responses \subseteq Nat \ {0}
  /\ last_applied \in Nat
  /\ replaying \in Seq(LogId)
  /\ \A c \in checkpoints : c.snapshot \in Seq(LogId) /\ c.last_applied \in Nat

\* The adapter's map of applied entries and the state machine never drift apart,
\* through replays that stop half-way, checkpoints of any age and restarts: what
\* the map names was applied exactly once, and nothing else was.
AppliedExactlyOnce == Agree(state_machine, applied)

\* The applied index reported is the highest applied, also after going back to an
\* older checkpoint.
LastAppliedAgrees == Highest(last_applied, applied)

\* A duplicate is never answered with the response to another entry: a response
\* kept is that of the entry applied at its index.
ResponsesAgree ==
  \A i \in DOMAIN responses :
    /\ i \in DOMAIN applied
    /\ responses[i] = [term |-> applied[i], index |-> i]

Abstract == INSTANCE AppliedLog
  WITH history <- state_machine, saved <- {c.snapshot : c \in checkpoints}

\* The adapter implements the promise of AppliedLog.
ImplementsAppliedLog == Abstract!Spec

--------------------------------------------------------------------------------
(***************************************************************************)
(* The inductive invariant: what holds of the adapter holds of every       *)
(* checkpoint it took.                                                     *)
(***************************************************************************)
CheckpointsAgree ==
  \A c \in checkpoints :
    /\ c.snapshot \in Seq(LogId) /\ c.last_applied \in Nat
    /\ Agree(c.snapshot, c.applied)
    /\ Highest(c.last_applied, c.applied)

AdapterInv ==
  /\ TypeOK
  /\ AppliedExactlyOnce
  /\ LastAppliedAgrees
  /\ ResponsesAgree
  /\ CheckpointsAgree
================================================================================
