# A verification project for RustRaft

RustRaft (`src/src/lib.rs`) is a Raft library that keeps all members of one
group in one process: a `RaftCluster` carries out each call to completion, a
`RaftNodeRuntime` puts a command queue and a write-ahead log in front of it, and
transports bring append-entries requests and snapshots from other processes.
This directory holds TLA+ modules of its protocol and storage, the
configurations that check them with TLC, and proofs checked by TLAPS. Line
numbers below are those of `src/src/lib.rs` unless a file is named.

Run a configuration with `tlc -workers 2 -config X.cfg M` and a proof module
with `tlapm M.tla`. `PROJECT.json` lists the runs, the lines each definition
translates, the hazards, and for every property a mutant of the code that
breaks it.

## 1. The system

| Component | State | Operations | Modelled in |
|---|---|---|---|
| Member `RaftNode` (3968-4059) | role, term, vote, log, snapshot, commit and applied index, health | `append_entry`, `advance_commit`, `install_snapshot`, `compact_log_through`, WAL record of a member | `RaftNode` |
| Replication pipeline (406-948) | queued and in-flight bytes, window, parked entries, snapshot transfer, backoff | queue, flush, receive out of order, success, rejection, tick, snapshot begin / chunk / rollback | `PipelineOps`, `ReplicationPipeline` |
| Consensus engine `RaftCluster` (4061-5371) | members, a pipeline per member, leader, term, indexes, lease | start, stop, campaign, transfer, propose, membership, health, learner catch-up, append entries, snapshots, compaction | `RaftCluster` |
| its answers | none | pre-vote, `read_index` and the read path, status and health; responses to requests | `ClusterReads`, `ClusterStatus`, `ClusterAnswers` |
| Membership record (1677-1833) and executor (5373-5620) | members by role; the saved cluster of a workflow | validate, execute, workflow with or without rollback | `RaftMembership`, `MembershipExecutor` |
| Node runtime (5623-6211) | the loop's state, cluster, WAL; the handle, its channel, the thread | one command at a time, a proposal writes the WAL before it is answered; start, stop, restart, shutdown, calls that wait five seconds | `NodeRuntime`, `RuntimeHandle` |
| Persistent WAL (2060-2603) | segments in memory and files | open, recover, append, roll, compact, compact under a fence | `PersistentWal` |
| In-memory WAL (1928-2058) | segments | append, recover | `LocalWal` |
| WAL validators (6921-7225) | none | pure checks | `RaftNode`, `StorageFences` |
| Snapshot lifecycle (3190-3529) | what is sent, what is installed, status, retries | begin, pump, answer, timeout, install chunk, rollback | `SnapshotLifecycle` |
| State machine adapter (2793-2965) | applied terms, responses, last applied | apply, replay, checkpoint, install | `FsmAdapter`, `AppliedLog` |
| Transports (3667-3826, 6251-6919) | registered handlers; connections, the server's thread | validate, call, register, serve, shut down | `TransportMessages`, `Transports` |
| Read safety decisions (9497-9783) | none | pure decisions | `ClusterReads`, `StorageFences` |
| Snapshot store (3531-3608) | one file per snapshot | write, read | out, see 7 |
| Reports, parity, readiness (7227-9495), benchmark, scenario catalogue | none | mappings from flags to text | out, but for the status and health in `ClusterStatus` |

**How they interact.** The runtime's thread takes commands from a channel and
calls `RaftCluster`; after a successful proposal it appends the local member's
record to the WAL and replies on a channel its caller waits on for five seconds.
The membership executor calls `RaftCluster` directly. `RaftCluster` calls the
`RaftNode` and the pipeline of each member in turn, inside one call. Transports
call `append_entries_to` and the snapshot calls from requests that may be late,
repeated or out of order; the TCP server has one thread that serves one
connection to its end before it accepts the next, and neither side has a timeout. An embedder applies committed entries through
`RaftFsmAdapter`, and moves a snapshot with two `RaftSnapshotLifecycle`s, one on
each side, over a channel of its own.

**What is hard.** Only the WAL's files, the runtime's handle and thread, the
transports and the network are concurrent; elsewhere the difficulty is long sequences of legal calls. A
membership change after a transfer after a refused proposal leaves several
copies of the same fact (a committed index kept in three places, the cluster's
indexes beside the members', counters beside the window) that every call must
update together. A proposal refused by the third member's pipeline has already
reached the first two. Segments are rewritten in place, and a crash may fall
between any two file operations. A snapshot answer names neither its snapshot
nor its chunk. `PROJECT.json` lists each of these as a hazard at its line with
the properties that would catch it.

**What makes each component correct.**

- *Member*: the group's own calls keep the log in index order and take nothing from
  it; what is applied is committed and recorded as such, and neither index falls; a
  request, snapshot or compaction takes only the entries it names the place of; the
  record persisted is one that recovery accepts.
- *Pipeline*: the counters are what the window and the queue hold; the memory
  limit bounds them; no accepted entry disappears except by a release; a
  response releases exactly what it covers.
- *Engine*: one leader, one vote per term, logs that agree, a commit only with a
  majority, log ids returned once, indexes that cover all members.
- *WAL*: what was appended and returned is there after a restart, in order;
  damage touches the newest records only; compaction keeps the latest record.
- *Snapshot lifecycle*: what is installed is whole and of one snapshot; a send
  reported complete was installed; every send ends.
- *Membership*: a workflow with rollback is all or nothing and leaves a leader;
  quorums before and after a change meet; promoting a learner whose log has no hole
  leaves a majority behind what had one.
- *Runtime*: what it answered survives its crashes, under an id it never uses again;
  an answered command was executed once; shutdown is final and ends the thread.
- *Reads and status*: the several deciders agree; a lease names a leader that is up;
  in a ready group the leader's log holds what its clients were told, so do the logs
  without a hole, and none ends before it.
- *Transports*: an answered call was handled once, and every call returns; an answer
  matches what the log became.
- *Adapter*: every entry reaches the state machine once; a duplicate gets its own
  answer.

## 2. The modules

| Module | What it is |
|---|---|
| `RaftTypes` | replica roles, Raft roles, what each may do, the absent value |
| `RaftNode` | a member as a record and each of its operations as an operator on it |
| `PipelineOps` | the pipeline as a record and each of its operations |
| `ReplicationPipeline` | one pipeline and its callers as a state machine |
| `RaftCluster` | the engine: EXTENDS `RaftNode` and `PipelineOps` |
| `ClusterReads`, `ClusterStatus` | what the engine answers without changing: operators on `RaftCluster`'s state |
| `ClusterAnswers` | the responses of the engine's handlers, from `RaftCluster` and the checks of `TransportMessages` |
| `RaftMembership` | the membership record, its changes, its quorum, the joint record |
| `MembershipExecutor` | workflows of membership operations composed with `RaftCluster` |
| `NodeRuntime` | the runtime's loop around `RaftCluster` and a log of records, crash and recovery |
| `RuntimeHandle` | the runtime's handle, its callers, the channel and the thread |
| `PersistentWal` | the WAL split at its file operations, with crashes and failures |
| `LocalWal`, `StorageFences` | the in-memory WAL and the storage validators as operators |
| `AppliedLog` | abstract: a history each index enters once, and saved copies of it |
| `FsmAdapter` | the adapter, implementing `AppliedLog` |
| `SnapshotLifecycle` | the two sides of a transfer and the network between |
| `TransportMessages` | what the transports' validation accepts |
| `Transports` | router, TCP client and TCP server with their threads |
| `MC*` | values of constants for TLC, and the comparisons made before a run |
| `*Proofs` | lemmas and theorems, see 5 |

**Correspondence.** A struct is a record or a group of variables with the
source's field names; a method is an operator or an action with its name in
camel case. In `RaftCluster` one action is one whole call, the refresh of the
indexes and pipelines at its end included, since the code holds `&mut self`
throughout. A call that returns an error before it changed anything is no step;
one that fails after it changed something is: `ProposeRefused` leaves the members
visited before the refusal changed and the index used up, `Start` without a
healthy voter leaves the cluster running. `BTreeMap`s are visited in key order,
which matters in `propose` and `start`, so ids are numbers.

`NodeRuntime` EXTENDS `RaftCluster`: a command is one of its actions together with the
loop's state, and a proposal's record goes to the log in a step of its own, between
which and the proposal the process may die. `Recreate` builds the cluster anew, from
`NewNode` and the record `Recovered`. The log here is its readable records and
what became of its last line; segments, rolls and compaction are `PersistentWal`'s.
The channel is the freedom of which command comes next, and a caller that gave up after
five seconds is an answer nobody reads.

`RuntimeHandle` is the same runtime seen from its other end: what a command does is left
to `NodeRuntime`, and sending, taking, answering and waiting are the steps. `start`,
`stop`, `restart` and `shutdown` take `&mut self`, so at most one of them is under way
(`owner`); every other method shares the handle. A timeout is an action that may come
at any moment of a wait.

`MembershipExecutor` EXTENDS `RaftCluster`. A workflow is under way in the variable
`workflow` and excludes the runtime's calls, as the executor's `&mut RaftCluster` does;
each operation is a step, the saved cluster is put back in one. A workflow that
is not to be rolled back stops where it fails.

In `Transports` a caller, the server's thread and the owner in `shutdown` are processes. A
TCP call connects, writes and reads; the thread checks the flag, accepts, reads and handles.
A stranger may connect and stay silent.

`PersistentWal` is finer: a record's text, its newline, the roll's steps and each
removal of a compaction are separate actions because a crash or an error may
come between them. Files and memory are separate variables; a failed operation
leaves them as the code does. `FsmAdapter` applies a replayed batch entry by
entry, so that a restart can fall inside a batch.

**Abstractions.** A payload is a name with a size (`Bytes`). A record's text is
what the parser makes of it: whole, cut off, or glued to the next when its
newline was lost. A snapshot is its name and length, and a chunk its interval.
The network of `SnapshotLifecycle` is a set of chunks and a set of answers: any of them
is taken next or lost, and a chunk is repeated when the sender goes back to it. The user's state machine is
the sequence of entries it was given and answers with the entry's id. The
cluster's requests from outside are any member of the set `AppendRequests`, at any
time. A TCP frame is one message, written or not; connections
the server accepted block as they do on Linux. The WAL runs with `fsync` on, and a directory entry is durable once the
operation returns. Text, wording and counters that are only reported are left
out.

## 3. The runs

Each run takes less than four minutes with two workers on an idle machine. `PROJECT.json`
gives each property the mutant of the code that breaks it under the same configuration.

| Run | Configuration | What it shows |
|---|---|---|
| pipeline | `MCReplicationPipeline.cfg` | one pipeline under any order of calls and of late or repeated answers |
| membership | `ClusterMembership.cfg` | the runtime's calls and workflows of membership operations in every order |
| transport | `ClusterTransport.cfg` | stale and repeated requests, snapshots, tails, compactions mixed with local calls; what is answered |
| runtime | `NodeRuntime.cfg` | commands, crashes and failed writes, recovery of the local member |
| handle | `RuntimeHandle.cfg` | shared calls, lifecycle calls, timeouts, late answers, the thread |
| tcp | `Transports.cfg` | callers, a silent stranger, the server's thread and its shutdown; the router |
| wal | `PersistentWal.cfg` | appends, rolls, compactions with up to two crashes or failed operations anywhere |
| fsm | `FsmAdapter.cfg` | entries, overlapping and conflicting replays, checkpoints, restarts; the refinement |
| snapshot | `SnapshotLifecycle.cfg` | two sends over a network that loses and reorders, with resends; every send ends |
| minority_write, transfer_under_load, wal_restart | their own `.cfg` | a counterexample each, see 6 |

**pipeline** (`InflightAccounting`, `LimitsKept`, `NoEntryLost`, `WindowOrdered`,
`TransferFlagsAgree`). Three indexes, a window of two entries, a memory limit of
four bytes with payloads of one and two, batches of two entries, a reorder window
of one. The window is smaller than what can be queued, the limit is smaller than
three large entries, and one entry can arrive beyond the reorder window: every
limit is met, and the window overshot by its last batch. `NoEntryLost` keeps a
history of what was accepted and what responses released.

**membership** (`ElectionSafety`, `OneVotePerTerm`, `AcknowledgedOnce`, `LogMatching`,
`RecordsRecoverable`, `QuorumCommit`, `LeaseMeansHealthyLeader`, `ReadyMeansHeld`,
`WorkflowAtomic`, `WorkflowKeepsLeader`, `QuorumsOverlap`, `PromotionKeepsMajority`).
Two voters, two terms, two entries. Single calls add a learner, promote it and remove the
first leader at any moment. Two workflows, each with and without rollback and from any state
the other calls lead to, promote the learner, move the leadership and bring the old leader back
as a witness, or replace a voter, so that each kind of operation fails somewhere, after
others succeeded. The memory limit of one entry makes a follower that is down
refuse the second, so proposals that reached half the members occur, and holes in the
log of a member that returns. There is one payload: that logs agree on payloads too is
proved (section 5). `ReadyMeansHeld` relates a report to what clients were told
before: the leader's log holds the entries themselves, and so does every log without a
hole. `QuorumCommit`, `QuorumsOverlap` and `PromotionKeepsMajority` are about what one
step may do to commits and quorums; the last asks, for each committed index, how many
voters and witnesses hold an entry there. Both of these properties except a log with a
hole (`Contiguous`), which the run reaches and which the code does not tell apart:
section 6.

**transport** (`ClusterIndexesCover`, `VerdictsAgree`, `AnswersMatchTheLog`,
`MembersKeepProgress`). A voter and a learner that may be promoted, and the transport's calls
with two requests at any time, in any order and any number of times: a late first entry with the next
leader's second one, and the second entry of an earlier term alone, which goes on from an
entry the member may lack and commits more than it then holds; a snapshot of the first
index that comes before, with or after the entries it covers, a compaction at the same
index, and a tail of two entries, the second of which a late request takes back. The memory limit of one
entry makes the learner refuse a second proposal while it is down, after its index is
used up. `VerdictsAgree` asks every decider of section
1's read path in every state, for any read and for one of what is committed.
`AnswersMatchTheLog` delivers every request to every member, twice, and compares the
answer with the log: it ends with the last entry sent, and a log without a hole is its
part up to the previous index and the entries sent. `MembersKeepProgress` compares the
log before and after each call: what is above a snapshot or a compaction survives it, and
so does what is before the first entry a request or a tail brings. That an entry is
committed protects it from nothing, and the property does not say so.

**runtime** (`RepliedOnce`, `RepliedDurable`). Two voters, and the local member is
not the one `start` elects; three terms, three proposals and two faults, so that a crash can
follow a crash and a write can run into the line an earlier one left. Both are about
answers whose record can be read: a write that ran into an unended line is answered and
lost (see 6). `RepliedDurable` is also about the local member only, because no other member is
persisted: a proposal answered while it was down is lost with the process.

**handle** (`AnsweredMeansExecuted`, `StatesAgree`, `ShutdownIsFinal`, `ThreadEnds`). Two
callers and four lifecycle commands: a restart is two of them, so a restart can
meet a stop and a shutdown, each of them answered, failed or late.

**tcp** (`AnsweredMeansHandled`, `CallsReturn`, `ShutdownReturns`). Two callers, one
silent stranger, one good request and two bad ones (a gap, the target zero), over either transport.
The liveness properties except one case, which the code does not handle: a stranger who is
being served and neither writes nor leaves.

**wal** (`RecordsInOrder`, `SegmentIdsFresh`, `OnlyNewestDamaged`,
`CompactionKeepsLatest`, `FencedMeansDurable`). Four appends in segments of two
records give two rolls, `MinKeepSegments` two leaves a segment to remove, and
`MaxFaults` two lets a second fault meet what the first left behind (a
crash during the recovery of a crash). `CompactionKeepsLatest` holds when the
segments compaction keeps hold a record: it counts segments, also ones that a
failed roll left empty. `MCPersistentWal` also makes TLC compare, before the run, the in-memory
WAL with a flat sequence over every list of six operations (`LocalWalIsTheSequence`),
the storage validators with each other (`FencesAgree`) and the order in which segments are
read back with the library's sorting (`SortedIsTheOrder`).

**fsm** (`ResponsesAgree`, `ImplementsAppliedLog`). Log ids of two terms at the same
indexes, batches that overlap, conflict and run backwards, two checkpoints.
`ImplementsAppliedLog` is the abstract specification as a property, with the refinement
mapping `history <- state_machine`, `saved <- ` the snapshots of the checkpoints.

**snapshot** (`InstalledWhole`, `CompletedMeansInstalled`, `SendEnds`). Two
snapshots of different length, three chunks at most, two sends, one rollback, two
retries: the chunks of an abandoned send meet the next send's installation.
`CompletedMeansInstalled` is about a send whose answers are its own and which no
rollback disturbed; its definition says which, because an answer of an earlier send
is counted for the current one (see 6).

**Bounds.** Every bound is a CONSTANT used in a guard (`MaxTerm`, `MaxLogIndex`,
`MaxAcknowledged`, `MaxIndex`, `MaxRetries`, `MaxChunks`, `MaxAppends`, `MaxCheckpoints`,
`MaxSends`, `MaxRollbacks`, `MaxLifecycle`; `MaxFaults` in both the WAL and the runtime)
and stops the model, not the code. The theorems of section 5 hold for every value of the
bounds of their modules.

**Deadlock** is checked in the runs of the pipeline, the cluster, the runtime and the
transports. The WAL, the adapter, the lifecycle and the handle may stop, the first
three when their bounds are used up and the last after a shutdown, so those configurations do
not check it.

## 4. Fairness

Three modules assume fairness, all of it weak and of steps no other party can withhold.

- `Transports`: a caller within its call, the server's thread, and the owner once it
  shuts down: threads the operating system runs. Nobody has to call, shut down,
  connect or leave, and `AcceptFails` need not happen.
- `RuntimeHandle`: the thread, the lifecycle call under way, and a shared call whose answer is
  there. The five seconds need not pass, and nobody has to call or drop the
  handle: `ThreadEnds` starts from a shutdown.
- `SnapshotLifecycle`: `Timeout` only. The code has no timer of its own, it is told of
  a missing answer by `record_send_timeout` (3475), and the claim is about an embedder that
  reports every answer that stays out. Nothing is assumed of the network, which
  may deliver nothing, nor of the pump.

The cluster, the runtime's commands, the pipeline, the WAL and the adapter act only when
called, and nothing in the code obliges anyone to call them: they have no liveness
property.

## 5. What is proved

For every value of the constants that satisfies the named assumptions.

**`RaftClusterProofs`**, of `RuntimeSpec` (the calls of the runtime and single membership
changes), from `ClusterAssumption`: `RuntimeSafety`, the invariant `RuntimeInv`, and
from it `TypeCorrect`, `OneLeader` (`ElectionSafety`), `OneVote` (`OneVotePerTerm`),
`LogsAgree` (`LogMatching`), `IndexesCover` (`ClusterIndexesCover`), `IdsUnique`
(`AcknowledgedOnce`), `LogsStayOrdered` (`LogsOrdered`) and `CrashRecoverable`
(`RecordsRecoverable`).

The properties are not inductive by themselves. That a new entry agrees with every
log needs its index to be above all of them (`ClusterIndexesCover`); that needs a
member's commit to stay within its own log, and the log's last entry to be its
highest (`NodeInv`: `Ordered`, commit below the last index, no snapshot, since
`RuntimeSpec` installs none). That acknowledged ids grow needs to
know that within a term the leader's log holds the entry of each
(`LeaderCoversTerm`): after a removal the cluster's last index may fall back, but
only to what the leader still holds, and without a leader nothing is proposed
until a later term. That the persisted record passes recovery's check needs the hard
state to name the commit index and a term not above the member's own. The proof has
a lemma per action, grouped by what it leaves alone: actions that keep the
election (`SameElectionKeeps`), actions that elect, and those that change the set
of members. `RaftNodeProofs` has the lemmas on the log operations they
cite: what appending, compacting and taking a tail return, and that they keep a log ordered.

`RuntimeInv` also gives `CommitNeedsMajority` (`QuorumCommit`), and `RuntimeTakesNothing`: as
long as no request of a transport comes, every log only grows and no commit falls, from
which `ProgressKept` (`MembersKeepProgress`) follows. The first rests on what `QuorumMatchIndex` returns: with a live
quorum the match index at position `live - quorum` of the sorted list is matched by at
least a quorum of members, whatever the counts.

**`ReplicationPipelineProofs`**, of `ReplicationPipeline`'s `Spec`, from
`PipelineAssumption`: `PipelineSafety`, the invariant `PipelineInv`, and from it
`WindowAccounted` (`InflightAccounting`), `PipelineLimits` (`LimitsKept`), `EntriesKept`
(`NoEntryLost`), `EntriesInOrder` (`WindowOrdered`) and `TransfersExclusive`
(`TransferFlagsAgree`). The counters are sums over the batches of a window and the entries
of a queue; the module's first part has the lemmas on such sums, of sequences that grow
at the end and shrink at the front. That no subtraction saturates needs the counters to be
these sums (`Accounted`); that a success releases exactly what it covers needs the batches to
be in log order (`InOrder`); that an accepted entry is not lost needs both, and the
record of what responses released (`NoneLost`).

**`MembershipExecutorProofs`**, of `ExecutorSpec`, for any lists of operations, from
`ClusterAssumption` and `WorkflowAssumption`: `ExecutorSafety` (the cluster satisfies
`RuntimeInv`, and so would the saved cluster of a workflow if it were put back now,
`SavedInv`), and from it `WorkflowsKeepSafety` (`ElectionSafety`, `OneVotePerTerm`,
`LogMatching`, `AcknowledgedOnce`), `WorkflowsKeepCommit` (`QuorumCommit`),
`LeaderSurvivesWorkflows` (`WorkflowKeepsLeader`), `QuorumsAlwaysOverlap`
(`QuorumsOverlap`), `PromotionsKeepMajority` (`PromotionKeepsMajority`), `ReadyReportsHold`
(`ReadyMeansHeld`) and `WorkflowsStayRecoverable` (`RecordsRecoverable`). A rollback takes
back terms and log indexes; it is safe because no workflow acknowledges anything, so what
was acknowledged is the same as when the cluster was saved. The overlap of quorums is the
lemma `MajoritiesMeet`, on sets that differ in one element at most. `PromotionsKeepMajority`
and `ReadyReportsHold` rest on `WithoutHole`: a log without a hole has every index up to its
last, so that for such a log the last index, the only thing the code compares, tells what
the log holds; which entry it is follows from `LogMatching`.
`WorkflowsAreAtomic` (`WorkflowAtomic`) has an invariant of its own, `AtomicInv`: the
members are what the membership record makes of the saved ones after the operations done
so far. Its step is that the cluster and the record make the same change of an operation
(`PerformChanges`, `PlannedChanges`), which needs the executor's checks: the cluster alone
would promote a witness, the record would not. `LeaseIsALeaders` (`LeaseMeansHealthyLeader`) has
one hypothesis, that an embedder never sets the lease valid itself (`LeaseUpdates` holds
`FALSE` at most, as in the run): `set_leader_lease_valid` would take its word.

**`NodeRuntimeProofs`**, the loop and its handle. Of `NodeSpec`: `NodeRuntimeSafety`, the
invariant `NodeRuntimeInv`, and `AnsweredOnce` (`RepliedOnce`) and `AnsweredDurable`
(`RepliedDurable`), across any number of crashes and failed writes. The invariant adds
to the group's (`LocalInv`) that the records of the log continue each other and the
local member continues the last one (`WalTracked`), so that a member built from any of
them is an earlier self; that the record being written is the member's (`WritingTracked`);
and that every readable answer is in the log's records or their past (`AnswersTracked`).
Of `HandleSpec`, from `HandleAssumption`: `HandleSafety`, the invariant `HandleInv`, and
`CommandsOnce` (`AnsweredMeansExecuted`), `StatesMatch` (`StatesAgree`), `ShutdownFinal`
(`ShutdownIsFinal`). The invariant tracks each command from the channel to its answer and
says which command the owner waits for.

**`TransportsProofs`**, in two parts. Of `TransportsSpec`, from `TransportAssumption`:
`TransportSafety` (`TransportInv`) and `HandledOnce` (`AnsweredMeansHandled`); the invariant
says that a connection the server still has belongs to a call that was not handled.
Of `RaftCluster`'s full `Spec`, where requests, snapshots, tails and compactions of any
content are mixed with the group's own calls: `ServedSafety` (`ServedInv`), and from it
`ServedIndexesCover` (`ClusterIndexesCover`), `ServedProgress` (`MembersKeepProgress`),
`VerdictsHold` (`VerdictsAgree`) and `AnswersHold` (`AnswersMatchTheLog`). Such requests may
leave a log out of order, so most of `RuntimeInv` is false here and `ServedInv` is what
remains: types, nothing applied that is not committed, indexes that cover every member.
That a request delivered twice changes nothing the second time holds for every log all
the same: after the loop of `append_entry` the log is a piece of the old one, then the
entries since the last that met its own index there (`Built`), and the second loop finds that
piece again. `ServedProgress` is about the logs themselves: the loop keeps every entry before
the first index it brings (`AppendEntriesBegins`), and of a log in index order the
snapshot and the compaction keep what is above them. `AnswersHold` assumes that a
request's entries follow its previous index without a gap (`EntriesFollow`), which is what the
transports' own check requires.
`VerdictsHold` uses `ReasonsAssumption`.

**`StorageProofs`**. Of `PersistentWal`'s `Spec`, for any sizes, appends and faults:
`NextIdFree` (`SegmentIdsFresh`), and from the invariant `WalInv` `RecordsStayOrdered`
(`RecordsInOrder`), `NewestDamaged` (`OnlyNewestDamaged`), `LatestSurvivesCompaction`
(`CompactionKeepsLatest`) and `FencedCompaction` (`FencedMeansDurable`). None of the four
is inductive, because what recovery may read later includes lines that cannot be read
now: the invariant orders all records ever written to the files, readable or not
(`FilesOrdered`), and says that a sealed segment's file holds exactly its records, that
the files behind the active one are empty (`SegmentsMatch`) and that the record at hand comes
after everything known (`PendingLast`), at every point where an append, a roll or a
compaction may be interrupted. Of `LifecycleSpec`, from `LifecycleAssumption`:
`LifecycleSafety`, `SnapshotsWhole` (`InstalledWhole`) and `SendsInstalled`
(`CompletedMeansInstalled`).

**`FsmAdapterProofs`**, of `FsmAdapter`'s `Spec`, from `FsmAssumption`: `AdapterSafety`,
the invariant `AdapterInv`; `ExactlyOnce` (`AppliedExactlyOnce`), `DuplicatesAnswered`
(`ResponsesAgree`); and `AdapterImplements`: every behaviour of the adapter is one of
`AppliedLog` under the refinement mapping. `AppliedExactlyOnce` is not inductive because
`install_checkpoint` replaces the state by an older one: the invariant says of every
checkpoint taken what it says of the adapter (`CheckpointsAgree`).

**Assumptions.** Beyond the types of the constants, the named assumptions say that `None`
differs from the values it stands beside, that a group starts with a voter, and that no
workflow is empty. Loops of the code are recursive functions here; what a proof needs of one is
shown by induction over the natural numbers below its length, from the function's own
equation (`NatSet`), and the choice of that function is justified by building it.

**Only model-checked.** Every safety property of the passing runs is a theorem. `SendEnds`,
`ThreadEnds`, `CallsReturn` and `ShutdownReturns` stay with TLC: liveness under fairness is
out of the prover's reach. So do the comparisons `MCPersistentWal` makes before its run
(`LocalWalIsTheSequence`, `FencesAgree`, and `SortedIsTheOrder`, because the prover
cannot expand the library's sorting) and those of `MCRaftCluster` (`EntriesAboveIsSelectSeq`,
`AppendEntriesIsTheLoop`).

## 6. What the checks found

Three statements of the repository are refuted by a run each, which ends in a
counterexample.

1. **A minority commits** (`minority_write`). `refresh_commit_index` (5203) takes the
   position `live - quorum` with `saturating_sub`. With fewer than a quorum live, the lowest
   live match index becomes committed, and `propose` returns success.
   `src/fault.rs:68` has "minority rejects stale reads/writes".
2. **A transfer picks a leader with a hole** (`transfer_under_load`). A follower that was
   down gets the next entry without a comparison with the previous one (4308), and
   `transfer_leader` (4648) compares only its last index. `src/fault.rs:102` requires
   "final_leader_has_committed_entries".
3. **A crash during a roll loses records** (`wal_restart`). `roll_segment` (2425) creates
   the full segment's file anew and writes its records again.
   `src/fault.rs:83` requires "committed_write_survived_restart".

Further statements the code does not meet. Each shows in a few calls, of the runs named,
and the properties above are stated so that they do not claim it:

- *"learner catch-up before promotion"* (`docs/gap_plan.md:91`). `promote_peer` asks for
  a last index, not for a log that was caught up. A learner added after entry 1 gets
  entry 2 from the next proposal (4308, the cause of the second finding); its log is
  <<2>>, it is reported without lag, and it can be promoted. When the first voter is then removed,
  committed entry 1 is with one of two voters (membership).
- *"compacted_log_rejected"* (`src/fault.rs:110`), *"compacted entry rejection"*
  (`docs/gap_plan.md:87`) and the reason `entry_compacted` of the append decision
  (9767-9776), counted as present at 9829. `append_entries_to` (4429) makes no such
  check: it answers success for entries the member's snapshot covers, and keeps them
  below the first retained index (transport). `AnswersMatchTheLog` says of such an answer
  only that it matches that log.
- *"becomes read-eligible only after catch-up"* (`src/fault.rs:108`). `read_index`
  answers a member that lags, and a witness; the library's runtime decision refuses the one
  as `replica_lagging` and the other because it serves no data. `VerdictsAgree` compares that
  decision with the read path's report, which counts the lag, and not with
  `read_index` alone (transport).

Behaviour worth knowing that no sentence of the repository contradicts:

- `append_entry` (4018-4027) has no floor: a late request that brings an index again takes
  the entry there and all that follow, committed or not, and the commit index stays above
  the log's end;
- the term of the previous entry is not compared (4412), so a success does not say that
  the log before agrees with the sender's; a request that fills a hole can lose an
  entry of its own, since an earlier entry put behind a later one is cut with it (log <<2>>,
  entries <<1, 2>>: <<2>> is left), and logs may come out of index order;
- a snapshot older than the one installed sets the member's floor back (4040);
- a request of a later term raises the member's term, and that of its committed id, and an
  election does not look at it: the new term may be lower, and the record then fails
  recovery;
- a record and its newline are two writes (2184): after a crash between them the record
  is read back, but the next append runs into its line and both are cut off at the next
  open;
- the election timer campaigns only when the group has no leader (5954), and in a running loop
  it always has one: a leader that goes down is replaced by a command only, which is why the
  timer is no action of `NodeRuntime`;
- an election writes no record (6037 is the only write): its term and votes are lost in a crash, and the
  same term may elect again;
- a command whose caller gave up is executed all the same; after a lifecycle call that gave
  up, the handle's state and the thread's may differ for good;
- a client that connects to the TCP server and stays silent holds up every other client
  and the server's shutdown;
- the append decision (9754) refuses a request that continues from the snapshot's last
  entry: its index is below the first retained one;
- a recovery of the in-memory WAL that cuts its tail gives damaged records between valid ones
  a checksum that matches;
- compaction keeps a number of segments, empty ones included (2262);
- after a checkpoint is installed, a replay that begins inside it stops at its first
  entry, because the responses are gone (2946);
- a snapshot timeout counts a retry and sends nothing again (3475), and an accepted
  answer names no snapshot (3449): after a rollback, late answers can complete a send whose
  chunks did not arrive;
- `install_snapshot_chunk_to` hands the cluster its last chunk only;
- a refused proposal leaves its entry on the members visited before the refusal, and a
  later commit covers it.

## 7. What is not modelled

- The snapshot store writes a file in place; what a crash leaves is a decoding
  error to its only reader, and nothing else in the code reads it.
- Reports, parity tables, readiness and rollout gates, the benchmark harness and its scripts
  change no state and are mappings from flags to text; of them only the status and health of
  a running cluster and the durability report's blockers are modelled.
- The scenario catalogue (`fault.rs`) is a table; some of its rows are quoted in section 6.
- Counters that are only reported (ticks, learner rounds, rejoins, segments' sealed flags).
- The wrappers of `RaftCluster` that pass a call to a peer's pipeline (5111-5187) are
  `ReplicationPipeline`'s actions; they are not repeated in `RaftCluster`, whose runs would
  multiply by the pipeline's states.
- Threads that panic, and a caller of a transport that dies within its call.

## 8. What could follow

The parts of the code that change protocol state are modelled, and the safety properties
the runs check are proved. What is left are statements that have no theorem yet: that the
in-memory WAL is a flat sequence and that the storage validators agree, for every value
instead of those TLC compares; and that the lifecycle's chunks, the channel of the runtime or the
log of records implement an abstract specification each, as the adapter does.
