------------------------------ MODULE RaftCluster ------------------------------
(***************************************************************************)
(* The consensus engine of RustRaft: struct RaftCluster in src/lib.rs.     *)
(*                                                                         *)
(* A RaftCluster holds every member of one group in one process and        *)
(* carries out each call to completion; the calls come from the node       *)
(* runtime, the membership executor and the transports, in any order.      *)
(* One action models one call that changes state.  A call that returns an  *)
(* error before it changed anything is no step; a call that fails after it *)
(* changed something (Start, Propose) is modelled with what it leaves      *)
(* behind.                                                                 *)
(*                                                                         *)
(* RuntimeNext holds the calls the node runtime and the membership         *)
(* executor make.  Next adds the calls only an embedder or a transport     *)
(* makes: remote append entries, snapshots, compaction.  A member restored *)
(* from its WAL is a step of NodeRuntime.                                  *)
(***************************************************************************)
EXTENDS RaftNode, PipelineOps

CONSTANTS
  Node,             \* the member ids ever used; ids are ordered numbers
  InitialPeers,     \* the initial memberships: functions from ids to roles
  AddablePeers,     \* the <<id, role>> pairs an operator may add
  RemovablePeers,   \* the ids an operator may remove
  Payload,          \* the payloads a client proposes
  LeaseUpdates,     \* the values an embedder reports for the leader lease
  AppendRequests,   \* the append-entries requests a transport may deliver
  SnapshotIndexes,  \* the last indexes of the snapshots offered, and of compactions
  Tails,            \* the tails installed after a snapshot: sequences of entries
  MaxPayloadBytes,  \* RaftConfig.max_payload_bytes
  MaxTerm,          \* bound: terms
  MaxLogIndex,      \* bound: log indexes
  MaxAcknowledged   \* bound: accepted proposals

ASSUME ClusterAssumption ==
  /\ Node \subseteq Nat /\ IsFiniteSet(Node) /\ None \notin Node
  /\ \A peers \in InitialPeers :
       /\ DOMAIN peers \subseteq Node
       /\ \A n \in DOMAIN peers : peers[n] \in ReplicaRole
       /\ \E n \in DOMAIN peers : CanBeLeader(peers[n])
  /\ AddablePeers \subseteq Node \X ReplicaRole /\ RemovablePeers \subseteq Node
  /\ AppendRequests \subseteq
       [ term : Nat, prev_index : Nat, leader_commit : Nat,
         entries : Seq([term : Nat, index : Nat, payload : Payload]) ]
  /\ SnapshotIndexes \subseteq Nat /\ LeaseUpdates \subseteq BOOLEAN
  /\ Tails \subseteq Seq([term : Nat, index : Nat, payload : Payload])
  /\ MaxTerm \in Nat /\ MaxLogIndex \in Nat /\ MaxAcknowledged \in Nat
  /\ None \notin [term : Nat, index : Nat]

VARIABLES
  nodes,               \* the members: id -> record of RaftNode
  peer_pipelines,      \* id -> record of PipelineOps
  leader_id,           \* the leader's id or None
  current_term, commit_index, applied_index, last_log_index,
  running, leader_lease_valid,
  acknowledged         \* history: the log ids propose returned, in order

indexVars == <<commit_index, applied_index, last_log_index>>
leaderVars == <<leader_id, current_term>>
vars == <<nodes, peer_pipelines, leader_id, current_term, commit_index,
          applied_index, last_log_index, running, leader_lease_valid,
          acknowledged>>

Member == DOMAIN nodes

Init ==
  /\ \E peers \in InitialPeers :
       /\ nodes = [n \in DOMAIN peers |-> NewNode(peers[n])]
       /\ peer_pipelines = [n \in DOMAIN peers |-> NewPipeline(1)]
  /\ leader_id = None
  /\ current_term = 0
  /\ commit_index = 0 /\ applied_index = 0 /\ last_log_index = 0
  /\ running = FALSE /\ leader_lease_valid = FALSE
  /\ acknowledged = << >>

--------------------------------------------------------------------------------
(***************************************************************************)
(* Quorums and the indexes derived from the members.                       *)
(***************************************************************************)
QuorumParticipants(ns) ==
  {n \in DOMAIN ns : ParticipatesInQuorum(ns[n].replica_role)}

LiveParticipants(ns) == {n \in QuorumParticipants(ns) : ns[n].healthy}

QuorumSize(ns) == Cardinality(QuorumParticipants(ns)) \div 2 + 1

HasLiveQuorum(ns) == Cardinality(LiveParticipants(ns)) >= QuorumSize(ns)

\* Mutant: one participant fewer than a quorum is enough.
QuorumMatchIndexOffByOne(ns) ==
  LET live   == LiveParticipants(ns)
      needed == Min({Cardinality(live), QuorumSize(ns) - 1})
  IN  Max({i \in {MatchIndex(ns[n]) : n \in live} :
             Cardinality({n \in live : MatchIndex(ns[n]) >= i}) >= needed})

\* The candidate refresh_commit_index picks: the live participants' match
\* indexes in ascending order, at position live - quorum, which saturates at
\* the first one when fewer than a quorum are live.
QuorumMatchIndex(ns) ==
  LET live   == LiveParticipants(ns)
      needed == Min({Cardinality(live), QuorumSize(ns)})
      holding(i) == {n \in live : MatchIndex(ns[n]) >= i}
  IN  Max({i \in {MatchIndex(ns[n]) : n \in live} :
             Cardinality(holding(i)) >= needed})

MaxCommit(ns)    == Max({0} \cup {ns[n].commit_index : n \in DOMAIN ns})
MaxLastIndex(ns) == Max({0} \cup {MatchIndex(ns[n]) : n \in DOMAIN ns})

MinApplied(ns) ==
  LET serving == {n \in DOMAIN ns : CanServeData(ns[n].replica_role)}
  IN  IF serving = {} THEN 0 ELSE Min({ns[n].applied_index : n \in serving})

\* refresh_cluster_indexes, for members ns.
RefreshClusterIndexes(ns) ==
  /\ commit_index'   = MaxCommit(ns)
  /\ applied_index'  = MinApplied(ns)
  /\ last_log_index' = MaxLastIndex(ns)

\* refresh_commit_index over members ns, whose highest index is last_index: the
\* healthy members follow the new commit index; without a live participant it
\* returns early.
RefreshCommitIndex(ns, last_index) ==
  LET target   == Max({commit_index, QuorumMatchIndex(ns)})
      advanced == [n \in DOMAIN ns |->
                     IF ns[n].healthy THEN AdvanceCommit(ns[n], target)
                     ELSE ns[n]]
  IN  IF LiveParticipants(ns) = {}
        THEN /\ nodes' = ns
             /\ last_log_index' = last_index
             /\ UNCHANGED <<commit_index, applied_index>>
        ELSE /\ nodes' = advanced
             /\ RefreshClusterIndexes(advanced)

\* refresh_replication_pipelines: a missing pipeline is created and the
\* leader's own one is told that it matches last_log_index.
RefreshPipelines(ns, pipelines, leader) ==
  LET all == [n \in DOMAIN ns |->
                IF n \in DOMAIN pipelines THEN pipelines[n]
                ELSE NewPipeline(MatchIndex(ns[n]) + 1)]
  IN  IF leader \in DOMAIN ns
        THEN [all EXCEPT ![leader] = HandleAppendSuccess(@, last_log_index)]
        ELSE all

--------------------------------------------------------------------------------
(***************************************************************************)
(* Leadership.                                                             *)
(***************************************************************************)
Electable(n) ==
  n \in Member /\ CanBeLeader(nodes[n].replica_role) /\ nodes[n].healthy

\* Mutants of Elect: the leader before keeps its role; members that are down move
\* to the term without a vote; the candidate counts from its own term.
ElectFrom(candidate, term, voted) ==
  /\ term <= MaxTerm
  /\ current_term' = term
  /\ leader_id' = candidate
  /\ leader_lease_valid' = TRUE
  /\ nodes' = voted
  /\ peer_pipelines' = RefreshPipelines(voted, peer_pipelines, candidate)
  /\ UNCHANGED indexVars

ElectBesideOldLeader(candidate) ==
  ElectFrom(candidate, current_term + 1,
    [n \in Member |-> [nodes[n] EXCEPT
       !.current_term = current_term + 1, !.voted_for = candidate,
       !.raft_role = IF n = candidate THEN "Leader" ELSE @]])

ElectByHealthy(candidate) ==
  ElectFrom(candidate, current_term + 1,
    [n \in Member |-> [nodes[n] EXCEPT
       !.current_term = current_term + 1,
       !.voted_for = IF nodes[n].healthy THEN candidate ELSE @,
       !.raft_role = IF n = candidate THEN "Leader"
                     ELSE IdleRole(nodes[n].replica_role)]])

ElectFromOwnTerm(candidate) ==
  ElectFrom(candidate, nodes[candidate].current_term + 1,
    [n \in Member |-> [nodes[n] EXCEPT
       !.current_term = nodes[candidate].current_term + 1,
       !.voted_for = candidate,
       !.raft_role = IF n = candidate THEN "Leader"
                     ELSE IdleRole(nodes[n].replica_role)]])

\* What campaign does once its checks passed: every member, healthy or not,
\* moves to the new term and has voted for the candidate.
Elect(candidate) ==
  LET term  == current_term + 1
      voted == [n \in Member |->
                  [nodes[n] EXCEPT
                     !.current_term = term,
                     !.voted_for    = candidate,
                     !.raft_role    = IF n = candidate THEN "Leader"
                                      ELSE IdleRole(nodes[n].replica_role)]]
  IN  /\ current_term < MaxTerm
      /\ current_term' = term
      /\ leader_id' = candidate
      /\ leader_lease_valid' = TRUE
      /\ nodes' = voted
      /\ peer_pipelines' = RefreshPipelines(voted, peer_pipelines, candidate)
      /\ UNCHANGED indexVars

\* start: the first healthy voter in id order leads unless there is a leader;
\* without a healthy voter the call fails with the cluster left running.
Start ==
  LET electable == {n \in Member : Electable(n)}
  IN  /\ running' = TRUE
      /\ \/ /\ leader_id = None /\ electable # {}
            /\ Elect(Min(electable))
         \/ /\ leader_id # None \/ electable = {}
            /\ UNCHANGED <<nodes, peer_pipelines, leaderVars, indexVars,
                           leader_lease_valid>>
      /\ UNCHANGED acknowledged

Stop ==
  /\ running' = FALSE
  /\ leader_lease_valid' = FALSE
  /\ UNCHANGED <<nodes, peer_pipelines, leaderVars, indexVars, acknowledged>>

\* campaign; only a forced campaign may run before start.
Campaign(candidate, forced) ==
  /\ running \/ forced
  /\ Electable(candidate)
  /\ Elect(candidate)
  /\ UNCHANGED <<running, acknowledged>>

\* transfer_leader: the target must match the cluster's commit index.
TransferLeader(target) ==
  /\ Electable(target)
  /\ MatchIndex(nodes[target]) >= commit_index
  /\ Elect(target)
  /\ UNCHANGED <<running, acknowledged>>

SetNodeHealthy(n, healthy) ==
  /\ n \in Member
  /\ nodes' = [nodes EXCEPT ![n].healthy = healthy]
  /\ leader_lease_valid' = (leader_lease_valid /\ ~ (leader_id = n /\ ~ healthy))
  /\ UNCHANGED <<peer_pipelines, leaderVars, indexVars, running, acknowledged>>

SetLeaderLeaseValid(valid) ==
  /\ leader_lease_valid' = valid
  /\ UNCHANGED <<nodes, peer_pipelines, leaderVars, indexVars, running,
                 acknowledged>>

--------------------------------------------------------------------------------
(***************************************************************************)
(* propose.  The members are visited in id order: the leader appends, a    *)
(* witness is passed over, and every other member's pipeline must accept   *)
(* the entry before the member, if healthy, appends and acknowledges it.   *)
(* A refusal ends the call with the members before it already changed.     *)
(***************************************************************************)
ProposeBatchEntries == 64

\* Mutant: the leader numbers the entry from its own log.
NewEntryOfLeader(payload) ==
  [term |-> current_term, index |-> MatchIndex(nodes[leader_id]) + 1,
   payload |-> payload]

NewEntry(payload) ==
  [term |-> current_term, index |-> last_log_index + 1, payload |-> payload]

CanPropose(payload) ==
  /\ leader_id # None
  /\ running
  /\ Bytes[payload] <= MaxPayloadBytes
  /\ leader_id \in Member
  /\ nodes[leader_id].healthy
  /\ last_log_index < MaxLogIndex /\ Len(acknowledged) < MaxAcknowledged

Followers == {n \in Member \ {leader_id} : CanServeData(nodes[n].replica_role)}

Refusing(e) == {n \in Followers : ~ QueueAccepts(peer_pipelines[n], e)}

\* The members visited before the first refusal.
Visited(e) ==
  IF Refusing(e) = {} THEN Member ELSE {n \in Member : n < Min(Refusing(e))}

Appending(e) ==
  {n \in Visited(e) : n = leader_id \/ (n \in Followers /\ nodes[n].healthy)}

Replicated(e) ==
  [n \in Member |-> IF n \in Appending(e)
                      THEN [nodes[n] EXCEPT !.log = AppendEntry(@, e)]
                      ELSE nodes[n]]

\* A visited follower's pipeline queues and flushes the entry; a healthy
\* follower acknowledges it at once.
ReplicatedPipelines(e) ==
  LET sent(n) == FlushAppendBatch(QueueAppend(peer_pipelines[n], e),
                                  ProposeBatchEntries, Max({MaxPayloadBytes, 1}))
  IN  [n \in Member |->
         IF n \notin Visited(e) \cap Followers THEN peer_pipelines[n]
         ELSE IF nodes[n].healthy
                THEN HandleAppendSuccess(sent(n), MatchIndex(Replicated(e)[n]))
                ELSE sent(n)]

Propose(payload) ==
  LET e == NewEntry(payload)
  IN  /\ CanPropose(payload)
      /\ Refusing(e) = {}
      /\ peer_pipelines' = ReplicatedPipelines(e)
      /\ RefreshCommitIndex(Replicated(e), e.index)
      /\ acknowledged' = Append(acknowledged, [term |-> e.term, index |-> e.index])
      /\ UNCHANGED <<leaderVars, running, leader_lease_valid>>

\* The call fails, its index is used up, and the commit index is not refreshed.
ProposeRefused(payload) ==
  LET e == NewEntry(payload)
  IN  /\ CanPropose(payload)
      /\ Refusing(e) # {}
      /\ peer_pipelines' = ReplicatedPipelines(e)
      /\ nodes' = Replicated(e)
      /\ last_log_index' = e.index
      /\ UNCHANGED <<leaderVars, commit_index, applied_index, running,
                     leader_lease_valid, acknowledged>>

--------------------------------------------------------------------------------
(***************************************************************************)
(* Membership.                                                             *)
(***************************************************************************)
\* add_peer, add_learner and add_witness differ in the role only.  The new
\* pipeline starts after the cluster's last index although the log is empty.
AddPeer(n, role) ==
  LET added == [m \in Member \cup {n} |->
                  IF m = n THEN NewNode(role) ELSE nodes[m]]
      pipelines == [m \in Member \cup {n} |->
                      IF m = n THEN NewPipeline(last_log_index + 1)
                      ELSE peer_pipelines[m]]
  IN  /\ n \notin Member
      /\ nodes' = added
      /\ peer_pipelines' = RefreshPipelines(added, pipelines, leader_id)
      /\ UNCHANGED <<leaderVars, indexVars, running, leader_lease_valid,
                     acknowledged>>

\* Mutant: the match index is not compared.
PromotePeerLagging(n) ==
  /\ n \in Member
  /\ nodes' = [nodes EXCEPT ![n].replica_role = "Voter",
                            ![n].raft_role    = "Follower"]
  /\ UNCHANGED <<peer_pipelines, leaderVars, indexVars, running,
                 leader_lease_valid, acknowledged>>

\* promote_peer checks the match index alone: it accepts a witness, and on the
\* leader it leaves the raft role Follower.
PromotePeer(n) ==
  /\ n \in Member
  /\ MatchIndex(nodes[n]) >= commit_index
  /\ nodes' = [nodes EXCEPT ![n].replica_role = "Voter",
                            ![n].raft_role    = "Follower"]
  /\ UNCHANGED <<peer_pipelines, leaderVars, indexVars, running,
                 leader_lease_valid, acknowledged>>

\* Mutant: the lease of a removed leader stays.
RemovePeerKeepingLease(n) ==
  /\ n \in Member
  /\ nodes' = [m \in Member \ {n} |-> nodes[m]]
  /\ leader_id' = IF leader_id = n THEN None ELSE leader_id
  /\ peer_pipelines' = [m \in Member \ {n} |-> peer_pipelines[m]]
  /\ UNCHANGED <<current_term, indexVars, running, leader_lease_valid,
                 acknowledged>>

\* remove_peer: the cluster indexes keep counting the removed member.
RemovePeer(n) ==
  LET rest == [m \in Member \ {n} |-> nodes[m]]
      pipelines == [m \in Member \ {n} |-> peer_pipelines[m]]
  IN  /\ n \in Member
      /\ nodes' = rest
      /\ leader_id' = IF leader_id = n THEN None ELSE leader_id
      /\ leader_lease_valid' = (leader_lease_valid /\ leader_id # n)
      /\ peer_pipelines' = RefreshPipelines(rest, pipelines, leader_id')
      /\ UNCHANGED <<current_term, indexVars, running, acknowledged>>

\* learner_catch_up_loop: the learner takes the leader's snapshot if it is
\* ahead, then the leader's entries above what it holds, and follows the commit
\* index; healthy or not.
CaughtUpLearner(learner) ==
  LET leader  == nodes[leader_id]
      floored == IF leader.installed_snapshot > MatchIndex(nodes[learner])
                   THEN [nodes[learner] EXCEPT
                           !.installed_snapshot = leader.installed_snapshot]
                   ELSE nodes[learner]
      tail    == EntriesAbove(leader.log, MatchIndex(floored))
      filled  == [floored EXCEPT !.log = AppendEntries(@, tail)]
  IN  AdvanceCommit(filled, Min({commit_index, MatchIndex(filled)}))

LearnerCatchUp(learner) ==
  LET caught == [nodes EXCEPT ![learner] = CaughtUpLearner(learner)]
  IN  /\ leader_id # None /\ leader_id \in Member
      /\ learner \in Member /\ nodes[learner].replica_role = "Learner"
      /\ nodes' = caught
      /\ peer_pipelines' = [peer_pipelines EXCEPT ![learner] =
           HandleAppendSuccess(@, MatchIndex(caught[learner]))]
      /\ RefreshClusterIndexes(caught)
      /\ UNCHANGED <<leaderVars, running, leader_lease_valid, acknowledged>>

RuntimeNext ==
  \/ Start
  \/ Stop
  \/ \E n \in Node, forced \in BOOLEAN : Campaign(n, forced)
  \/ \E n \in Node : TransferLeader(n)
  \/ \E n \in Node, healthy \in BOOLEAN : SetNodeHealthy(n, healthy)
  \/ \E valid \in LeaseUpdates : SetLeaderLeaseValid(valid)
  \/ \E payload \in Payload : Propose(payload)
  \/ \E payload \in Payload : ProposeRefused(payload)
  \/ \E peer \in AddablePeers : AddPeer(peer[1], peer[2])
  \/ \E n \in Node : PromotePeer(n)
  \/ \E n \in RemovablePeers : RemovePeer(n)
  \/ \E n \in Node : LearnerCatchUp(n)

RuntimeSpec == Init /\ [][RuntimeNext]_vars

--------------------------------------------------------------------------------
(***************************************************************************)
(* The calls of transports and embedders.  Requests come from another      *)
(* process, so they may be stale, repeated, reordered, or from a leader of *)
(* any term.                                                               *)
(***************************************************************************)
\* append_entries_to returns success: the request is not from an older term and
\* the member's log reaches the previous index (its term is not compared).
AppendAccepted(node, request) ==
  /\ request.term >= node.current_term
  /\ request.prev_index <= MatchIndex(node)

AppendedTo(node, request) ==
  LET follower ==
        [node EXCEPT
           !.current_term = request.term,
           !.raft_role    = IdleRole(node.replica_role),
           !.log          = IF CanServeData(node.replica_role)
                              THEN AppendEntries(@, request.entries) ELSE @]
  IN  AdvanceCommit(follower, request.leader_commit)

\* Mutant: the cluster's indexes are not refreshed.
AppendEntriesToUnrefreshed(target, request) ==
  /\ target \in Member
  /\ AppendAccepted(nodes[target], request)
  /\ nodes' = [nodes EXCEPT ![target] = AppendedTo(@, request)]
  /\ UNCHANGED <<peer_pipelines, leaderVars, indexVars, running,
                 leader_lease_valid, acknowledged>>

AppendEntriesTo(target, request) ==
  /\ target \in Member
  /\ AppendAccepted(nodes[target], request)
  /\ nodes' = [nodes EXCEPT ![target] = AppendedTo(@, request)]
  /\ RefreshClusterIndexes(nodes')
  /\ UNCHANGED <<peer_pipelines, leaderVars, running, leader_lease_valid,
                 acknowledged>>

\* install_snapshot_to with a fence that passes validation; the chunked forms
\* (install_snapshot_chunk_to, install_snapshot_lifecycle_request_to) make this
\* call with their last chunk and change nothing before it.
InstallSnapshotTo(target, snapshot_index) ==
  /\ target \in Member
  /\ nodes' = [nodes EXCEPT ![target] = InstallSnapshot(@, snapshot_index)]
  /\ peer_pipelines' =
       [peer_pipelines EXCEPT ![target] = InstalledPipeline(@, snapshot_index)]
  /\ RefreshClusterIndexes(nodes')
  /\ UNCHANGED <<leaderVars, running, leader_lease_valid, acknowledged>>

\* install_snapshot_with_tail_to: only the first tail entry is compared with the
\* snapshot; the tail goes to any replica role, and the member then counts all
\* it holds as committed.
TailInstalled(node, snapshot_index, tail) ==
  LET installed == InstallSnapshot(node, snapshot_index)
      filled    == [installed EXCEPT !.log = AppendEntries(@, tail)]
  IN  AdvanceCommit(filled, MatchIndex(filled))

InstallSnapshotWithTailTo(target, snapshot_index, tail) ==
  /\ tail # << >> => tail[1].index > snapshot_index
  /\ target \in Member
  /\ nodes' = [nodes EXCEPT ![target] = TailInstalled(@, snapshot_index, tail)]
  /\ peer_pipelines' = [peer_pipelines EXCEPT ![target] =
       HandleAppendSuccess(InstalledPipeline(@, snapshot_index),
                           MatchIndex(nodes'[target]))]
  /\ RefreshClusterIndexes(nodes')
  /\ UNCHANGED <<leaderVars, running, leader_lease_valid, acknowledged>>

\* compact_logs_through asks no member for a snapshot first.
CompactLogsThrough(log_index) ==
  /\ nodes' = [n \in Member |-> CompactLogThrough(nodes[n], log_index)]
  /\ RefreshClusterIndexes(nodes')
  /\ UNCHANGED <<peer_pipelines, leaderVars, running, leader_lease_valid,
                 acknowledged>>

TransportNext ==
  \/ \E n \in Node, request \in AppendRequests : AppendEntriesTo(n, request)
  \/ \E n \in Node, i \in SnapshotIndexes : InstallSnapshotTo(n, i)
  \/ \E n \in Node, i \in SnapshotIndexes, tail \in Tails :
       InstallSnapshotWithTailTo(n, i, tail)
  \/ \E i \in SnapshotIndexes : CompactLogsThrough(i)

Next == RuntimeNext \/ TransportNext

Spec == Init /\ [][Next]_vars

--------------------------------------------------------------------------------
Entry == [term : Nat, index : Nat, payload : Payload]
LogId == [term : Nat, index : Nat]

NodeRecord ==
  [ replica_role : ReplicaRole, raft_role : RaftRole,
    current_term : Nat, voted_for : Node \cup {None},
    committed : LogId \cup {None}, log : Seq(Entry),
    installed_snapshot : Nat, commit_index : Nat, applied_index : Nat,
    healthy : BOOLEAN ]

\* The types of the variables; every member has a pipeline and no other id has.
TypeOK ==
  /\ Member \subseteq Node
  /\ nodes \in [Member -> NodeRecord]
  /\ DOMAIN peer_pipelines = Member
  /\ leader_id \in Node \cup {None}
  /\ current_term \in Nat
  /\ commit_index \in Nat /\ applied_index \in Nat /\ last_log_index \in Nat
  /\ running \in BOOLEAN /\ leader_lease_valid \in BOOLEAN
  /\ acknowledged \in Seq(LogId)

\* Whatever was removed, promoted, transferred or left unhealthy: the leader is
\* a member and a voter, no one else believes to lead, and a member is in the
\* learner role exactly while it is a learner.
ElectionSafety ==
  /\ leader_id # None =>
       leader_id \in Member /\ CanBeLeader(nodes[leader_id].replica_role)
  /\ \A n \in Member :
       /\ nodes[n].raft_role = "Leader" => n = leader_id
       /\ nodes[n].raft_role = "Learner" <=> nodes[n].replica_role = "Learner"

\* Two members in the same term have voted for the same candidate, and in the
\* cluster's term for its leader, also after members were added, removed and
\* added again.
OneVotePerTerm ==
  /\ \A m, n \in Member :
       nodes[m].current_term = nodes[n].current_term =>
         nodes[m].voted_for = nodes[n].voted_for
  /\ \A n \in Member :
       leader_id # None /\ nodes[n].current_term = current_term =>
         nodes[n].voted_for = leader_id

\* append_entry searches for an equal index and otherwise pushes at the end: a
\* log stays in index order, so that its last entry is its highest.
LogsOrdered == \A n \in Member : Ordered(nodes[n].log)

\* The members' logs never disagree: entries at the same index are the same
\* entry on every member that holds one.  propose uses up its index before it
\* visits the members, so a refused proposal that reached only some of them is
\* never overlaid by a later one.
LogMatching ==
  \A m, n \in Member :
    \A j \in DOMAIN nodes[m].log, k \in DOMAIN nodes[n].log :
      nodes[m].log[j].index = nodes[n].log[k].index =>
        nodes[m].log[j] = nodes[n].log[k]

\* The cluster's own indexes cover every member's: propose numbers entries from
\* last_log_index, transfer_leader and promote_peer compare with commit_index.
ClusterIndexesCover ==
  \A n \in Member :
    /\ MatchIndex(nodes[n]) <= last_log_index
    /\ nodes[n].commit_index <= commit_index

\* At every moment the record that wal_record_for would persist for a member
\* passes the checks recovery makes on it: a crash never finds a state that
\* recovery silently ignores.
RecordsRecoverable == \A n \in Member : Recoverable(WalRecord(nodes[n]))

\* A log id returned to a client names one proposal: ids grow in term and
\* index order, across refused proposals, elections and membership changes.
AcknowledgedOnce ==
  \A j, k \in DOMAIN acknowledged : j < k =>
    \/ acknowledged[j].term < acknowledged[k].term
    \/ /\ acknowledged[j].term = acknowledged[k].term
       /\ acknowledged[j].index < acknowledged[k].index

\* A log that goes on from the member's snapshot without a hole.
Contiguous(node) ==
  \A k \in DOMAIN node.log : node.log[k].index = node.installed_snapshot + k

\* The index is below the member's snapshot or in its log.
Holds(node, index) ==
  \/ index <= node.installed_snapshot
  \/ \E k \in DOMAIN node.log : node.log[k].index = index

Keeps(log, e) == \E k \in DOMAIN log : log[k] = e

\* A call may take an entry from member n: a snapshot or a compaction reaches its
\* index, or a request or a tail brings an entry at it or before it.
MayTake(n, e) ==
  \/ \E i \in SnapshotIndexes :
       e.index <= i /\ (InstallSnapshotTo(n, i) \/ CompactLogsThrough(i))
  \/ \E i \in SnapshotIndexes, tail \in Tails :
       /\ InstallSnapshotWithTailTo(n, i, tail)
       /\ e.index <= i \/ \E k \in DOMAIN tail : tail[k].index <= e.index
  \/ \E request \in AppendRequests :
       /\ AppendEntriesTo(n, request)
       /\ \E k \in DOMAIN request.entries : request.entries[k].index <= e.index

\* What a member of the group loses, whatever snapshots, tails, requests and
\* compactions are mixed with the group's own calls.  Its commit and applied
\* indexes never fall.  An entry of its log (while that is in index order) goes
\* only where the call names the place: the log above a snapshot or a compaction
\* survives it, and so does the log before the first entry a request brings.
\* Being committed does not protect an entry: a late request that brings its
\* index again takes it and what follows it (append_entry, lib.rs 4018-4027).
MembersKeepProgress ==
  [][\A n \in Member \cap Member' :
       /\ nodes[n].commit_index <= nodes'[n].commit_index
       /\ nodes[n].applied_index <= nodes'[n].applied_index
       /\ Ordered(nodes[n].log) =>
            \A k \in DOMAIN nodes[n].log :
              \/ Keeps(nodes'[n].log, nodes[n].log[k])
              \/ MayTake(n, nodes[n].log[k])]_vars

\* More than half of the voters and witnesses reach the index.
HeldByMajority(ns, index) ==
  2 * Cardinality({n \in QuorumParticipants(ns) : MatchIndex(ns[n]) >= index})
    > Cardinality(QuorumParticipants(ns))

\* With a live quorum, an index becomes committed only when a majority of the
\* voters and witnesses match it.
QuorumCommit ==
  [][commit_index' > commit_index /\ HasLiveQuorum(nodes) =>
       HeldByMajority(nodes', commit_index')]_vars

--------------------------------------------------------------------------------
(***************************************************************************)
(* What the repository says of a group and this code does not do: the runs *)
(* of these properties end in a counterexample.                            *)
(***************************************************************************)
\* src/fault.rs, packet loss to the majority: "majority continues, minority
\* rejects stale reads/writes".  No index is committed without a majority of
\* the voters and witnesses being live.
MinorityWritesRejected ==
  [][commit_index' > commit_index => HasLiveQuorum(nodes)]_vars

\* src/fault.rs, leader transfer under load: "final_leader_has_committed_entries".
\* The leader a transfer installs holds every index up to the commit index.
FinalLeaderHasCommitted ==
  [][\A n \in Node : TransferLeader(n) =>
       \A i \in 1 .. commit_index :
         \E k \in DOMAIN nodes'[n].log : nodes'[n].log[k].index = i]_vars

--------------------------------------------------------------------------------
(***************************************************************************)
(* The inductive invariant of RuntimeSpec behind the properties above.     *)
(***************************************************************************)
\* What holds of each member by itself.
NodeInv(node) ==
  /\ node \in NodeRecord
  /\ node.installed_snapshot = 0
  /\ Ordered(node.log)
  /\ node.commit_index <= LastIndex(node.log)
  /\ node.applied_index <= node.commit_index
  /\ node.committed = None => node.commit_index = 0
  /\ node.committed # None =>
       /\ node.committed.index = node.commit_index
       /\ node.committed.term <= node.current_term
  /\ node.current_term = 0 => node.voted_for = None
  /\ node.raft_role = "Learner" <=> node.replica_role = "Learner"

\* The entry of a log id is in the log.
HasEntry(log, id) ==
  \E k \in DOMAIN log : log[k].term = id.term /\ log[k].index = id.index

\* The leader's log holds everything acknowledged in its term; indexes start at 1.
LeaderCoversTerm ==
  /\ leader_id # None => current_term > 0
  /\ \A k \in DOMAIN acknowledged :
       /\ acknowledged[k].term <= current_term
       /\ acknowledged[k].index > 0
       /\ leader_id # None /\ acknowledged[k].term = current_term =>
            HasEntry(nodes[leader_id].log, acknowledged[k])

\* What holds of the members and their leader, whatever was acknowledged.
GroupInv ==
  /\ TypeOK
  /\ \A n \in Member : NodeInv(nodes[n]) /\ nodes[n].current_term <= current_term
  /\ ElectionSafety
  /\ OneVotePerTerm
  /\ LogMatching
  /\ ClusterIndexesCover

RuntimeInv ==
  /\ GroupInv
  /\ LeaderCoversTerm
  /\ AcknowledgedOnce
================================================================================
