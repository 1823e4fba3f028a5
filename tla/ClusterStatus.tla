----------------------------- MODULE ClusterStatus -----------------------------
(***************************************************************************)
(* What an operator is shown of a cluster: the status of a member, the     *)
(* health derived from it, the cluster report, the peers' blockers in the  *)
(* runtime status, and the decision whether a learner may be promoted.     *)
(* All of it is computed from the cluster when asked and kept nowhere.     *)
(***************************************************************************)
EXTENDS RaftCluster, RaftMembership

\* Mutant: the lag of a peer that is down does not count.
PeerStatusOfHealthy(n, peer) ==
  [ matched |-> MatchIndex(nodes[peer]),
    learner |-> nodes[peer].replica_role = "Learner",
    healthy |-> nodes[peer].healthy,
    lag |-> IF nodes[peer].healthy
              THEN Max({0, MatchIndex(nodes[n]) - MatchIndex(nodes[peer])}) ELSE 0 ]

\* What member n's status says of another member: the lag is behind n itself.
PeerStatus(n, peer) ==
  [ matched |-> MatchIndex(nodes[peer]),
    learner |-> nodes[peer].replica_role = "Learner",
    healthy |-> nodes[peer].healthy,
    lag |-> Max({0, MatchIndex(nodes[n]) - MatchIndex(nodes[peer])}) ]

\* RaftCluster::status
Status(n) ==
  [ role |-> nodes[n].raft_role, term |-> nodes[n].current_term,
    leader_id |-> leader_id,
    commit_index |-> nodes[n].commit_index,
    applied_index |-> nodes[n].applied_index,
    last_log_index |-> MatchIndex(nodes[n]),
    last_snapshot_index |-> nodes[n].installed_snapshot,
    peers |-> [peer \in Member \ {n} |-> PeerStatus(n, peer)] ]

--------------------------------------------------------------------------------
Health(leader, lagging) ==
  IF leader = None THEN "Unavailable"
  ELSE IF lagging THEN "Degraded" ELSE "Healthy"

\* The cluster report passes no pipelines to rustraft_replication_health.
ReplicationHealth(status) ==
  Health(status.leader_id,
         \E peer \in DOMAIN status.peers : status.peers[peer].lag > 0)

ApplyHealth(status) ==
  Health(status.leader_id, status.commit_index > status.applied_index)

\* The leader's status, or without one that of the first member.
Representative ==
  Status(IF leader_id \in Member THEN leader_id ELSE Min(Member))

\* rustraft_cluster_status_report: ready without any blocker.
ClusterReady ==
  /\ leader_id # None
  /\ Member # {}
  /\ ReplicationHealth(Representative) = "Healthy"
  /\ ApplyHealth(Representative) = "Healthy"

\* The blockers of a peer in the runtime status: its lag is behind the cluster's
\* commit index here.
PeerBlockers(n) ==
  {b \in {"peer_unhealthy", "peer_lagging"} :
     \/ b = "peer_unhealthy" /\ ~ nodes[n].healthy
     \/ b = "peer_lagging" /\ MatchIndex(nodes[n]) < commit_index}

\* rustraft_learner_promotion_decision on a member's status.
PromotionDecision(status, learner, max_lag) ==
  /\ learner \in DOMAIN status.peers
  /\ status.peers[learner].learner /\ status.peers[learner].healthy
  /\ status.peers[learner].matched >= Max({0, status.commit_index - max_lag})

--------------------------------------------------------------------------------
\* A ready report is the absence of lag behind the leader.  It means that the
\* leader's log holds the entry of every log id a client got in the leader's
\* term, that no member's last index is before it, and that every member whose
\* log has no hole holds the same entry.  A member that missed an entry while it
\* was down, or joined after it, is not told apart: propose does not compare the
\* entry before, and no lag shows the hole.  The runtime status calls a member
\* lagging only if the leader itself lags, and a learner the executor would
\* promote is one the library's decision accepts too if it is up.
ReadyMeansHeld ==
  /\ ClusterReady =>
       \A k \in DOMAIN acknowledged : acknowledged[k].term = current_term =>
         /\ HasEntry(nodes[leader_id].log, acknowledged[k])
         /\ \A n \in Member :
              /\ acknowledged[k].index <= MatchIndex(nodes[n])
              /\ Contiguous(nodes[n]) => HasEntry(nodes[n].log, acknowledged[k])
  /\ ClusterReady =>
       \A n \in Member : "peer_lagging" \in PeerBlockers(n) =>
         "peer_lagging" \in PeerBlockers(leader_id)
  /\ \A n \in Member :
       /\ leader_id # None /\ n # leader_id /\ nodes[n].healthy
       /\ CatchUpReport(MembershipOf(nodes, current_term), n,
                        MatchIndex(nodes[n]), commit_index).promotable
       => PromotionDecision(Status(leader_id), n, 0)
================================================================================
