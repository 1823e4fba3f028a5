----------------------------- MODULE ClusterReads -----------------------------
(***************************************************************************)
(* What the cluster answers without changing: the read path (read_index,   *)
(* read_path_report, lease_read_eligible), pre_vote, and the read-safety   *)
(* decisions of the library, which judge the same questions a second time  *)
(* from flags and indexes handed to them.                                  *)
(*                                                                         *)
(* An answer keeps its verdict and its indexes; of the reasons it keeps    *)
(* the refusal, None when there is none.                                   *)
(***************************************************************************)
EXTENDS RaftCluster, RaftMembership

CONSTANTS EnableLeaseRead,   \* RaftConfig.enable_lease_read
          EnablePreVote      \* RaftConfig.enable_pre_vote

ASSUME ReadsAssumption == EnableLeaseRead \in BOOLEAN /\ EnablePreVote \in BOOLEAN

--------------------------------------------------------------------------------
\* The reasons read_index and the runtime decision refuse with.
RefusalReason ==
  { "node_unhealthy", "no_live_quorum", "applied_index_behind_min_commit",
    "not_leader", "minority_partition", "node_unavailable", "stale_leader_lease",
    "replica_lagging" }

\* An answer without a refusal is told from every refusal.
ASSUME ReasonsAssumption == None \notin RefusalReason

\* The reason of the first check that fails, None when all pass.
FirstRefusal(checks) ==
  LET failing == {i \in DOMAIN checks : ~ checks[i].passed}
  IN  IF failing = {} THEN None ELSE checks[Min(failing)].reason

Check(passed, reason) == [passed |-> passed, reason |-> reason]

\* Why read_index refuses a read at member n, which need not lead.
ReadRefusal(n, min_commit) ==
  FirstRefusal(<<
    Check(nodes[n].healthy, "node_unhealthy"),
    Check(HasLiveQuorum(nodes), "no_live_quorum"),
    Check(min_commit <= nodes[n].applied_index,
          "applied_index_behind_min_commit") >>)

ReadIndex(n, min_commit, allow_lease) ==
  LET refusal == ReadRefusal(n, min_commit)
      lease   == /\ refusal = None /\ allow_lease /\ EnableLeaseRead
                 /\ leader_id = n /\ leader_lease_valid
  IN  [ safe |-> refusal = None, read_index |-> nodes[n].commit_index,
        lease_read |-> lease,
        reason |-> IF refusal # None THEN refusal
                   ELSE IF lease THEN "lease_read" ELSE "read_index" ]

LeaseReadEligible(n, min_commit) ==
  LET answer == ReadIndex(n, min_commit, TRUE)
  IN  answer.safe /\ answer.lease_read

\* read_quorum_report counts the live voters and witnesses of the membership.
ReadQuorumReached ==
  LET m == MembershipOf(nodes, current_term)
  IN  Cardinality({n \in m.voters \cup m.witnesses : nodes[n].healthy})
        >= MembershipQuorumSize(m)

--------------------------------------------------------------------------------
\* The reports of the library.
AppliedIndexFence(min_commit, node_commit, node_applied) ==
  min_commit <= node_applied /\ node_applied <= node_commit

\* Mutant: whoever asks while a lease is valid.
LeaseEligibilityOfAny(n, config_enabled, fence_passed) ==
  config_enabled /\ leader_lease_valid /\ fence_passed

LeaseEligibility(n, config_enabled, fence_passed) ==
  config_enabled /\ leader_id = n /\ leader_lease_valid /\ fence_passed

BoundedStaleAllowed(node_commit, leader_commit, max_lag) ==
  leader_commit - node_commit <= max_lag

\* rustraft_read_safety_runtime_decision: why it refuses operation op at the
\* member its input describes.
RuntimeRefusal(op, in) ==
  FirstRefusal(
    IF op = "Write"
      THEN << Check(~ in.is_follower, "not_leader"),
              Check(in.has_majority, "minority_partition") >>
      ELSE << Check(in.alive /\ in.serves_data, "node_unavailable"),
              Check(op = "LeaseRead" => in.lease_valid, "stale_leader_lease"),
              Check(op \in {"ReadIndex", "LeaseRead"} => in.has_majority,
                    "minority_partition"),
              Check(BoundedStaleAllowed(in.commit, in.leader_commit,
                      IF op = "BoundedStaleRead" THEN in.max_lag ELSE 0),
                    "replica_lagging") >>)

\* The input an embedder makes of member n.
RuntimeInput(n, max_lag) ==
  [ is_follower |-> n # leader_id, alive |-> nodes[n].healthy,
    serves_data |-> CanServeData(nodes[n].replica_role),
    lease_valid |-> leader_lease_valid, has_majority |-> ReadQuorumReached,
    commit |-> nodes[n].commit_index, leader_commit |-> commit_index,
    max_lag |-> max_lag ]

\* rustraft_read_safety_decision on the member's own status.
StatusReadSafe(n, min_commit) ==
  nodes[n].raft_role = "Leader" /\ nodes[n].applied_index >= min_commit

\* read_path_report: the answer of read_index together with the reports.
ReadPathReport(n, min_commit, allow_lease, max_lag) ==
  LET answer == ReadIndex(n, min_commit, allow_lease)
      fence  == AppliedIndexFence(min_commit, nodes[n].commit_index,
                                  nodes[n].applied_index)
      quorum == ReadQuorumReached
      safe   == /\ answer.safe /\ quorum /\ fence
                /\ leader_id # None =>
                     BoundedStaleAllowed(nodes[n].commit_index, commit_index, max_lag)
  IN  [ safe |-> safe, read_index |-> answer.read_index,
        lease_read |-> answer.lease_read /\ safe,
        quorum |-> quorum, fence |-> fence,
        eligible |-> LeaseEligibility(n, EnableLeaseRead /\ allow_lease, fence),
        stale_leader_rejected |->
          allow_lease /\ leader_id = n /\ ~ leader_lease_valid ]

--------------------------------------------------------------------------------
\* pre_vote asks nobody; campaign does not ask it.
PreVoteGranted(n) ==
  /\ EnablePreVote
  /\ CanBeLeader(nodes[n].replica_role)
  /\ nodes[n].healthy
  /\ HasLiveQuorum(nodes)

--------------------------------------------------------------------------------
\* Each verdict is computed twice, from different fields, and the two agree in
\* every state: a read that read_index calls safe passes the quorum and fence
\* reports, a lease read is granted exactly to the member the eligibility report
\* names, what the full report serves the library's runtime decision allows too
\* (a witness aside, which read_index serves and the decision does not), and a
\* pre-vote is granted only to a member campaign elects.
VerdictsAgree ==
  \A n \in Member :
    /\ PreVoteGranted(n) => Electable(n)
    /\ \A max_lag \in 0 .. 1, min_commit \in {0, commit_index}, allow \in BOOLEAN :
         LET answer == ReadIndex(n, min_commit, allow)
             report == ReadPathReport(n, min_commit, allow, max_lag)
             input  == RuntimeInput(n, max_lag)
         IN  /\ answer.safe => report.quorum /\ report.fence
             /\ answer.lease_read <=> answer.safe /\ report.eligible
             /\ report.lease_read =>
                  LeaseReadEligible(n, min_commit) /\ ~ report.stale_leader_rejected
             /\ report.safe /\ leader_id # None /\ input.serves_data =>
                  /\ RuntimeRefusal("BoundedStaleRead", input) = None
                  /\ max_lag = 0 => RuntimeRefusal("ReadIndex", input) = None
                  /\ max_lag = 0 /\ report.lease_read =>
                       RuntimeRefusal("LeaseRead", input) = None
             /\ StatusReadSafe(n, min_commit) /\ ReadRefusal(n, 0) = None =>
                  answer.safe

\* While no embedder declares it valid, a lease means a leader that is up: no
\* sequence of elections, stops, removals, outages and rollbacks leaves the
\* lease of a leader that is gone or down.
LeaseMeansHealthyLeader ==
  leader_lease_valid =>
    /\ leader_id # None
    /\ nodes[leader_id].healthy /\ CanBeLeader(nodes[leader_id].replica_role)
================================================================================
