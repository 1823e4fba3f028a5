---------------------------- MODULE RaftMembership ----------------------------
(***************************************************************************)
(* The membership record (RustRaftMembership), its changes and quorums,    *)
(* and the joint record of a change (RustRaftJointMembership), as pure     *)
(* operators.  The three id lists hold no id twice and no reader depends   *)
(* on their order, so they are sets here.                                  *)
(***************************************************************************)
EXTENDS RaftTypes

\* RaftCluster::membership, for the members ns of a cluster in term epoch.
MembershipOf(ns, epoch) ==
  LET of(role) == {n \in DOMAIN ns : ns[n].replica_role = role}
  IN  [ voters |-> of("Voter"), learners |-> of("Learner"),
        witnesses |-> of("Witness"), epoch |-> epoch ]

MemberIds(m) == m.voters \cup m.learners \cup m.witnesses

\* Two records list the same members in the same roles.
SameMembers(m1, m2) ==
  /\ m1.voters = m2.voters
  /\ m1.learners = m2.learners
  /\ m1.witnesses = m2.witnesses

\* Mutant: the witnesses do not count.
MembershipQuorumSizeOfVoters(m) == Cardinality(m.voters) \div 2 + 1

MembershipQuorumSize(m) == Cardinality(m.voters \cup m.witnesses) \div 2 + 1

QuorumReached(m, acks) ==
  Cardinality((m.voters \cup m.witnesses) \cap acks) >= MembershipQuorumSize(m)

--------------------------------------------------------------------------------
\* The record after a change; one that fails its check leaves it as it is.
CanAdd(m, n) == n \notin MemberIds(m)

WithLearner(m, n) ==
  IF CanAdd(m, n) THEN [m EXCEPT !.learners = @ \cup {n}, !.epoch = @ + 1] ELSE m

WithWitness(m, n) ==
  IF CanAdd(m, n) THEN [m EXCEPT !.witnesses = @ \cup {n}, !.epoch = @ + 1] ELSE m

WithPromoted(m, n) ==
  IF n \notin m.learners THEN m
  ELSE [m EXCEPT !.learners = @ \ {n}, !.voters = @ \cup {n}, !.epoch = @ + 1]

WithoutPeer(m, n) ==
  IF n \notin MemberIds(m) THEN m
  ELSE [m EXCEPT !.voters = @ \ {n}, !.learners = @ \ {n}, !.witnesses = @ \ {n},
                 !.epoch = @ + 1]

\* catchup_report: the lag of a learner, and whether it may be promoted.
CatchUpReport(m, learner, match_index, leader_commit) ==
  LET caught_up == learner \in m.learners /\ match_index >= leader_commit
  IN  [ lag |-> Max({0, leader_commit - match_index}),
        promotable |-> caught_up,
        reason |-> IF learner \notin m.learners THEN "node_is_not_learner"
                   ELSE IF caught_up THEN "learner_caught_up"
                   ELSE "learner_lagging" ]

--------------------------------------------------------------------------------
\* The record of a change of voters; None when they stay the same.
Joint(before, after) ==
  IF before.voters = after.voters THEN None
  ELSE [old_voters |-> before.voters, new_voters |-> after.voters]

\* A majority of the old voters and one of the new voters.
JointQuorumReached(joint, acks) ==
  /\ Cardinality(joint.old_voters \cap acks)
       >= Cardinality(joint.old_voters) \div 2 + 1
  /\ Cardinality(joint.new_voters \cap acks)
       >= Cardinality(joint.new_voters) \div 2 + 1
================================================================================
