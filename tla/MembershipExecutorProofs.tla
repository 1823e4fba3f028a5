------------------------ MODULE MembershipExecutorProofs ------------------------
(***************************************************************************)
(* Membership changes and the membership executor of a RustRaft group, for *)
(* every membership and every list of operations an operator may hand      *)
(* over: workflows keep the group consistent wherever they stop, and what  *)
(* a step does to the quorums.                                             *)
(***************************************************************************)
EXTENDS MembershipExecutor, ClusterReads, ClusterStatus, RaftClusterProofs

--------------------------------------------------------------------------------
(***************************************************************************)
(* Quorums of two sets of participants that differ in one at most.         *)
(***************************************************************************)

\* A set that holds a majority of P leaves no majority of Q to its complement.
LEMMA MajoritiesMeet ==
  ASSUME NEW P, NEW Q, IsFiniteSet(P), NEW n,
         Q = P \/ Q = P \cup {n} \/ Q = P \ {n},
         NEW acks, NEW all,
         Cardinality(P \cap acks) >= Cardinality(P) \div 2 + 1
  PROVE  ~ (Cardinality(Q \cap (all \ acks)) >= Cardinality(Q) \div 2 + 1)
<1> DEFINE for     == P \cap acks
           against == Q \cap (all \ acks)
<1>1. /\ IsFiniteSet(Q) /\ Cardinality(P) \in Nat /\ Cardinality(Q) \in Nat
      /\ Cardinality(Q) <= Cardinality(P) + 1
      /\ Cardinality(P) <= Cardinality(Q) + 1
  <2>1. Cardinality(P) \in Nat
    BY FS_CardinalityType
  <2>2. CASE Q = P
    BY <2>1, <2>2
  <2>3. CASE Q = P \cup {n}
    <3>1. /\ IsFiniteSet(Q)
          /\ Cardinality(Q) = IF n \in P THEN Cardinality(P) ELSE Cardinality(P) + 1
      BY <2>3, FS_AddElement
    <3> QED
      BY <2>1, <3>1
  <2>4. CASE Q = P \ {n}
    <3>1. /\ IsFiniteSet(Q)
          /\ Cardinality(Q) = IF n \in P THEN Cardinality(P) - 1 ELSE Cardinality(P)
      BY <2>4, FS_RemoveElement
    <3>2. Cardinality(Q) \in Nat
      BY <3>1, FS_CardinalityType
    <3> QED
      BY <2>1, <3>1, <3>2
  <2> QED
    BY <2>2, <2>3, <2>4
<1>2. /\ IsFiniteSet(P \cup Q) /\ Cardinality(P \cup Q) \in Nat
      /\ \/ Cardinality(P \cup Q) = Cardinality(P)
         \/ Cardinality(P \cup Q) = Cardinality(Q)
  <2>1. P \cup Q = P \/ P \cup Q = Q
    OBVIOUS
  <2> QED
    BY <1>1, <2>1
<1>3. /\ IsFiniteSet(for) /\ IsFiniteSet(against)
      /\ Cardinality(for) \in Nat /\ Cardinality(against) \in Nat
      /\ Cardinality(for) + Cardinality(against) <= Cardinality(P \cup Q)
  <2>1. for \subseteq P /\ against \subseteq Q /\ for \cap against = {}
        /\ for \cup against \subseteq P \cup Q
    OBVIOUS
  <2> HIDE DEF for, against
  <2>2. /\ IsFiniteSet(for) /\ IsFiniteSet(against)
        /\ Cardinality(for) \in Nat /\ Cardinality(against) \in Nat
    BY <1>1, <2>1, FS_Subset, FS_CardinalityType
  <2>3. Cardinality(for \cup against) = Cardinality(for) + Cardinality(against)
    <3>1. Cardinality(for \cup against) =
            Cardinality(for) + Cardinality(against) - Cardinality(for \cap against)
      BY <2>2, FS_Union
    <3>2. Cardinality(for \cap against) = 0
      BY <2>1, FS_EmptySet
    <3> QED
      BY <2>2, <3>1, <3>2
  <2>4. Cardinality(for \cup against) <= Cardinality(P \cup Q)
    BY <1>2, <2>1, FS_Subset
  <2> QED
    BY <2>2, <2>3, <2>4
<1> HIDE DEF against
<1>4. Cardinality(for) >= Cardinality(P) \div 2 + 1
  OBVIOUS
<1> HIDE DEF for
<1>5. ~ (Cardinality(against) >= Cardinality(Q) \div 2 + 1)
  <2> DEFINE p == Cardinality(P)
             q == Cardinality(Q)
             u == Cardinality(P \cup Q)
             x == Cardinality(for)
             y == Cardinality(against)
  <2>1. /\ p \in Nat /\ q \in Nat /\ u \in Nat /\ x \in Nat /\ y \in Nat
        /\ q <= p + 1 /\ p <= q + 1 /\ (u = p \/ u = q) /\ x + y <= u
        /\ x >= p \div 2 + 1
    BY <1>1, <1>2, <1>3, <1>4
  <2> HIDE DEF p, q, u, x, y
  <2>2. ~ (y >= q \div 2 + 1)
    BY <2>1
  <2> QED
    BY <2>2 DEF q, y
<1> QED
  BY <1>5 DEF against

\* A participant that counts joins the participants and those that count.
LEMMA MajorityGrows ==
  ASSUME NEW Q, IsFiniteSet(Q), NEW held, held \subseteq Q, NEW n, n \notin Q,
         2 * Cardinality(held) > Cardinality(Q)
  PROVE  2 * Cardinality(held \cup {n}) > Cardinality(Q \cup {n})
<1>1. /\ IsFiniteSet(held) /\ Cardinality(held) \in Nat /\ Cardinality(Q) \in Nat
      /\ n \notin held
  BY FS_Subset, FS_CardinalityType
<1>2. /\ Cardinality(held \cup {n}) = Cardinality(held) + 1
      /\ Cardinality(Q \cup {n}) = Cardinality(Q) + 1
  BY <1>1, FS_AddElement
<1> QED
  BY <1>1, <1>2

--------------------------------------------------------------------------------
(***************************************************************************)
(* What a step does to the members and their replica roles.                *)
(***************************************************************************)
RolesStay == \A m \in Member \cap Member' :
               nodes'[m].replica_role = nodes[m].replica_role

\* The members stay, one joins, or one leaves, in unchanged roles; or one is
\* promoted.
RolesStep ==
  \/ Member' = Member /\ RolesStay
  \/ \E n : Member' = Member \cup {n} /\ n \notin Member /\ RolesStay
  \/ \E n : Member' = Member \ {n} /\ RolesStay
  \/ \E n : PromotePeer(n)

\* A member that is added leaves the roles of the others alone.
LEMMA AddPeerRoles ==
  ASSUME NEW n, NEW role, AddPeer(n, role)
  PROVE  RolesStep
  BY DEF AddPeer, RolesStep, RolesStay, Member

LEMMA RemovePeerRoles ==
  ASSUME NEW n, RemovePeer(n)
  PROVE  RolesStep
  BY DEF RemovePeer, RolesStep, RolesStay, Member

\* An election changes no replica role.
LEMMA ElectRoles ==
  ASSUME RuntimeInv, NEW candidate, Elect(candidate)
  PROVE  Member' = Member /\ RolesStay
<1>1. nodes' = [n \in Member |->
                  [nodes[n] EXCEPT
                     !.current_term = current_term + 1,
                     !.voted_for    = candidate,
                     !.raft_role    = IF n = candidate THEN "Leader"
                                      ELSE IdleRole(nodes[n].replica_role)]]
  BY DEF Elect
<1>2. ASSUME NEW n \in Member
      PROVE  nodes'[n].replica_role = nodes[n].replica_role
  <2> DEFINE role == IF n = candidate THEN "Leader"
                     ELSE IdleRole(nodes[n].replica_role)
  <2>1. nodes'[n] = [nodes[n] EXCEPT !.current_term = current_term + 1,
                                     !.voted_for    = candidate,
                                     !.raft_role    = role]
    BY <1>1
  <2>2. nodes[n] \in NodeRecord
    BY GroupFacts DEF RuntimeInv
  <2> HIDE DEF role
  <2> QED
    BY <2>1, <2>2 DEF NodeRecord
<1> QED
  BY <1>1, <1>2 DEF Member, RolesStay

\* A proposal, accepted or refused, and a catch-up leave the roles.
LEMMA ReplicationRoles ==
  ASSUME RuntimeInv,
         \/ \E payload \in Payload : Propose(payload) \/ ProposeRefused(payload)
         \/ \E n \in Node : LearnerCatchUp(n)
  PROVE  Member' = Member /\ RolesStay
<1>1. CASE \E payload \in Payload : Propose(payload)
  <2>1. PICK payload \in Payload : Propose(payload)
    BY <1>1
  <2> DEFINE ns == Replicated(NewEntry(payload))
  <2>2. /\ Family(ns, last_log_index + 1)
        /\ RefreshCommitIndex(ns, last_log_index + 1)
        /\ commit_index \in Nat /\ applied_index \in Nat
        /\ DOMAIN ns = Member /\ ns = [n \in DOMAIN ns |-> ns[n]]
        /\ \A n \in DOMAIN ns : ns[n].commit_index <= commit_index
    BY <2>1, ProposeRefreshes DEF RuntimeInv
  <2>3. \A n \in Member : ns[n].replica_role = nodes[n].replica_role
    BY ReplicatedLeaves DEF RuntimeInv
  <2> HIDE DEF ns
  <2>4. /\ Member' = DOMAIN ns
        /\ \A n \in DOMAIN ns : nodes'[n].replica_role = ns[n].replica_role
    BY <2>2, RefreshCommitIndexKeeps
  <2> QED
    BY <2>2, <2>3, <2>4 DEF RolesStay
<1>2. CASE \E payload \in Payload : ProposeRefused(payload)
  <2>1. PICK payload \in Payload : ProposeRefused(payload)
    BY <1>2
  <2>2. nodes' = Replicated(NewEntry(payload))
    BY <2>1 DEF ProposeRefused
  <2> QED
    BY <2>2, ReplicatedLeaves DEF RolesStay, Member, RuntimeInv
<1>3. CASE \E n \in Node : LearnerCatchUp(n)
  <2>1. PICK learner \in Node : LearnerCatchUp(learner)
    BY <1>3
  <2>2. /\ learner \in Member
        /\ nodes' = [nodes EXCEPT ![learner] = CaughtUpLearner(learner)]
    BY <2>1 DEF LearnerCatchUp
  <2>3. PICK filled, target :
          /\ CaughtUpLearner(learner) = AdvanceCommit(filled, target)
          /\ NodeInv(filled) /\ target \in Nat
          /\ filled.replica_role = nodes[learner].replica_role
    BY <2>1, CaughtUp
  <2>4. CaughtUpLearner(learner).replica_role = nodes[learner].replica_role
    BY <2>3, AdvanceCommitKeeps
  <2> QED
    BY <2>2, <2>4 DEF RolesStay, Member
<1> QED
  BY <1>1, <1>2, <1>3

\* A step of the group is one change of the membership at most.
LEMMA RuntimeRoles ==
  ASSUME RuntimeInv, [RuntimeNext]_vars
  PROVE  RolesStep
<1>1. CASE nodes' = nodes
  BY <1>1 DEF RolesStep, RolesStay, Member
<1>2. CASE Start \/ Stop
  BY <1>1, <1>2, ElectRoles DEF Start, Stop, RolesStep
<1>3. CASE \/ \E n \in Node, forced \in BOOLEAN : Campaign(n, forced)
           \/ \E n \in Node : TransferLeader(n)
  BY <1>3, ElectRoles DEF Campaign, TransferLeader, RolesStep
<1>4. CASE \E n \in Node, healthy \in BOOLEAN : SetNodeHealthy(n, healthy)
  <2>1. PICK n \in Node, healthy \in BOOLEAN : SetNodeHealthy(n, healthy)
    BY <1>4
  <2>2. n \in Member /\ nodes' = [nodes EXCEPT ![n].healthy = healthy]
    BY <2>1 DEF SetNodeHealthy
  <2>3. /\ nodes'[n] = [nodes[n] EXCEPT !.healthy = healthy]
        /\ \A m \in Member : m # n => nodes'[m] = nodes[m]
        /\ Member' = Member
    BY <2>2 DEF Member
  <2>4. nodes'[n].replica_role = nodes[n].replica_role
    BY <2>2, <2>3, GroupFacts DEF NodeRecord, RuntimeInv
  <2> QED
    BY <2>3, <2>4 DEF RolesStep, RolesStay
<1>5. CASE \E valid \in LeaseUpdates : SetLeaderLeaseValid(valid)
  BY <1>1, <1>5 DEF SetLeaderLeaseValid
<1>6. CASE \/ \E payload \in Payload : Propose(payload) \/ ProposeRefused(payload)
           \/ \E n \in Node : LearnerCatchUp(n)
  BY <1>6, ReplicationRoles DEF RolesStep
<1>7. CASE \E peer \in AddablePeers : AddPeer(peer[1], peer[2])
  BY <1>7, AddPeerRoles
<1>8. CASE \E n \in Node : PromotePeer(n)
  BY <1>8 DEF RolesStep
<1>9. CASE \E n \in RemovablePeers : RemovePeer(n)
  BY <1>9, RemovePeerRoles
<1>10. CASE UNCHANGED vars
  BY <1>1, <1>10 DEF vars
<1> QED
  BY <1>2, <1>3, <1>4, <1>5, <1>6, <1>7, <1>8, <1>9, <1>10 DEF RuntimeNext

\* promote_peer changes the roles of one member and no index.
LEMMA PromotePeerFacts ==
  ASSUME RuntimeInv, NEW n, PromotePeer(n)
  PROVE  /\ n \in Member /\ Member' = Member
         /\ nodes'[n].replica_role = "Voter"
         /\ \A m \in Member : m # n => nodes'[m] = nodes[m]
         /\ nodes'[n].log = nodes[n].log
         /\ nodes'[n].installed_snapshot = nodes[n].installed_snapshot
         /\ MatchIndex(nodes[n]) >= commit_index
         /\ commit_index' = commit_index
         /\ leader_id' = leader_id
<1>1. /\ n \in Member /\ commit_index' = commit_index /\ leader_id' = leader_id
      /\ MatchIndex(nodes[n]) >= commit_index
      /\ nodes' = [nodes EXCEPT ![n].replica_role = "Voter",
                                ![n].raft_role    = "Follower"]
  BY DEF PromotePeer, indexVars, leaderVars
<1> DEFINE promoted == [nodes[n] EXCEPT !.replica_role = "Voter"]
<1>2. /\ nodes'[n] = [promoted EXCEPT !.raft_role = "Follower"]
      /\ \A m \in Member : m # n => nodes'[m] = nodes[m]
      /\ Member' = Member
  BY <1>1 DEF Member
<1>3. /\ promoted \in NodeRecord /\ promoted.replica_role = "Voter"
      /\ promoted.log = nodes[n].log
      /\ promoted.installed_snapshot = nodes[n].installed_snapshot
  BY <1>1, GroupFacts DEF NodeRecord, ReplicaRole, RuntimeInv
<1> HIDE DEF promoted
<1>4. /\ nodes'[n].replica_role = "Voter"
      /\ nodes'[n].log = nodes[n].log
      /\ nodes'[n].installed_snapshot = nodes[n].installed_snapshot
  BY <1>2, <1>3 DEF NodeRecord
<1> QED
  BY <1>1, <1>2, <1>4

\* A step adds one participant of the quorum, removes one, or leaves them.
LEMMA OneParticipant ==
  ASSUME RuntimeInv, RolesStep
  PROVE  \E n : \/ QuorumParticipants(nodes') = QuorumParticipants(nodes)
                \/ QuorumParticipants(nodes') = QuorumParticipants(nodes) \cup {n}
                \/ QuorumParticipants(nodes') = QuorumParticipants(nodes) \ {n}
<1>1. CASE Member' = Member /\ RolesStay
  BY <1>1 DEF QuorumParticipants, RolesStay, Member
<1>2. CASE \E n : Member' = Member \cup {n} /\ n \notin Member /\ RolesStay
  <2>1. PICK n : Member' = Member \cup {n} /\ n \notin Member /\ RolesStay
    BY <1>2
  <2>2. \/ QuorumParticipants(nodes') = QuorumParticipants(nodes)
        \/ QuorumParticipants(nodes') = QuorumParticipants(nodes) \cup {n}
    BY <2>1 DEF QuorumParticipants, RolesStay, Member
  <2> QED
    BY <2>2
<1>3. CASE \E n : Member' = Member \ {n} /\ RolesStay
  <2>1. PICK n : Member' = Member \ {n} /\ RolesStay
    BY <1>3
  <2>2. QuorumParticipants(nodes') = QuorumParticipants(nodes) \ {n}
    BY <2>1 DEF QuorumParticipants, RolesStay, Member
  <2> QED
    BY <2>2
<1>4. CASE \E n : PromotePeer(n)
  <2>1. PICK n : PromotePeer(n)
    BY <1>4
  <2>2. QuorumParticipants(nodes') = QuorumParticipants(nodes) \cup {n}
    BY <2>1, PromotePeerFacts
       DEF QuorumParticipants, ParticipatesInQuorum, Member
  <2> QED
    BY <2>2
<1> QED
  BY <1>1, <1>2, <1>3, <1>4 DEF RolesStep

\* The quorums before and after such a step meet, and without witnesses the
\* joint quorum is one of both.
LEMMA QuorumsMeet ==
  ASSUME RuntimeInv, RolesStep, NEW acks, NEW all
  PROVE  LET before == CurrentMembership
             after  == CurrentMembership'
             joint  == Joint(before, after)
         IN  /\ QuorumReached(before, acks) => ~ QuorumReached(after, all \ acks)
             /\ joint # None /\ before.witnesses \cup after.witnesses = {} =>
                  (JointQuorumReached(joint, acks) =>
                     QuorumReached(before, acks) /\ QuorumReached(after, acks))
<1> DEFINE P == QuorumParticipants(nodes)
           Q == QuorumParticipants(nodes')
           before == CurrentMembership
           after  == CurrentMembership'
           joint  == Joint(before, after)
<1>1. before.voters \cup before.witnesses = P
  BY DEF CurrentMembership, MembershipOf, QuorumParticipants, ParticipatesInQuorum
<1>2. after.voters \cup after.witnesses = Q
  BY DEF CurrentMembership, MembershipOf, QuorumParticipants, ParticipatesInQuorum
<1>3. PICK n : Q = P \/ Q = P \cup {n} \/ Q = P \ {n}
  BY OneParticipant
<1>4. IsFiniteSet(P)
  <2>1. P \subseteq Member
    BY DEF QuorumParticipants, Member
  <2> QED
    BY <2>1, GroupFacts, FS_Subset DEF RuntimeInv
<1> HIDE DEF P, Q, before, after
<1>5. QuorumReached(before, acks) => ~ QuorumReached(after, all \ acks)
  BY <1>1, <1>2, <1>3, <1>4, MajoritiesMeet DEF QuorumReached, MembershipQuorumSize
<1>6. ASSUME joint # None, before.witnesses \cup after.witnesses = {},
             JointQuorumReached(joint, acks)
      PROVE  QuorumReached(before, acks) /\ QuorumReached(after, acks)
  <2>1. /\ joint.old_voters = before.voters /\ joint.new_voters = after.voters
    BY <1>6 DEF Joint
  <2>2. /\ before.voters \cup before.witnesses = before.voters
        /\ after.voters \cup after.witnesses = after.voters
    BY <1>6
  <2> QED
    BY <1>6, <2>1, <2>2 DEF JointQuorumReached, QuorumReached, MembershipQuorumSize
<1> QED
  BY <1>5, <1>6 DEF before, after

\* A log without a hole has every index up to its last.
LEMMA WithoutHole ==
  ASSUME NEW node, NodeInv(node), Contiguous(node),
         NEW i \in Nat, i > 0, i <= MatchIndex(node)
  PROVE  i \in DOMAIN node.log /\ node.log[i].index = i
<1>1. /\ node.log \in Seq(Entry) /\ node.installed_snapshot = 0
      /\ MatchIndex(node) = LastIndex(node.log)
  BY NodeTypes, MatchIndexIsLast
<1>2. node.log # << >>
  BY <1>1 DEF LastIndex
<1>3. /\ Len(node.log) \in Nat /\ DOMAIN node.log = 1 .. Len(node.log)
      /\ Len(node.log) \in DOMAIN node.log
  BY <1>1, <1>2, LenProperties, EmptySeq
<1>4. \A k \in DOMAIN node.log : node.log[k].index = k
  BY <1>1, <1>3 DEF Contiguous
<1>5. MatchIndex(node) = Len(node.log)
  BY <1>1, <1>2, <1>3, <1>4 DEF LastIndex
<1> QED
  BY <1>3, <1>4, <1>5

\* A learner that became a voter was promoted, and when its log has no hole, what
\* a majority held of what is committed it still holds.
LEMMA PromotionGrowsMajority ==
  ASSUME RuntimeInv, RolesStep, NEW n \in Member \cap Member',
         nodes[n].replica_role = "Learner", nodes'[n].replica_role = "Voter",
         Contiguous(nodes[n]),
         NEW i \in 1 .. commit_index, MajorityHolds(nodes, i)
  PROVE  MajorityHolds(nodes', i)
<1> DEFINE P == QuorumParticipants(nodes)
           Q == QuorumParticipants(nodes')
           held  == {m \in P : Holds(nodes[m], i)}
           holds == {m \in Q : Holds(nodes'[m], i)}
<1>1. PICK p : PromotePeer(p)
  BY DEF RolesStep, RolesStay
<1>2. p = n
  BY <1>1, PromotePeerFacts
<1>3. Q = P \cup {n} /\ n \notin P
  BY <1>1, <1>2, PromotePeerFacts
     DEF QuorumParticipants, ParticipatesInQuorum, Member
<1>4. P \subseteq Member
  BY DEF QuorumParticipants, Member
<1>5. /\ \A m \in P : nodes'[m] = nodes[m]
      /\ nodes'[n].log = nodes[n].log
      /\ MatchIndex(nodes[n]) >= commit_index
  BY <1>1, <1>2, <1>3, <1>4, PromotePeerFacts
<1>6. /\ IsFiniteSet(P) /\ commit_index \in Nat
      /\ NodeInv(nodes[n]) /\ MatchIndex(nodes[n]) \in Nat
  BY <1>4, GroupFacts, FS_Subset, MatchIndexIsLast DEF RuntimeInv
<1>7. 2 * Cardinality(held) > Cardinality(P)
  BY DEF MajorityHolds
<1>8. Holds(nodes'[n], i)
  <2>1. i \in Nat /\ i > 0 /\ i <= MatchIndex(nodes[n])
    BY <1>5, <1>6
  <2>2. i \in DOMAIN nodes[n].log /\ nodes[n].log[i].index = i
    BY <1>6, <2>1, WithoutHole
  <2> QED
    BY <1>5, <2>2 DEF Holds
<1> HIDE DEF P, Q
<1>9. holds = held \cup {n}
  BY <1>3, <1>5, <1>8
<1>10. held \subseteq P
  OBVIOUS
<1> HIDE DEF held
<1>11. 2 * Cardinality(holds) > Cardinality(Q)
  BY <1>3, <1>6, <1>7, <1>9, <1>10, MajorityGrows
<1> QED
  BY <1>11 DEF MajorityHolds, Q

--------------------------------------------------------------------------------
(***************************************************************************)
(* The state a workflow saved and may put back.                            *)
(***************************************************************************)

\* RuntimeInv, of a saved cluster c and the ids acknowledged since the start.
SavedInv(c, acks) ==
  /\ DOMAIN c.nodes \subseteq Node /\ c.nodes \in [DOMAIN c.nodes -> NodeRecord]
  /\ DOMAIN c.peer_pipelines = DOMAIN c.nodes
  /\ c.leader_id \in Node \cup {None} /\ c.current_term \in Nat
  /\ c.commit_index \in Nat /\ c.applied_index \in Nat /\ c.last_log_index \in Nat
  /\ c.running \in BOOLEAN /\ c.leader_lease_valid \in BOOLEAN
  /\ acks \in Seq(LogId)
  /\ \A n \in DOMAIN c.nodes :
       /\ NodeInv(c.nodes[n]) /\ c.nodes[n].current_term <= c.current_term
       /\ MatchIndex(c.nodes[n]) <= c.last_log_index
       /\ c.nodes[n].commit_index <= c.commit_index
       /\ c.nodes[n].raft_role = "Leader" => n = c.leader_id
       /\ c.nodes[n].raft_role = "Learner" <=> c.nodes[n].replica_role = "Learner"
       /\ c.leader_id # None /\ c.nodes[n].current_term = c.current_term =>
            c.nodes[n].voted_for = c.leader_id
  /\ c.leader_id # None =>
       /\ c.leader_id \in DOMAIN c.nodes /\ c.current_term > 0
       /\ CanBeLeader(c.nodes[c.leader_id].replica_role)
  /\ \A m, n \in DOMAIN c.nodes :
       /\ c.nodes[m].current_term = c.nodes[n].current_term =>
            c.nodes[m].voted_for = c.nodes[n].voted_for
       /\ \A j \in DOMAIN c.nodes[m].log, k \in DOMAIN c.nodes[n].log :
            c.nodes[m].log[j].index = c.nodes[n].log[k].index =>
              c.nodes[m].log[j] = c.nodes[n].log[k]
  /\ \A k \in DOMAIN acks :
       /\ acks[k].term <= c.current_term
       /\ acks[k].index > 0
       /\ c.leader_id # None /\ acks[k].term = c.current_term =>
            HasEntry(c.nodes[c.leader_id].log, acks[k])
  /\ \A j, k \in DOMAIN acks : j < k =>
       \/ acks[j].term < acks[k].term
       \/ acks[j].term = acks[k].term /\ acks[j].index < acks[k].index

\* It is RuntimeInv of the saved state.
LEMMA SavedIsRuntime == RuntimeInv <=> SavedInv(ClusterState, acknowledged)
<1> DEFINE c == ClusterState
<1>1. /\ c.nodes = nodes /\ c.peer_pipelines = peer_pipelines
      /\ c.leader_id = leader_id /\ c.current_term = current_term
      /\ c.commit_index = commit_index /\ c.applied_index = applied_index
      /\ c.last_log_index = last_log_index /\ c.running = running
      /\ c.leader_lease_valid = leader_lease_valid
  BY DEF ClusterState
<1> HIDE DEF c
<1>2. RuntimeInv => SavedInv(c, acknowledged)
  BY <1>1 DEF SavedInv, RuntimeInv, GroupInv, TypeOK, ElectionSafety, OneVotePerTerm,
     LogMatching, ClusterIndexesCover, LeaderCoversTerm, AcknowledgedOnce, Member
<1>3. SavedInv(c, acknowledged) => RuntimeInv
  BY <1>1 DEF SavedInv, RuntimeInv, GroupInv, TypeOK, ElectionSafety, OneVotePerTerm,
     LogMatching, ClusterIndexesCover, LeaderCoversTerm, AcknowledgedOnce, Member
<1> QED
  BY <1>2, <1>3 DEF c

\* Putting a saved cluster back gives a consistent group again.
LEMMA RestoreInv ==
  ASSUME NEW saved, SavedInv(saved, acknowledged), Restore(saved),
         acknowledged' = acknowledged
  PROVE  RuntimeInv'
<1>1. RuntimeInv' <=> SavedInv(ClusterState, acknowledged)'
  BY SavedIsRuntime, PTL
<1> DEFINE c == ClusterState'
<1>2. /\ c.nodes = saved.nodes /\ c.peer_pipelines = saved.peer_pipelines
      /\ c.leader_id = saved.leader_id /\ c.current_term = saved.current_term
      /\ c.commit_index = saved.commit_index
      /\ c.applied_index = saved.applied_index
      /\ c.last_log_index = saved.last_log_index /\ c.running = saved.running
      /\ c.leader_lease_valid = saved.leader_lease_valid
  BY DEF Restore, ClusterState
<1> HIDE DEF c
<1>3. SavedInv(c, acknowledged')
  BY <1>2 DEF SavedInv
<1>4. SavedInv(ClusterState, acknowledged)'
  BY <1>3 DEF SavedInv, c
<1> QED
  BY <1>1, <1>4

--------------------------------------------------------------------------------
(***************************************************************************)
(* The executor's invariant and its steps.                                 *)
(***************************************************************************)
Voters(ns) == {n \in DOMAIN ns : ns[n].replica_role = "Voter"}

\* While a workflow is under way its saved cluster may be put back: it is
\* consistent, committed what is committed now, and had no leader or no voter
\* only if there was none to lose.
WorkflowInv ==
  /\ workflow = [ operations |-> workflow.operations, done |-> workflow.done,
                  rollback |-> workflow.rollback, saved |-> workflow.saved ]
  /\ workflow.operations \in Workflows
  /\ workflow.done \in Nat /\ workflow.done < Len(workflow.operations)
  /\ SavedInv(workflow.saved, acknowledged)
  /\ workflow.saved.commit_index = commit_index
  /\ workflow.saved.leader_id # None => leader_id # None
  /\ Voters(workflow.saved.nodes) # {} => Voters(nodes) # {}

ExecutorInv == RuntimeInv /\ (workflow # NoWorkflow => WorkflowInv)

Operation == [kind : OperationKind, id : Node, role : ReplicaRole]

\* The operation a workflow comes to is one of its list.
LEMMA NextOperationType ==
  ASSUME WorkflowInv
  PROVE  NextOperation \in Operation
<1>1. /\ workflow.operations \in Seq(Operation)
      /\ workflow.done + 1 \in 1 .. Len(workflow.operations)
  <2>1. workflow.operations \in Seq(Operation)
    BY WorkflowAssumption DEF WorkflowInv, Operation
  <2>2. Len(workflow.operations) \in Nat
    BY <2>1, LenProperties
  <2> QED
    BY <2>1, <2>2 DEF WorkflowInv
<1> QED
  BY <1>1, ElementOfSeq DEF NextOperation

\* The cluster carries out an operation: the group stays consistent and nothing
\* is committed or acknowledged.
LEMMA PerformKeeps ==
  ASSUME RuntimeInv, NEW op \in Operation, Perform(op)
  PROVE  /\ RuntimeInv' /\ RolesStep
         /\ commit_index' = commit_index /\ acknowledged' = acknowledged
<1>1. op.id \in Node /\ op.role \in ReplicaRole /\ AddedRole(op) \in ReplicaRole
  BY DEF Operation, AddedRole, ReplicaRole
<1>2. CASE AddPeer(op.id, AddedRole(op))
  BY <1>1, <1>2, AddPeerInv, AddPeerRoles DEF AddPeer, indexVars
<1>3. CASE PromotePeer(op.id)
  BY <1>3, PromotePeerInv DEF PromotePeer, indexVars, RolesStep
<1>4. CASE RemovePeer(op.id)
  BY <1>4, RemovePeerInv, RemovePeerRoles DEF RemovePeer, indexVars
<1>5. CASE TransferLeader(op.id)
  <2>1. /\ Electable(op.id) /\ Elect(op.id)
        /\ running' = running /\ acknowledged' = acknowledged
        /\ commit_index' = commit_index
    BY <1>5 DEF TransferLeader, Elect, indexVars
  <2>2. running' \in BOOLEAN
    BY <2>1 DEF RuntimeInv, GroupInv, TypeOK
  <2>3. RuntimeInv'
    BY <2>1, <2>2, ElectInv
  <2> QED
    BY <2>1, <2>3, ElectRoles DEF RolesStep
<1> QED
  BY <1>2, <1>3, <1>4, <1>5 DEF Perform

\* No operation takes the last voter or the leader.
LEMMA PerformKeepsLeader ==
  ASSUME RuntimeInv, NEW op \in Operation, Perform(op), ~ Blocked(op)
  PROVE  /\ leader_id # None => leader_id' # None
         /\ Voters(nodes) # {} => Voters(nodes') # {}
<1>1. CASE AddPeer(op.id, AddedRole(op))
  BY <1>1 DEF AddPeer, Voters, Member, leaderVars
<1>2. CASE PromotePeer(op.id)
  BY <1>2, PromotePeerFacts DEF Voters, Member
<1>3. CASE op.kind = "Remove" /\ RemovePeer(op.id)
  <2>1. /\ op.id # leader_id
        /\ ~ (op.id \in Voters(nodes) /\ Cardinality(Voters(nodes)) <= 1)
    BY <1>3 DEF Blocked, CurrentMembership, MembershipOf, Voters
  <2>2. /\ leader_id' = leader_id
        /\ Voters(nodes') = Voters(nodes) \ {op.id}
    BY <1>3, <2>1 DEF RemovePeer, Voters, Member
  <2>3. IsFiniteSet(Voters(nodes))
    <3>1. Voters(nodes) \subseteq Member
      BY DEF Voters, Member
    <3> QED
      BY <3>1, GroupFacts, FS_Subset DEF RuntimeInv
  <2>4. ASSUME Voters(nodes) # {} PROVE Voters(nodes') # {}
    <3>1. CASE op.id \notin Voters(nodes)
      BY <2>2, <2>4, <3>1
    <3>2. CASE op.id \in Voters(nodes)
      <4>1. Cardinality(Voters(nodes)) \in Nat /\ Cardinality(Voters(nodes)) > 1
        BY <2>1, <2>3, <3>2, FS_CardinalityType
      <4>2. Cardinality(Voters(nodes')) = Cardinality(Voters(nodes)) - 1
        BY <2>2, <2>3, <3>2, FS_RemoveElement
      <4> QED
        BY <4>1, <4>2, FS_EmptySet
    <3> QED
      BY <3>1, <3>2
  <2> QED
    BY <2>2, <2>4
<1>4. CASE TransferLeader(op.id)
  <2>1. /\ leader_id' = op.id /\ op.id \in Node
        /\ Elect(op.id)
    BY <1>4 DEF TransferLeader, Elect, Operation
  <2>2. Voters(nodes') = Voters(nodes)
    BY <2>1, ElectRoles DEF Voters, RolesStay, Member
  <2> QED
    BY <2>1, <2>2, ClusterAssumption
<1> QED
  BY <1>1, <1>2, <1>3, <1>4 DEF Perform

\* The next operation of a workflow.
LEMMA ExecuteOperationInv ==
  ASSUME ExecutorInv, ExecuteOperation
  PROVE  ExecutorInv' /\ RolesStep /\ commit_index' = commit_index
<1> DEFINE op == NextOperation
<1>1. RuntimeInv /\ WorkflowInv
  BY DEF ExecutorInv, ExecuteOperation
<1>2. /\ op \in Operation /\ ~ Blocked(op) /\ Perform(op)
      /\ workflow' = IF workflow.done + 1 = Len(workflow.operations) THEN NoWorkflow
                     ELSE [workflow EXCEPT !.done = @ + 1]
  BY <1>1, NextOperationType DEF ExecuteOperation, Fails
<1> HIDE DEF op
<1>3. /\ RuntimeInv' /\ RolesStep
      /\ commit_index' = commit_index /\ acknowledged' = acknowledged
  BY <1>1, <1>2, PerformKeeps
<1>4. /\ leader_id # None => leader_id' # None
      /\ Voters(nodes) # {} => Voters(nodes') # {}
  BY <1>1, <1>2, PerformKeepsLeader
<1>5. ASSUME workflow' # NoWorkflow PROVE WorkflowInv'
  <2>1. /\ workflow.done + 1 # Len(workflow.operations)
        /\ workflow' = [workflow EXCEPT !.done = @ + 1]
    BY <1>2, <1>5
  <2>2. /\ workflow'.operations = workflow.operations
        /\ workflow'.done = workflow.done + 1
        /\ workflow'.saved = workflow.saved
        /\ workflow' = [ operations |-> workflow'.operations,
                         done |-> workflow'.done,
                         rollback |-> workflow'.rollback,
                         saved |-> workflow'.saved ]
    BY <1>1, <2>1 DEF WorkflowInv
  <2>3. Len(workflow.operations) \in Nat
    BY <1>1, WorkflowAssumption, LenProperties DEF WorkflowInv
  <2>4. workflow'.done \in Nat /\ workflow'.done < Len(workflow'.operations)
    BY <1>1, <2>1, <2>2, <2>3 DEF WorkflowInv
  <2> QED
    BY <1>1, <1>3, <1>4, <2>2, <2>4 DEF WorkflowInv
<1> QED
  BY <1>3, <1>5 DEF ExecutorInv

\* A workflow begins: the cluster is saved.
LEMMA BeginWorkflowInv ==
  ASSUME ExecutorInv, NEW ops \in Workflows, NEW rollback \in BOOLEAN,
         BeginWorkflow(ops, rollback)
  PROVE  ExecutorInv' /\ UNCHANGED vars
<1>1. /\ workflow' = [ operations |-> ops, done |-> 0, rollback |-> rollback,
                       saved |-> ClusterState ]
      /\ UNCHANGED vars
  BY DEF BeginWorkflow
<1>2. RuntimeInv' /\ SavedInv(ClusterState, acknowledged)
  <2>1. RuntimeInv
    BY DEF ExecutorInv
  <2> QED
    BY <1>1, <2>1, SavedIsRuntime, NextInv
<1>3. Len(ops) \in Nat /\ 0 < Len(ops)
  BY WorkflowAssumption, LenProperties, EmptySeq
<1>4. /\ workflow'.operations = ops /\ workflow'.done = 0
      /\ workflow'.rollback = rollback /\ workflow'.saved = ClusterState
  BY <1>1
<1>5. /\ acknowledged' = acknowledged /\ commit_index' = commit_index
      /\ leader_id' = leader_id /\ nodes' = nodes
      /\ ClusterState.commit_index = commit_index
      /\ ClusterState.leader_id = leader_id /\ ClusterState.nodes = nodes
  BY <1>1 DEF vars, ClusterState
<1>6. WorkflowInv'
  BY <1>1, <1>2, <1>3, <1>4, <1>5 DEF WorkflowInv
<1> QED
  BY <1>1, <1>2, <1>6 DEF ExecutorInv

\* A workflow fails: the group is what it was, or what the operations left.
LEMMA WorkflowFailsInv ==
  ASSUME ExecutorInv, WorkflowFails
  PROVE  /\ ExecutorInv' /\ commit_index' = commit_index
         /\ workflow.saved.leader_id # None => leader_id' # None
         /\ Voters(workflow.saved.nodes) # {} => Voters(nodes') # {}
<1>1. RuntimeInv /\ WorkflowInv /\ workflow' = NoWorkflow
  BY DEF ExecutorInv, WorkflowFails
<1>2. CASE Restore(workflow.saved) /\ UNCHANGED acknowledged
  <2>1. RuntimeInv'
    BY <1>1, <1>2, RestoreInv DEF WorkflowInv
  <2>2. /\ commit_index' = commit_index /\ nodes' = workflow.saved.nodes
        /\ leader_id' = workflow.saved.leader_id
    BY <1>1, <1>2 DEF Restore, WorkflowInv
  <2> QED
    BY <1>1, <2>1, <2>2 DEF ExecutorInv
<1>3. CASE UNCHANGED vars
  <2>1. RuntimeInv'
    BY <1>1, <1>3, NextInv
  <2>2. commit_index' = commit_index /\ nodes' = nodes /\ leader_id' = leader_id
    BY <1>3 DEF vars
  <2> QED
    BY <1>1, <2>1, <2>2 DEF ExecutorInv, WorkflowInv
<1> QED
  BY <1>2, <1>3 DEF WorkflowFails

\* Every step of the executor keeps the invariant.
LEMMA ExecutorNextInv == ExecutorInv /\ [ExecutorNext]_executorVars => ExecutorInv'
<1> SUFFICES ASSUME ExecutorInv, [ExecutorNext]_executorVars PROVE ExecutorInv'
  OBVIOUS
<1>1. CASE workflow = NoWorkflow /\ RuntimeNext /\ UNCHANGED workflow
  <2>1. RuntimeInv'
    BY <1>1, NextInv DEF ExecutorInv
  <2> QED
    BY <1>1, <2>1 DEF ExecutorInv
<1>2. CASE \E ops \in Workflows, rollback \in BOOLEAN : BeginWorkflow(ops, rollback)
  BY <1>2, BeginWorkflowInv
<1>3. CASE ExecuteOperation
  BY <1>3, ExecuteOperationInv
<1>4. CASE WorkflowFails
  BY <1>4, WorkflowFailsInv
<1>5. CASE UNCHANGED executorVars
  <2>1. UNCHANGED vars /\ workflow' = workflow
    BY <1>5 DEF executorVars
  <2>2. /\ acknowledged' = acknowledged /\ commit_index' = commit_index
        /\ leader_id' = leader_id /\ nodes' = nodes
    BY <2>1 DEF vars
  <2>3. RuntimeInv'
    BY <2>1, NextInv DEF ExecutorInv
  <2> QED
    BY <2>1, <2>2, <2>3 DEF ExecutorInv, WorkflowInv
<1> QED
  BY <1>1, <1>2, <1>3, <1>4, <1>5 DEF ExecutorNext

\* Unless a workflow puts the cluster back, the members change by one at most.
LEMMA ExecutorRoles ==
  ASSUME ExecutorInv, [ExecutorNext]_executorVars, ~ WorkflowFails
  PROVE  RolesStep
<1>1. CASE RuntimeNext \/ UNCHANGED vars
  BY <1>1, RuntimeRoles DEF ExecutorInv
<1>2. CASE ExecuteOperation
  BY <1>2, ExecuteOperationInv
<1>3. CASE \E ops \in Workflows, rollback \in BOOLEAN : BeginWorkflow(ops, rollback)
  BY <1>1, <1>3, BeginWorkflowInv
<1>4. CASE UNCHANGED executorVars
  BY <1>1, <1>4 DEF executorVars
<1> QED
  BY <1>1, <1>2, <1>3, <1>4 DEF ExecutorNext

--------------------------------------------------------------------------------
(***************************************************************************)
(* The leader lease.                                                       *)
(***************************************************************************)

\* The lease of a cluster c, current or saved, is that of a leader that is up.
LeaseOfHealthy(c) ==
  c.leader_lease_valid => c.leader_id # None /\ c.nodes[c.leader_id].healthy

\* refresh_commit_index takes nobody up or down.
LEMMA RefreshKeepsHealth ==
  ASSUME NEW ns, NEW bound, Family(ns, bound), commit_index \in Nat,
         RefreshCommitIndex(ns, bound)
  PROVE  \A n \in DOMAIN ns : nodes'[n].healthy = ns[n].healthy
<1> DEFINE target == Max({commit_index, QuorumMatchIndex(ns)})
<1>1. CASE LiveParticipants(ns) = {}
  BY <1>1 DEF RefreshCommitIndex
<1>2. CASE LiveParticipants(ns) # {}
  <2>1. target \in Nat
    <3>1. QuorumMatchIndex(ns) \in Nat
      BY <1>2, QuorumMatchIndexNat
    <3> QED
      BY <3>1, MaxPair
  <2>2. nodes' = [n \in DOMAIN ns |->
                    IF ns[n].healthy THEN AdvanceCommit(ns[n], target) ELSE ns[n]]
    BY <1>2 DEF RefreshCommitIndex
  <2> HIDE DEF target
  <2>3. \A n \in DOMAIN ns : AdvanceCommit(ns[n], target).healthy = ns[n].healthy
    BY <2>1, AdvanceCommitKeeps DEF Family
  <2> QED
    BY <2>2, <2>3
<1> QED
  BY <1>1, <1>2

\* Proposals and catch-ups take no leader up or down.
LEMMA ReplicationKeepsLease ==
  ASSUME RuntimeInv, LeaseOfHealthy(ClusterState),
         \/ \E payload \in Payload : Propose(payload) \/ ProposeRefused(payload)
         \/ \E n \in Node : LearnerCatchUp(n)
  PROVE  LeaseOfHealthy(ClusterState)'
<1>1. ASSUME leader_lease_valid' = leader_lease_valid, leader_id' = leader_id,
             leader_id # None => nodes'[leader_id].healthy = nodes[leader_id].healthy
      PROVE  LeaseOfHealthy(ClusterState)'
  BY <1>1 DEF LeaseOfHealthy, ClusterState
<1>2. leader_id # None => leader_id \in Member
  BY DEF RuntimeInv, GroupInv, ElectionSafety
<1>3. CASE \E payload \in Payload : Propose(payload)
  <2>1. PICK payload \in Payload : Propose(payload)
    BY <1>3
  <2> DEFINE ns == Replicated(NewEntry(payload))
  <2>2. /\ Family(ns, last_log_index + 1)
        /\ RefreshCommitIndex(ns, last_log_index + 1)
        /\ commit_index \in Nat /\ DOMAIN ns = Member
    BY <2>1, ProposeRefreshes DEF RuntimeInv
  <2>3. \A n \in Member : ns[n].healthy = nodes[n].healthy
    BY ReplicatedLeaves DEF RuntimeInv
  <2> HIDE DEF ns
  <2>4. \A n \in Member : nodes'[n].healthy = nodes[n].healthy
    BY <2>2, <2>3, RefreshKeepsHealth
  <2> QED
    BY <1>1, <1>2, <2>1, <2>4 DEF Propose, leaderVars
<1>4. CASE \E payload \in Payload : ProposeRefused(payload)
  <2>1. PICK payload \in Payload : ProposeRefused(payload)
    BY <1>4
  <2>2. nodes' = Replicated(NewEntry(payload))
    BY <2>1 DEF ProposeRefused
  <2> QED
    BY <1>1, <1>2, <2>1, <2>2, ReplicatedLeaves DEF ProposeRefused, leaderVars, RuntimeInv
<1>5. CASE \E n \in Node : LearnerCatchUp(n)
  <2>1. PICK learner \in Node : LearnerCatchUp(learner)
    BY <1>5
  <2>2. /\ nodes' = [nodes EXCEPT ![learner] = CaughtUpLearner(learner)]
        /\ nodes[learner].replica_role = "Learner"
        /\ leader_id' = leader_id /\ leader_lease_valid' = leader_lease_valid
    BY <2>1 DEF LearnerCatchUp, leaderVars
  <2>3. leader_id # None => leader_id # learner
    BY <2>2 DEF RuntimeInv, GroupInv, ElectionSafety, CanBeLeader
  <2> QED
    BY <1>1, <1>2, <2>2, <2>3 DEF Member
<1> QED
  BY <1>3, <1>4, <1>5

\* An election gives the lease to a candidate that is up.
LEMMA ElectGivesLease ==
  ASSUME RuntimeInv, NEW candidate, Electable(candidate), Elect(candidate),
         candidate \in Node
  PROVE  LeaseOfHealthy(ClusterState)'
<1> DEFINE role == IF candidate = candidate THEN "Leader"
                   ELSE IdleRole(nodes[candidate].replica_role)
<1>1. /\ candidate \in Member /\ nodes[candidate].healthy
      /\ nodes[candidate] \in NodeRecord
  BY GroupFacts DEF Electable, RuntimeInv
<1>2. /\ leader_id' = candidate
      /\ nodes'[candidate] = [nodes[candidate] EXCEPT
                                !.current_term = current_term + 1,
                                !.voted_for    = candidate,
                                !.raft_role    = role]
  BY <1>1 DEF Elect
<1> HIDE DEF role
<1>3. nodes'[candidate].healthy = nodes[candidate].healthy
  BY <1>1, <1>2 DEF NodeRecord
<1>4. candidate # None
  BY ClusterAssumption
<1> QED
  BY <1>1, <1>2, <1>3, <1>4 DEF LeaseOfHealthy, ClusterState

\* The calls that change the membership.
LEMMA MembershipKeepsLease ==
  ASSUME RuntimeInv, LeaseOfHealthy(ClusterState), NEW n \in Node, NEW role,
         AddPeer(n, role) \/ PromotePeer(n) \/ RemovePeer(n)
  PROVE  LeaseOfHealthy(ClusterState)'
<1>1. leader_id # None => leader_id \in Member
  BY DEF RuntimeInv, GroupInv, ElectionSafety
<1>2. CASE AddPeer(n, role)
  BY <1>1, <1>2 DEF AddPeer, LeaseOfHealthy, ClusterState, leaderVars, Member
<1>3. CASE PromotePeer(n)
  <2>1. /\ n \in Member /\ leader_id' = leader_id
        /\ leader_lease_valid' = leader_lease_valid
        /\ nodes' = [nodes EXCEPT ![n].replica_role = "Voter",
                                  ![n].raft_role    = "Follower"]
    BY <1>3 DEF PromotePeer, leaderVars
  <2>2. nodes[n] \in NodeRecord
    BY <2>1, GroupFacts DEF RuntimeInv
  <2>3. \A m \in Member : nodes'[m].healthy = nodes[m].healthy
    BY <2>1, <2>2 DEF Member, NodeRecord
  <2> QED
    BY <1>1, <2>1, <2>3 DEF LeaseOfHealthy, ClusterState
<1>4. CASE RemovePeer(n)
  BY <1>1, <1>4 DEF RemovePeer, LeaseOfHealthy, ClusterState, Member
<1> QED
  BY <1>2, <1>3, <1>4

\* No call of the runtime leaves the lease of a leader that is gone or down, when
\* an embedder reports a lease as lost only.
LEMMA RuntimeKeepsLease ==
  ASSUME LeaseUpdates \subseteq {FALSE}, RuntimeInv,
         LeaseOfHealthy(ClusterState), RuntimeNext
  PROVE  LeaseOfHealthy(ClusterState)'
<1>1. CASE UNCHANGED <<nodes, leaderVars, leader_lease_valid>>
  BY <1>1 DEF LeaseOfHealthy, ClusterState, leaderVars
<1>2. CASE leader_lease_valid' = FALSE
  BY <1>2 DEF LeaseOfHealthy, ClusterState
<1>3. CASE \E n \in Node : Electable(n) /\ Elect(n)
  BY <1>3, ElectGivesLease
<1>4. CASE Start
  <2> DEFINE electable == {n \in Member : Electable(n)}
  <2>1. CASE electable # {} /\ Elect(Min(electable))
    <3>1. electable \in SUBSET Nat /\ electable \subseteq Node
      BY GroupFacts DEF RuntimeInv
    <3> HIDE DEF electable
    <3>2. Min(electable) \in electable
      BY <2>1, <3>1, MinNat
    <3>3. Min(electable) \in Node /\ Electable(Min(electable))
      BY <3>1, <3>2 DEF electable
    <3> QED
      BY <1>3, <2>1, <3>3
  <2>2. CASE UNCHANGED <<nodes, peer_pipelines, leaderVars, indexVars,
                         leader_lease_valid>>
    BY <1>1, <2>2
  <2> QED
    BY <1>4, <2>1, <2>2 DEF Start
<1>5. CASE Stop
  BY <1>2, <1>5 DEF Stop
<1>6. CASE \/ \E n \in Node, forced \in BOOLEAN : Campaign(n, forced)
           \/ \E n \in Node : TransferLeader(n)
  BY <1>3, <1>6 DEF Campaign, TransferLeader
<1>7. CASE \E n \in Node, healthy \in BOOLEAN : SetNodeHealthy(n, healthy)
  <2>1. PICK n \in Node, healthy \in BOOLEAN : SetNodeHealthy(n, healthy)
    BY <1>7
  <2>2. /\ n \in Member /\ nodes' = [nodes EXCEPT ![n].healthy = healthy]
        /\ leader_id' = leader_id
        /\ leader_lease_valid' =
             (leader_lease_valid /\ ~ (leader_id = n /\ ~ healthy))
    BY <2>1 DEF SetNodeHealthy, leaderVars
  <2>3. nodes[n] \in NodeRecord
    BY <2>2, GroupFacts DEF RuntimeInv
  <2>4. /\ nodes'[n].healthy = healthy
        /\ \A m \in Member : m # n => nodes'[m] = nodes[m]
    BY <2>2, <2>3 DEF Member, NodeRecord
  <2>5. leader_id # None => leader_id \in Member
    BY DEF RuntimeInv, GroupInv, ElectionSafety
  <2>6. CASE ~ leader_lease_valid'
    BY <2>6 DEF LeaseOfHealthy, ClusterState
  <2>7. CASE leader_lease_valid'
    <3>1. leader_id # None /\ nodes[leader_id].healthy
          /\ ~ (leader_id = n /\ ~ healthy)
      BY <2>2, <2>7 DEF LeaseOfHealthy, ClusterState
    <3>2. nodes'[leader_id].healthy
      BY <2>4, <2>5, <3>1
    <3> QED
      BY <2>2, <3>1, <3>2 DEF LeaseOfHealthy, ClusterState
  <2> QED
    BY <2>6, <2>7
<1>8. CASE \E valid \in LeaseUpdates : SetLeaderLeaseValid(valid)
  <2>1. leader_lease_valid' = FALSE
    BY <1>8 DEF SetLeaderLeaseValid
  <2> QED
    BY <1>2, <2>1
<1>9. CASE \/ \E payload \in Payload : Propose(payload) \/ ProposeRefused(payload)
           \/ \E n \in Node : LearnerCatchUp(n)
  BY <1>9, ReplicationKeepsLease
<1>10. CASE \/ \E peer \in AddablePeers : AddPeer(peer[1], peer[2])
            \/ \E n \in Node : PromotePeer(n)
            \/ \E n \in RemovablePeers : RemovePeer(n)
  <2>1. /\ \A peer \in AddablePeers : peer[1] \in Node
        /\ RemovablePeers \subseteq Node
    BY ClusterAssumption
  <2> QED
    BY <1>10, <2>1, MembershipKeepsLease
<1> QED
  BY <1>4, <1>5, <1>6, <1>7, <1>8, <1>9, <1>10 DEF RuntimeNext

\* The lease of the cluster, and of the one a workflow may put back.
LeaseInv ==
  /\ LeaseOfHealthy(ClusterState)
  /\ workflow # NoWorkflow => LeaseOfHealthy(workflow.saved)

\* No step of the executor leaves a lease without its leader.
LEMMA ExecutorKeepsLease ==
  ASSUME LeaseUpdates \subseteq {FALSE}
  PROVE  ExecutorInv /\ LeaseInv /\ [ExecutorNext]_executorVars => LeaseInv'
<1> SUFFICES ASSUME ExecutorInv, LeaseInv, [ExecutorNext]_executorVars
             PROVE  LeaseInv'
  OBVIOUS
<1>1. RuntimeInv /\ LeaseOfHealthy(ClusterState)
  BY DEF ExecutorInv, LeaseInv
<1>2. ASSUME UNCHANGED vars PROVE LeaseOfHealthy(ClusterState)'
  BY <1>1, <1>2 DEF LeaseOfHealthy, ClusterState, vars
<1>3. CASE workflow = NoWorkflow /\ RuntimeNext /\ UNCHANGED workflow
  BY <1>1, <1>3, RuntimeKeepsLease DEF LeaseInv
<1>4. CASE \E ops \in Workflows, rollback \in BOOLEAN : BeginWorkflow(ops, rollback)
  <2>1. UNCHANGED vars /\ workflow'.saved = ClusterState
    BY <1>4 DEF BeginWorkflow
  <2> QED
    BY <1>1, <1>2, <2>1 DEF LeaseInv
<1>5. CASE ExecuteOperation
  <2> DEFINE op == NextOperation
  <2>1. op \in Operation /\ Perform(op) /\ WorkflowInv
    BY <1>5, NextOperationType DEF ExecuteOperation, ExecutorInv
  <2>2. op.id \in Node
    BY <2>1 DEF Operation
  <2>3. LeaseOfHealthy(ClusterState)'
    <3>1. CASE TransferLeader(op.id)
      BY <1>1, <2>2, <3>1, ElectGivesLease DEF TransferLeader
    <3>2. CASE \/ AddPeer(op.id, AddedRole(op))
               \/ PromotePeer(op.id) \/ RemovePeer(op.id)
      BY <1>1, <2>2, <3>2, MembershipKeepsLease
    <3> QED
      BY <2>1, <3>1, <3>2 DEF Perform
  <2>4. workflow' = NoWorkflow \/ workflow'.saved = workflow.saved
    BY <1>5, <2>1 DEF ExecuteOperation, WorkflowInv
  <2>5. workflow # NoWorkflow
    BY <1>5 DEF ExecuteOperation
  <2> QED
    BY <2>3, <2>4, <2>5 DEF LeaseInv
<1>6. CASE WorkflowFails
  <2>1. workflow # NoWorkflow /\ workflow' = NoWorkflow
        /\ (Restore(workflow.saved) \/ UNCHANGED vars)
    BY <1>6 DEF WorkflowFails
  <2>2. CASE Restore(workflow.saved)
    BY <2>1, <2>2 DEF Restore, LeaseInv, LeaseOfHealthy, ClusterState
  <2> QED
    BY <1>2, <2>1, <2>2 DEF LeaseInv
<1>7. CASE UNCHANGED executorVars
  <2>1. UNCHANGED vars /\ workflow' = workflow
    BY <1>7 DEF executorVars
  <2> QED
    BY <1>2, <2>1 DEF LeaseInv
<1> QED
  BY <1>3, <1>4, <1>5, <1>6, <1>7 DEF ExecutorNext

--------------------------------------------------------------------------------
(***************************************************************************)
(* What an operator is shown of a consistent group.                        *)
(***************************************************************************)

\* The cluster report is ready only when no member is behind the leader.
LEMMA ReadyMembers ==
  ASSUME RuntimeInv, ClusterReady
  PROVE  /\ leader_id # None /\ leader_id \in Member
         /\ \A n \in Member : MatchIndex(nodes[leader_id]) <= MatchIndex(nodes[n])
<1>1. leader_id # None /\ leader_id \in Member
  BY DEF ClusterReady, RuntimeInv, GroupInv, ElectionSafety
<1>2. \A n \in Member : MatchIndex(nodes[n]) \in Nat
  BY GroupFacts, MatchIndexIsLast DEF RuntimeInv
<1> DEFINE status == Status(leader_id)
<1>3. /\ status.leader_id = leader_id
      /\ status.peers = [peer \in Member \ {leader_id} |-> PeerStatus(leader_id, peer)]
  BY DEF Status
<1>4. Health(status.leader_id,
             \E peer \in DOMAIN status.peers : status.peers[peer].lag > 0) = "Healthy"
  BY <1>1 DEF ClusterReady, Representative, ReplicationHealth
<1> HIDE DEF status
<1>5. ASSUME NEW n \in Member \ {leader_id}
      PROVE  ~ (PeerStatus(leader_id, n).lag > 0)
  <2>1. ~ \E peer \in DOMAIN status.peers : status.peers[peer].lag > 0
    BY <1>1, <1>3, <1>4 DEF Health
  <2> QED
    BY <1>3, <2>1
<1>6. ASSUME NEW n \in Member
      PROVE  MatchIndex(nodes[leader_id]) <= MatchIndex(nodes[n])
  <2> DEFINE behind == MatchIndex(nodes[leader_id]) - MatchIndex(nodes[n])
  <2>1. MatchIndex(nodes[n]) \in Nat /\ MatchIndex(nodes[leader_id]) \in Nat
    BY <1>1, <1>2
  <2>2. CASE n = leader_id
    BY <2>1, <2>2
  <2>3. CASE n # leader_id
    <3>1. SUFFICES ASSUME behind > 0 PROVE FALSE
      BY <2>1
    <3>2. PeerStatus(leader_id, n).lag = Max({0, behind})
      BY DEF PeerStatus
    <3>3. behind \in Nat
      BY <2>1, <3>1
    <3> HIDE DEF behind
    <3>4. Max({0, behind}) = behind
      BY <3>1, <3>3, MaxPair
    <3> QED
      BY <1>5, <2>3, <3>1, <3>2, <3>4
  <2> QED
    BY <2>2, <2>3
<1> QED
  BY <1>1, <1>6

\* A report of readiness rests on the leader's log, and on those of the members
\* that have no hole.
LEMMA ReadyIsHeld == RuntimeInv => ReadyMeansHeld
<1> SUFFICES ASSUME RuntimeInv PROVE ReadyMeansHeld
  OBVIOUS
<1>1. \A n \in Member : /\ MatchIndex(nodes[n]) \in Nat
                        /\ MatchIndex(nodes[n]) = LastIndex(nodes[n].log)
                        /\ nodes[n].commit_index \in Nat
                        /\ nodes[n].commit_index <= commit_index
  BY GroupFacts, MatchIndexIsLast, NodeTypes DEF RuntimeInv, GroupInv, ClusterIndexesCover
<1>2. commit_index \in Nat
  BY GroupFacts DEF RuntimeInv
<1>3. ASSUME ClusterReady, NEW k \in DOMAIN acknowledged,
             acknowledged[k].term = current_term
      PROVE  /\ HasEntry(nodes[leader_id].log, acknowledged[k])
             /\ \A n \in Member :
                  /\ acknowledged[k].index <= MatchIndex(nodes[n])
                  /\ Contiguous(nodes[n]) => HasEntry(nodes[n].log, acknowledged[k])
  <2>1. /\ leader_id # None /\ leader_id \in Member
        /\ \A n \in Member : MatchIndex(nodes[leader_id]) <= MatchIndex(nodes[n])
    BY <1>3, ReadyMembers
  <2>2. HasEntry(nodes[leader_id].log, acknowledged[k])
    BY <1>3, <2>1 DEF RuntimeInv, LeaderCoversTerm
  <2>3. PICK j \in DOMAIN nodes[leader_id].log :
          /\ nodes[leader_id].log[j].term = acknowledged[k].term
          /\ nodes[leader_id].log[j].index = acknowledged[k].index
    BY <2>2 DEF HasEntry
  <2>4. /\ acknowledged[k].index \in Nat
        /\ acknowledged[k].index <= MatchIndex(nodes[leader_id])
    <3>1. /\ nodes[leader_id].log[j] \in Entry
          /\ nodes[leader_id].log[j].index <= MatchIndex(nodes[leader_id])
      BY <2>1, <2>3, GroupFacts, MatchIndexIsLast DEF RuntimeInv
    <3> QED
      BY <2>3, <3>1 DEF Entry
  <2>5. ASSUME NEW n \in Member
        PROVE  acknowledged[k].index <= MatchIndex(nodes[n])
    BY <1>1, <2>1, <2>4
  <2>6. ASSUME NEW n \in Member, Contiguous(nodes[n])
        PROVE  HasEntry(nodes[n].log, acknowledged[k])
    <3>1. NodeInv(nodes[n]) /\ acknowledged[k].index > 0
      BY DEF RuntimeInv, GroupInv, LeaderCoversTerm
    <3>2. /\ acknowledged[k].index \in DOMAIN nodes[n].log
          /\ nodes[n].log[acknowledged[k].index].index = acknowledged[k].index
      BY <2>4, <2>5, <2>6, <3>1, WithoutHole
    <3>3. nodes[n].log[acknowledged[k].index] = nodes[leader_id].log[j]
      BY <2>1, <2>3, <3>2 DEF RuntimeInv, GroupInv, LogMatching
    <3> QED
      BY <2>3, <3>2, <3>3 DEF HasEntry
  <2> QED
    BY <2>2, <2>5, <2>6
<1>4. ASSUME ClusterReady, NEW n \in Member, "peer_lagging" \in PeerBlockers(n)
      PROVE  "peer_lagging" \in PeerBlockers(leader_id)
  <2>1. /\ leader_id \in Member
        /\ MatchIndex(nodes[leader_id]) <= MatchIndex(nodes[n])
    BY <1>4, ReadyMembers
  <2>2. MatchIndex(nodes[n]) < commit_index
    BY <1>4 DEF PeerBlockers
  <2>3. MatchIndex(nodes[leader_id]) < commit_index
    BY <1>1, <1>2, <2>1, <2>2
  <2> QED
    BY <2>3 DEF PeerBlockers
<1>5. ASSUME NEW n \in Member, leader_id # None, n # leader_id, nodes[n].healthy,
             CatchUpReport(MembershipOf(nodes, current_term), n,
                           MatchIndex(nodes[n]), commit_index).promotable
      PROVE  PromotionDecision(Status(leader_id), n, 0)
  <2> DEFINE status == Status(leader_id)
             commit == nodes[leader_id].commit_index
  <2>1. nodes[n].replica_role = "Learner" /\ MatchIndex(nodes[n]) >= commit_index
    BY <1>5 DEF CatchUpReport, MembershipOf
  <2>2. leader_id \in Member /\ commit \in Nat /\ commit <= commit_index
    BY <1>1, <1>5 DEF RuntimeInv, GroupInv, ElectionSafety
  <2>3. Max({0, commit - 0}) = commit
    BY <2>2, MaxPair
  <2>4. /\ status.commit_index = commit
        /\ n \in DOMAIN status.peers
        /\ status.peers[n] = PeerStatus(leader_id, n)
    BY <1>5 DEF Status
  <2> HIDE DEF status
  <2>5. /\ PeerStatus(leader_id, n).learner /\ PeerStatus(leader_id, n).healthy
        /\ PeerStatus(leader_id, n).matched = MatchIndex(nodes[n])
    BY <1>5, <2>1 DEF PeerStatus
  <2>6. MatchIndex(nodes[n]) >= commit
    BY <1>1, <1>2, <2>1, <2>2
  <2> QED
    BY <2>3, <2>4, <2>5, <2>6 DEF PromotionDecision, status
<1> QED
  BY <1>3, <1>4, <1>5 DEF ReadyMeansHeld

--------------------------------------------------------------------------------
(***************************************************************************)
(* What a workflow makes of the membership.                                *)
(***************************************************************************)
MembershipRecord ==
  [voters : SUBSET Node, learners : SUBSET Node, witnesses : SUBSET Node,
   epoch : Nat]

\* The change an operation asks for: from the members before to those after.
ChangesTo(before, op, after) ==
  /\ op.kind = "TransferLeader" =>
       SameMembers(before, after)
  /\ op.kind = "Promote" /\ op.id \notin before.learners =>
       SameMembers(before, after)
  /\ op.kind = "Promote" /\ op.id \in before.learners =>
       /\ after.voters = before.voters \cup {op.id}
       /\ after.learners = before.learners \ {op.id}
       /\ after.witnesses = before.witnesses
  /\ op.kind = "Remove" =>
       /\ after.voters = before.voters \ {op.id}
       /\ after.learners = before.learners \ {op.id}
       /\ after.witnesses = before.witnesses \ {op.id}
  /\ op.kind \in {"AddNode", "AddVoter", "AddLearner", "AddWitness"} =>
       CASE AddedRole(op) = "Voter" ->
              /\ after.voters = before.voters \cup {op.id}
              /\ after.learners = before.learners
              /\ after.witnesses = before.witnesses
         [] AddedRole(op) # "Voter" /\ op.id \in MemberIds(before) ->
              SameMembers(before, after)
         [] AddedRole(op) = "Learner" /\ op.id \notin MemberIds(before) ->
              /\ after.voters = before.voters
              /\ after.learners = before.learners \cup {op.id}
              /\ after.witnesses = before.witnesses
         [] AddedRole(op) = "Witness" /\ op.id \notin MemberIds(before) ->
              /\ after.voters = before.voters
              /\ after.learners = before.learners
              /\ after.witnesses = before.witnesses \cup {op.id}

\* The membership record makes the change.
LEMMA PlannedChanges ==
  ASSUME NEW m \in MembershipRecord, NEW op \in Operation
  PROVE  Planned(m, op) \in MembershipRecord /\ ChangesTo(m, op, Planned(m, op))
<1>1. op.id \in Node /\ op.kind \in OperationKind /\ AddedRole(op) \in ReplicaRole
  BY DEF Operation, AddedRole, ReplicaRole
<1>2. m.epoch + 1 \in Nat
  BY DEF MembershipRecord
<1> DEFINE e == m.epoch + 1
<1> HIDE DEF e
<1>3. CASE op.kind = "TransferLeader"
  <2>1. Planned(m, op) = m
    BY <1>3 DEF Planned
  <2> QED
    BY <1>3, <2>1 DEF ChangesTo, SameMembers
<1>4. CASE op.kind = "Promote"
  <2>1. Planned(m, op) = WithPromoted(m, op.id)
    BY <1>4 DEF Planned
  <2>2. CASE op.id \notin m.learners
    <3>1. WithPromoted(m, op.id) = m
      BY <2>2 DEF WithPromoted
    <3> QED
      BY <1>4, <2>1, <2>2, <3>1 DEF ChangesTo, SameMembers
  <2>3. CASE op.id \in m.learners
    <3>1. /\ WithPromoted(m, op.id) \in MembershipRecord
          /\ WithPromoted(m, op.id).voters = m.voters \cup {op.id}
          /\ WithPromoted(m, op.id).learners = m.learners \ {op.id}
          /\ WithPromoted(m, op.id).witnesses = m.witnesses
      BY <1>1, <1>2, <2>3 DEF WithPromoted, MembershipRecord
    <3> QED
      BY <1>4, <2>1, <2>3, <3>1 DEF ChangesTo
  <2> QED
    BY <2>2, <2>3
<1>5. CASE op.kind = "Remove"
  <2>1. Planned(m, op) = WithoutPeer(m, op.id)
    BY <1>5 DEF Planned
  <2>2. /\ WithoutPeer(m, op.id) \in MembershipRecord
        /\ WithoutPeer(m, op.id).voters = m.voters \ {op.id}
        /\ WithoutPeer(m, op.id).learners = m.learners \ {op.id}
        /\ WithoutPeer(m, op.id).witnesses = m.witnesses \ {op.id}
    BY <1>1, <1>2 DEF WithoutPeer, MemberIds, MembershipRecord
  <2> QED
    BY <1>5, <2>1, <2>2 DEF ChangesTo
<1>6. CASE op.kind \in {"AddNode", "AddVoter", "AddLearner", "AddWitness"}
  <2>1. Planned(m, op) = WithAdded(m, op.id, AddedRole(op))
    BY <1>6 DEF Planned
  <2>2. CASE AddedRole(op) = "Voter"
    BY <1>1, <1>6, <2>1, <2>2 DEF WithAdded, ChangesTo, MembershipRecord
  <2>3. CASE AddedRole(op) = "Learner"
    <3>1. Planned(m, op) = WithLearner(m, op.id)
      BY <2>1, <2>3 DEF WithAdded
    <3>2. CASE op.id \in MemberIds(m)
      <4>1. Planned(m, op) = m
        BY <3>1, <3>2 DEF WithLearner, CanAdd
      <4> QED
        BY <1>6, <2>3, <3>2, <4>1 DEF ChangesTo, SameMembers
    <3>3. CASE op.id \notin MemberIds(m)
      <4>1. /\ Planned(m, op) \in MembershipRecord
            /\ Planned(m, op).learners = m.learners \cup {op.id}
            /\ Planned(m, op).voters = m.voters
            /\ Planned(m, op).witnesses = m.witnesses
        BY <1>1, <1>2, <3>1, <3>3 DEF WithLearner, CanAdd, MembershipRecord
      <4> QED
        BY <1>6, <2>3, <3>3, <4>1 DEF ChangesTo
    <3> QED
      BY <3>2, <3>3
  <2>4. CASE AddedRole(op) = "Witness"
    <3>1. Planned(m, op) = WithWitness(m, op.id)
      BY <2>1, <2>4 DEF WithAdded
    <3>2. CASE op.id \in MemberIds(m)
      <4>1. Planned(m, op) = m
        BY <3>1, <3>2 DEF WithWitness, CanAdd
      <4> QED
        BY <1>6, <2>4, <3>2, <4>1 DEF ChangesTo, SameMembers
    <3>3. CASE op.id \notin MemberIds(m)
      <4>1. /\ Planned(m, op) \in MembershipRecord
            /\ Planned(m, op).witnesses = m.witnesses \cup {op.id}
            /\ Planned(m, op).voters = m.voters
            /\ Planned(m, op).learners = m.learners
        BY <1>1, <1>2, <3>1, <3>3 DEF WithWitness, CanAdd, MembershipRecord
      <4> QED
        BY <1>6, <2>4, <3>3, <4>1 DEF ChangesTo
    <3> QED
      BY <3>2, <3>3
  <2> QED
    BY <1>1, <2>2, <2>3, <2>4 DEF ReplicaRole
<1> QED
  BY <1>1, <1>3, <1>4, <1>5, <1>6 DEF OperationKind

\* It depends on the members alone, and determines them.
LEMMA ChangeDetermines ==
  ASSUME NEW op \in Operation, NEW m1, NEW m2, NEW p1, NEW p2, SameMembers(m1, m2),
         ChangesTo(m1, op, p1), ChangesTo(m2, op, p2)
  PROVE  SameMembers(p1, p2)
<1>1. op.kind \in OperationKind /\ AddedRole(op) \in ReplicaRole
  BY DEF Operation, AddedRole, ReplicaRole
<1>2. CASE op.kind \in {"TransferLeader", "Promote", "Remove"}
  BY <1>2 DEF ChangesTo, SameMembers
<1>3. CASE op.kind \in {"AddNode", "AddVoter", "AddLearner", "AddWitness"}
  BY <1>1, <1>3 DEF ChangesTo, SameMembers, MemberIds, ReplicaRole
<1> QED
  BY <1>1, <1>2, <1>3 DEF OperationKind

\* So does the cluster, when it carries the operation out.
LEMMA PerformChanges ==
  ASSUME RuntimeInv, NEW op \in Operation, ~ Blocked(op), Perform(op)
  PROVE  ChangesTo(CurrentMembership, op, CurrentMembership')
<1> DEFINE Of(ns, role) == {n \in DOMAIN ns : ns[n].replica_role = role}
<1>1. /\ CurrentMembership.voters = Of(nodes, "Voter")
      /\ CurrentMembership.learners = Of(nodes, "Learner")
      /\ CurrentMembership.witnesses = Of(nodes, "Witness")
      /\ CurrentMembership'.voters = Of(nodes', "Voter")
      /\ CurrentMembership'.learners = Of(nodes', "Learner")
      /\ CurrentMembership'.witnesses = Of(nodes', "Witness")
  BY DEF CurrentMembership, MembershipOf
<1>2. \A n \in Member : nodes[n].replica_role \in ReplicaRole
  BY GroupFacts DEF RuntimeInv, NodeRecord
<1>3. MemberIds(CurrentMembership) = Member
  BY <1>1, <1>2 DEF MemberIds, Member, ReplicaRole
<1> DEFINE before == CurrentMembership
           after  == CurrentMembership'
<1>4. CASE op.kind \in {"AddNode", "AddVoter", "AddLearner", "AddWitness"}
  <2>1. /\ op.id \notin Member /\ AddPeer(op.id, AddedRole(op))
        /\ AddedRole(op) \in ReplicaRole
    BY <1>4 DEF Perform, AddPeer, Operation, AddedRole, ReplicaRole
  <2>2. /\ Member' = Member \cup {op.id}
        /\ nodes'[op.id].replica_role = AddedRole(op)
        /\ \A n \in Member : nodes'[n] = nodes[n]
    BY <2>1 DEF AddPeer, Member, NewNode
  <2>3. ASSUME NEW role
        PROVE  Of(nodes', role) = IF role = AddedRole(op)
                                  THEN Of(nodes, role) \cup {op.id}
                                  ELSE Of(nodes, role)
    BY <2>1, <2>2 DEF Member
  <2> HIDE DEF Of
  <2>4. /\ after.voters = IF AddedRole(op) = "Voter"
                          THEN before.voters \cup {op.id} ELSE before.voters
        /\ after.learners = IF AddedRole(op) = "Learner"
                            THEN before.learners \cup {op.id} ELSE before.learners
        /\ after.witnesses = IF AddedRole(op) = "Witness"
                             THEN before.witnesses \cup {op.id} ELSE before.witnesses
    BY <1>1, <2>3
  <2>5. op.id \notin MemberIds(before)
    BY <1>3, <2>1
  <2> HIDE DEF before, after
  <2> QED
    BY <1>4, <2>1, <2>4, <2>5 DEF ChangesTo, ReplicaRole, before, after
<1>5. CASE op.kind = "Promote"
  <2>1. PromotePeer(op.id) /\ op.id \in Member
    BY <1>5 DEF Perform, PromotePeer
  <2>2. op.id \in before.learners
    BY <1>5, <2>1 DEF Blocked, CatchUpReport
  <2>3. /\ Member' = Member /\ nodes'[op.id].replica_role = "Voter"
        /\ \A n \in Member : op.id # n => nodes'[n] = nodes[n]
    BY <2>1, PromotePeerFacts
  <2>4. nodes[op.id].replica_role = "Learner"
    BY <1>1, <2>2
  <2>5. /\ Of(nodes', "Voter") = Of(nodes, "Voter") \cup {op.id}
        /\ Of(nodes', "Learner") = Of(nodes, "Learner") \ {op.id}
        /\ Of(nodes', "Witness") = Of(nodes, "Witness")
    BY <2>1, <2>3, <2>4 DEF Member
  <2> QED
    BY <1>1, <1>5, <2>2, <2>5 DEF ChangesTo
<1>6. CASE op.kind = "Remove"
  <2>1. RemovePeer(op.id)
    BY <1>6 DEF Perform
  <2>2. Member' = Member \ {op.id} /\ \A n \in Member' : nodes'[n] = nodes[n]
    BY <2>1 DEF RemovePeer, Member
  <2>3. \A role \in ReplicaRole : Of(nodes', role) = Of(nodes, role) \ {op.id}
    BY <2>2 DEF Member
  <2> QED
    BY <1>1, <1>6, <2>3 DEF ChangesTo, ReplicaRole
<1>7. CASE op.kind = "TransferLeader"
  <2>1. Elect(op.id)
    BY <1>7 DEF Perform, TransferLeader
  <2>2. Member' = Member /\ RolesStay
    BY <2>1, ElectRoles
  <2>3. \A role \in ReplicaRole : Of(nodes', role) = Of(nodes, role)
    BY <2>2 DEF RolesStay, Member
  <2> QED
    BY <1>1, <1>7, <2>3 DEF ChangesTo, SameMembers, ReplicaRole
<1> QED
  BY <1>4, <1>5, <1>6, <1>7 DEF Operation, OperationKind

\* The records after 0, 1, .. n operations of a list.
PlansOf(m, ops, g, n) ==
  g = [i \in 0 .. n |-> IF i = 0 THEN m ELSE Planned(g[i - 1], ops[i])]

Plans(m, ops) == CHOOSE g : PlansOf(m, ops, g, Len(ops))

\* There are such records; they are membership records, and the last one is the
\* planned one.
LEMMA PlansExist ==
  ASSUME NEW m \in MembershipRecord, NEW ops \in Seq(Operation)
  PROVE  /\ PlannedThrough(m, ops) = Plans(m, ops)[Len(ops)]
         /\ Plans(m, ops)[0] = m
         /\ \A i \in 0 .. Len(ops) : Plans(m, ops)[i] \in MembershipRecord
         /\ \A i \in 1 .. Len(ops) :
              Plans(m, ops)[i] = Planned(Plans(m, ops)[i - 1], ops[i])
<1>1. Len(ops) \in Nat /\ \A i \in 1 .. Len(ops) : ops[i] \in Operation
  BY LenProperties, ElementOfSeq
<1>2. \A n \in Nat : \E g : PlansOf(m, ops, g, n)
  <2> DEFINE Solved == {n \in Nat : \E g : PlansOf(m, ops, g, n)}
  <2>1. 0 \in Solved
    <3> DEFINE g == [i \in 0 .. 0 |-> m]
    <3>1. PlansOf(m, ops, g, 0)
      BY DEF PlansOf
    <3> QED
      BY <3>1
  <2>2. ASSUME NEW n \in Solved PROVE n + 1 \in Solved
    <3>1. n \in Nat
      OBVIOUS
    <3>2. PICK g : PlansOf(m, ops, g, n)
      OBVIOUS
    <3> DEFINE next == Planned(g[n], ops[n + 1])
               h == [i \in 0 .. n + 1 |-> IF i = n + 1 THEN next ELSE g[i]]
    <3>3. /\ g[0] = m
          /\ \A i \in 1 .. n : g[i] = Planned(g[i - 1], ops[i])
      BY <3>1, <3>2 DEF PlansOf
    <3>4. next = Planned(g[n], ops[n + 1])
      OBVIOUS
    <3> HIDE DEF next
    <3>5. h[n + 1] = next /\ \A i \in 0 .. n : h[i] = g[i]
      BY <3>1
    <3>6. h = [i \in 0 .. n + 1 |-> h[i]]
      OBVIOUS
    <3> HIDE DEF h
    <3>7. ASSUME NEW i \in 0 .. n + 1
          PROVE  h[i] = IF i = 0 THEN m ELSE Planned(h[i - 1], ops[i])
      <4>1. CASE i = 0
        BY <3>1, <3>3, <3>5, <4>1
      <4>2. CASE i \in 1 .. n
        <5>1. i - 1 \in 0 .. n /\ i \in 0 .. n /\ i # 0
          BY <3>1, <4>2
        <5> QED
          BY <3>3, <3>5, <4>2, <5>1
      <4>3. CASE i = n + 1
        <5>1. i - 1 = n /\ n \in 0 .. n /\ i # 0
          BY <3>1, <4>3
        <5> QED
          BY <3>4, <3>5, <4>3, <5>1
      <4> QED
        BY <3>1, <4>1, <4>2, <4>3
    <3>8. PlansOf(m, ops, h, n + 1)
      BY <3>6, <3>7 DEF PlansOf
    <3> QED
      BY <3>1, <3>8
  <2> HIDE DEF Solved
  <2>3. Solved \in SUBSET Nat
    BY DEF Solved
  <2>4. Solved = Nat
    BY <2>1, <2>2, <2>3, NatSet
  <2> QED
    BY <2>4 DEF Solved
<1> DEFINE g == Plans(m, ops)
<1>3. PlansOf(m, ops, g, Len(ops))
  BY <1>1, <1>2 DEF Plans
<1>4. PlannedThrough(m, ops) = g[Len(ops)]
  BY DEF PlannedThrough, Plans, PlansOf
<1> HIDE DEF g
<1>5. g[0] = m /\ \A i \in 1 .. Len(ops) : g[i] = Planned(g[i - 1], ops[i])
  BY <1>1, <1>3 DEF PlansOf
<1>6. \A i \in Nat : i <= Len(ops) => g[i] \in MembershipRecord
  <2> DEFINE Typed == {i \in Nat : i <= Len(ops) => g[i] \in MembershipRecord}
  <2>1. 0 \in Typed
    BY <1>1, <1>5
  <2>2. ASSUME NEW i \in Typed PROVE i + 1 \in Typed
    <3>1. CASE i + 1 <= Len(ops)
      <4>1. /\ g[i] \in MembershipRecord /\ i + 1 \in 1 .. Len(ops)
            /\ (i + 1) - 1 = i
        BY <1>1, <3>1
      <4>2. g[i + 1] = Planned(g[i], ops[i + 1])
        BY <1>5, <4>1
      <4>3. g[i + 1] \in MembershipRecord
        BY <1>1, <4>1, <4>2, PlannedChanges
      <4> QED
        BY <4>3
    <3> QED
      BY <1>1, <3>1
  <2>3. Typed \in SUBSET Nat
    OBVIOUS
  <2> HIDE DEF Typed
  <2>4. Typed = Nat
    BY <2>1, <2>2, <2>3, NatSet
  <2> QED
    BY <2>4 DEF Typed
<1> QED
  BY <1>1, <1>4, <1>5, <1>6 DEF g

\* The saved cluster of a workflow is a cluster, and the members are those its
\* operations up to now make of the saved ones.
AtomicInv ==
  workflow # NoWorkflow =>
    /\ workflow.saved =
         [ nodes |-> workflow.saved.nodes,
           peer_pipelines |-> workflow.saved.peer_pipelines,
           leader_id |-> workflow.saved.leader_id,
           current_term |-> workflow.saved.current_term,
           commit_index |-> workflow.saved.commit_index,
           applied_index |-> workflow.saved.applied_index,
           last_log_index |-> workflow.saved.last_log_index,
           running |-> workflow.saved.running,
           leader_lease_valid |-> workflow.saved.leader_lease_valid ]
    /\ SameMembers(CurrentMembership,
         Plans(MembershipOf(workflow.saved.nodes, 0),
               workflow.operations)[workflow.done])

\* The membership of a consistent cluster is a membership record.
LEMMA MembershipType ==
  ASSUME NEW ns, DOMAIN ns \subseteq Node, NEW epoch \in Nat
  PROVE  MembershipOf(ns, epoch) \in MembershipRecord
  BY DEF MembershipOf, MembershipRecord

\* An operation of a workflow takes the members one operation further.
LEMMA OperationPlanned ==
  ASSUME ExecutorInv, AtomicInv, ExecuteOperation
  PROVE  /\ workflow.done \in Nat /\ workflow.operations \in Seq(Operation)
         /\ MembershipOf(workflow.saved.nodes, 0) \in MembershipRecord
         /\ SameMembers(CurrentMembership',
              Plans(MembershipOf(workflow.saved.nodes, 0),
                    workflow.operations)[workflow.done + 1])
<1> DEFINE op    == NextOperation
           ops   == workflow.operations
           done  == workflow.done
           start == MembershipOf(workflow.saved.nodes, 0)
           plans == Plans(start, ops)
<1>1. /\ RuntimeInv /\ WorkflowInv /\ workflow # NoWorkflow
      /\ SameMembers(CurrentMembership, plans[done])
  BY DEF ExecutorInv, ExecuteOperation, AtomicInv
<1>2. /\ op \in Operation /\ ~ Blocked(op) /\ Perform(op)
      /\ op = ops[done + 1]
  BY <1>1, NextOperationType DEF ExecuteOperation, Fails, NextOperation
<1>3. /\ ops \in Seq(Operation) /\ Len(ops) \in Nat
      /\ done \in Nat /\ done < Len(ops)
  BY <1>1, WorkflowAssumption, LenProperties DEF WorkflowInv, Operation
<1>4. start \in MembershipRecord
  BY <1>1, MembershipType DEF WorkflowInv, SavedInv
<1>5. /\ plans[done] \in MembershipRecord
      /\ plans[done + 1] = Planned(plans[done], op)
  <2>1. /\ done \in 0 .. Len(ops) /\ done + 1 \in 1 .. Len(ops)
        /\ (done + 1) - 1 = done
    BY <1>3
  <2>2. /\ \A i \in 0 .. Len(ops) : plans[i] \in MembershipRecord
        /\ \A i \in 1 .. Len(ops) : plans[i] = Planned(plans[i - 1], ops[i])
    BY <1>3, <1>4, PlansExist
  <2> QED
    BY <1>2, <2>1, <2>2
<1> HIDE DEF op, plans, start, ops, done
<1>6. ChangesTo(CurrentMembership, op, CurrentMembership')
  BY <1>1, <1>2, PerformChanges
<1>7. ChangesTo(plans[done], op, plans[done + 1])
  BY <1>2, <1>5, PlannedChanges
<1>8. SameMembers(CurrentMembership', plans[done + 1])
  BY <1>1, <1>2, <1>6, <1>7, ChangeDetermines
<1> QED
  BY <1>3, <1>4, <1>8 DEF plans, start, ops, done

\* Every step of the executor keeps the members what was planned.
LEMMA ExecutorKeepsPlan ==
  ASSUME ExecutorInv, AtomicInv, [ExecutorNext]_executorVars
  PROVE  AtomicInv'
<1>1. CASE workflow = NoWorkflow /\ RuntimeNext /\ UNCHANGED workflow
  BY <1>1 DEF AtomicInv
<1>2. CASE \E ops \in Workflows, rollback \in BOOLEAN : BeginWorkflow(ops, rollback)
  <2>1. PICK ops \in Workflows, rollback \in BOOLEAN : BeginWorkflow(ops, rollback)
    BY <1>2
  <2> DEFINE start == MembershipOf(nodes, 0)
  <2>2. /\ workflow'.saved = ClusterState /\ workflow'.done = 0
        /\ workflow'.operations = ops /\ nodes' = nodes
        /\ current_term' = current_term
    BY <2>1 DEF BeginWorkflow, vars, leaderVars
  <2>3. ops \in Seq(Operation) /\ start \in MembershipRecord
    BY GroupFacts, WorkflowAssumption, MembershipType
       DEF Operation, ExecutorInv, RuntimeInv, Member
  <2>4. Plans(start, ops)[0] = start
    BY <2>3, PlansExist
  <2>5. SameMembers(CurrentMembership', start)
    BY <2>2 DEF CurrentMembership, MembershipOf, SameMembers
  <2>6. workflow'.saved.nodes = nodes
    BY <2>2 DEF ClusterState
  <2> HIDE DEF start
  <2>7. SameMembers(CurrentMembership',
          Plans(MembershipOf(workflow'.saved.nodes, 0),
                workflow'.operations)[workflow'.done])
    BY <2>2, <2>4, <2>5, <2>6 DEF start
  <2> QED
    BY <2>2, <2>7 DEF AtomicInv, ClusterState
<1>3. CASE ExecuteOperation
  <2> SUFFICES ASSUME workflow' # NoWorkflow PROVE AtomicInv'
    BY DEF AtomicInv
  <2>1. /\ WorkflowInv /\ workflow # NoWorkflow
        /\ workflow' = [workflow EXCEPT !.done = @ + 1]
    BY <1>3 DEF ExecuteOperation, ExecutorInv
  <2>2. /\ workflow'.operations = workflow.operations
        /\ workflow'.done = workflow.done + 1
        /\ workflow'.saved = workflow.saved
    BY <2>1 DEF WorkflowInv
  <2>3. SameMembers(CurrentMembership',
          Plans(MembershipOf(workflow.saved.nodes, 0),
                workflow.operations)[workflow.done + 1])
    BY <1>3, OperationPlanned
  <2>4. SameMembers(CurrentMembership',
          Plans(MembershipOf(workflow'.saved.nodes, 0),
                workflow'.operations)[workflow'.done])
    BY <2>2, <2>3
  <2> QED
    BY <2>1, <2>2, <2>4 DEF AtomicInv
<1>4. CASE WorkflowFails
  BY <1>4 DEF WorkflowFails, AtomicInv
<1>5. CASE UNCHANGED executorVars
  <2>1. workflow' = workflow /\ nodes' = nodes /\ current_term' = current_term
    BY <1>5 DEF executorVars, vars, leaderVars
  <2> QED
    BY <2>1 DEF AtomicInv, CurrentMembership
<1> QED
  BY <1>1, <1>2, <1>3, <1>4, <1>5 DEF ExecutorNext

\* A workflow with rollback ends with all its changes or with none.
LEMMA EndIsAtomic ==
  ASSUME ExecutorInv, AtomicInv, [ExecutorNext]_executorVars, WorkflowEnds,
         workflow.rollback
  PROVE  \/ ClusterState' = workflow.saved
         \/ SameMembers(CurrentMembership',
              PlannedThrough(MembershipOf(workflow.saved.nodes, 0),
                             workflow.operations))
<1>1. WorkflowInv /\ workflow # NoWorkflow /\ workflow' = NoWorkflow
  BY DEF ExecutorInv, WorkflowEnds
<1>2. CASE ExecuteOperation
  <2> DEFINE start == MembershipOf(workflow.saved.nodes, 0)
  <2>1. /\ workflow.operations \in Seq(Operation) /\ start \in MembershipRecord
        /\ SameMembers(CurrentMembership',
             Plans(start, workflow.operations)[workflow.done + 1])
    BY <1>2, OperationPlanned
  <2>2. workflow.done + 1 = Len(workflow.operations)
    <3>1. [workflow EXCEPT !.done = @ + 1] # NoWorkflow
      <4> DEFINE next == [workflow EXCEPT !.done = @ + 1]
      <4>1. "done" \in DOMAIN next
        BY <1>1 DEF WorkflowInv
      <4>2. DOMAIN NoWorkflow = {}
        BY DEF NoWorkflow
      <4> QED
        BY <4>1, <4>2
    <3> QED
      BY <1>1, <1>2, <3>1 DEF ExecuteOperation
  <2> HIDE DEF start
  <2>3. PlannedThrough(start, workflow.operations)
          = Plans(start, workflow.operations)[Len(workflow.operations)]
    BY <2>1, PlansExist
  <2> QED
    BY <2>1, <2>2, <2>3 DEF start
<1>3. CASE WorkflowFails
  <2>1. Restore(workflow.saved)
    BY <1>3 DEF WorkflowFails
  <2> QED
    BY <1>1, <2>1 DEF Restore, ClusterState, AtomicInv
<1>4. ExecuteOperation \/ WorkflowFails
  BY <1>1 DEF ExecutorNext, BeginWorkflow, executorVars
<1> QED
  BY <1>2, <1>3, <1>4

--------------------------------------------------------------------------------
(***************************************************************************)
(* The theorems.                                                           *)
(***************************************************************************)

\* The group is consistent in every state of a group that the runtime and the
\* membership executor drive, whatever workflows fail and put it back.
THEOREM ExecutorSafety == ExecutorSpec => []ExecutorInv
<1>1. ExecutorInit => ExecutorInv
  BY InitInv DEF ExecutorInit, ExecutorInv
<1>2. ExecutorInv /\ [ExecutorNext]_executorVars => ExecutorInv'
  BY ExecutorNextInv
<1> QED
  BY <1>1, <1>2, PTL DEF ExecutorSpec

\* One leader, one vote per term, agreeing logs and one proposal per log id,
\* also after workflows put back members, terms and leaders.
THEOREM WorkflowsKeepSafety ==
  ExecutorSpec =>
    [](ElectionSafety /\ OneVotePerTerm /\ LogMatching /\ AcknowledgedOnce)
<1>1. ExecutorInv =>
        ElectionSafety /\ OneVotePerTerm /\ LogMatching /\ AcknowledgedOnce
  BY DEF ExecutorInv, RuntimeInv, GroupInv
<1> QED
  BY <1>1, ExecutorSafety, PTL

\* With a live quorum only what a majority reaches is committed; putting a
\* cluster back commits nothing.
THEOREM WorkflowsKeepCommit == ExecutorSpec => QuorumCommit
<1>1. ExecutorInv /\ [ExecutorNext]_executorVars =>
        [commit_index' > commit_index /\ HasLiveQuorum(nodes) =>
           HeldByMajority(nodes', commit_index')]_vars
  <2> SUFFICES ASSUME ExecutorInv, [ExecutorNext]_executorVars,
                      commit_index' > commit_index, HasLiveQuorum(nodes)
               PROVE  HeldByMajority(nodes', commit_index')
    OBVIOUS
  <2>1. RuntimeInv /\ commit_index \in Nat
    BY GroupFacts DEF ExecutorInv, RuntimeInv
  <2>2. CASE RuntimeNext \/ UNCHANGED vars
    BY <2>1, <2>2, NextCommits
  <2>3. CASE commit_index' = commit_index
    BY <2>1, <2>3
  <2>4. CASE ExecuteOperation \/ WorkflowFails
    BY <2>3, <2>4, ExecuteOperationInv, WorkflowFailsInv
  <2>5. CASE \E ops \in Workflows, rollback \in BOOLEAN :
               BeginWorkflow(ops, rollback)
    BY <2>2, <2>5, BeginWorkflowInv
  <2>6. CASE UNCHANGED executorVars
    BY <2>2, <2>6 DEF executorVars
  <2> QED
    BY <2>2, <2>4, <2>5, <2>6 DEF ExecutorNext
<1> QED
  BY <1>1, ExecutorSafety, PTL DEF ExecutorSpec, QuorumCommit

\* For every list of operations: no workflow, finished, failed or put back,
\* takes the leader or the last voter from a group that had one.
THEOREM LeaderSurvivesWorkflows == ExecutorSpec => WorkflowKeepsLeader
<1>1. ExecutorInv /\ [ExecutorNext]_executorVars =>
        [WorkflowEnds =>
           /\ workflow.saved.leader_id # None => leader_id' # None
           /\ MembershipOf(workflow.saved.nodes, 0).voters # {} =>
                CurrentMembership'.voters # {}]_executorVars
  <2> SUFFICES ASSUME ExecutorInv, [ExecutorNext]_executorVars, WorkflowEnds
               PROVE  /\ workflow.saved.leader_id # None => leader_id' # None
                      /\ MembershipOf(workflow.saved.nodes, 0).voters # {} =>
                           CurrentMembership'.voters # {}
    OBVIOUS
  <2>1. RuntimeInv /\ WorkflowInv /\ workflow # NoWorkflow /\ workflow' = NoWorkflow
    BY DEF ExecutorInv, WorkflowEnds
  <2>2. /\ MembershipOf(workflow.saved.nodes, 0).voters =
             Voters(workflow.saved.nodes)
        /\ CurrentMembership'.voters = Voters(nodes')
    BY DEF CurrentMembership, MembershipOf, Voters
  <2>3. CASE ExecuteOperation
    <3>1. NextOperation \in Operation /\ ~ Blocked(NextOperation)
          /\ Perform(NextOperation)
      BY <2>1, <2>3, NextOperationType DEF ExecuteOperation, Fails
    <3>2. /\ leader_id # None => leader_id' # None
          /\ Voters(nodes) # {} => Voters(nodes') # {}
      BY <2>1, <3>1, PerformKeepsLeader
    <3> QED
      BY <2>1, <2>2, <3>2 DEF WorkflowInv
  <2>4. CASE WorkflowFails
    BY <2>2, <2>4, WorkflowFailsInv
  <2>5. ExecuteOperation \/ WorkflowFails
    BY <2>1 DEF ExecutorNext, BeginWorkflow, executorVars
  <2> QED
    BY <2>3, <2>4, <2>5
<1> QED
  BY <1>1, ExecutorSafety, PTL DEF ExecutorSpec, WorkflowKeepsLeader

\* A step changes the quorum by one participant at most: every quorum before
\* meets every quorum after, and the joint quorum of a change of voters is a
\* quorum of both when there are no witnesses.
THEOREM QuorumsAlwaysOverlap == ExecutorSpec => QuorumsOverlap
<1>1. ExecutorInv /\ [ExecutorNext]_executorVars =>
        [MembersChange /\ ~ WorkflowFails =>
           LET before == CurrentMembership
               after  == CurrentMembership'
               joint  == Joint(before, after)
           IN  \A acks \in SUBSET (Member \cup Member') :
                 /\ QuorumReached(before, acks) =>
                      ~ QuorumReached(after, (Member \cup Member') \ acks)
                 /\ joint # None /\ before.witnesses \cup after.witnesses = {} =>
                      (JointQuorumReached(joint, acks) =>
                         QuorumReached(before, acks) /\ QuorumReached(after, acks))
        ]_executorVars
  <2> SUFFICES ASSUME ExecutorInv, [ExecutorNext]_executorVars, ~ WorkflowFails,
                      NEW acks \in SUBSET (Member \cup Member')
               PROVE  LET before == CurrentMembership
                          after  == CurrentMembership'
                          joint  == Joint(before, after)
                      IN  /\ QuorumReached(before, acks) =>
                               ~ QuorumReached(after, (Member \cup Member') \ acks)
                          /\ /\ joint # None
                             /\ before.witnesses \cup after.witnesses = {}
                             => (JointQuorumReached(joint, acks) =>
                                   /\ QuorumReached(before, acks)
                                   /\ QuorumReached(after, acks))
    OBVIOUS
  <2>1. RuntimeInv /\ RolesStep
    BY ExecutorRoles DEF ExecutorInv
  <2> QED
    BY <2>1, QuorumsMeet
<1> QED
  BY <1>1, ExecutorSafety, PTL DEF ExecutorSpec, QuorumsOverlap

\* Whatever operations and workflows came before, the promotion of a learner
\* whose log has no hole leaves a majority behind every committed entry that had
\* one.
THEOREM PromotionsKeepMajority == ExecutorSpec => PromotionKeepsMajority
<1>1. ExecutorInv /\ [ExecutorNext]_executorVars =>
        [\A n \in Member \cap Member' :
           /\ nodes[n].replica_role = "Learner" /\ nodes'[n].replica_role = "Voter"
           /\ Contiguous(nodes[n])
           /\ ~ WorkflowFails
           => \A i \in 1 .. commit_index :
                MajorityHolds(nodes, i) => MajorityHolds(nodes', i)]_executorVars
  BY ExecutorRoles, PromotionGrowsMajority DEF ExecutorInv
<1> QED
  BY <1>1, ExecutorSafety, PTL DEF ExecutorSpec, PromotionKeepsMajority

\* A lease means a leader that is up, whatever workflows put an earlier lease
\* back: for every group whose embedder never declares a lease valid itself.
THEOREM LeaseIsALeaders ==
  ASSUME LeaseUpdates \subseteq {FALSE}
  PROVE  ExecutorSpec => []LeaseMeansHealthyLeader
<1>1. ExecutorInit => LeaseInv
  BY DEF ExecutorInit, Init, LeaseInv, LeaseOfHealthy, ClusterState
<1>2. ExecutorInv /\ LeaseInv /\ [ExecutorNext]_executorVars => LeaseInv'
  BY ExecutorKeepsLease
<1>3. ExecutorInv /\ LeaseInv => LeaseMeansHealthyLeader
  BY DEF ExecutorInv, RuntimeInv, GroupInv, ElectionSafety, LeaseInv, LeaseOfHealthy,
     ClusterState, LeaseMeansHealthyLeader
<1> QED
  BY <1>1, <1>2, <1>3, ExecutorSafety, PTL DEF ExecutorSpec

\* What a ready report means: the leader's log holds every entry acknowledged in
\* its term, every member whose log has no hole holds the same entries, and none
\* ends before them; the runtime status and the promotion decision follow from the
\* same indexes.
THEOREM ReadyReportsHold == ExecutorSpec => []ReadyMeansHeld
<1>1. ExecutorInv => ReadyMeansHeld
  BY ReadyIsHeld DEF ExecutorInv
<1> QED
  BY <1>1, ExecutorSafety, PTL

\* Every member stays recoverable while workflows change the group and put it
\* back.
THEOREM WorkflowsStayRecoverable == ExecutorSpec => []RecordsRecoverable
<1>1. ExecutorInv => RecordsRecoverable
  BY NodeRecoverable DEF ExecutorInv, RuntimeInv, GroupInv, RecordsRecoverable
<1> QED
  BY <1>1, ExecutorSafety, PTL

\* All or nothing, for every list of operations: a workflow with rollback leaves
\* the members the membership record names after all operations, or the cluster
\* as it was.
THEOREM WorkflowsAreAtomic == ExecutorSpec => WorkflowAtomic
<1>1. ExecutorInit => AtomicInv
  BY DEF ExecutorInit, AtomicInv
<1>2. ExecutorInv /\ AtomicInv /\ [ExecutorNext]_executorVars => AtomicInv'
  BY ExecutorKeepsPlan
<1>3. ExecutorInv /\ AtomicInv /\ [ExecutorNext]_executorVars =>
        [WorkflowEnds /\ workflow.rollback =>
           \/ ClusterState' = workflow.saved
           \/ SameMembers(CurrentMembership',
                PlannedThrough(MembershipOf(workflow.saved.nodes, 0),
                               workflow.operations))]_executorVars
  BY EndIsAtomic
<1> QED
  BY <1>1, <1>2, <1>3, ExecutorSafety, PTL DEF ExecutorSpec, WorkflowAtomic
================================================================================
