--------------------------- MODULE RaftClusterProofs ---------------------------
(***************************************************************************)
(* Safety of the runtime's calls on a RustRaft group, for every value of   *)
(* the constants: RuntimeInv is an inductive invariant of RuntimeSpec, and *)
(* with it the commit index only moves forward and by majorities.          *)
(***************************************************************************)
EXTENDS RaftCluster, RaftNodeProofs

--------------------------------------------------------------------------------
(***************************************************************************)
(* One member.                                                             *)
(***************************************************************************)

\* The fields of a member that satisfies NodeInv have their types.
LEMMA NodeTypes ==
  ASSUME NEW node, NodeInv(node)
  PROVE  /\ node \in NodeRecord
         /\ node.replica_role \in ReplicaRole /\ node.raft_role \in RaftRole
         /\ node.current_term \in Nat /\ node.voted_for \in Node \cup {None}
         /\ node.committed \in LogId \cup {None} /\ node.log \in Seq(Entry)
         /\ node.installed_snapshot = 0
         /\ node.commit_index \in Nat /\ node.applied_index \in Nat
         /\ node.healthy \in BOOLEAN
  BY DEF NodeInv, NodeRecord

\* Without a snapshot a member matches what its log reaches.
LEMMA MatchIndexIsLast ==
  ASSUME NEW node, NodeInv(node)
  PROVE  /\ MatchIndex(node) = LastIndex(node.log)
         /\ MatchIndex(node) \in Nat
         /\ \A k \in DOMAIN node.log :
              node.log[k] \in Entry /\ node.log[k].index <= MatchIndex(node)
<1>1. node.log \in Seq(Entry) /\ Ordered(node.log) /\ node.installed_snapshot = 0
  BY NodeTypes DEF NodeInv
<1>2. \A e \in Entry : e.index \in Nat
  BY DEF Entry
<1>3. /\ LastIndex(node.log) \in Nat
      /\ \A k \in DOMAIN node.log : node.log[k].index <= LastIndex(node.log)
  BY <1>1, <1>2, LastIndexIsHighest
<1>4. \A k \in DOMAIN node.log : node.log[k] \in Entry
  BY <1>1, ElementOfSeq, LenProperties
<1>5. MatchIndex(node) = LastIndex(node.log)
  BY <1>1, <1>3, MaxPair DEF MatchIndex
<1> QED
  BY <1>3, <1>4, <1>5

\* advance_commit keeps a member consistent and moves nothing but its commit
\* and applied index and the committed id, up to what the member holds.
LEMMA AdvanceCommitKeeps ==
  ASSUME NEW node, NodeInv(node), NEW target \in Nat
  PROVE  /\ NodeInv(AdvanceCommit(node, target))
         /\ AdvanceCommit(node, target).log = node.log
         /\ AdvanceCommit(node, target).replica_role = node.replica_role
         /\ AdvanceCommit(node, target).raft_role = node.raft_role
         /\ AdvanceCommit(node, target).current_term = node.current_term
         /\ AdvanceCommit(node, target).voted_for = node.voted_for
         /\ AdvanceCommit(node, target).healthy = node.healthy
<1> DEFINE match == MatchIndex(node)
           commit == Max({node.commit_index, Min({target, match})})
           applied == IF CanServeData(node.replica_role)
                        THEN Max({node.applied_index, commit})
                        ELSE node.applied_index
           committed == IF commit > 0
                          THEN [term |-> node.current_term, index |-> commit]
                          ELSE None
           advanced == [node EXCEPT !.commit_index = commit,
                                    !.applied_index = applied,
                                    !.committed = committed]
<1>1. AdvanceCommit(node, target) = advanced
  BY DEF AdvanceCommit
<1>2. /\ match \in Nat /\ match = LastIndex(node.log)
      /\ node \in NodeRecord
      /\ node.commit_index \in Nat /\ node.applied_index \in Nat
      /\ node.current_term \in Nat
      /\ node.commit_index <= match
      /\ node.applied_index <= node.commit_index
  BY MatchIndexIsLast, NodeTypes DEF NodeInv
<1> HIDE DEF match
<1>3. commit \in Nat /\ commit <= match /\ node.commit_index <= commit
  <2> DEFINE held == Min({target, match})
  <2>1. held \in Nat /\ held <= match
    BY <1>2, MinPair
  <2> HIDE DEF held
  <2>2. commit = IF node.commit_index >= held THEN node.commit_index ELSE held
    BY <1>2, <2>1, MaxPair DEF held
  <2> HIDE DEF commit
  <2> QED
    BY <1>2, <2>1, <2>2
<1> HIDE DEF commit
<1>4. applied \in Nat /\ applied <= commit
  BY <1>2, <1>3, MaxPair
<1>5. committed \in LogId \cup {None}
  BY <1>2, <1>3 DEF LogId
<1> HIDE DEF applied
<1>6. None \notin LogId
  BY ClusterAssumption DEF LogId
<1>7. /\ committed = None => commit = 0
      /\ committed # None => /\ committed.index = commit
                             /\ committed.term <= node.current_term
  BY <1>2, <1>3, <1>6 DEF LogId
<1> HIDE DEF committed
<1>8. /\ advanced \in NodeRecord
      /\ advanced.commit_index = commit /\ advanced.applied_index = applied
      /\ advanced.committed = committed
      /\ advanced.log = node.log
      /\ advanced.replica_role = node.replica_role
      /\ advanced.raft_role = node.raft_role
      /\ advanced.current_term = node.current_term
      /\ advanced.voted_for = node.voted_for
      /\ advanced.healthy = node.healthy
      /\ advanced.installed_snapshot = node.installed_snapshot
  BY <1>2, <1>3, <1>4, <1>5 DEF NodeRecord
<1> HIDE DEF advanced
<1>9. NodeInv(advanced)
  BY <1>2, <1>3, <1>4, <1>7, <1>8 DEF NodeInv
<1> QED
  BY <1>1, <1>8, <1>9

--------------------------------------------------------------------------------
(***************************************************************************)
(* The indexes derived from a finite family of members, none of which      *)
(* reaches above a bound.                                                  *)
(***************************************************************************)
Family(ns, bound) ==
  /\ IsFiniteSet(DOMAIN ns)
  /\ bound \in Nat
  /\ \A n \in DOMAIN ns : NodeInv(ns[n]) /\ MatchIndex(ns[n]) <= bound

\* With a live participant the quorum match index is one of the match indexes,
\* and as many live participants reach it as a quorum needs or there are.
LEMMA QuorumMatchIndexNat ==
  ASSUME NEW ns, NEW bound, Family(ns, bound), LiveParticipants(ns) # {}
  PROVE  /\ QuorumMatchIndex(ns) \in Nat
         /\ Cardinality({n \in LiveParticipants(ns) :
                           MatchIndex(ns[n]) >= QuorumMatchIndex(ns)})
              >= Min({Cardinality(LiveParticipants(ns)), QuorumSize(ns)})
<1> DEFINE live == LiveParticipants(ns)
           needed == Min({Cardinality(live), QuorumSize(ns)})
           match(n) == MatchIndex(ns[n])
           matches == {match(n) : n \in live}
           holding(i) == {n \in live : match(n) >= i}
           S == {i \in matches : Cardinality(holding(i)) >= needed}
<1>1. /\ live \subseteq DOMAIN ns /\ IsFiniteSet(live)
      /\ IsFiniteSet(QuorumParticipants(ns))
  <2>1. /\ QuorumParticipants(ns) \subseteq DOMAIN ns
        /\ live \subseteq QuorumParticipants(ns)
    BY DEF QuorumParticipants, LiveParticipants
  <2> QED
    BY <2>1, FS_Subset DEF Family
<1>2. \A n \in live : match(n) \in Nat /\ match(n) <= bound
  BY <1>1, MatchIndexIsLast DEF Family
<1>3. needed \in Nat /\ needed <= Cardinality(live)
  <2>1. Cardinality(live) \in Nat /\ Cardinality(QuorumParticipants(ns)) \in Nat
    BY <1>1, FS_CardinalityType
  <2>2. QuorumSize(ns) \in Nat
    BY <2>1 DEF QuorumSize
  <2> HIDE DEF live
  <2> QED
    BY <2>1, <2>2, MinPair
<1>4. matches \in SUBSET Nat /\ matches # {}
  BY <1>2
<1>5. Min(matches) \in matches /\ \A i \in matches : Min(matches) <= i
  <2> HIDE DEF matches
  <2> QED
    BY <1>4, MinNat
<1>6. S \in SUBSET Nat /\ S # {} /\ \A i \in S : i <= bound
  <2>1. \A n \in live : match(n) >= Min(matches)
    BY <1>2, <1>5
  <2> HIDE DEF live, match
  <2>2. holding(Min(matches)) = live
    BY <2>1
  <2> HIDE DEF holding, needed
  <2>3. Min(matches) \in S
    BY <1>3, <1>5, <2>2, FS_CardinalityType, <1>1
  <2>4. \A i \in matches : i <= bound
    BY <1>2
  <2> HIDE DEF matches
  <2> QED
    BY <1>4, <2>3, <2>4
<1>7. QuorumMatchIndex(ns) = Max(S)
  BY DEF QuorumMatchIndex
<1>8. Max(S) \in Nat /\ Max(S) \in S
  <2> HIDE DEF S
  <2>1. bound \in Nat
    BY DEF Family
  <2> QED
    BY <1>6, <2>1, MaxNat
<1>9. Cardinality(holding(QuorumMatchIndex(ns))) >= needed
  <2> DEFINE found == Max(S)
  <2>1. found \in S
    BY <1>8
  <2> HIDE DEF found, holding, needed
  <2>2. Cardinality(holding(found)) >= needed
    BY <2>1
  <2> QED
    BY <1>7, <2>2 DEF found
<1> QED
  BY <1>7, <1>8, <1>9

\* refresh_cluster_indexes computes covering indexes that stay in bounds.
LEMMA RefreshedIndexesCover ==
  ASSUME NEW ns, NEW bound, Family(ns, bound)
  PROVE  /\ MaxCommit(ns) \in Nat /\ MaxLastIndex(ns) \in Nat
         /\ MinApplied(ns) \in Nat
         /\ MaxLastIndex(ns) <= bound
         /\ \A n \in DOMAIN ns : /\ ns[n].commit_index <= MaxCommit(ns)
                                 /\ MatchIndex(ns[n]) <= MaxLastIndex(ns)
<1>1. /\ bound \in Nat
      /\ \A n \in DOMAIN ns :
           /\ ns[n].commit_index \in Nat /\ ns[n].applied_index \in Nat
           /\ MatchIndex(ns[n]) \in Nat /\ MatchIndex(ns[n]) <= bound
           /\ ns[n].commit_index <= bound
  <2> SUFFICES ASSUME NEW n \in DOMAIN ns
               PROVE  /\ ns[n].commit_index \in Nat /\ ns[n].applied_index \in Nat
                      /\ MatchIndex(ns[n]) \in Nat /\ MatchIndex(ns[n]) <= bound
                      /\ ns[n].commit_index <= bound
    BY DEF Family
  <2>1. NodeInv(ns[n]) /\ MatchIndex(ns[n]) <= bound /\ bound \in Nat
    BY DEF Family
  <2>2. /\ ns[n].commit_index \in Nat /\ ns[n].applied_index \in Nat
        /\ MatchIndex(ns[n]) = LastIndex(ns[n].log) /\ MatchIndex(ns[n]) \in Nat
    BY <2>1, NodeTypes, MatchIndexIsLast
  <2>3. ns[n].commit_index <= LastIndex(ns[n].log)
    BY <2>1 DEF NodeInv
  <2> QED
    BY <2>1, <2>2, <2>3
<1>2. /\ MaxCommit(ns) \in Nat
      /\ \A n \in DOMAIN ns : ns[n].commit_index <= MaxCommit(ns)
  <2> DEFINE S == {0} \cup {ns[n].commit_index : n \in DOMAIN ns}
  <2>1. /\ S \in SUBSET Nat /\ S # {} /\ \A i \in S : i <= bound
        /\ \A n \in DOMAIN ns : ns[n].commit_index \in S
    BY <1>1
  <2>2. MaxCommit(ns) = Max(S)
    BY DEF MaxCommit
  <2> HIDE DEF S
  <2> QED
    BY <1>1, <2>1, <2>2, MaxNat
<1>3. /\ MaxLastIndex(ns) \in Nat /\ MaxLastIndex(ns) <= bound
      /\ \A n \in DOMAIN ns : MatchIndex(ns[n]) <= MaxLastIndex(ns)
  <2> DEFINE S == {0} \cup {MatchIndex(ns[n]) : n \in DOMAIN ns}
  <2>1. /\ S \in SUBSET Nat /\ S # {} /\ \A i \in S : i <= bound
        /\ \A n \in DOMAIN ns : MatchIndex(ns[n]) \in S
    BY <1>1
  <2>2. MaxLastIndex(ns) = Max(S)
    BY DEF MaxLastIndex
  <2> HIDE DEF S
  <2> QED
    BY <1>1, <2>1, <2>2, MaxNat
<1>4. MinApplied(ns) \in Nat
  <2> DEFINE serving == {n \in DOMAIN ns : CanServeData(ns[n].replica_role)}
             S == {ns[n].applied_index : n \in serving}
  <2>1. S \in SUBSET Nat /\ (serving # {} => S # {})
    BY <1>1
  <2>2. MinApplied(ns) = IF serving = {} THEN 0 ELSE Min(S)
    BY DEF MinApplied
  <2> HIDE DEF S, serving
  <2>3. serving # {} => Min(S) \in Nat
    BY <2>1, MinNat
  <2> QED
    BY <2>2, <2>3
<1> QED
  BY <1>2, <1>3, <1>4

--------------------------------------------------------------------------------
(***************************************************************************)
(* The initial states.                                                     *)
(***************************************************************************)

\* A new member is consistent, has an empty log and has not voted.
LEMMA NewNodeInv ==
  ASSUME NEW role \in ReplicaRole
  PROVE  /\ NodeInv(NewNode(role))
         /\ NewNode(role).replica_role = role
         /\ NewNode(role).raft_role = IdleRole(role)
         /\ NewNode(role).current_term = 0 /\ NewNode(role).voted_for = None
         /\ NewNode(role).commit_index = 0 /\ NewNode(role).log = << >>
         /\ MatchIndex(NewNode(role)) = 0
<1>1. IdleRole(role) \in RaftRole /\ (IdleRole(role) = "Learner" <=> role = "Learner")
  BY DEF IdleRole, RaftRole
<1>2. NewNode(role) \in NodeRecord
  BY <1>1 DEF NewNode, NodeRecord
<1>3. LastIndex(<< >>) = 0 /\ Ordered(<< >>)
  BY DEF LastIndex, Ordered
<1>4. NodeInv(NewNode(role))
  BY <1>1, <1>2, <1>3 DEF NewNode, NodeInv
<1>5. MatchIndex(NewNode(role)) = 0
  BY <1>3, <1>4, MatchIndexIsLast DEF NewNode
<1> QED
  BY <1>4, <1>5 DEF NewNode

\* A group starts consistent.
LEMMA InitInv == Init => RuntimeInv
<1> SUFFICES ASSUME Init PROVE RuntimeInv
  OBVIOUS
<1>1. PICK peers \in InitialPeers :
        /\ nodes = [n \in DOMAIN peers |-> NewNode(peers[n])]
        /\ peer_pipelines = [n \in DOMAIN peers |-> NewPipeline(1)]
  BY DEF Init
<1>2. /\ Member = DOMAIN peers /\ Member \subseteq Node
      /\ \A n \in Member : peers[n] \in ReplicaRole /\ nodes[n] = NewNode(peers[n])
  BY <1>1, ClusterAssumption DEF Member
<1>3. \A n \in Member :
        /\ NodeInv(nodes[n]) /\ nodes[n] \in NodeRecord
        /\ nodes[n].current_term = 0 /\ nodes[n].voted_for = None
        /\ nodes[n].commit_index = 0 /\ nodes[n].log = << >>
        /\ MatchIndex(nodes[n]) = 0
        /\ nodes[n].replica_role = peers[n]
        /\ nodes[n].raft_role = IdleRole(peers[n])
  BY <1>2, NewNodeInv, NodeTypes
<1>4. /\ leader_id = None /\ current_term = 0
      /\ commit_index = 0 /\ applied_index = 0 /\ last_log_index = 0
      /\ running = FALSE /\ leader_lease_valid = FALSE /\ acknowledged = << >>
  BY DEF Init
<1>5. TypeOK
  <2>1. nodes \in [Member -> NodeRecord]
    BY <1>1, <1>2, <1>3
  <2>2. acknowledged \in Seq(LogId)
    BY <1>4
  <2> QED
    BY <1>1, <1>2, <1>4, <2>1, <2>2 DEF TypeOK
<1>6. ElectionSafety
  BY <1>3, <1>4 DEF ElectionSafety, IdleRole
<1>7. OneVotePerTerm /\ LogMatching /\ ClusterIndexesCover
  BY <1>3, <1>4 DEF OneVotePerTerm, LogMatching, ClusterIndexesCover
<1>8. LeaderCoversTerm /\ AcknowledgedOnce
  BY <1>4 DEF LeaderCoversTerm, AcknowledgedOnce
<1> QED
  BY <1>3, <1>4, <1>5, <1>6, <1>7, <1>8 DEF RuntimeInv, GroupInv

--------------------------------------------------------------------------------
(***************************************************************************)
(* The steps.  A step proof has one step per conjunct of RuntimeInv.       *)
(***************************************************************************)

\* The members of a consistent group form a family below the last log index.
LEMMA GroupFacts ==
  ASSUME GroupInv
  PROVE  /\ Family(nodes, last_log_index)
         /\ IsFiniteSet(Member) /\ Member \subseteq Nat /\ Member \subseteq Node
         /\ last_log_index \in Nat /\ commit_index \in Nat
         /\ current_term \in Nat /\ applied_index \in Nat
         /\ \A n \in Member : nodes[n] \in NodeRecord /\ NodeInv(nodes[n])
<1>1. /\ Member \subseteq Node /\ last_log_index \in Nat /\ commit_index \in Nat
      /\ current_term \in Nat /\ applied_index \in Nat
  BY DEF GroupInv, TypeOK
<1>2. IsFiniteSet(Member) /\ Member \subseteq Nat
  BY <1>1, ClusterAssumption, FS_Subset
<1>3. \A n \in Member : NodeInv(nodes[n]) /\ nodes[n] \in NodeRecord
  BY DEF GroupInv, NodeInv
<1>4. \A n \in Member : MatchIndex(nodes[n]) <= last_log_index
  BY DEF GroupInv, ClusterIndexesCover
<1> QED
  BY <1>1, <1>2, <1>3, <1>4 DEF Family, Member

\* refresh_replication_pipelines leaves one pipeline per member.
LEMMA RefreshPipelinesDomain ==
  ASSUME NEW ns, NEW pipelines, NEW leader
  PROVE  DOMAIN RefreshPipelines(ns, pipelines, leader) = DOMAIN ns
  BY DEF RefreshPipelines

\* An election moves every member to a fresh term with one vote for the leader.
LEMMA ElectGroup ==
  ASSUME GroupInv, NEW candidate, Electable(candidate), Elect(candidate),
         running' \in BOOLEAN, acknowledged' = acknowledged
  PROVE  GroupInv'
<1> DEFINE voted == [n \in Member |->
                      [nodes[n] EXCEPT
                         !.current_term = current_term + 1,
                         !.voted_for    = candidate,
                         !.raft_role    = IF n = candidate THEN "Leader"
                                          ELSE IdleRole(nodes[n].replica_role)]]
<1>1. /\ Member \subseteq Node /\ current_term \in Nat
      /\ \A n \in Member : nodes[n] \in NodeRecord /\ NodeInv(nodes[n])
  BY GroupFacts
<1>2. /\ candidate \in Member /\ CanBeLeader(nodes[candidate].replica_role)
      /\ candidate \in Node
  BY <1>1 DEF Electable
<1>3. /\ current_term' = current_term + 1 /\ leader_id' = candidate
      /\ leader_lease_valid' = TRUE /\ nodes' = voted
      /\ peer_pipelines' = RefreshPipelines(voted, peer_pipelines, candidate)
      /\ commit_index' = commit_index /\ applied_index' = applied_index
      /\ last_log_index' = last_log_index
  BY DEF Elect, indexVars
<1>4. Member' = Member
  BY <1>3 DEF Member
<1> HIDE DEF voted
<1>5. ASSUME NEW n \in Member
      PROVE  /\ nodes'[n].current_term = current_term'
             /\ nodes'[n].voted_for = candidate
             /\ nodes'[n].raft_role = IF n = candidate THEN "Leader"
                                      ELSE IdleRole(nodes[n].replica_role)
             /\ nodes'[n].replica_role = nodes[n].replica_role
             /\ nodes'[n].log = nodes[n].log
             /\ nodes'[n].commit_index = nodes[n].commit_index
             /\ nodes'[n].applied_index = nodes[n].applied_index
             /\ nodes'[n].committed = nodes[n].committed
             /\ nodes'[n].installed_snapshot = nodes[n].installed_snapshot
             /\ nodes'[n] \in NodeRecord
  <2> DEFINE role == IF n = candidate THEN "Leader"
                     ELSE IdleRole(nodes[n].replica_role)
  <2>1. nodes'[n] = [nodes[n] EXCEPT !.current_term = current_term + 1,
                                     !.voted_for    = candidate,
                                     !.raft_role    = role]
    BY <1>3 DEF voted
  <2>2. nodes[n] \in NodeRecord
    BY <1>1
  <2>3. role \in RaftRole
    BY DEF IdleRole, RaftRole
  <2>4. current_term + 1 \in Nat /\ current_term' = current_term + 1
    BY <1>1, <1>3
  <2> HIDE DEF role
  <2>5. /\ nodes'[n].current_term = current_term'
        /\ nodes'[n].voted_for = candidate
        /\ nodes'[n].raft_role = role
        /\ nodes'[n].replica_role = nodes[n].replica_role
        /\ nodes'[n].log = nodes[n].log
        /\ nodes'[n].commit_index = nodes[n].commit_index
        /\ nodes'[n].applied_index = nodes[n].applied_index
        /\ nodes'[n].committed = nodes[n].committed
        /\ nodes'[n].installed_snapshot = nodes[n].installed_snapshot
        /\ nodes'[n] \in NodeRecord
    BY <1>2, <2>1, <2>2, <2>3, <2>4 DEF NodeRecord
  <2> QED
    BY <2>5 DEF role
<1>14. /\ nodes' = [n \in Member |-> nodes'[n]]
      /\ DOMAIN RefreshPipelines(voted, peer_pipelines, candidate) = Member
  BY <1>3, RefreshPipelinesDomain DEF voted
<1>6. ASSUME NEW n \in Member PROVE NodeInv(nodes'[n])
  <2>1. nodes[n].committed \in LogId \cup {None} /\ nodes[n].current_term \in Nat
    BY <1>1, NodeTypes
  <2>2. nodes'[n].raft_role = "Learner" <=> nodes'[n].replica_role = "Learner"
    BY <1>2, <1>5 DEF IdleRole, CanBeLeader
  <2>3. nodes[n].current_term <= current_term
    BY DEF GroupInv
  <2>4. nodes[n].committed # None => nodes[n].committed.term <= current_term'
    BY <1>1, <1>3, <2>1, <2>3 DEF NodeInv, LogId
  <2> QED
    BY <1>1, <1>3, <1>5, <2>2, <2>4 DEF NodeInv
<1>7. TypeOK'
  <2>1. nodes' \in [Member -> NodeRecord]
    BY <1>14, <1>5
  <2>2. DOMAIN peer_pipelines' = Member'
    BY <1>3, <1>4, <1>14
  <2> QED
    BY <1>1, <1>2, <1>3, <1>4, <2>1, <2>2 DEF GroupInv, TypeOK
<1>8. ElectionSafety'
  BY <1>2, <1>3, <1>4, <1>5 DEF ElectionSafety, IdleRole, CanBeLeader
<1>9. OneVotePerTerm'
  BY <1>3, <1>4, <1>5 DEF OneVotePerTerm
<1>10. LogMatching'
  BY <1>4, <1>5 DEF GroupInv, LogMatching
<1>11. ClusterIndexesCover'
  <2>1. \A n \in Member : MatchIndex(nodes'[n]) = MatchIndex(nodes[n])
    BY <1>5 DEF MatchIndex
  <2> QED
    BY <1>3, <1>4, <1>5, <2>1 DEF GroupInv, ClusterIndexesCover
<1> QED
  BY <1>1, <1>3, <1>4, <1>5, <1>6, <1>7, <1>8, <1>9, <1>10, <1>11 DEF GroupInv

\* What was acknowledged stays covered: nothing was, in the new term.
LEMMA ElectInv ==
  ASSUME RuntimeInv, NEW candidate, Electable(candidate), Elect(candidate),
         running' \in BOOLEAN, acknowledged' = acknowledged
  PROVE  RuntimeInv'
<1>1. GroupInv'
  BY ElectGroup DEF RuntimeInv
<1>2. /\ current_term' = current_term + 1 /\ current_term \in Nat
      /\ leader_id' = candidate
  BY GroupFacts DEF RuntimeInv, Elect
<1>3. LeaderCoversTerm'
  <2>1. \A k \in DOMAIN acknowledged :
          /\ acknowledged[k] \in LogId
          /\ acknowledged[k].term <= current_term /\ acknowledged[k].index > 0
    BY ElementOfSeq, LenProperties DEF RuntimeInv, GroupInv, TypeOK, LeaderCoversTerm
  <2> QED
    BY <1>2, <2>1 DEF LeaderCoversTerm, LogId
<1>4. AcknowledgedOnce'
  BY DEF RuntimeInv, AcknowledgedOnce
<1> QED
  BY <1>1, <1>3, <1>4 DEF RuntimeInv

\* The calls that change the flags only.
LEMMA FlagsGroup ==
  ASSUME GroupInv,
         UNCHANGED <<nodes, peer_pipelines, leaderVars, indexVars, acknowledged>>,
         running' \in BOOLEAN, leader_lease_valid' \in BOOLEAN
  PROVE  GroupInv'
<1>1. /\ nodes' = nodes /\ peer_pipelines' = peer_pipelines
      /\ leader_id' = leader_id /\ current_term' = current_term
      /\ commit_index' = commit_index /\ applied_index' = applied_index
      /\ last_log_index' = last_log_index /\ acknowledged' = acknowledged
      /\ Member' = Member
  BY DEF leaderVars, indexVars, Member
<1>2. TypeOK'
  BY <1>1 DEF GroupInv, TypeOK
<1>3. ElectionSafety' /\ OneVotePerTerm' /\ LogMatching' /\ ClusterIndexesCover'
  BY <1>1 DEF GroupInv, ElectionSafety, OneVotePerTerm, LogMatching,
              ClusterIndexesCover
<1> QED
  BY <1>1, <1>2, <1>3 DEF GroupInv

\* A step that only sets flags.
LEMMA FlagsInv ==
  ASSUME RuntimeInv,
         UNCHANGED <<nodes, peer_pipelines, leaderVars, indexVars, acknowledged>>,
         running' \in BOOLEAN, leader_lease_valid' \in BOOLEAN
  PROVE  RuntimeInv'
<1>1. GroupInv'
  BY FlagsGroup DEF RuntimeInv
<1>2. LeaderCoversTerm' /\ AcknowledgedOnce'
  BY DEF RuntimeInv, LeaderCoversTerm, AcknowledgedOnce, leaderVars
<1> QED
  BY <1>1, <1>2 DEF RuntimeInv
\* A step that keeps the members, their roles, terms and votes and the leader.
SameElection ==
  /\ nodes' = [n \in Member |-> nodes'[n]]
  /\ \A n \in Member :
       /\ NodeInv(nodes'[n])
       /\ nodes'[n].replica_role = nodes[n].replica_role
       /\ nodes'[n].raft_role = nodes[n].raft_role
       /\ nodes'[n].current_term = nodes[n].current_term
       /\ nodes'[n].voted_for = nodes[n].voted_for
  /\ DOMAIN peer_pipelines' = Member
  /\ leader_id' = leader_id /\ current_term' = current_term
  /\ running' = running /\ leader_lease_valid' \in BOOLEAN

\* A step that elects nobody and moves no member keeps the parts about elections.
LEMMA SameElectionKeeps ==
  ASSUME GroupInv, SameElection,
         commit_index' \in Nat, applied_index' \in Nat, last_log_index' \in Nat,
         acknowledged' \in Seq(LogId)
  PROVE  /\ Member' = Member
         /\ TypeOK' /\ ElectionSafety' /\ OneVotePerTerm'
         /\ \A n \in Member' :
              NodeInv(nodes'[n]) /\ nodes'[n].current_term <= current_term'
<1>1. Member' = Member
  BY DEF SameElection, Member
<1>2. TypeOK'
  <2>1. nodes' \in [Member -> NodeRecord]
    BY NodeTypes DEF SameElection
  <2> QED
    BY <1>1, <2>1 DEF SameElection, GroupInv, TypeOK
<1>3. ElectionSafety'
  BY <1>1 DEF SameElection, GroupInv, ElectionSafety
<1>4. OneVotePerTerm'
  BY <1>1 DEF SameElection, GroupInv, OneVotePerTerm
<1>5. \A n \in Member' :
        NodeInv(nodes'[n]) /\ nodes'[n].current_term <= current_term'
  BY <1>1 DEF SameElection, GroupInv
<1> QED
  BY <1>1, <1>2, <1>3, <1>4, <1>5

\* A member becomes healthy or unhealthy.
LEMMA SetNodeHealthyGroup ==
  ASSUME GroupInv, NEW n, NEW healthy \in BOOLEAN, SetNodeHealthy(n, healthy)
  PROVE  GroupInv'
<1>1. /\ n \in Member
      /\ nodes' = [nodes EXCEPT ![n].healthy = healthy]
      /\ peer_pipelines' = peer_pipelines
      /\ leader_id' = leader_id /\ current_term' = current_term
      /\ commit_index' = commit_index /\ applied_index' = applied_index
      /\ last_log_index' = last_log_index /\ acknowledged' = acknowledged
      /\ running' = running
      /\ leader_lease_valid' = (leader_lease_valid
                                  /\ ~ (leader_id = n /\ ~ healthy))
  BY DEF SetNodeHealthy, leaderVars, indexVars
<1>2. ASSUME NEW m \in Member
      PROVE  /\ nodes'[m].replica_role = nodes[m].replica_role
             /\ nodes'[m].raft_role = nodes[m].raft_role
             /\ nodes'[m].current_term = nodes[m].current_term
             /\ nodes'[m].voted_for = nodes[m].voted_for
             /\ nodes'[m].log = nodes[m].log
             /\ nodes'[m].commit_index = nodes[m].commit_index
             /\ nodes'[m].applied_index = nodes[m].applied_index
             /\ nodes'[m].committed = nodes[m].committed
             /\ nodes'[m].installed_snapshot = nodes[m].installed_snapshot
             /\ nodes'[m] \in NodeRecord
             /\ NodeInv(nodes[m])
  BY <1>1, GroupFacts DEF Member, NodeRecord
<1>3. \A m \in Member : /\ NodeInv(nodes'[m])
                        /\ MatchIndex(nodes'[m]) = MatchIndex(nodes[m])
  BY <1>2 DEF NodeInv, MatchIndex
<1>4. SameElection
  <2>1. nodes' = [m \in Member |-> nodes'[m]]
    BY <1>1 DEF Member, GroupInv, TypeOK
  <2>2. leader_lease_valid' \in BOOLEAN
    BY <1>1
  <2> QED
    BY <1>1, <1>2, <1>3, <2>1, <2>2 DEF SameElection, GroupInv, TypeOK
<1>5. /\ commit_index' \in Nat /\ applied_index' \in Nat /\ last_log_index' \in Nat
      /\ acknowledged' \in Seq(LogId)
  BY <1>1 DEF GroupInv, TypeOK
<1>6. /\ Member' = Member
      /\ TypeOK' /\ ElectionSafety' /\ OneVotePerTerm'
      /\ \A m \in Member' :
           NodeInv(nodes'[m]) /\ nodes'[m].current_term <= current_term'
  BY <1>4, <1>5, SameElectionKeeps
<1>7. LogMatching'
  BY <1>2, <1>6 DEF GroupInv, LogMatching
<1>8. ClusterIndexesCover'
  BY <1>1, <1>2, <1>3, <1>6 DEF GroupInv, ClusterIndexesCover
<1> QED
  BY <1>6, <1>7, <1>8 DEF GroupInv

\* Reporting a member up or down keeps what was acknowledged.
LEMMA SetNodeHealthyInv ==
  ASSUME RuntimeInv, NEW n, NEW healthy \in BOOLEAN, SetNodeHealthy(n, healthy)
  PROVE  RuntimeInv'
<1>1. GroupInv'
  BY SetNodeHealthyGroup DEF RuntimeInv
<1>2. /\ nodes' = [nodes EXCEPT ![n].healthy = healthy] /\ n \in Member
      /\ leader_id' = leader_id /\ current_term' = current_term
      /\ acknowledged' = acknowledged
  BY DEF SetNodeHealthy, leaderVars
<1>3. \A m \in Member : nodes'[m].log = nodes[m].log
  BY <1>2, GroupFacts DEF Member, NodeRecord, RuntimeInv
<1>4. LeaderCoversTerm'
  BY <1>2, <1>3 DEF RuntimeInv, GroupInv, LeaderCoversTerm, ElectionSafety
<1>5. AcknowledgedOnce'
  BY <1>2 DEF RuntimeInv, AcknowledgedOnce
<1> QED
  BY <1>1, <1>4, <1>5 DEF RuntimeInv
\* A promotion makes a voter that does not lead yet of any member.
LEMMA PromotePeerInv ==
  ASSUME RuntimeInv, NEW n, PromotePeer(n)
  PROVE  RuntimeInv'
<1>1. /\ n \in Member
      /\ nodes' = [nodes EXCEPT ![n].replica_role = "Voter",
                                ![n].raft_role    = "Follower"]
      /\ peer_pipelines' = peer_pipelines
      /\ leader_id' = leader_id /\ current_term' = current_term
      /\ commit_index' = commit_index /\ applied_index' = applied_index
      /\ last_log_index' = last_log_index /\ acknowledged' = acknowledged
      /\ running' = running /\ leader_lease_valid' = leader_lease_valid
  BY DEF PromotePeer, leaderVars, indexVars
<1>2. Member' = Member /\ "Voter" \in ReplicaRole /\ "Follower" \in RaftRole
  BY <1>1 DEF Member, ReplicaRole, RaftRole
<1>3. ASSUME NEW m \in Member
      PROVE  /\ nodes'[m].replica_role =
                  IF m = n THEN "Voter" ELSE nodes[m].replica_role
             /\ nodes'[m].raft_role =
                  IF m = n THEN "Follower" ELSE nodes[m].raft_role
             /\ nodes'[m].current_term = nodes[m].current_term
             /\ nodes'[m].voted_for = nodes[m].voted_for
             /\ nodes'[m].log = nodes[m].log
             /\ nodes'[m].commit_index = nodes[m].commit_index
             /\ nodes'[m].applied_index = nodes[m].applied_index
             /\ nodes'[m].committed = nodes[m].committed
             /\ nodes'[m].installed_snapshot = nodes[m].installed_snapshot
             /\ nodes'[m] \in NodeRecord
             /\ NodeInv(nodes[m])
  BY <1>1, <1>2, GroupFacts DEF Member, NodeRecord, RuntimeInv
<1>4. \A m \in Member : /\ NodeInv(nodes'[m])
                        /\ MatchIndex(nodes'[m]) = MatchIndex(nodes[m])
  BY <1>3 DEF NodeInv, MatchIndex
<1>5. TypeOK'
  <2>1. nodes' \in [Member -> NodeRecord]
    BY <1>1, <1>3 DEF Member, RuntimeInv, GroupInv, TypeOK
  <2> QED
    BY <1>1, <1>2, <2>1 DEF RuntimeInv, GroupInv, TypeOK
<1>6. ElectionSafety'
  <2>1. ASSUME NEW m \in Member
        PROVE  /\ nodes'[m].raft_role = "Leader" => m = leader_id
               /\ nodes'[m].raft_role = "Learner"
                    <=> nodes'[m].replica_role = "Learner"
               /\ m = leader_id => CanBeLeader(nodes'[m].replica_role)
    <3>1. CASE m = n
      BY <1>3, <3>1 DEF CanBeLeader
    <3>2. CASE m # n
      <4>1. m # None
        BY GroupFacts, ClusterAssumption DEF RuntimeInv
      <4> QED
        BY <1>3, <3>2, <4>1 DEF RuntimeInv, GroupInv, ElectionSafety
    <3> QED
      BY <3>1, <3>2
  <2>2. leader_id # None => leader_id \in Member
    BY DEF RuntimeInv, GroupInv, ElectionSafety
  <2> QED
    BY <1>1, <1>2, <2>1, <2>2 DEF ElectionSafety
<1>7. OneVotePerTerm' /\ LogMatching'
  <2>1. \A m \in Member : /\ nodes'[m].current_term = nodes[m].current_term
                          /\ nodes'[m].voted_for = nodes[m].voted_for
                          /\ nodes'[m].log = nodes[m].log
    BY <1>3
  <2>2. OneVotePerTerm'
    <3>1. leader_id' = leader_id /\ current_term' = current_term
      BY <1>1
    <3> QED
      BY <1>2, <2>1, <3>1 DEF RuntimeInv, GroupInv, OneVotePerTerm
  <2>3. LogMatching'
    BY <1>2, <2>1 DEF RuntimeInv, GroupInv, LogMatching
  <2> QED
    BY <2>2, <2>3
<1>8. ClusterIndexesCover'
  BY <1>1, <1>2, <1>3, <1>4 DEF RuntimeInv, GroupInv, ClusterIndexesCover
<1>9. LeaderCoversTerm'
  BY <1>1, <1>3 DEF RuntimeInv, GroupInv, LeaderCoversTerm, ElectionSafety
<1>10. AcknowledgedOnce'
  BY <1>1 DEF RuntimeInv, GroupInv, AcknowledgedOnce
<1> QED
  BY <1>1, <1>2, <1>3, <1>4, <1>5, <1>6, <1>7, <1>8, <1>9, <1>10 DEF RuntimeInv, GroupInv

\* A new member joins without a vote and with an empty log.
LEMMA AddPeerInv ==
  ASSUME RuntimeInv, NEW n \in Node, NEW role \in ReplicaRole, AddPeer(n, role)
  PROVE  RuntimeInv'
<1> DEFINE added == [m \in Member \cup {n} |->
                       IF m = n THEN NewNode(role) ELSE nodes[m]]
<1>1. /\ n \notin Member
      /\ nodes' = added
      /\ leader_id' = leader_id /\ current_term' = current_term
      /\ commit_index' = commit_index /\ applied_index' = applied_index
      /\ last_log_index' = last_log_index /\ acknowledged' = acknowledged
      /\ running' = running /\ leader_lease_valid' = leader_lease_valid
  BY DEF AddPeer, leaderVars, indexVars
<1>2. Member' = Member \cup {n} /\ DOMAIN peer_pipelines' = Member'
  <2>1. DOMAIN added = Member \cup {n}
    OBVIOUS
  <2>2. DOMAIN peer_pipelines' = DOMAIN added
    BY RefreshPipelinesDomain DEF AddPeer
  <2> HIDE DEF added
  <2> QED
    BY <1>1, <2>1, <2>2 DEF Member
<1>3. /\ nodes'[n] = NewNode(role)
      /\ \A m \in Member : nodes'[m] = nodes[m] /\ m # n
      /\ nodes' = [m \in Member \cup {n} |-> nodes'[m]]
  BY <1>1
<1> HIDE DEF added
<1>4. /\ NodeInv(nodes'[n]) /\ nodes'[n] \in NodeRecord
      /\ nodes'[n].replica_role = role /\ nodes'[n].raft_role = IdleRole(role)
      /\ nodes'[n].current_term = 0 /\ nodes'[n].voted_for = None
      /\ nodes'[n].commit_index = 0 /\ nodes'[n].log = << >>
      /\ MatchIndex(nodes'[n]) = 0
  BY <1>3, NewNodeInv, NodeTypes
<1>5. /\ \A m \in Member : NodeInv(nodes[m]) /\ nodes[m] \in NodeRecord
      /\ Member \subseteq Node
      /\ current_term \in Nat /\ commit_index \in Nat /\ last_log_index \in Nat
  BY GroupFacts DEF RuntimeInv
<1>6. TypeOK'
  <2>1. nodes' \in [Member' -> NodeRecord]
    BY <1>2, <1>3, <1>4, <1>5
  <2> QED
    BY <1>1, <1>2, <1>5, <2>1 DEF RuntimeInv, GroupInv, TypeOK
<1>7. ElectionSafety'
  BY <1>1, <1>2, <1>3, <1>4 DEF RuntimeInv, GroupInv, ElectionSafety, IdleRole
<1>8. OneVotePerTerm'
  <2>1. \A m \in Member : nodes[m].current_term = 0 => nodes[m].voted_for = None
    BY <1>5 DEF NodeInv
  <2>2. leader_id # None => current_term > 0
    BY DEF RuntimeInv, GroupInv, LeaderCoversTerm
  <2> QED
    BY <1>1, <1>2, <1>3, <1>4, <1>5, <2>1, <2>2 DEF RuntimeInv, GroupInv, OneVotePerTerm
<1>9. LogMatching'
  <2>1. DOMAIN nodes'[n].log = {}
    BY <1>4
  <2> QED
    BY <1>2, <1>3, <2>1 DEF RuntimeInv, GroupInv, LogMatching
<1>10. ClusterIndexesCover'
  BY <1>1, <1>2, <1>3, <1>4, <1>5 DEF RuntimeInv, GroupInv, ClusterIndexesCover
<1>11. LeaderCoversTerm'
  BY <1>1, <1>3 DEF RuntimeInv, GroupInv, LeaderCoversTerm, ElectionSafety
<1>12. AcknowledgedOnce'
  BY <1>1 DEF RuntimeInv, GroupInv, AcknowledgedOnce
<1>13. \A m \in Member' :
         NodeInv(nodes'[m]) /\ nodes'[m].current_term <= current_term'
  BY <1>1, <1>2, <1>3, <1>4, <1>5 DEF RuntimeInv, GroupInv
<1> QED
  BY <1>6, <1>7, <1>8, <1>9, <1>10, <1>11, <1>12, <1>13 DEF RuntimeInv, GroupInv

\* The rest of the group does not change when a member leaves.
LEMMA RemovePeerInv ==
  ASSUME RuntimeInv, NEW n, RemovePeer(n)
  PROVE  RuntimeInv'
<1> DEFINE rest == [m \in Member \ {n} |-> nodes[m]]
<1>1. /\ nodes' = rest
      /\ leader_id' = (IF leader_id = n THEN None ELSE leader_id)
      /\ leader_lease_valid' = (leader_lease_valid /\ leader_id # n)
      /\ current_term' = current_term
      /\ commit_index' = commit_index /\ applied_index' = applied_index
      /\ last_log_index' = last_log_index /\ acknowledged' = acknowledged
      /\ running' = running
  BY DEF RemovePeer, indexVars
<1>2. Member' = Member \ {n} /\ DOMAIN peer_pipelines' = Member'
  <2>1. DOMAIN rest = Member \ {n}
    OBVIOUS
  <2>2. DOMAIN peer_pipelines' = DOMAIN rest
    BY RefreshPipelinesDomain DEF RemovePeer
  <2> HIDE DEF rest
  <2> QED
    BY <1>1, <2>1, <2>2 DEF Member
<1>3. /\ \A m \in Member' : nodes'[m] = nodes[m] /\ m # n /\ m \in Member
      /\ nodes' = [m \in Member' |-> nodes[m]]
  BY <1>1, <1>2
<1> HIDE DEF rest
<1>4. /\ \A m \in Member : NodeInv(nodes[m]) /\ nodes[m] \in NodeRecord
      /\ Member \subseteq Node
  BY GroupFacts DEF RuntimeInv
<1>5. TypeOK'
  <2>1. nodes' \in [Member' -> NodeRecord]
    BY <1>3, <1>4
  <2>2. leader_lease_valid' \in BOOLEAN
    BY <1>1
  <2> QED
    BY <1>1, <1>2, <1>4, <2>1, <2>2 DEF RuntimeInv, GroupInv, TypeOK
<1>6. ElectionSafety'
  BY <1>1, <1>2, <1>3 DEF RuntimeInv, GroupInv, ElectionSafety
<1>7. OneVotePerTerm' /\ LogMatching'
  BY <1>1, <1>3 DEF RuntimeInv, GroupInv, OneVotePerTerm, LogMatching
<1>8. ClusterIndexesCover'
  BY <1>1, <1>3 DEF RuntimeInv, GroupInv, ClusterIndexesCover
<1>9. LeaderCoversTerm'
  BY <1>1, <1>2, <1>3 DEF RuntimeInv, GroupInv, LeaderCoversTerm, ElectionSafety
<1>10. AcknowledgedOnce'
  BY <1>1 DEF RuntimeInv, GroupInv, AcknowledgedOnce
<1>11. \A m \in Member' :
         NodeInv(nodes'[m]) /\ nodes'[m].current_term <= current_term'
  BY <1>1, <1>3 DEF RuntimeInv, GroupInv
<1> QED
  BY <1>5, <1>6, <1>7, <1>8, <1>9, <1>10, <1>11 DEF RuntimeInv, GroupInv

--------------------------------------------------------------------------------
(***************************************************************************)
(* The steps that write logs.                                              *)
(***************************************************************************)

\* refresh_commit_index moves commit and applied indexes only, and leaves the
\* cluster's indexes covering the members'.
LEMMA RefreshCommitIndexKeeps ==
  ASSUME NEW ns, NEW bound, Family(ns, bound),
         ns = [n \in DOMAIN ns |-> ns[n]],
         commit_index \in Nat, applied_index \in Nat,
         \A n \in DOMAIN ns : ns[n].commit_index <= commit_index,
         RefreshCommitIndex(ns, bound)
  PROVE  /\ Member' = DOMAIN ns
         /\ nodes' = [n \in DOMAIN ns |-> nodes'[n]]
         /\ \A n \in DOMAIN ns :
              /\ NodeInv(nodes'[n])
              /\ nodes'[n].log = ns[n].log
              /\ nodes'[n].replica_role = ns[n].replica_role
              /\ nodes'[n].raft_role = ns[n].raft_role
              /\ nodes'[n].current_term = ns[n].current_term
              /\ nodes'[n].voted_for = ns[n].voted_for
              /\ nodes'[n].commit_index <= commit_index'
              /\ MatchIndex(nodes'[n]) <= last_log_index'
         /\ commit_index' \in Nat /\ applied_index' \in Nat
         /\ last_log_index' \in Nat
<1> DEFINE target == Max({commit_index, QuorumMatchIndex(ns)})
           advanced == [n \in DOMAIN ns |->
                          IF ns[n].healthy THEN AdvanceCommit(ns[n], target)
                          ELSE ns[n]]
<1>1. CASE LiveParticipants(ns) = {}
  <2>1. /\ nodes' = ns /\ last_log_index' = bound
        /\ commit_index' = commit_index /\ applied_index' = applied_index
    BY <1>1 DEF RefreshCommitIndex
  <2> QED
    BY <2>1 DEF Family, Member
<1>2. CASE LiveParticipants(ns) # {}
  <2>1. nodes' = advanced /\ RefreshClusterIndexes(advanced)
    BY <1>2 DEF RefreshCommitIndex
  <2>2. target \in Nat
    <3>1. QuorumMatchIndex(ns) \in Nat
      BY <1>2, QuorumMatchIndexNat
    <3> QED
      BY <3>1, MaxPair
  <2> HIDE DEF target
  <2>3. ASSUME NEW n \in DOMAIN ns
        PROVE  /\ NodeInv(advanced[n])
               /\ advanced[n].log = ns[n].log
               /\ advanced[n].replica_role = ns[n].replica_role
               /\ advanced[n].raft_role = ns[n].raft_role
               /\ advanced[n].current_term = ns[n].current_term
               /\ advanced[n].voted_for = ns[n].voted_for
    <3>1. NodeInv(ns[n])
      BY DEF Family
    <3>2. CASE ns[n].healthy
      <4>1. advanced[n] = AdvanceCommit(ns[n], target)
        BY <3>2
      <4> HIDE DEF advanced
      <4> QED
        BY <2>2, <3>1, <4>1, AdvanceCommitKeeps
    <3>3. CASE ~ ns[n].healthy
      BY <3>1, <3>3
    <3> QED
      BY <3>2, <3>3
  <2>4. DOMAIN advanced = DOMAIN ns /\ advanced = [n \in DOMAIN ns |-> advanced[n]]
    OBVIOUS
  <2> HIDE DEF advanced
  <2>5. Family(advanced, bound)
    <3>1. \A n \in DOMAIN ns : MatchIndex(advanced[n]) = MatchIndex(ns[n])
      BY <2>3, MatchIndexIsLast DEF Family
    <3> QED
      BY <2>3, <2>4, <3>1 DEF Family
  <2>6. /\ commit_index' = MaxCommit(advanced)
        /\ applied_index' = MinApplied(advanced)
        /\ last_log_index' = MaxLastIndex(advanced)
    BY <2>1 DEF RefreshClusterIndexes
  <2>7. /\ commit_index' \in Nat /\ applied_index' \in Nat /\ last_log_index' \in Nat
        /\ \A n \in DOMAIN ns : /\ advanced[n].commit_index <= commit_index'
                                /\ MatchIndex(advanced[n]) <= last_log_index'
    BY <2>4, <2>5, <2>6, RefreshedIndexesCover
  <2> QED
    BY <2>1, <2>3, <2>4, <2>7 DEF Member
<1> QED
  BY <1>1, <1>2

\* A proposed entry lands above everything the members hold: whoever appends it
\* pushes it, and the logs still agree.
LEMMA ReplicatedKeeps ==
  ASSUME GroupInv, NEW payload \in Payload, NEW ns,
         ns = Replicated(NewEntry(payload))
  PROVE  /\ DOMAIN ns = Member /\ ns = [n \in Member |-> ns[n]]
         /\ Family(ns, last_log_index + 1)
         /\ \A n \in Member :
              /\ ns[n].replica_role = nodes[n].replica_role
              /\ ns[n].raft_role = nodes[n].raft_role
              /\ ns[n].current_term = nodes[n].current_term
              /\ ns[n].voted_for = nodes[n].voted_for
              /\ ns[n].commit_index = nodes[n].commit_index
              /\ Prolongs(ns[n].log, nodes[n].log)
         /\ \A n \in Appending(NewEntry(payload)) \cap Member :
              Keeps(ns[n].log, NewEntry(payload))
         /\ \A m, n \in Member :
              \A j \in DOMAIN ns[m].log, k \in DOMAIN ns[n].log :
                ns[m].log[j].index = ns[n].log[k].index =>
                  ns[m].log[j] = ns[n].log[k]
<1> DEFINE e == NewEntry(payload)
<1>1. /\ Family(nodes, last_log_index)
      /\ IsFiniteSet(Member) /\ last_log_index \in Nat /\ current_term \in Nat
      /\ \A n \in Member : nodes[n] \in NodeRecord /\ NodeInv(nodes[n])
  BY GroupFacts
<1>2. e \in Entry /\ e.index = last_log_index + 1
  BY <1>1 DEF NewEntry, Entry
<1> HIDE DEF e
<1>3. /\ DOMAIN ns = Member
      /\ \A n \in Member :
           ns[n] = IF n \in Appending(e)
                     THEN [nodes[n] EXCEPT !.log = AppendEntry(@, e)]
                     ELSE nodes[n]
      /\ ns = [n \in Member |-> ns[n]]
  BY DEF Replicated, e
<1>4. ASSUME NEW n \in Member
      PROVE  /\ nodes[n].log \in Seq(Entry) /\ Ordered(nodes[n].log)
             /\ LastIndex(nodes[n].log) \in Nat
             /\ LastIndex(nodes[n].log) <= last_log_index
             /\ \A k \in DOMAIN nodes[n].log :
                  /\ nodes[n].log[k] \in Entry
                  /\ nodes[n].log[k].index <= last_log_index
  <2>1. NodeInv(nodes[n]) /\ MatchIndex(nodes[n]) <= last_log_index
    BY <1>1 DEF Family, Member
  <2>2. nodes[n].log \in Seq(Entry) /\ Ordered(nodes[n].log)
    BY <2>1, NodeTypes DEF NodeInv
  <2>3. /\ MatchIndex(nodes[n]) = LastIndex(nodes[n].log)
        /\ MatchIndex(nodes[n]) \in Nat
        /\ \A k \in DOMAIN nodes[n].log :
             /\ nodes[n].log[k] \in Entry
             /\ nodes[n].log[k].index <= MatchIndex(nodes[n])
    BY <2>1, MatchIndexIsLast
  <2>4. \A k \in DOMAIN nodes[n].log : nodes[n].log[k].index \in Nat
    BY <2>3 DEF Entry
  <2> QED
    BY <1>1, <2>1, <2>2, <2>3, <2>4
<1>5. ASSUME NEW n \in Member \cap Appending(e)
      PROVE  /\ ns[n].log = Append(nodes[n].log, e)
             /\ LastIndex(ns[n].log) = e.index
             /\ NodeInv(ns[n])
             /\ ns[n].replica_role = nodes[n].replica_role
             /\ ns[n].raft_role = nodes[n].raft_role
             /\ ns[n].current_term = nodes[n].current_term
             /\ ns[n].voted_for = nodes[n].voted_for
             /\ ns[n].commit_index = nodes[n].commit_index
  <2> DEFINE longer == AppendEntry(nodes[n].log, e)
  <2>1. /\ longer = Append(nodes[n].log, e)
        /\ longer \in Seq(Entry) /\ Ordered(longer)
        /\ LastIndex(longer) = e.index
    <3>1. \A x \in Entry : x.index \in Nat
      BY DEF Entry
    <3>2. e.index > LastIndex(nodes[n].log)
      BY <1>1, <1>2, <1>4
    <3> QED
      BY <1>2, <1>4, <3>1, <3>2, AppendEntryPushes
  <2>2. ns[n] = [nodes[n] EXCEPT !.log = longer]
    BY <1>3
  <2> HIDE DEF longer
  <2>3. nodes[n] \in NodeRecord /\ NodeInv(nodes[n])
    BY <1>1
  <2>4. /\ ns[n] \in NodeRecord /\ ns[n].log = longer
        /\ ns[n].replica_role = nodes[n].replica_role
        /\ ns[n].raft_role = nodes[n].raft_role
        /\ ns[n].current_term = nodes[n].current_term
        /\ ns[n].voted_for = nodes[n].voted_for
        /\ ns[n].commit_index = nodes[n].commit_index
        /\ ns[n].applied_index = nodes[n].applied_index
        /\ ns[n].committed = nodes[n].committed
        /\ ns[n].installed_snapshot = nodes[n].installed_snapshot
    BY <2>1, <2>2, <2>3 DEF NodeRecord
  <2>5. ns[n].commit_index <= LastIndex(longer)
    <3>1. nodes[n].commit_index \in Nat
      BY <2>3, NodeTypes
    <3>2. nodes[n].commit_index <= LastIndex(nodes[n].log)
      BY <2>3 DEF NodeInv
    <3> QED
      BY <1>1, <1>2, <1>4, <2>1, <2>4, <3>1, <3>2
  <2> QED
    BY <2>1, <2>3, <2>4, <2>5 DEF NodeInv
<1>6. \A n \in Member : n \notin Appending(e) => ns[n] = nodes[n]
  BY <1>3
<1>7. Family(ns, last_log_index + 1)
  <2>1. ASSUME NEW n \in Member
        PROVE  NodeInv(ns[n]) /\ LastIndex(ns[n].log) <= last_log_index + 1
    BY <1>1, <1>2, <1>4, <1>5, <1>6
  <2>2. \A n \in Member : MatchIndex(ns[n]) <= last_log_index + 1
    BY <2>1, MatchIndexIsLast
  <2> QED
    BY <1>1, <1>3, <2>1, <2>2 DEF Family
<1>8. ASSUME NEW m \in Member, NEW j \in DOMAIN ns[m].log
      PROVE  \/ ns[m].log[j] = e
             \/ /\ j \in DOMAIN nodes[m].log
                /\ ns[m].log[j] = nodes[m].log[j]
                /\ ns[m].log[j].index \in Nat
                /\ ns[m].log[j].index <= last_log_index
  <2>1. j \in DOMAIN nodes[m].log => nodes[m].log[j].index \in Nat
    BY <1>4 DEF Entry
  <2>2. CASE m \in Appending(e)
    <3>1. ns[m].log = Append(nodes[m].log, e) /\ nodes[m].log \in Seq(Entry)
      BY <1>4, <1>5, <2>2
    <3>2. /\ DOMAIN ns[m].log = 1 .. (Len(nodes[m].log) + 1)
          /\ DOMAIN nodes[m].log = 1 .. Len(nodes[m].log)
          /\ Len(nodes[m].log) \in Nat
          /\ \A k \in 1 .. Len(nodes[m].log) : ns[m].log[k] = nodes[m].log[k]
          /\ ns[m].log[Len(nodes[m].log) + 1] = e
      BY <1>2, <3>1, AppendProperties, LenProperties
    <3>3. CASE j \in 1 .. Len(nodes[m].log)
      BY <1>4, <2>1, <3>2, <3>3
    <3>4. j \in 1 .. Len(nodes[m].log) \/ j = Len(nodes[m].log) + 1
      BY <3>2
    <3> QED
      BY <3>2, <3>3, <3>4
  <2>3. CASE m \notin Appending(e)
    BY <1>4, <1>6, <2>1, <2>3
  <2> QED
    BY <2>2, <2>3
<1>9. ASSUME NEW m \in Member, NEW n \in Member,
             NEW j \in DOMAIN ns[m].log, NEW k \in DOMAIN ns[n].log,
             ns[m].log[j].index = ns[n].log[k].index
      PROVE  ns[m].log[j] = ns[n].log[k]
  <2>1. ~ (last_log_index + 1 <= last_log_index)
    BY <1>1
  <2>2. CASE ns[m].log[j] = e \/ ns[n].log[k] = e
    BY <1>2, <1>8, <1>9, <2>1, <2>2
  <2>3. CASE ~ (ns[m].log[j] = e \/ ns[n].log[k] = e)
    BY <1>8, <1>9, <2>3 DEF GroupInv, LogMatching
  <2> QED
    BY <2>2, <2>3
<1>10. ASSUME NEW n \in Member
       PROVE  /\ Prolongs(ns[n].log, nodes[n].log)
              /\ n \in Appending(e) => Keeps(ns[n].log, e)
  <2>1. CASE n \in Appending(e)
    <3> DEFINE log == nodes[n].log
    <3>1. ns[n].log = Append(log, e) /\ log \in Seq(Entry)
      BY <1>4, <1>5, <2>1
    <3> HIDE DEF log
    <3>2. /\ DOMAIN Append(log, e) = 1 .. (Len(log) + 1)
          /\ DOMAIN log = 1 .. Len(log) /\ Len(log) \in Nat
          /\ \A k \in 1 .. Len(log) : Append(log, e)[k] = log[k]
          /\ Append(log, e)[Len(log) + 1] = e
      BY <1>2, <3>1, AppendProperties, LenProperties
    <3>3. Prolongs(Append(log, e), log)
      BY <3>2 DEF Prolongs
    <3>4. Keeps(Append(log, e), e)
      <4>1. Len(log) + 1 \in DOMAIN Append(log, e)
        BY <3>2
      <4> QED
        BY <3>2, <4>1 DEF Keeps
    <3> QED
      BY <3>1, <3>3, <3>4 DEF log
  <2>2. CASE n \notin Appending(e)
    BY <1>6, <2>2 DEF Prolongs
  <2> QED
    BY <2>1, <2>2
<1>11. \A n \in Member :
              /\ ns[n].replica_role = nodes[n].replica_role
              /\ ns[n].raft_role = nodes[n].raft_role
              /\ ns[n].current_term = nodes[n].current_term
              /\ ns[n].voted_for = nodes[n].voted_for
              /\ ns[n].commit_index = nodes[n].commit_index
  BY <1>5, <1>6
<1> QED
  BY <1>3, <1>7, <1>9, <1>10, <1>11 DEF e

\* A proposal that every pipeline accepted.
LEMMA ProposeWrites ==
  ASSUME GroupInv, NEW payload \in Payload, Propose(payload)
  PROVE  /\ leader_id # None /\ leader_id \in Member
         /\ acknowledged'
              = Append(acknowledged, [term |-> current_term, index |-> last_log_index + 1])
         /\ DOMAIN peer_pipelines' = Member
         /\ leader_id' = leader_id /\ current_term' = current_term
         /\ running' = running /\ leader_lease_valid' = leader_lease_valid
         /\ Member' = Member /\ nodes' = [n \in Member |-> nodes'[n]]
         /\ \A n \in Member :
              /\ NodeInv(nodes'[n])
              /\ nodes'[n].log = Replicated(NewEntry(payload))[n].log
              /\ Prolongs(nodes'[n].log, nodes[n].log)
              /\ nodes'[n].replica_role = nodes[n].replica_role
              /\ nodes'[n].raft_role = nodes[n].raft_role
              /\ nodes'[n].current_term = nodes[n].current_term
              /\ nodes'[n].voted_for = nodes[n].voted_for
              /\ nodes'[n].commit_index <= commit_index'
              /\ MatchIndex(nodes'[n]) <= last_log_index'
         /\ commit_index' \in Nat /\ applied_index' \in Nat /\ last_log_index' \in Nat
         /\ Keeps(nodes'[leader_id].log, NewEntry(payload))
         /\ LogMatching'
<1> DEFINE e  == NewEntry(payload)
           ns == Replicated(e)
<1>1. /\ current_term \in Nat /\ last_log_index \in Nat
      /\ commit_index \in Nat /\ applied_index \in Nat
  BY GroupFacts
<1>2. e.term = current_term /\ e.index = last_log_index + 1
  BY <1>1 DEF NewEntry
<1>3. /\ leader_id # None /\ leader_id \in Member
      /\ Refusing(e) = {}
      /\ RefreshCommitIndex(ns, last_log_index + 1)
      /\ acknowledged'
           = Append(acknowledged, [term |-> current_term, index |-> last_log_index + 1])
      /\ DOMAIN peer_pipelines' = Member
      /\ leader_id' = leader_id /\ current_term' = current_term
      /\ running' = running /\ leader_lease_valid' = leader_lease_valid
  BY <1>2 DEF Propose, CanPropose, ReplicatedPipelines, leaderVars
<1>4. leader_id \in Appending(e) \cap Member
  BY <1>3 DEF Appending, Visited
<1>5. /\ DOMAIN ns = Member /\ ns = [n \in Member |-> ns[n]]
      /\ Family(ns, last_log_index + 1)
      /\ \A n \in Member :
           /\ ns[n].replica_role = nodes[n].replica_role
           /\ ns[n].raft_role = nodes[n].raft_role
           /\ ns[n].current_term = nodes[n].current_term
           /\ ns[n].voted_for = nodes[n].voted_for
           /\ ns[n].commit_index = nodes[n].commit_index
           /\ Prolongs(ns[n].log, nodes[n].log)
      /\ \A n \in Appending(e) \cap Member : Keeps(ns[n].log, e)
      /\ \A m, n \in Member :
           \A j \in DOMAIN ns[m].log, k \in DOMAIN ns[n].log :
             ns[m].log[j].index = ns[n].log[k].index =>
               ns[m].log[j] = ns[n].log[k]
  BY ReplicatedKeeps
<1> HIDE DEF e, ns
<1>6. /\ Member' = DOMAIN ns
      /\ nodes' = [n \in DOMAIN ns |-> nodes'[n]]
      /\ \A n \in DOMAIN ns :
           /\ NodeInv(nodes'[n])
           /\ nodes'[n].log = ns[n].log
           /\ nodes'[n].replica_role = ns[n].replica_role
           /\ nodes'[n].raft_role = ns[n].raft_role
           /\ nodes'[n].current_term = ns[n].current_term
           /\ nodes'[n].voted_for = ns[n].voted_for
           /\ nodes'[n].commit_index <= commit_index'
           /\ MatchIndex(nodes'[n]) <= last_log_index'
      /\ commit_index' \in Nat /\ applied_index' \in Nat
      /\ last_log_index' \in Nat
  <2>1. \A n \in DOMAIN ns : ns[n].commit_index <= commit_index
    BY <1>5 DEF GroupInv, ClusterIndexesCover
  <2>2. ns = [n \in DOMAIN ns |-> ns[n]]
    BY <1>5
  <2> QED
    BY <1>1, <1>3, <1>5, <2>1, <2>2, RefreshCommitIndexKeeps
<1>7. /\ \A n \in Member : Prolongs(nodes'[n].log, nodes[n].log)
      /\ Keeps(nodes'[leader_id].log, NewEntry(payload))
  BY <1>4, <1>5, <1>6 DEF e
<1>8. LogMatching'
  BY <1>5, <1>6 DEF LogMatching
<1>9. \A n \in Member : nodes'[n].log = Replicated(NewEntry(payload))[n].log
  BY <1>5, <1>6 DEF e, ns
<1> QED
  BY <1>3, <1>5, <1>6, <1>7, <1>8, <1>9

\* An accepted proposal keeps the group consistent.
LEMMA ProposeGroup ==
  ASSUME GroupInv, NEW payload \in Payload, Propose(payload)
  PROVE  GroupInv'
<1>1. current_term \in Nat /\ last_log_index \in Nat
  BY GroupFacts
<1>2. acknowledged' \in Seq(LogId)
  <2> DEFINE id == [term |-> current_term, index |-> last_log_index + 1]
  <2>1. acknowledged' = Append(acknowledged, id)
    BY ProposeWrites
  <2>2. id \in LogId
    BY <1>1 DEF LogId
  <2> HIDE DEF id
  <2>3. acknowledged \in Seq(LogId)
    BY DEF GroupInv, TypeOK
  <2> QED
    BY <2>1, <2>2, <2>3, AppendProperties
<1>3. /\ Member' = Member
      /\ TypeOK' /\ ElectionSafety' /\ OneVotePerTerm'
      /\ \A n \in Member' :
           NodeInv(nodes'[n]) /\ nodes'[n].current_term <= current_term'
  <2>1. SameElection
    <3>1. leader_lease_valid' \in BOOLEAN
      BY ProposeWrites DEF GroupInv, TypeOK
    <3> QED
      BY <3>1, ProposeWrites DEF SameElection
  <2>2. commit_index' \in Nat /\ applied_index' \in Nat /\ last_log_index' \in Nat
    BY ProposeWrites
  <2> QED
    BY <1>2, <2>1, <2>2, SameElectionKeeps
<1>4. LogMatching' /\ ClusterIndexesCover'
  BY ProposeWrites DEF ClusterIndexesCover
<1> QED
  BY <1>3, <1>4 DEF GroupInv

\* A log that only got longer has the entries of the ids it had.
LEMMA IdsStay ==
  ASSUME NEW longer, NEW log, NEW id, Prolongs(longer, log), HasEntry(log, id)
  PROVE  HasEntry(longer, id)
BY DEF Prolongs, HasEntry

\* Its id is above every id acknowledged before.
LEMMA ProposeInv ==
  ASSUME RuntimeInv, NEW payload \in Payload, Propose(payload)
  PROVE  RuntimeInv'
<1> DEFINE id == [term |-> current_term, index |-> last_log_index + 1]
<1>1. GroupInv' /\ current_term \in Nat /\ last_log_index \in Nat
  BY ProposeGroup, GroupFacts DEF RuntimeInv
<1>2. /\ id \in LogId /\ id.term = current_term /\ id.index = last_log_index + 1
  BY <1>1 DEF LogId
<1>3. /\ leader_id # None /\ leader_id \in Member
      /\ acknowledged' = Append(acknowledged, id)
      /\ leader_id' = leader_id /\ current_term' = current_term
      /\ Prolongs(nodes'[leader_id].log, nodes[leader_id].log)
      /\ HasEntry(nodes'[leader_id].log, id)
  <2>1. /\ NewEntry(payload).term = id.term
        /\ NewEntry(payload).index = id.index
    BY DEF NewEntry
  <2> HIDE DEF id
  <2>2. Keeps(nodes'[leader_id].log, NewEntry(payload))
    BY ProposeWrites DEF RuntimeInv
  <2>3. HasEntry(nodes'[leader_id].log, id)
    BY <2>1, <2>2 DEF Keeps, HasEntry
  <2> QED
    BY <2>3, ProposeWrites DEF RuntimeInv, id
<1> HIDE DEF id
<1>4. /\ acknowledged \in Seq(LogId) /\ acknowledged' \in Seq(LogId)
      /\ DOMAIN acknowledged = 1 .. Len(acknowledged) /\ Len(acknowledged) \in Nat
      /\ DOMAIN acknowledged' = 1 .. (Len(acknowledged) + 1)
      /\ \A k \in 1 .. Len(acknowledged) :
           acknowledged'[k] = acknowledged[k] /\ acknowledged[k] \in LogId
      /\ acknowledged'[Len(acknowledged) + 1] = id
  <2>1. acknowledged \in Seq(LogId)
    BY DEF RuntimeInv, GroupInv, TypeOK
  <2> QED
    BY <1>2, <1>3, <2>1, AppendProperties, LenProperties, ElementOfSeq
<1>5. \A k \in 1 .. Len(acknowledged) :
         /\ acknowledged[k].term \in Nat /\ acknowledged[k].index \in Nat
         /\ acknowledged[k].term <= current_term
         /\ acknowledged[k].term = current_term =>
              acknowledged[k].index <= last_log_index
  <2>1. LastIndex(nodes[leader_id].log) <= last_log_index
    BY <1>3, MatchIndexIsLast DEF RuntimeInv, GroupInv, ClusterIndexesCover
  <2>2. LastIndex(nodes[leader_id].log) \in Nat
    BY <1>3, MatchIndexIsLast DEF RuntimeInv, GroupInv
  <2>3. \A k \in DOMAIN nodes[leader_id].log :
          nodes[leader_id].log[k].index <= LastIndex(nodes[leader_id].log)
    BY <1>3, MatchIndexIsLast DEF RuntimeInv, GroupInv
  <2>4. ASSUME NEW k \in 1 .. Len(acknowledged)
        PROVE  /\ acknowledged[k].term \in Nat /\ acknowledged[k].index \in Nat
               /\ acknowledged[k].term <= current_term
               /\ acknowledged[k].term = current_term =>
                    acknowledged[k].index <= LastIndex(nodes[leader_id].log)
    BY <1>3, <1>4, <2>3 DEF RuntimeInv, LeaderCoversTerm, LogId, HasEntry
  <2> QED
    BY <1>1, <2>1, <2>2, <2>4
<1>6. LeaderCoversTerm'
  <2>1. ASSUME NEW k \in DOMAIN acknowledged'
        PROVE  /\ acknowledged'[k].term <= current_term
               /\ acknowledged'[k].index > 0
               /\ acknowledged'[k].term = current_term =>
                    HasEntry(nodes'[leader_id].log, acknowledged'[k])
    <3>1. CASE k \in 1 .. Len(acknowledged)
      <4>1. acknowledged[k].term = current_term =>
              HasEntry(nodes[leader_id].log, acknowledged[k])
        BY <1>3, <1>4, <3>1 DEF RuntimeInv, LeaderCoversTerm
      <4>2. acknowledged'[k].index > 0
        BY <1>4, <3>1 DEF RuntimeInv, LeaderCoversTerm
      <4> QED
        BY <1>3, <1>4, <1>5, <3>1, <4>1, <4>2, IdsStay
    <3>2. CASE k = Len(acknowledged) + 1
      BY <1>1, <1>2, <1>3, <1>4, <3>2
    <3> QED
      BY <1>4, <3>1, <3>2
  <2>2. current_term > 0
    BY <1>3 DEF RuntimeInv, GroupInv, LeaderCoversTerm
  <2> QED
    BY <1>3, <2>1, <2>2 DEF LeaderCoversTerm
<1>7. AcknowledgedOnce'
  <2> SUFFICES ASSUME NEW j \in DOMAIN acknowledged', NEW k \in DOMAIN acknowledged',
                      j < k
               PROVE  \/ acknowledged'[j].term < acknowledged'[k].term
                      \/ /\ acknowledged'[j].term = acknowledged'[k].term
                         /\ acknowledged'[j].index < acknowledged'[k].index
    BY DEF AcknowledgedOnce
  <2>1. CASE k \in 1 .. Len(acknowledged)
    BY <1>4, <2>1 DEF RuntimeInv, GroupInv, AcknowledgedOnce
  <2>2. CASE k = Len(acknowledged) + 1
    <3>1. j \in 1 .. Len(acknowledged)
      BY <1>4, <2>2
    <3> QED
      BY <1>1, <1>2, <1>4, <1>5, <2>2, <3>1
  <2> QED
    BY <1>4, <2>1, <2>2
<1> QED
  BY <1>1, <1>6, <1>7 DEF RuntimeInv

\* A proposal that a pipeline refused: some members keep the entry, and its
\* index is used up.
LEMMA ProposeRefusedGroup ==
  ASSUME GroupInv, NEW payload \in Payload, ProposeRefused(payload)
  PROVE  GroupInv'
<1> DEFINE e == NewEntry(payload)
<1>1. /\ Member \subseteq Node /\ current_term \in Nat /\ last_log_index \in Nat
      /\ commit_index \in Nat /\ applied_index \in Nat
  BY GroupFacts
<1>2. /\ leader_id \in Member
      /\ nodes' = Replicated(e) /\ last_log_index' = last_log_index + 1
      /\ DOMAIN peer_pipelines' = Member
      /\ leader_id' = leader_id /\ current_term' = current_term
      /\ commit_index' = commit_index /\ applied_index' = applied_index
      /\ running' = running /\ leader_lease_valid' = leader_lease_valid
      /\ acknowledged' = acknowledged
  BY DEF ProposeRefused, CanPropose, ReplicatedPipelines, NewEntry, leaderVars
<1>3. /\ DOMAIN nodes' = Member /\ nodes' = [n \in Member |-> nodes'[n]]
      /\ Family(nodes', last_log_index + 1)
      /\ \A n \in Member :
           /\ nodes'[n].replica_role = nodes[n].replica_role
           /\ nodes'[n].raft_role = nodes[n].raft_role
           /\ nodes'[n].current_term = nodes[n].current_term
           /\ nodes'[n].voted_for = nodes[n].voted_for
           /\ nodes'[n].commit_index = nodes[n].commit_index
           /\ Prolongs(nodes'[n].log, nodes[n].log)
      /\ \A m, n \in Member :
           \A j \in DOMAIN nodes'[m].log, k \in DOMAIN nodes'[n].log :
             nodes'[m].log[j].index = nodes'[n].log[k].index =>
               nodes'[m].log[j] = nodes'[n].log[k]
  BY <1>2, ReplicatedKeeps
<1> HIDE DEF e
<1>4. /\ Member' = Member
      /\ TypeOK' /\ ElectionSafety' /\ OneVotePerTerm'
      /\ \A n \in Member' :
           NodeInv(nodes'[n]) /\ nodes'[n].current_term <= current_term'
  <2>1. SameElection
    <3>1. leader_lease_valid' \in BOOLEAN
      BY <1>2 DEF GroupInv, TypeOK
    <3> QED
      BY <1>2, <1>3, <3>1 DEF SameElection, Family
  <2>2. acknowledged' \in Seq(LogId)
    BY <1>2 DEF GroupInv, TypeOK
  <2> QED
    BY <1>1, <1>2, <2>1, <2>2, SameElectionKeeps
<1>5. LogMatching'
  BY <1>3, <1>4 DEF LogMatching
<1>6. ClusterIndexesCover'
  BY <1>2, <1>3, <1>4 DEF GroupInv, ClusterIndexesCover, Family
<1> QED
  BY <1>4, <1>5, <1>6 DEF GroupInv

\* A refused proposal acknowledges nothing.
LEMMA ProposeRefusedInv ==
  ASSUME RuntimeInv, NEW payload \in Payload, ProposeRefused(payload)
  PROVE  RuntimeInv'
<1>1. GroupInv'
  BY ProposeRefusedGroup DEF RuntimeInv
<1>2. /\ leader_id \in Member /\ nodes' = Replicated(NewEntry(payload))
      /\ leader_id' = leader_id /\ current_term' = current_term
      /\ acknowledged' = acknowledged
  BY DEF ProposeRefused, CanPropose, leaderVars
<1>3. /\ Member' = Member
      /\ Prolongs(nodes'[leader_id].log, nodes[leader_id].log)
  BY <1>2, ReplicatedKeeps DEF RuntimeInv, Member
<1>4. LeaderCoversTerm'
  <2>1. ASSUME NEW k \in DOMAIN acknowledged,
               acknowledged[k].term = current_term, leader_id # None
        PROVE  HasEntry(nodes'[leader_id].log, acknowledged[k])
    BY <1>3, <2>1, IdsStay DEF RuntimeInv, GroupInv, LeaderCoversTerm
  <2> QED
    BY <1>2, <2>1 DEF RuntimeInv, GroupInv, LeaderCoversTerm
<1>5. AcknowledgedOnce'
  BY <1>2 DEF RuntimeInv, GroupInv, AcknowledgedOnce
<1> QED
  BY <1>1, <1>4, <1>5 DEF RuntimeInv

\* The entries a catch-up takes from a log: entries, ordered, all above the
\* index, each from the log (EntriesAboveOrdered for the log's own entries).
LEMMA TailOfEntries ==
  ASSUME NEW log \in Seq(Entry), Ordered(log), NEW index \in Nat
  PROVE  /\ EntriesAbove(log, index) \in Seq(Entry)
         /\ Ordered(EntriesAbove(log, index))
         /\ \A k \in DOMAIN EntriesAbove(log, index) :
              /\ EntriesAbove(log, index)[k].index > index
              /\ \E j \in DOMAIN log : EntriesAbove(log, index)[k] = log[j]
<1>1. \A e \in Entry : e.index \in Nat
  BY DEF Entry
<1>2. /\ EntriesAbove(log, index) \in Seq(Entry)
      /\ Ordered(EntriesAbove(log, index))
  BY <1>1, EntriesAboveOrdered, Zenon
<1>3. \A k \in DOMAIN EntriesAbove(log, index) : EntriesAbove(log, index)[k].index > index
  BY <1>1, EntriesAboveOrdered, Zenon
<1>4. \A k \in DOMAIN EntriesAbove(log, index) :
        \E j \in DOMAIN log : EntriesAbove(log, index)[k] = log[j]
  BY <1>1, EntriesAboveOrdered, SMT
<1> QED
  BY <1>2, <1>3, <1>4

\* learner_catch_up_loop pushes the leader's entries the learner misses, and lets
\* it follow the commit index of the group.
LEMMA CaughtUp ==
  ASSUME RuntimeInv, NEW learner, LearnerCatchUp(learner)
  PROVE  \E filled, target :
           /\ CaughtUpLearner(learner) = AdvanceCommit(filled, target)
           /\ NodeInv(filled) /\ target \in Nat /\ target <= commit_index
           /\ filled.replica_role = nodes[learner].replica_role
           /\ filled.raft_role = nodes[learner].raft_role
           /\ filled.current_term = nodes[learner].current_term
           /\ filled.voted_for = nodes[learner].voted_for
           /\ filled.commit_index = nodes[learner].commit_index
           /\ filled.applied_index = nodes[learner].applied_index
           /\ MatchIndex(filled) <= last_log_index
           /\ Prolongs(filled.log, nodes[learner].log)
           /\ \A k \in DOMAIN filled.log :
                \/ \E j \in DOMAIN nodes[learner].log :
                     filled.log[k] = nodes[learner].log[j]
                \/ \E j \in DOMAIN nodes[leader_id].log :
                     filled.log[k] = nodes[leader_id].log[j]
<1>1. /\ Family(nodes, last_log_index)
      /\ IsFiniteSet(Member) /\ Member \subseteq Node
      /\ last_log_index \in Nat /\ commit_index \in Nat /\ current_term \in Nat
      /\ \A n \in Member : nodes[n] \in NodeRecord /\ NodeInv(nodes[n])
  BY GroupFacts DEF RuntimeInv
<1>2. /\ leader_id # None /\ leader_id \in Member /\ learner \in Member
  BY DEF LearnerCatchUp
<1>5. ASSUME NEW n \in Member
      PROVE  /\ nodes[n].log \in Seq(Entry) /\ Ordered(nodes[n].log)
             /\ MatchIndex(nodes[n]) = LastIndex(nodes[n].log)
             /\ MatchIndex(nodes[n]) \in Nat
             /\ MatchIndex(nodes[n]) <= last_log_index
             /\ nodes[n].installed_snapshot = 0
             /\ \A k \in DOMAIN nodes[n].log :
                  /\ nodes[n].log[k] \in Entry
                  /\ nodes[n].log[k].index <= last_log_index
  <2>1. NodeInv(nodes[n]) /\ MatchIndex(nodes[n]) <= last_log_index
    BY <1>1 DEF Family, Member
  <2>2. /\ MatchIndex(nodes[n]) = LastIndex(nodes[n].log)
        /\ MatchIndex(nodes[n]) \in Nat
        /\ \A k \in DOMAIN nodes[n].log :
             /\ nodes[n].log[k] \in Entry
             /\ nodes[n].log[k].index <= MatchIndex(nodes[n])
    BY <2>1, MatchIndexIsLast
  <2>3. \A k \in DOMAIN nodes[n].log : nodes[n].log[k].index \in Nat
    BY <2>2 DEF Entry
  <2> QED
    BY <1>1, <2>1, <2>2, <2>3, NodeTypes DEF NodeInv
<1> DEFINE before == nodes[learner]
           tail   == EntriesAbove(nodes[leader_id].log, MatchIndex(before))
           longer == AppendEntries(before.log, tail)
           filled == [before EXCEPT !.log = longer]
           target == Min({commit_index, MatchIndex(filled)})
<1>6. CaughtUpLearner(learner) = AdvanceCommit(filled, target)
  <2>1. ~ (nodes[leader_id].installed_snapshot > MatchIndex(nodes[learner]))
    BY <1>2, <1>5
  <2> QED
    BY <2>1 DEF CaughtUpLearner
<1>7. \A x \in Entry : x.index \in Nat
  BY DEF Entry
<1>8. /\ tail \in Seq(Entry) /\ Ordered(tail)
      /\ \A k \in DOMAIN tail :
           /\ tail[k].index > LastIndex(before.log)
           /\ \E j \in DOMAIN nodes[leader_id].log :
                tail[k] = nodes[leader_id].log[j]
  <2> DEFINE source == nodes[leader_id].log
             last   == MatchIndex(before)
  <2>1. source \in Seq(Entry) /\ Ordered(source)
    BY <1>2, <1>5
  <2>2. last \in Nat /\ last = LastIndex(before.log)
    BY <1>2, <1>5
  <2>3. tail = EntriesAbove(source, last)
    OBVIOUS
  <2> HIDE DEF source, last, longer, filled, target
  <2>4. /\ EntriesAbove(source, last) \in Seq(Entry)
        /\ Ordered(EntriesAbove(source, last))
        /\ \A k \in DOMAIN EntriesAbove(source, last) :
             /\ EntriesAbove(source, last)[k].index > last
             /\ \E j \in DOMAIN source :
                  EntriesAbove(source, last)[k] = source[j]
    BY <2>1, <2>2, TailOfEntries
  <2>5. /\ tail \in Seq(Entry) /\ Ordered(tail)
        /\ \A k \in DOMAIN tail :
             /\ tail[k].index > last
             /\ \E j \in DOMAIN source : tail[k] = source[j]
    BY <2>3, <2>4
  <2> QED
    BY <2>2, <2>5 DEF source
<1> HIDE DEF tail
<1>9. /\ longer \in Seq(Entry) /\ Ordered(longer)
      /\ LastIndex(longer) >= LastIndex(before.log)
      /\ Prolongs(longer, before.log)
      /\ \A k \in DOMAIN longer :
           \/ \E j \in DOMAIN before.log : longer[k] = before.log[j]
           \/ \E j \in DOMAIN tail : longer[k] = tail[j]
  <2>1. before.log \in Seq(Entry) /\ Ordered(before.log)
    BY <1>2, <1>5
  <2>2. /\ tail \in Seq(Entry) /\ Ordered(tail)
        /\ \A k \in DOMAIN tail : tail[k].index > LastIndex(before.log)
    BY <1>8
  <2> DEFINE log == before.log
  <2>3. log \in Seq(Entry) /\ Ordered(log)
    BY <2>1
  <2>4. \A k \in DOMAIN tail : tail[k].index > LastIndex(log)
    BY <2>2
  <2>6. tail \in Seq(Entry) /\ Ordered(tail)
    BY <2>2
  <2> HIDE DEF filled, target, log
  <2>5. /\ AppendEntries(log, tail) \in Seq(Entry)
        /\ Ordered(AppendEntries(log, tail))
        /\ LastIndex(AppendEntries(log, tail)) >= LastIndex(log)
    BY <1>7, <2>3, <2>4, <2>6, AppendEntriesPushes
  <2>7. Prolongs(AppendEntries(log, tail), log)
    BY <1>7, <2>3, <2>4, <2>6, AppendEntriesPushes
  <2>8. MadeOf(AppendEntries(log, tail), log, tail)
    BY <1>7, <2>3, <2>4, <2>6, AppendEntriesPushes
  <2> QED
    BY <2>5, <2>7, <2>8 DEF log, MadeOf
<1> HIDE DEF longer
<1>10. \A k \in DOMAIN longer :
         /\ longer[k].index <= last_log_index
         /\ \/ \E j \in DOMAIN before.log : longer[k] = before.log[j]
            \/ \E j \in DOMAIN nodes[leader_id].log :
                 longer[k] = nodes[leader_id].log[j]
  BY <1>2, <1>5, <1>8, <1>9
<1>11. LastIndex(longer) \in Nat /\ LastIndex(longer) <= last_log_index
  <2>1. LastIndex(longer) \in Nat
    <3>1. longer \in Seq(Entry) /\ Ordered(longer)
      BY <1>9
    <3> QED
      BY <1>7, <3>1, LastIndexIsHighest
  <2>2. CASE longer = << >>
    BY <1>1, <2>1, <2>2 DEF LastIndex
  <2>3. CASE longer # << >>
    <3>1. Len(longer) \in DOMAIN longer
      BY <1>9, <2>3, EmptySeq, LenProperties
    <3>2. longer[Len(longer)].index <= last_log_index
      BY <1>10, <3>1
    <3> QED
      BY <2>1, <2>3, <3>2 DEF LastIndex
  <2> QED
    BY <2>1, <2>2, <2>3
<1>12. /\ filled \in NodeRecord /\ filled.log = longer
       /\ filled.replica_role = before.replica_role
       /\ filled.raft_role = before.raft_role
       /\ filled.current_term = before.current_term
       /\ filled.voted_for = before.voted_for
       /\ filled.commit_index = before.commit_index
       /\ filled.applied_index = before.applied_index
       /\ filled.committed = before.committed
       /\ filled.installed_snapshot = before.installed_snapshot
       /\ NodeInv(before)
  <2>1. before \in NodeRecord /\ NodeInv(before)
    BY <1>1, <1>2
  <2> QED
    BY <1>9, <2>1 DEF NodeRecord
<1> HIDE DEF filled
<1>13. NodeInv(filled) /\ MatchIndex(filled) = LastIndex(longer)
  <2>1. before.commit_index \in Nat
    BY <1>12, NodeTypes
  <2>2. filled.commit_index <= LastIndex(longer)
    BY <1>2, <1>5, <1>9, <1>11, <1>12, <2>1 DEF NodeInv
  <2>3. NodeInv(filled)
    BY <1>9, <1>12, <2>2 DEF NodeInv
  <2> QED
    BY <1>12, <2>3, MatchIndexIsLast
<1>14. target \in Nat /\ target <= commit_index
  BY <1>1, <1>11, <1>13, MinPair
<1> HIDE DEF target
<1> QED
  BY <1>6, <1>9, <1>10, <1>11, <1>12, <1>13, <1>14

\* A learner that catches up keeps the invariant.
LEMMA LearnerCatchUpInv ==
  ASSUME RuntimeInv, NEW learner, LearnerCatchUp(learner)
  PROVE  RuntimeInv'
<1>1. /\ Family(nodes, last_log_index)
      /\ IsFiniteSet(Member) /\ Member \subseteq Node
      /\ last_log_index \in Nat /\ commit_index \in Nat /\ current_term \in Nat
      /\ \A n \in Member : nodes[n] \in NodeRecord /\ NodeInv(nodes[n])
  BY GroupFacts DEF RuntimeInv
<1>2. /\ leader_id # None /\ leader_id \in Member /\ learner \in Member
      /\ nodes[learner].replica_role = "Learner"
      /\ nodes' = [nodes EXCEPT ![learner] = CaughtUpLearner(learner)]
      /\ RefreshClusterIndexes(nodes')
      /\ DOMAIN peer_pipelines' = DOMAIN peer_pipelines
      /\ leader_id' = leader_id /\ current_term' = current_term
      /\ running' = running /\ leader_lease_valid' = leader_lease_valid
      /\ acknowledged' = acknowledged
  BY DEF LearnerCatchUp, leaderVars
<1>3. learner # leader_id
  BY <1>2 DEF RuntimeInv, GroupInv, ElectionSafety, CanBeLeader
<1>4. /\ Member' = Member
      /\ nodes'[learner] = CaughtUpLearner(learner)
      /\ \A n \in Member : n # learner => nodes'[n] = nodes[n]
      /\ nodes' = [n \in Member |-> nodes'[n]]
  BY <1>2 DEF Member, RuntimeInv, GroupInv, TypeOK
<1>5. PICK filled, target :
        /\ CaughtUpLearner(learner) = AdvanceCommit(filled, target)
        /\ NodeInv(filled) /\ target \in Nat /\ target <= commit_index
        /\ filled.replica_role = nodes[learner].replica_role
        /\ filled.raft_role = nodes[learner].raft_role
        /\ filled.current_term = nodes[learner].current_term
        /\ filled.voted_for = nodes[learner].voted_for
        /\ filled.commit_index = nodes[learner].commit_index
        /\ filled.applied_index = nodes[learner].applied_index
        /\ MatchIndex(filled) <= last_log_index
        /\ \A k \in DOMAIN filled.log :
             \/ \E j \in DOMAIN nodes[learner].log :
                  filled.log[k] = nodes[learner].log[j]
             \/ \E j \in DOMAIN nodes[leader_id].log :
                  filled.log[k] = nodes[leader_id].log[j]
  BY CaughtUp
<1>6. /\ NodeInv(nodes'[learner])
      /\ nodes'[learner].log = filled.log
      /\ nodes'[learner].replica_role = nodes[learner].replica_role
      /\ nodes'[learner].raft_role = nodes[learner].raft_role
      /\ nodes'[learner].current_term = nodes[learner].current_term
      /\ nodes'[learner].voted_for = nodes[learner].voted_for
  BY <1>4, <1>5, AdvanceCommitKeeps
<1>7. Family(nodes', last_log_index)
  <2>1. ASSUME NEW n \in Member
        PROVE  NodeInv(nodes'[n]) /\ MatchIndex(nodes'[n]) <= last_log_index
    <3>1. CASE n = learner
      BY <1>5, <1>6, <3>1, MatchIndexIsLast
    <3>2. CASE n # learner
      BY <1>1, <1>4, <3>2 DEF Family, Member
    <3> QED
      BY <3>1, <3>2
  <2> QED
    BY <1>1, <1>4, <2>1 DEF Family, Member
<1>8. /\ commit_index' \in Nat /\ applied_index' \in Nat /\ last_log_index' \in Nat
       /\ \A n \in Member : /\ nodes'[n].commit_index <= commit_index'
                             /\ MatchIndex(nodes'[n]) <= last_log_index'
  BY <1>2, <1>4, <1>7, RefreshedIndexesCover DEF RefreshClusterIndexes, Member
<1>9. /\ TypeOK' /\ ElectionSafety' /\ OneVotePerTerm'
       /\ \A n \in Member' :
            NodeInv(nodes'[n]) /\ nodes'[n].current_term <= current_term'
  <2>1. SameElection
    <3>1. \A n \in Member :
            /\ NodeInv(nodes'[n])
            /\ nodes'[n].replica_role = nodes[n].replica_role
            /\ nodes'[n].raft_role = nodes[n].raft_role
            /\ nodes'[n].current_term = nodes[n].current_term
            /\ nodes'[n].voted_for = nodes[n].voted_for
      BY <1>1, <1>4, <1>6
    <3>2. DOMAIN peer_pipelines = Member /\ leader_lease_valid \in BOOLEAN
      BY DEF RuntimeInv, GroupInv, TypeOK
    <3> QED
      BY <1>2, <1>4, <3>1, <3>2 DEF SameElection
  <2>2. acknowledged' \in Seq(LogId)
    BY <1>2 DEF RuntimeInv, GroupInv, TypeOK
  <2> QED
    BY <1>8, <2>1, <2>2, SameElectionKeeps DEF RuntimeInv
<1>10. LogMatching'
  <2>1. ASSUME NEW m \in Member, NEW j \in DOMAIN nodes'[m].log
        PROVE  \E o \in Member : \E i \in DOMAIN nodes[o].log :
                 nodes'[m].log[j] = nodes[o].log[i]
    <3>1. CASE m = learner
      BY <1>2, <1>5, <1>6, <3>1
    <3>2. CASE m # learner
      BY <1>4, <3>2
    <3> QED
      BY <3>1, <3>2
  <2>2. \A m, n \in Member :
          \A j \in DOMAIN nodes[m].log, k \in DOMAIN nodes[n].log :
            nodes[m].log[j].index = nodes[n].log[k].index =>
              nodes[m].log[j] = nodes[n].log[k]
    BY DEF RuntimeInv, GroupInv, LogMatching
  <2>3. ASSUME NEW m \in Member, NEW n \in Member,
               NEW j \in DOMAIN nodes'[m].log, NEW k \in DOMAIN nodes'[n].log,
               nodes'[m].log[j].index = nodes'[n].log[k].index
        PROVE  nodes'[m].log[j] = nodes'[n].log[k]
    BY <2>1, <2>2, <2>3
  <2> QED
    BY <1>4, <2>3 DEF LogMatching
<1>11. ClusterIndexesCover'
  BY <1>4, <1>8 DEF ClusterIndexesCover
<1>12. LeaderCoversTerm'
  BY <1>2, <1>3, <1>4 DEF RuntimeInv, GroupInv, LeaderCoversTerm
<1>13. AcknowledgedOnce'
  BY <1>2 DEF RuntimeInv, GroupInv, AcknowledgedOnce
<1> QED
  BY <1>9, <1>10, <1>11, <1>12, <1>13 DEF RuntimeInv, GroupInv

--------------------------------------------------------------------------------
(***************************************************************************)
(* The theorems.                                                           *)
(***************************************************************************)

\* Every call of the runtime and of the membership executor keeps the group
\* consistent.
LEMMA NextInv == RuntimeInv /\ [RuntimeNext]_vars => RuntimeInv'
<1> SUFFICES ASSUME RuntimeInv, [RuntimeNext]_vars PROVE RuntimeInv'
  OBVIOUS
<1>1. CASE Start
  <2> DEFINE electable == {n \in Member : Electable(n)}
  <2>1. running' \in BOOLEAN /\ acknowledged' = acknowledged
    BY <1>1 DEF Start
  <2>2. CASE electable # {} /\ Elect(Min(electable))
    <3>1. electable \in SUBSET Nat
      BY GroupFacts DEF RuntimeInv
    <3>2. Min(electable) \in electable
      <4> HIDE DEF electable
      <4> QED
        BY <2>2, <3>1, MinNat
    <3>3. Electable(Min(electable))
      BY <3>2
    <3> HIDE DEF electable
    <3> QED
      BY <2>1, <2>2, <3>3, ElectInv
  <2>3. CASE UNCHANGED <<nodes, peer_pipelines, leaderVars, indexVars,
                         leader_lease_valid>>
    <3>1. UNCHANGED <<nodes, peer_pipelines, leaderVars, indexVars, acknowledged>>
      BY <2>1, <2>3
    <3>2. leader_lease_valid' \in BOOLEAN
      BY <2>3 DEF RuntimeInv, GroupInv, TypeOK
    <3> QED
      BY <2>1, <3>1, <3>2, FlagsInv
  <2> QED
    BY <1>1, <2>2, <2>3 DEF Start
<1>2. CASE Stop
  <2>1. UNCHANGED <<nodes, peer_pipelines, leaderVars, indexVars, acknowledged>>
    BY <1>2 DEF Stop
  <2>2. running' \in BOOLEAN /\ leader_lease_valid' \in BOOLEAN
    BY <1>2 DEF Stop
  <2> QED
    BY <2>1, <2>2, FlagsInv
<1>3. CASE \E n \in Node, forced \in BOOLEAN : Campaign(n, forced)
  <2>1. PICK n \in Node : \E forced \in BOOLEAN : Campaign(n, forced)
    BY <1>3
  <2>2. /\ Electable(n) /\ Elect(n)
        /\ running' = running /\ acknowledged' = acknowledged
    BY <2>1 DEF Campaign
  <2>3. running \in BOOLEAN
    BY DEF RuntimeInv, GroupInv, TypeOK
  <2> QED
    BY <2>2, <2>3, ElectInv
<1>4. CASE \E n \in Node : TransferLeader(n)
  <2>1. PICK n \in Node : TransferLeader(n)
    BY <1>4
  <2>2. /\ Electable(n) /\ Elect(n)
        /\ running' = running /\ acknowledged' = acknowledged
    BY <2>1 DEF TransferLeader
  <2>3. running \in BOOLEAN
    BY DEF RuntimeInv, GroupInv, TypeOK
  <2> QED
    BY <2>2, <2>3, ElectInv
<1>5. CASE \E n \in Node, healthy \in BOOLEAN : SetNodeHealthy(n, healthy)
  BY <1>5, SetNodeHealthyInv
<1>6. CASE \E valid \in LeaseUpdates : SetLeaderLeaseValid(valid)
  <2>1. PICK valid \in LeaseUpdates : SetLeaderLeaseValid(valid)
    BY <1>6
  <2>2. UNCHANGED <<nodes, peer_pipelines, leaderVars, indexVars, acknowledged>>
    BY <2>1 DEF SetLeaderLeaseValid
  <2>3. running' \in BOOLEAN /\ leader_lease_valid' \in BOOLEAN
    BY <2>1, ClusterAssumption DEF SetLeaderLeaseValid, RuntimeInv, GroupInv, TypeOK
  <2> QED
    BY <2>2, <2>3, FlagsInv
<1>7. CASE \E payload \in Payload : Propose(payload)
  BY <1>7, ProposeInv
<1>8. CASE \E payload \in Payload : ProposeRefused(payload)
  BY <1>8, ProposeRefusedInv
<1>9. CASE \E peer \in AddablePeers : AddPeer(peer[1], peer[2])
  <2>1. PICK peer \in AddablePeers : AddPeer(peer[1], peer[2])
    BY <1>9
  <2>2. peer[1] \in Node /\ peer[2] \in ReplicaRole
    BY ClusterAssumption
  <2> QED
    BY <2>1, <2>2, AddPeerInv
<1>10. CASE \E n \in Node : PromotePeer(n)
  BY <1>10, PromotePeerInv
<1>11. CASE \E n \in RemovablePeers : RemovePeer(n)
  BY <1>11, RemovePeerInv
<1>12. CASE \E n \in Node : LearnerCatchUp(n)
  BY <1>12, LearnerCatchUpInv
<1>13. CASE UNCHANGED vars
  <2>1. /\ UNCHANGED <<nodes, peer_pipelines, leaderVars, indexVars, acknowledged>>
        /\ running' = running /\ leader_lease_valid' = leader_lease_valid
    BY <1>13 DEF vars, leaderVars, indexVars
  <2>2. running' \in BOOLEAN /\ leader_lease_valid' \in BOOLEAN
    BY <2>1 DEF RuntimeInv, GroupInv, TypeOK
  <2> QED
    BY <2>1, <2>2, FlagsInv
<1> QED
  BY <1>1, <1>2, <1>3, <1>4, <1>5, <1>6, <1>7, <1>8, <1>9, <1>10, <1>11, <1>12,
     <1>13 DEF RuntimeNext

\* The inductive invariant holds in every state of a group that only the runtime
\* and the membership executor drive.
THEOREM RuntimeSafety == RuntimeSpec => []RuntimeInv
<1>1. Init => RuntimeInv
  BY InitInv
<1>2. RuntimeInv /\ [RuntimeNext]_vars => RuntimeInv'
  BY NextInv
<1> QED
  BY <1>1, <1>2, PTL DEF RuntimeSpec

\* The variables keep their types and every member its pipeline.
THEOREM TypeCorrect == RuntimeSpec => []TypeOK
<1>1. RuntimeInv => TypeOK
  BY DEF RuntimeInv, GroupInv
<1> QED
  BY <1>1, RuntimeSafety, PTL

\* At most one member believes to lead, and the leader is a voter and a member:
\* for any number of members, additions, promotions and removals.
THEOREM OneLeader == RuntimeSpec => []ElectionSafety
<1>1. RuntimeInv => ElectionSafety
  BY DEF RuntimeInv, GroupInv
<1> QED
  BY <1>1, RuntimeSafety, PTL

\* No two members of the same term voted for different candidates.
THEOREM OneVote == RuntimeSpec => []OneVotePerTerm
<1>1. RuntimeInv => OneVotePerTerm
  BY DEF RuntimeInv, GroupInv
<1> QED
  BY <1>1, RuntimeSafety, PTL

\* The members' logs never hold different entries at an index, whatever
\* proposals were refused half way and whoever led.
THEOREM LogsAgree == RuntimeSpec => []LogMatching
<1>1. RuntimeInv => LogMatching
  BY DEF RuntimeInv, GroupInv
<1> QED
  BY <1>1, RuntimeSafety, PTL

\* The cluster's indexes cover every member's.
THEOREM IndexesCover == RuntimeSpec => []ClusterIndexesCover
<1>1. RuntimeInv => ClusterIndexesCover
  BY DEF RuntimeInv, GroupInv
<1> QED
  BY <1>1, RuntimeSafety, PTL

\* No log id is returned to clients twice, and the ids grow.
THEOREM IdsUnique == RuntimeSpec => []AcknowledgedOnce
<1>1. RuntimeInv => AcknowledgedOnce
  BY DEF RuntimeInv, GroupInv
<1> QED
  BY <1>1, RuntimeSafety, PTL

\* Every log stays in index order.
THEOREM LogsStayOrdered == RuntimeSpec => []LogsOrdered
<1>1. RuntimeInv => LogsOrdered
  BY DEF RuntimeInv, GroupInv, NodeInv, LogsOrdered
<1> QED
  BY <1>1, RuntimeSafety, PTL

\* The record persisted for a consistent member passes the checks of recovery.
LEMMA NodeRecoverable ==
  ASSUME NEW node, NodeInv(node)
  PROVE  Recoverable(WalRecord(node))
<1> DEFINE record == WalRecord(node)
<1>1. /\ record.current_term = node.current_term
      /\ record.committed = node.committed /\ record.entries = node.log
      /\ record.installed_snapshot = node.installed_snapshot
      /\ record.applied_index = node.applied_index
      /\ record.commit_index = node.commit_index
  BY DEF WalRecord
<1> HIDE DEF record
<1>2. /\ MatchIndex(node) = LastIndex(node.log)
      /\ node.commit_index <= LastIndex(node.log)
      /\ node.commit_index \in Nat /\ node.applied_index \in Nat
  BY MatchIndexIsLast, NodeTypes DEF NodeInv
<1>3. HardStatePersistable(record)
  BY <1>1, <1>2 DEF HardStatePersistable, MatchIndex, NodeInv
<1>4. ApplyFenceValid(record)
  BY <1>1, <1>2 DEF ApplyFenceValid, CommittedIndex, NodeInv
<1> QED
  BY <1>3, <1>4 DEF Recoverable, record

\* Whatever moment a crash picks, the record persisted for a member passes the
\* checks of recovery.
THEOREM CrashRecoverable == RuntimeSpec => []RecordsRecoverable
<1>1. RuntimeInv => RecordsRecoverable
  BY NodeRecoverable DEF RuntimeInv, GroupInv, RecordsRecoverable
<1> QED
  BY <1>1, RuntimeSafety, PTL

--------------------------------------------------------------------------------
(***************************************************************************)
(* What a call of the runtime may do to the commit and applied indexes:    *)
(* an index becomes committed only when a majority holds it, and no member *)
(* goes back. First advance_commit and refresh_commit_index.               *)
(***************************************************************************)

\* advance_commit moves the indexes forward only, and the commit index not
\* beyond the target unless it was there before.
LEMMA AdvanceCommitBounds ==
  ASSUME NEW node, NodeInv(node), NEW target \in Nat
  PROVE  /\ AdvanceCommit(node, target).commit_index \in Nat
         /\ AdvanceCommit(node, target).commit_index >= node.commit_index
         /\ \/ AdvanceCommit(node, target).commit_index = node.commit_index
            \/ AdvanceCommit(node, target).commit_index <= target
         /\ AdvanceCommit(node, target).applied_index \in Nat
         /\ AdvanceCommit(node, target).applied_index >= node.applied_index
<1> DEFINE match  == MatchIndex(node)
           held   == Min({target, match})
           commit == Max({node.commit_index, held})
           applied == IF CanServeData(node.replica_role)
                        THEN Max({node.applied_index, commit})
                        ELSE node.applied_index
           committed == IF commit > 0
                          THEN [term |-> node.current_term, index |-> commit]
                          ELSE None
<1>1. AdvanceCommit(node, target) =
        [node EXCEPT !.commit_index = commit, !.applied_index = applied,
                     !.committed = committed]
  BY DEF AdvanceCommit
<1>2. /\ node \in NodeRecord /\ match \in Nat
      /\ node.commit_index \in Nat /\ node.applied_index \in Nat
  BY MatchIndexIsLast, NodeTypes
<1> HIDE DEF match
<1>3. held \in Nat /\ held <= target
  BY <1>2, MinPair
<1> HIDE DEF held
<1>4. /\ commit \in Nat /\ commit >= node.commit_index
      /\ commit = node.commit_index \/ commit = held
  BY <1>2, <1>3, MaxPair
<1> HIDE DEF commit
<1>5. applied \in Nat /\ applied >= node.applied_index
  BY <1>2, <1>4, MaxPair
<1> HIDE DEF applied, committed
<1>6. /\ AdvanceCommit(node, target).commit_index = commit
      /\ AdvanceCommit(node, target).applied_index = applied
  BY <1>1, <1>2 DEF NodeRecord
<1> QED
  BY <1>3, <1>4, <1>5, <1>6

\* refresh_commit_index raises the commit index to the quorum match index at
\* most, and takes no member back.
LEMMA RefreshCommitIndexBounds ==
  ASSUME NEW ns, NEW bound, Family(ns, bound), commit_index \in Nat,
         \A n \in DOMAIN ns : ns[n].commit_index <= commit_index,
         RefreshCommitIndex(ns, bound)
  PROVE  /\ \A n \in DOMAIN ns :
              /\ ns[n].commit_index <= nodes'[n].commit_index
              /\ ns[n].applied_index <= nodes'[n].applied_index
         /\ \/ commit_index' = commit_index
            \/ commit_index' <= Max({commit_index, QuorumMatchIndex(ns)})
<1> DEFINE target == Max({commit_index, QuorumMatchIndex(ns)})
           advanced == [n \in DOMAIN ns |->
                          IF ns[n].healthy THEN AdvanceCommit(ns[n], target)
                          ELSE ns[n]]
<1>0. \A n \in DOMAIN ns :
        /\ NodeInv(ns[n])
        /\ ns[n].commit_index \in Nat /\ ns[n].applied_index \in Nat
  BY NodeTypes DEF Family
<1>1. CASE LiveParticipants(ns) = {}
  <2>1. nodes' = ns /\ commit_index' = commit_index
    BY <1>1 DEF RefreshCommitIndex
  <2> QED
    BY <1>0, <2>1
<1>2. CASE LiveParticipants(ns) # {}
  <2>1. nodes' = advanced /\ commit_index' = MaxCommit(advanced)
    BY <1>2 DEF RefreshCommitIndex, RefreshClusterIndexes
  <2>2. target \in Nat /\ commit_index <= target
    <3>1. QuorumMatchIndex(ns) \in Nat
      BY <1>2, QuorumMatchIndexNat
    <3> QED
      BY <3>1, MaxPair
  <2> HIDE DEF target
  <2>3. ASSUME NEW n \in DOMAIN ns
        PROVE  /\ advanced[n].commit_index \in Nat
               /\ advanced[n].commit_index <= target
               /\ ns[n].commit_index <= advanced[n].commit_index
               /\ ns[n].applied_index <= advanced[n].applied_index
    <3>1. CASE ns[n].healthy
      <4>1. advanced[n] = AdvanceCommit(ns[n], target)
        BY <3>1
      <4>2. ns[n].commit_index <= target
        BY <1>0, <2>2
      <4> HIDE DEF advanced
      <4> QED
        BY <1>0, <2>2, <4>1, <4>2, AdvanceCommitBounds
    <3>2. CASE ~ ns[n].healthy
      BY <1>0, <2>2, <3>2
    <3> QED
      BY <3>1, <3>2
  <2>4. DOMAIN advanced = DOMAIN ns
    OBVIOUS
  <2> HIDE DEF advanced
  <2>5. MaxCommit(advanced) <= target
    <3> DEFINE S == {0} \cup {advanced[n].commit_index : n \in DOMAIN advanced}
    <3>1. S \in SUBSET Nat /\ S # {} /\ \A i \in S : i <= target
      BY <2>2, <2>3, <2>4
    <3> HIDE DEF S
    <3>2. Max(S) \in S
      BY <2>2, <3>1, MaxNat
    <3> QED
      BY <3>1, <3>2 DEF MaxCommit, S
  <2> QED
    BY <2>1, <2>3, <2>5 DEF target
<1> QED
  BY <1>1, <1>2

\* What a proposal does to a member besides its log: nothing.
LEMMA ReplicatedLeaves ==
  ASSUME GroupInv, NEW e
  PROVE  /\ DOMAIN Replicated(e) = Member
         /\ \A n \in Member :
              /\ Replicated(e)[n].healthy = nodes[n].healthy
              /\ Replicated(e)[n].replica_role = nodes[n].replica_role
              /\ Replicated(e)[n].commit_index = nodes[n].commit_index
              /\ Replicated(e)[n].applied_index = nodes[n].applied_index
<1>1. ASSUME NEW n \in Member
      PROVE  /\ Replicated(e)[n].healthy = nodes[n].healthy
             /\ Replicated(e)[n].replica_role = nodes[n].replica_role
             /\ Replicated(e)[n].commit_index = nodes[n].commit_index
             /\ Replicated(e)[n].applied_index = nodes[n].applied_index
  <2> DEFINE longer == AppendEntry(nodes[n].log, e)
  <2>1. nodes[n] \in NodeRecord
    BY GroupFacts
  <2>2. \/ Replicated(e)[n] = [nodes[n] EXCEPT !.log = longer]
        \/ Replicated(e)[n] = nodes[n]
    BY DEF Replicated
  <2> HIDE DEF longer
  <2> QED
    BY <2>1, <2>2 DEF NodeRecord
<1> QED
  BY <1>1 DEF Replicated

--------------------------------------------------------------------------------
(***************************************************************************)
(* The steps.                                                              *)
(***************************************************************************)

\* The refresh a proposal ends with starts from the members it replicated to.
LEMMA ProposeRefreshes ==
  ASSUME GroupInv, NEW payload \in Payload, Propose(payload), NEW ns,
         ns = Replicated(NewEntry(payload))
  PROVE  /\ Family(ns, last_log_index + 1)
         /\ RefreshCommitIndex(ns, last_log_index + 1)
         /\ commit_index \in Nat /\ applied_index \in Nat
         /\ DOMAIN ns = Member /\ ns = [n \in DOMAIN ns |-> ns[n]]
         /\ \A n \in DOMAIN ns : ns[n].commit_index <= commit_index
<1>1. NewEntry(payload).index = last_log_index + 1
  BY DEF NewEntry
<1>2. RefreshCommitIndex(ns, last_log_index + 1)
  BY <1>1 DEF Propose
<1>3. /\ Family(ns, last_log_index + 1)
      /\ DOMAIN ns = Member /\ ns = [n \in Member |-> ns[n]]
      /\ \A n \in Member : ns[n].commit_index = nodes[n].commit_index
  BY ReplicatedKeeps
<1> QED
  BY <1>2, <1>3, GroupFacts DEF GroupInv, ClusterIndexesCover

\* With a live quorum a proposal commits what a majority holds.
LEMMA ProposeCommits ==
  ASSUME RuntimeInv, NEW payload \in Payload, Propose(payload),
         commit_index' > commit_index, HasLiveQuorum(nodes)
  PROVE  HeldByMajority(nodes', commit_index')
<1> DEFINE ns    == Replicated(NewEntry(payload))
           Q     == QuorumParticipants(nodes)
           live  == LiveParticipants(nodes)
           found == QuorumMatchIndex(ns)
           reach == {n \in live : MatchIndex(ns[n]) >= found}
           held  == {n \in Q : MatchIndex(nodes'[n]) >= commit_index'}
<1>1. /\ Family(ns, last_log_index + 1)
      /\ RefreshCommitIndex(ns, last_log_index + 1)
      /\ commit_index \in Nat /\ applied_index \in Nat
      /\ DOMAIN ns = Member /\ ns = [n \in DOMAIN ns |-> ns[n]]
      /\ \A n \in DOMAIN ns : ns[n].commit_index <= commit_index
  BY ProposeRefreshes DEF RuntimeInv
<1>2. QuorumParticipants(ns) = Q /\ LiveParticipants(ns) = live
  BY ReplicatedLeaves DEF QuorumParticipants, LiveParticipants, Member, RuntimeInv
<1>3. QuorumSize(ns) = QuorumSize(nodes)
  BY <1>2 DEF QuorumSize
<1> HIDE DEF ns
<1>4. /\ Member' = DOMAIN ns /\ commit_index' \in Nat
      /\ \A n \in DOMAIN ns :
           /\ NodeInv(nodes'[n])
           /\ nodes'[n].log = ns[n].log
           /\ nodes'[n].replica_role = ns[n].replica_role
  BY <1>1, RefreshCommitIndexKeeps
<1>5. \A n \in Member : MatchIndex(nodes'[n]) = MatchIndex(ns[n])
                        /\ MatchIndex(ns[n]) \in Nat
  BY <1>1, <1>4, MatchIndexIsLast DEF Family
<1>6. QuorumParticipants(nodes') = Q
  BY <1>1, <1>2, <1>4 DEF QuorumParticipants, Member
<1>7. /\ Q \subseteq Member /\ live \subseteq Q
      /\ IsFiniteSet(Q) /\ IsFiniteSet(live)
      /\ Cardinality(Q) \in Nat /\ Cardinality(live) \in Nat
  <2>1. Q \subseteq Member /\ live \subseteq Q
    BY DEF QuorumParticipants, LiveParticipants, Member
  <2> QED
    BY <2>1, GroupFacts, FS_Subset, FS_CardinalityType DEF RuntimeInv
<1>8. /\ QuorumSize(nodes) \in Nat /\ 2 * QuorumSize(nodes) > Cardinality(Q)
      /\ QuorumSize(nodes) > 0 /\ Cardinality(live) >= QuorumSize(nodes)
  BY <1>7 DEF QuorumSize, HasLiveQuorum
<1>9. live # {}
  BY <1>7, <1>8, FS_EmptySet
<1>10. found \in Nat /\ Cardinality(reach) >= QuorumSize(nodes)
  <2>1. /\ found \in Nat
        /\ Cardinality(reach) >= Min({Cardinality(live), QuorumSize(nodes)})
    BY <1>1, <1>2, <1>3, <1>9, QuorumMatchIndexNat
  <2> HIDE DEF live, reach, found
  <2>2. Min({Cardinality(live), QuorumSize(nodes)}) = QuorumSize(nodes)
    BY <1>7, <1>8, MinPair
  <2> QED
    BY <2>1, <2>2
<1>11. commit_index' <= found
  <2>1. commit_index' <= Max({commit_index, found})
    BY <1>1, <1>4, RefreshCommitIndexBounds
  <2> HIDE DEF found
  <2>2. Max({commit_index, found}) = IF commit_index >= found THEN commit_index
                                      ELSE found
    BY <1>1, <1>10, MaxPair
  <2> QED
    BY <1>1, <1>4, <1>10, <2>1, <2>2
<1>12. reach \subseteq held
  <2> HIDE DEF found
  <2> QED
    BY <1>4, <1>5, <1>7, <1>10, <1>11
<1>13. /\ IsFiniteSet(held) /\ Cardinality(held) \in Nat
       /\ Cardinality(reach) \in Nat /\ Cardinality(reach) <= Cardinality(held)
  <2>1. held \subseteq Q
    OBVIOUS
  <2> HIDE DEF held, reach, Q
  <2> QED
    BY <1>7, <1>12, <2>1, FS_Subset, FS_CardinalityType
<1>14. 2 * Cardinality(held) > Cardinality(Q)
  <2> HIDE DEF held, reach, Q
  <2> QED
    BY <1>7, <1>8, <1>10, <1>13
<1> QED
  BY <1>6, <1>14 DEF HeldByMajority

\* Catching up a learner commits nothing new for the group.
LEMMA CatchUpCommitsNothing ==
  ASSUME RuntimeInv, NEW learner, LearnerCatchUp(learner)
  PROVE  /\ ~ (commit_index' > commit_index)
         /\ Member' = Member
         /\ \A n \in Member :
              /\ nodes[n].commit_index <= nodes'[n].commit_index
              /\ nodes[n].applied_index <= nodes'[n].applied_index
              /\ Prolongs(nodes'[n].log, nodes[n].log)
<1>1. /\ learner \in Member
      /\ nodes' = [nodes EXCEPT ![learner] = CaughtUpLearner(learner)]
      /\ commit_index' = MaxCommit(nodes')
  BY DEF LearnerCatchUp, RefreshClusterIndexes
<1>2. /\ Member' = Member
      /\ nodes'[learner] = CaughtUpLearner(learner)
      /\ \A n \in Member : n # learner => nodes'[n] = nodes[n]
  BY <1>1 DEF Member, RuntimeInv, GroupInv, TypeOK
<1>3. PICK filled, target :
        /\ CaughtUpLearner(learner) = AdvanceCommit(filled, target)
        /\ NodeInv(filled) /\ target \in Nat /\ target <= commit_index
        /\ filled.commit_index = nodes[learner].commit_index
        /\ filled.applied_index = nodes[learner].applied_index
        /\ Prolongs(filled.log, nodes[learner].log)
  BY CaughtUp
<1>4. /\ commit_index \in Nat
      /\ \A n \in Member :
           /\ nodes[n].commit_index \in Nat /\ nodes[n].applied_index \in Nat
           /\ nodes[n].commit_index <= commit_index
  BY GroupFacts, NodeTypes DEF RuntimeInv, GroupInv, ClusterIndexesCover
<1>5. /\ nodes'[learner].commit_index \in Nat
      /\ nodes'[learner].commit_index <= commit_index
      /\ nodes[learner].commit_index <= nodes'[learner].commit_index
      /\ nodes[learner].applied_index <= nodes'[learner].applied_index
  BY <1>1, <1>2, <1>3, <1>4, AdvanceCommitBounds
<1>6. \A n \in Member : /\ nodes'[n].commit_index \in Nat
                        /\ nodes'[n].commit_index <= commit_index
  BY <1>2, <1>4, <1>5
<1>8. \A n \in Member : Prolongs(nodes'[n].log, nodes[n].log)
  <2>1. nodes'[learner].log = filled.log
    BY <1>1, <1>2, <1>3, AdvanceCommitKeeps
  <2>2. ASSUME NEW n \in Member, n # learner
        PROVE  Prolongs(nodes'[n].log, nodes[n].log)
    BY <1>2, <2>2 DEF Prolongs
  <2> QED
    BY <1>3, <2>1, <2>2
<1>7. MaxCommit(nodes') \in Nat /\ MaxCommit(nodes') <= commit_index
  <2> DEFINE S == {0} \cup {nodes'[n].commit_index : n \in DOMAIN nodes'}
  <2>1. S \in SUBSET Nat /\ S # {} /\ \A i \in S : i <= commit_index
    BY <1>2, <1>4, <1>6 DEF Member
  <2> HIDE DEF S
  <2>2. Max(S) \in S
    BY <1>4, <2>1, MaxNat
  <2> QED
    BY <2>1, <2>2 DEF MaxCommit, S
<1> QED
  BY <1>1, <1>2, <1>4, <1>5, <1>7, <1>8

\* Apart from a proposal and a learner's catch-up, no call of the runtime moves
\* a commit index, and none the indexes or the log of a member that stays; a
\* refused proposal may add to a log.
LEMMA OthersKeepIndexes ==
  ASSUME RuntimeInv, [RuntimeNext]_vars,
         ~ \E payload \in Payload : Propose(payload),
         ~ \E n \in Node : LearnerCatchUp(n)
  PROVE  /\ commit_index' = commit_index
         /\ \A n \in Member \cap Member' :
              /\ nodes'[n].commit_index = nodes[n].commit_index
              /\ nodes'[n].applied_index = nodes[n].applied_index
              /\ Prolongs(nodes'[n].log, nodes[n].log)
<1>1. \A n \in Member : nodes[n] \in NodeRecord
  BY GroupFacts DEF RuntimeInv
<1>0. \A log, longer : longer = log => Prolongs(longer, log)
  BY DEF Prolongs
<1>2. CASE commit_index' = commit_index /\ nodes' = nodes
  BY <1>0, <1>2
<1>3. ASSUME NEW candidate, Elect(candidate)
      PROVE  /\ commit_index' = commit_index
             /\ \A n \in Member :
                  /\ nodes'[n].commit_index = nodes[n].commit_index
                  /\ nodes'[n].applied_index = nodes[n].applied_index
                  /\ nodes'[n].log = nodes[n].log
  <2>1. ASSUME NEW n \in Member
        PROVE  /\ nodes'[n].commit_index = nodes[n].commit_index
               /\ nodes'[n].applied_index = nodes[n].applied_index
               /\ nodes'[n].log = nodes[n].log
    <3> DEFINE role == IF n = candidate THEN "Leader"
                       ELSE IdleRole(nodes[n].replica_role)
    <3>1. nodes'[n] = [nodes[n] EXCEPT !.current_term = current_term + 1,
                                       !.voted_for    = candidate,
                                       !.raft_role    = role]
      BY <1>3 DEF Elect
    <3> HIDE DEF role
    <3> QED
      BY <1>1, <3>1 DEF NodeRecord
  <2> QED
    BY <1>3, <2>1 DEF Elect, indexVars
<1>4. CASE Start \/ Stop
  BY <1>0, <1>2, <1>3, <1>4 DEF Start, Stop, indexVars
<1>5. CASE \/ \E n \in Node, forced \in BOOLEAN : Campaign(n, forced)
           \/ \E n \in Node : TransferLeader(n)
  BY <1>0, <1>3, <1>5 DEF Campaign, TransferLeader
<1>6. CASE \E n \in Node, healthy \in BOOLEAN : SetNodeHealthy(n, healthy)
  <2>1. PICK n \in Node, healthy \in BOOLEAN : SetNodeHealthy(n, healthy)
    BY <1>6
  <2>2. /\ n \in Member /\ commit_index' = commit_index
        /\ nodes' = [nodes EXCEPT ![n].healthy = healthy]
    BY <2>1 DEF SetNodeHealthy, indexVars
  <2>3. nodes'[n] = [nodes[n] EXCEPT !.healthy = healthy]
    BY <2>2 DEF Member
  <2>4. /\ nodes'[n].commit_index = nodes[n].commit_index
        /\ nodes'[n].applied_index = nodes[n].applied_index
        /\ nodes'[n].log = nodes[n].log
    BY <1>1, <2>2, <2>3 DEF NodeRecord
  <2>5. \A m \in Member : m # n => nodes'[m] = nodes[m]
    BY <2>2 DEF Member
  <2> QED
    BY <1>0, <2>2, <2>4, <2>5
<1>7. CASE \E valid \in LeaseUpdates : SetLeaderLeaseValid(valid)
  BY <1>2, <1>7 DEF SetLeaderLeaseValid, indexVars
<1>8. CASE \E payload \in Payload : ProposeRefused(payload)
  <2>1. PICK payload \in Payload : ProposeRefused(payload)
    BY <1>8
  <2>2. /\ commit_index' = commit_index
        /\ nodes' = Replicated(NewEntry(payload))
    BY <2>1 DEF ProposeRefused
  <2> QED
    BY <2>2, ReplicatedLeaves, ReplicatedKeeps DEF RuntimeInv
<1>9. CASE \E peer \in AddablePeers : AddPeer(peer[1], peer[2])
  BY <1>0, <1>9 DEF AddPeer, Member, indexVars
<1>10. CASE \E n \in Node : PromotePeer(n)
  <2>1. PICK n \in Node : PromotePeer(n)
    BY <1>10
  <2>2. /\ n \in Member /\ commit_index' = commit_index
        /\ nodes' = [nodes EXCEPT ![n].replica_role = "Voter",
                                  ![n].raft_role    = "Follower"]
    BY <2>1 DEF PromotePeer, indexVars
  <2> DEFINE promoted == [nodes[n] EXCEPT !.replica_role = "Voter"]
  <2>3. /\ nodes'[n] = [promoted EXCEPT !.raft_role = "Follower"]
        /\ \A m \in Member : m # n => nodes'[m] = nodes[m]
    BY <2>2 DEF Member
  <2>4. promoted \in NodeRecord
        /\ promoted.commit_index = nodes[n].commit_index
        /\ promoted.applied_index = nodes[n].applied_index
        /\ promoted.log = nodes[n].log
    BY <1>1, <2>2 DEF NodeRecord, ReplicaRole
  <2> HIDE DEF promoted
  <2>5. /\ nodes'[n].commit_index = promoted.commit_index
        /\ nodes'[n].applied_index = promoted.applied_index
        /\ nodes'[n].log = promoted.log
    BY <2>3, <2>4 DEF NodeRecord
  <2> QED
    BY <1>0, <2>2, <2>3, <2>4, <2>5
<1>11. CASE \E n \in RemovablePeers : RemovePeer(n)
  BY <1>0, <1>11 DEF RemovePeer, Member, indexVars
<1>12. CASE UNCHANGED vars
  BY <1>2, <1>12 DEF vars
<1> QED
  BY <1>4, <1>5, <1>6, <1>7, <1>8, <1>9, <1>10, <1>11, <1>12 DEF RuntimeNext

\* Whatever call is made, what it commits with a live quorum a majority reaches.
LEMMA NextCommits ==
  ASSUME RuntimeInv, [RuntimeNext]_vars,
         commit_index' > commit_index, HasLiveQuorum(nodes)
  PROVE  HeldByMajority(nodes', commit_index')
<1>1. CASE \E payload \in Payload : Propose(payload)
  BY <1>1, ProposeCommits
<1>2. CASE \E n \in Node : LearnerCatchUp(n)
  BY <1>2, CatchUpCommitsNothing
<1>3. CASE /\ ~ \E payload \in Payload : Propose(payload)
           /\ ~ \E n \in Node : LearnerCatchUp(n)
  <2>1. commit_index' = commit_index /\ commit_index \in Nat
    BY <1>3, OthersKeepIndexes, GroupFacts DEF RuntimeInv
  <2> QED
    BY <2>1
<1> QED
  BY <1>1, <1>2, <1>3

--------------------------------------------------------------------------------
(***************************************************************************)
(* The theorems.                                                           *)
(***************************************************************************)

\* With a live quorum, propose and the other calls of the runtime commit only
\* what more than half of the voters and witnesses reach, for any membership.
THEOREM CommitNeedsMajority == RuntimeSpec => QuorumCommit
<1>1. RuntimeInv /\ [RuntimeNext]_vars =>
        [commit_index' > commit_index /\ HasLiveQuorum(nodes) =>
           HeldByMajority(nodes', commit_index')]_vars
  BY NextCommits
<1> QED
  BY <1>1, RuntimeSafety, PTL DEF RuntimeSpec, QuorumCommit

\* No member's indexes fall, and every entry of its log stays where it is.
NothingTaken ==
  \A n \in Member \cap Member' :
    /\ nodes[n].commit_index <= nodes'[n].commit_index
    /\ nodes[n].applied_index <= nodes'[n].applied_index
    /\ Prolongs(nodes'[n].log, nodes[n].log)

LEMMA NextTakesNothing == RuntimeInv /\ [RuntimeNext]_vars => NothingTaken
<1> SUFFICES ASSUME RuntimeInv, [RuntimeNext]_vars, NEW n \in Member \cap Member'
             PROVE  /\ nodes[n].commit_index <= nodes'[n].commit_index
                    /\ nodes[n].applied_index <= nodes'[n].applied_index
                    /\ Prolongs(nodes'[n].log, nodes[n].log)
  BY DEF NothingTaken
<1>1. CASE \E payload \in Payload : Propose(payload)
  <2>1. PICK payload \in Payload : Propose(payload)
    BY <1>1
  <2>2. Prolongs(nodes'[n].log, nodes[n].log)
    BY <2>1, ProposeWrites DEF RuntimeInv
  <2> DEFINE ns == Replicated(NewEntry(payload))
  <2>3. /\ n \in DOMAIN ns
        /\ ns[n].commit_index = nodes[n].commit_index
        /\ ns[n].applied_index = nodes[n].applied_index
    BY ReplicatedLeaves DEF RuntimeInv
  <2>4. /\ Family(ns, last_log_index + 1) /\ commit_index \in Nat
        /\ \A m \in DOMAIN ns : ns[m].commit_index <= commit_index
        /\ RefreshCommitIndex(ns, last_log_index + 1)
    BY <2>1, ProposeRefreshes DEF RuntimeInv
  <2> HIDE DEF ns
  <2> QED
    BY <2>2, <2>3, <2>4, RefreshCommitIndexBounds
<1>2. CASE \E learner \in Node : LearnerCatchUp(learner)
  BY <1>2, CatchUpCommitsNothing
<1>3. CASE /\ ~ \E payload \in Payload : Propose(payload)
           /\ ~ \E learner \in Node : LearnerCatchUp(learner)
  <2>1. /\ nodes'[n].commit_index = nodes[n].commit_index
        /\ nodes'[n].applied_index = nodes[n].applied_index
        /\ Prolongs(nodes'[n].log, nodes[n].log)
    BY <1>3, OthersKeepIndexes
  <2>2. nodes[n].commit_index \in Nat /\ nodes[n].applied_index \in Nat
    BY GroupFacts, NodeTypes DEF RuntimeInv
  <2> QED
    BY <2>1, <2>2
<1> QED
  BY <1>1, <1>2, <1>3

\* The calls of the runtime take nothing from a member: neither an entry of its
\* log, committed or not, nor a commit or an application.
THEOREM RuntimeTakesNothing == RuntimeSpec => [][NothingTaken]_vars
<1>1. RuntimeInv /\ [RuntimeNext]_vars => [NothingTaken]_vars
  BY NextTakesNothing
<1> QED
  BY <1>1, RuntimeSafety, PTL DEF RuntimeSpec

\* So a member of a group that no request of a transport reaches only gains.
THEOREM ProgressKept == RuntimeSpec => MembersKeepProgress
<1>1. NothingTaken =>
        \A n \in Member \cap Member' :
           /\ nodes[n].commit_index <= nodes'[n].commit_index
           /\ nodes[n].applied_index <= nodes'[n].applied_index
           /\ Ordered(nodes[n].log) =>
                \A k \in DOMAIN nodes[n].log :
                  \/ Keeps(nodes'[n].log, nodes[n].log[k])
                  \/ MayTake(n, nodes[n].log[k])
  BY DEF NothingTaken, Prolongs, Keeps
<1>2. [NothingTaken]_vars =>
        [\A n \in Member \cap Member' :
           /\ nodes[n].commit_index <= nodes'[n].commit_index
           /\ nodes[n].applied_index <= nodes'[n].applied_index
           /\ Ordered(nodes[n].log) =>
                \A k \in DOMAIN nodes[n].log :
                  \/ Keeps(nodes'[n].log, nodes[n].log[k])
                  \/ MayTake(n, nodes[n].log[k])]_vars
  BY <1>1
<1> QED
  BY <1>2, RuntimeTakesNothing, PTL DEF MembersKeepProgress
================================================================================
