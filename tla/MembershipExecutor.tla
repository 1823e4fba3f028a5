-------------------------- MODULE MembershipExecutor --------------------------
(***************************************************************************)
(* The membership executor (RaftMembershipExecutor) on top of the cluster. *)
(*                                                                         *)
(* A workflow is a list of operations handed to execute_all or to          *)
(* execute_all_with_rollback; execute is a workflow of one operation.  The *)
(* executor borrows the cluster for the whole call, so nothing else calls  *)
(* the cluster while a workflow is under way.  Every operation is a step;  *)
(* the first one that fails ends the workflow.  The reports are not kept:  *)
(* what they say of an operation is told by the steps.                     *)
(***************************************************************************)
EXTENDS RaftCluster, RaftMembership

CONSTANT Workflows   \* the lists of operations an operator may hand over

OperationKind == {"AddNode", "AddVoter", "AddLearner", "AddWitness",
                  "Promote", "Remove", "TransferLeader"}

ASSUME WorkflowAssumption ==
  /\ << >> \notin Workflows
  /\ Workflows \subseteq
       Seq([kind : OperationKind, id : Node, role : ReplicaRole])

VARIABLE workflow   \* the workflow under way, or NoWorkflow

NoWorkflow == << >>   \* no record

executorVars == <<vars, workflow>>

\* RaftCluster::clone, and the membership the cluster reports.
ClusterState ==
  [ nodes |-> nodes, peer_pipelines |-> peer_pipelines, leader_id |-> leader_id,
    current_term |-> current_term, commit_index |-> commit_index,
    applied_index |-> applied_index, last_log_index |-> last_log_index,
    running |-> running, leader_lease_valid |-> leader_lease_valid ]

CurrentMembership == MembershipOf(nodes, current_term)

ExecutorInit == Init /\ workflow = NoWorkflow

--------------------------------------------------------------------------------
\* add_learner and add_witness override the role of the peer, AddVoter does.
AddedRole(op) ==
  CASE op.kind = "AddVoter"   -> "Voter"
    [] op.kind = "AddLearner" -> "Learner"
    [] op.kind = "AddWitness" -> "Witness"
    [] OTHER                  -> op.role

\* Mutant: the leader may be removed.
BlockedUnlessLeader(op) ==
  LET m == CurrentMembership
  IN  \/ /\ op.kind \in {"AddNode", "AddVoter", "AddLearner", "AddWitness"}
         /\ ~ CanAdd(m, op.id)
      \/ /\ op.kind = "Promote"
         /\ op.id \in Member =>
              ~ CatchUpReport(m, op.id, MatchIndex(nodes[op.id]),
                              commit_index).promotable
      \/ /\ op.kind = "Remove"
         /\ \/ op.id \notin MemberIds(m)
            \/ op.id \in m.voters /\ Cardinality(m.voters) <= 1
      \/ /\ op.kind = "TransferLeader"
         /\ op.id \in Member =>
              \/ ~ CanBeLeader(nodes[op.id].replica_role)
              \/ MatchIndex(nodes[op.id]) < commit_index

\* validate: the operation has blockers and is not tried.
Blocked(op) ==
  LET m == CurrentMembership
  IN  \/ /\ op.kind \in {"AddNode", "AddVoter", "AddLearner", "AddWitness"}
         /\ ~ CanAdd(m, op.id)
      \/ /\ op.kind = "Promote"
         /\ op.id \in Member =>
              ~ CatchUpReport(m, op.id, MatchIndex(nodes[op.id]),
                              commit_index).promotable
      \/ /\ op.kind = "Remove"
         /\ \/ op.id \notin MemberIds(m)
            \/ op.id \in m.voters /\ Cardinality(m.voters) <= 1
            \/ op.id = leader_id
      \/ /\ op.kind = "TransferLeader"
         /\ op.id \in Member =>
              \/ ~ CanBeLeader(nodes[op.id].replica_role)
              \/ MatchIndex(nodes[op.id]) < commit_index

\* validate does not ask whether the target of a transfer is healthy; the
\* cluster then refuses and has changed nothing.
Fails(op) ==
  \/ Blocked(op)
  \/ op.kind = "TransferLeader" /\ op.id \in Member /\ ~ nodes[op.id].healthy

\* The operation carried out by the cluster.
Perform(op) ==
  \/ /\ op.kind \in {"AddNode", "AddVoter", "AddLearner", "AddWitness"}
     /\ AddPeer(op.id, AddedRole(op))
  \/ op.kind = "Promote" /\ PromotePeer(op.id)
  \/ op.kind = "Remove" /\ RemovePeer(op.id)
  \/ op.kind = "TransferLeader" /\ TransferLeader(op.id)

--------------------------------------------------------------------------------
Transfers(ops) ==
  Cardinality({i \in DOMAIN ops : ops[i].kind = "TransferLeader"})

\* The terms the transfers use up stay within the bound.
BeginWorkflow(ops, rollback) ==
  /\ workflow = NoWorkflow
  /\ current_term + Transfers(ops) <= MaxTerm
  /\ workflow' = [ operations |-> ops, done |-> 0, rollback |-> rollback,
                   saved |-> ClusterState ]
  /\ UNCHANGED vars

NextOperation == workflow.operations[workflow.done + 1]

ExecuteOperation ==
  /\ workflow # NoWorkflow
  /\ ~ Fails(NextOperation)
  /\ Perform(NextOperation)
  /\ workflow' = IF workflow.done + 1 = Len(workflow.operations) THEN NoWorkflow
                 ELSE [workflow EXCEPT !.done = @ + 1]

\* Mutant: the members are put back, their pipelines are not.
RestoreMembers(saved) ==
  /\ nodes' = saved.nodes
  /\ leader_id' = saved.leader_id /\ current_term' = saved.current_term
  /\ commit_index' = saved.commit_index /\ applied_index' = saved.applied_index
  /\ last_log_index' = saved.last_log_index
  /\ running' = saved.running
  /\ leader_lease_valid' = saved.leader_lease_valid
  /\ UNCHANGED peer_pipelines

Restore(saved) ==
  /\ nodes' = saved.nodes /\ peer_pipelines' = saved.peer_pipelines
  /\ leader_id' = saved.leader_id /\ current_term' = saved.current_term
  /\ commit_index' = saved.commit_index /\ applied_index' = saved.applied_index
  /\ last_log_index' = saved.last_log_index
  /\ running' = saved.running
  /\ leader_lease_valid' = saved.leader_lease_valid

\* execute_all leaves what the operations before did; with rollback the whole
\* cluster is put back, elections included.
WorkflowFails ==
  /\ workflow # NoWorkflow
  /\ Fails(NextOperation)
  /\ workflow' = NoWorkflow
  /\ \/ workflow.rollback /\ Restore(workflow.saved) /\ UNCHANGED acknowledged
     \/ ~ workflow.rollback /\ UNCHANGED vars

ExecutorNext ==
  \/ workflow = NoWorkflow /\ RuntimeNext /\ UNCHANGED workflow
  \/ \E ops \in Workflows, rollback \in BOOLEAN : BeginWorkflow(ops, rollback)
  \/ ExecuteOperation
  \/ WorkflowFails

ExecutorSpec == ExecutorInit /\ [][ExecutorNext]_executorVars

--------------------------------------------------------------------------------
\* The membership record after an operation, by the record's own changes.
WithAdded(m, n, role) ==
  CASE role = "Voter"   -> [m EXCEPT !.voters = @ \cup {n}]
    [] role = "Learner" -> WithLearner(m, n)
    [] role = "Witness" -> WithWitness(m, n)

Planned(m, op) ==
  CASE op.kind = "Promote"        -> WithPromoted(m, op.id)
    [] op.kind = "Remove"         -> WithoutPeer(m, op.id)
    [] op.kind = "TransferLeader" -> m
    [] OTHER                      -> WithAdded(m, op.id, AddedRole(op))

PlannedThrough(m, ops) ==
  LET after[i \in 0 .. Len(ops)] ==
        IF i = 0 THEN m ELSE Planned(after[i - 1], ops[i])
  IN  after[Len(ops)]

WorkflowEnds == workflow # NoWorkflow /\ workflow' = NoWorkflow

\* A workflow with rollback is all or nothing, whatever elections, additions and
\* removals came before the operation that failed: afterwards the members are
\* the ones the membership record names after all operations, or the cluster
\* (members, pipelines, leader, term, indexes, lease) is what it was.
WorkflowAtomic ==
  [][WorkflowEnds /\ workflow.rollback =>
       \/ ClusterState' = workflow.saved
       \/ SameMembers(CurrentMembership',
            PlannedThrough(MembershipOf(workflow.saved.nodes, 0),
                           workflow.operations))]_executorVars

\* No workflow takes the leader from a group that had one, or its last voter,
\* whatever it transfers, promotes and removes and wherever it stops.
WorkflowKeepsLeader ==
  [][WorkflowEnds =>
       /\ workflow.saved.leader_id # None => leader_id' # None
       /\ MembershipOf(workflow.saved.nodes, 0).voters # {} =>
            CurrentMembership'.voters # {}]_executorVars

\* Someone joined, left or was promoted.
MembersChange ==
  \/ Member' # Member
  \/ \E n \in Member : nodes'[n].replica_role # nodes[n].replica_role

\* One call changes the quorum by one participant at most: every quorum before
\* it meets every quorum after it, and without witnesses whoever reaches the
\* joint quorum reported for the change reaches both.
QuorumsOverlap ==
  [][MembersChange /\ ~ WorkflowFails =>
       LET before == CurrentMembership
           after  == CurrentMembership'
           joint  == Joint(before, after)
       IN  \A acks \in SUBSET (Member \cup Member') :
             /\ QuorumReached(before, acks) =>
                  ~ QuorumReached(after, (Member \cup Member') \ acks)
             /\ joint # None /\ before.witnesses \cup after.witnesses = {} =>
                  (JointQuorumReached(joint, acks) =>
                     QuorumReached(before, acks) /\ QuorumReached(after, acks))
    ]_executorVars

\* More than half of the voters and witnesses hold the index.
MajorityHolds(ns, index) ==
  2 * Cardinality({n \in QuorumParticipants(ns) : Holds(ns[n], index)})
    > Cardinality(QuorumParticipants(ns))

\* Promoting a learner whose log has no hole leaves a majority behind every
\* committed entry that a majority held, although the pipeline of a new member
\* claims them all at once: for such a log the last index, all that promote_peer
\* compares, is enough.  A learner with a hole (added after an entry, reached by
\* the next one, never caught up) passes the same comparison, and no property
\* holds of what its promotion does.
PromotionKeepsMajority ==
  [][\A n \in Member \cap Member' :
       /\ nodes[n].replica_role = "Learner" /\ nodes'[n].replica_role = "Voter"
       /\ Contiguous(nodes[n])
       /\ ~ WorkflowFails
       => \A i \in 1 .. commit_index :
            MajorityHolds(nodes, i) => MajorityHolds(nodes', i)]_executorVars
================================================================================
