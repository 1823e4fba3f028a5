------------------------- MODULE MCMembershipExecutor -------------------------
EXTENDS MembershipExecutor, ClusterStatus, MCRaftCluster

MCOp(kind, id) == [kind |-> kind, id |-> id, role |-> "Voter"]

\* The learner is promoted, the leadership moves, and the old leader goes and
\* comes back as a witness; a voter makes room for another; each operation
\* fails in some state of the group.
MCWorkflows ==
  { << MCOp("Promote", 3), MCOp("TransferLeader", 2),
       MCOp("Remove", 1), MCOp("AddWitness", 1) >>,
    << MCOp("Remove", 2), MCOp("AddNode", 3) >> }

\* Two voters, to whom a learner comes whenever it is added.
MCTwoVoters == { 1 :> "Voter" @@ 2 :> "Voter" }
================================================================================
