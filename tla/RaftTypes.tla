------------------------------ MODULE RaftTypes ------------------------------
(***************************************************************************)
(* What every module of this project shares: the absent value, the roles   *)
(* of a member (RustRaftReplicaRole and RustRaftRole in src/lib.rs) and    *)
(* what each replica role may do.                                          *)
(***************************************************************************)
EXTENDS Integers, Sequences, FiniteSets, FiniteSetsExt

CONSTANT None   \* an absent value (Rust's Option::None)

ReplicaRole == {"Voter", "Learner", "Witness"}

\* RustRaftRole without Candidate, which no code assigns.
RaftRole == {"Leader", "Follower", "Learner"}

ParticipatesInQuorum(role) == role \in {"Voter", "Witness"}
CanServeData(role)         == role \in {"Voter", "Learner"}
CanBeLeader(role)          == role = "Voter"

\* The raft role of a member that does not lead.
IdleRole(role) == IF role = "Learner" THEN "Learner" ELSE "Follower"
==============================================================================
