------------------------------ MODULE NodeRuntime ------------------------------
(***************************************************************************)
(* The node runtime: struct RaftNodeRuntime and raft_node_runtime_loop in  *)
(* src/lib.rs.  One thread takes commands from a channel, calls the        *)
(* RaftCluster it owns and sends the answer back.  A proposal that the     *)
(* cluster accepts is answered only after the local member's record is in  *)
(* the write-ahead log, so a crash can fall between the two (Crash); the   *)
(* next incarnation builds a new cluster and restores that member from the *)
(* record recovered.  The other members start empty.                       *)
(*                                                                         *)
(* Commands come from any number of threads, so any command may be next;   *)
(* a caller that waited five seconds in vain is gone, and its answer is    *)
(* lost: replied holds the answers sent, whether or not someone still      *)
(* waits.  Options.peers is the membership, which no command changes.      *)
(*                                                                         *)
(* The log is its readable records and the state of its last line: its     *)
(* files, their rolls and compactions, and what a crash in a roll loses,   *)
(* are PersistentWal's.  Left out: read_index, which changes at most the   *)
(* lease, and a recovery whose reads fail, which create passes over.       *)
(***************************************************************************)
EXTENDS RaftCluster, SequencesExt

CONSTANTS
  NodeId,     \* RustRaftNodeOptions.node_id
  MaxFaults   \* bound: crashes and failed writes

ASSUME RuntimeAssumption == NodeId \in Node /\ MaxFaults \in Nat

VARIABLES
  state,      \* the loop's state, or "Down" between two incarnations
  writing,    \* << >>, or <<r>>: accepted, its record not yet in the log
  wal,        \* the records a recovery would read, in order
  tail,       \* the log's last line: whole, or what a write left of it
  replied,    \* history: the accepted proposals answered Ok, in order
  faults      \* history: crashes and failed writes

logVars == <<wal, tail>>
runtimeVars == <<state, writing, wal, tail, replied, faults>>
allVars == <<vars, runtimeVars>>

RuntimeInit ==
  /\ Init
  /\ NodeId \in Member
  /\ state = "Created"
  /\ writing = << >>
  /\ wal = << >> /\ tail = "whole"
  /\ replied = << >> /\ faults = 0

--------------------------------------------------------------------------------
(***************************************************************************)
(* Commands.  The loop takes one when it has answered the one before.      *)
(*                                                                         *)
(* The election timer is not an action: it campaigns only in the state     *)
(* Running without a leader, and RunningHasLeader says that this state is  *)
(* never reached.                                                          *)
(***************************************************************************)
Ready == state # "Down" /\ writing = << >>

\* Start fails without a healthy voter; the cluster is running then and the
\* loop is not.
StartNode ==
  /\ Ready
  /\ Start
  /\ state' = IF leader_id' # None THEN "Running" ELSE state
  /\ UNCHANGED <<writing, logVars, replied, faults>>

StopNode ==
  /\ Ready
  /\ Stop
  /\ state' = "Stopped"
  /\ UNCHANGED <<writing, logVars, replied, faults>>

\* The commands that only call the cluster, and a proposal it refuses.  No record
\* is written, although the terms and votes of every member may have changed.
Pass(call) ==
  /\ Ready
  /\ call
  /\ UNCHANGED runtimeVars

\* Mutant: the record is taken before the proposal.
ProposeThenWriteStale(payload) ==
  /\ Ready
  /\ Propose(payload)
  /\ writing' = << [ entry |-> NewEntry(payload),
                     record |-> WalRecord(nodes[NodeId]) ] >>
  /\ UNCHANGED <<state, logVars, replied, faults>>

\* Propose, accepted by the cluster: the local member's record goes to the log.
ProposeThenWrite(payload) ==
  /\ Ready
  /\ Propose(payload)
  /\ writing' = << [ entry |-> NewEntry(payload),
                     record |-> WalRecord(nodes'[NodeId]) ] >>
  /\ UNCHANGED <<state, logVars, replied, faults>>

--------------------------------------------------------------------------------
(***************************************************************************)
(* The write-ahead log (PersistentWal has its files).                      *)
(***************************************************************************)
\* A line follows the last one.  What a write left without its newline runs into
\* it: then neither can be decoded, nor anything after them.
Line(record) ==
  CASE tail = "whole"   -> wal' = Append(wal, record) /\ tail' = "whole"
    [] tail = "unended" -> wal' = Front(wal) /\ tail' = "glued"
    [] OTHER            -> wal' = wal /\ tail' = "glued"

\* A write that stops: before its first byte, within the line, before its
\* newline, or after it.
CutShort(record) ==
  \/ UNCHANGED logVars
  \/ tail = "whole" /\ wal' = wal /\ tail' = "torn"
  \/ tail = "whole" /\ wal' = Append(wal, record) /\ tail' = "unended"
  \/ Line(record)

LocalHolds(e) == \E k \in DOMAIN nodes[NodeId].log : nodes[NodeId].log[k] = e

\* The write returns and the proposal is answered.
WriteAndReply ==
  /\ writing # << >>
  /\ Line(writing[1].record)
  /\ writing' = << >>
  /\ replied' = Append(replied,
       [ entry |-> writing[1].entry, local |-> LocalHolds(writing[1].entry),
         readable |-> tail = "whole" ])
  /\ UNCHANGED <<vars, state, faults>>

\* The write, or the sync after it, fails: the caller gets the error, and the
\* cluster keeps the entry.
WriteFails ==
  /\ writing # << >> /\ faults < MaxFaults
  /\ CutShort(writing[1].record)
  /\ writing' = << >> /\ faults' = faults + 1
  /\ UNCHANGED <<vars, state, replied>>

--------------------------------------------------------------------------------
\* The thread ends: with the process, or on Shutdown between two commands.
Crash ==
  /\ state # "Down" /\ faults < MaxFaults
  /\ IF writing = << >> THEN UNCHANGED logVars ELSE CutShort(writing[1].record)
  /\ state' = "Down" /\ writing' = << >> /\ faults' = faults + 1
  /\ UNCHANGED <<vars, replied>>

\* rustraft_recover_latest_wal_record: of the records that pass the checks, the
\* last with the highest committed index.
Recovered ==
  LET valid   == {k \in DOMAIN wal : Recoverable(wal[k])}
      highest == Max({CommittedIndex(wal[k]) : k \in valid})
  IN  IF valid = {} THEN << >>
      ELSE << wal[Max({k \in valid : CommittedIndex(wal[k]) = highest})] >>

\* Mutant: the term recovered stays with the member.
RestoreWithoutTerm(fresh, records) ==
  LET restored == IF records = << >> THEN fresh
                  ELSE [fresh EXCEPT ![NodeId].log = records[1].entries]
  IN  /\ nodes' = restored
      /\ current_term' = 0
      /\ RefreshClusterIndexes(restored)

\* A new member, as restore_wal_record leaves it.
Restored(node, r) ==
  [node EXCEPT !.current_term = r.current_term,
               !.voted_for = r.voted_for, !.committed = r.committed,
               !.log = r.entries, !.installed_snapshot = r.installed_snapshot,
               !.commit_index = r.commit_index,
               !.applied_index = r.applied_index]

\* restore_wal_record on a new cluster; without a record there is nothing to
\* restore.  The term is the higher of the cluster's, which is 0, and the record's.
RestoreWalRecord(fresh, records) ==
  LET restored == IF records = << >> THEN fresh
                  ELSE [fresh EXCEPT ![NodeId] = Restored(@, records[1])]
  IN  /\ nodes' = restored
      /\ current_term' = restored[NodeId].current_term
      /\ RefreshClusterIndexes(restored)

\* create: a new cluster, a log opened (which cuts off what cannot be decoded) and
\* recovered.
Recreate ==
  /\ state = "Down"
  /\ state' = "Created"
  /\ RestoreWalRecord([n \in Member |-> NewNode(nodes[n].replica_role)], Recovered)
  /\ peer_pipelines' = [n \in Member |-> NewPipeline(1)]
  /\ leader_id' = None
  /\ running' = FALSE /\ leader_lease_valid' = FALSE
  /\ tail' = IF tail = "unended" THEN "unended" ELSE "whole"
  /\ UNCHANGED <<acknowledged, writing, wal, replied, faults>>

NodeNext ==
  \/ StartNode
  \/ StopNode
  \/ \E forced \in BOOLEAN : Pass(Campaign(NodeId, forced))
  \/ \E n \in Node : Pass(TransferLeader(n))
  \/ \E n \in Node, healthy \in BOOLEAN : Pass(SetNodeHealthy(n, healthy))
  \/ \E valid \in LeaseUpdates : Pass(SetLeaderLeaseValid(valid))
  \/ \E payload \in Payload : ProposeThenWrite(payload)
  \/ \E payload \in Payload : Pass(ProposeRefused(payload))
  \/ WriteAndReply
  \/ WriteFails
  \/ Crash
  \/ Recreate

NodeSpec == RuntimeInit /\ [][NodeNext]_allVars

--------------------------------------------------------------------------------
Before(a, b) ==
  \/ a.term < b.term
  \/ a.term = b.term /\ a.index < b.index

\* A proposal answered Ok whose record can be read is never answered again under
\* the same id, across crashes that lose terms, indexes and the other members:
\* what is answered later has a later id.
RepliedOnce ==
  \A j, k \in DOMAIN replied :
    j < k /\ replied[j].readable => Before(replied[j].entry, replied[k].entry)

\* A proposal answered Ok that the local member held, and whose record can be
\* read, is in that member's log in every later incarnation, unchanged.
RepliedDurable ==
  state # "Down" =>
    \A k \in DOMAIN replied :
      replied[k].local /\ replied[k].readable => LocalHolds(replied[k].entry)
================================================================================
