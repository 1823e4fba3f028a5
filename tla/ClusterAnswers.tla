---------------------------- MODULE ClusterAnswers ----------------------------
(***************************************************************************)
(* What a cluster behind a transport (ClusterRaftTransport) answers to     *)
(* the requests of other processes, taken under the cluster's lock.  The   *)
(* changes a request makes are the actions of RaftCluster.                 *)
(***************************************************************************)
EXTENDS ClusterReads, TransportMessages

\* append_entries_to; the hint of a refusal is the member's own last index.
AppendAnswer(n, request) ==
  IF AppendAccepted(nodes[n], request)
    THEN [ term |-> request.term, success |-> TRUE,
           match_index |-> MatchIndex(AppendedTo(nodes[n], request)),
           rejection_hint |-> None ]
    ELSE [ term |-> nodes[n].current_term, success |-> FALSE,
           match_index |-> MatchIndex(nodes[n]),
           rejection_hint |-> MatchIndex(nodes[n]) ]

\* The vote goes to every candidate of the group and is recorded nowhere; whom
\* the request is addressed to does not matter.
VoteAnswer(term, same_group) ==
  [ term |-> Max({current_term, term}), vote_granted |-> same_group,
    reason |-> IF same_group THEN "vote_granted" ELSE "group_id_mismatch" ]

\* install_snapshot_chunk_to keeps nothing of a chunk that is not the last.
InstallAnswer(term, done) ==
  [ term |-> Max({current_term, term}), accepted |-> TRUE,
    reason |-> IF done THEN "snapshot_installed" ELSE "snapshot_chunk_accepted" ]

--------------------------------------------------------------------------------
\* What the answers tell a sender of the member's log, however late or repeated
\* the request was.  They pass the checks of the transports.  A success of a
\* member that serves data matches every entry sent and the log ends with the
\* last of them; a log without a hole becomes its part up to the previous index
\* and the entries sent, nothing of the old log after them, unless the request
\* reaches below the snapshot.  A refusal names a later term or an index below
\* the one the sender tried, so that a retry from the hint gets further; the same
\* request again changes nothing and gets the same answer.  A success does not
\* say that the log before agrees with the sender's: the term of the previous
\* entry is not compared, and entries the snapshot covers are accepted.
AnswersMatchTheLog ==
  /\ \A term \in 0 .. MaxTerm, flag \in BOOLEAN :
       /\ ReasonGiven(VoteAnswer(term, flag))
       /\ ReasonGiven(InstallAnswer(term, flag))
       /\ VoteAnswer(term, flag).term >= current_term
  /\ \A n \in Member :
    /\ \A request \in AppendRequests :
         LET node   == nodes[n]
             answer == AppendAnswer(n, request)
             after  == AppendedTo(node, request)
             sent   == request.entries
             kept   == request.prev_index - node.installed_snapshot
         IN  /\ AppendResponseValid(answer)
             /\ answer.success =>
                  /\ answer.term >= node.current_term
                  /\ AppendAccepted(after, request)
                  /\ AppendedTo(after, request) = after
             /\ answer.success /\ CanServeData(node.replica_role) /\ sent # << >> =>
                  /\ \A k \in DOMAIN sent : answer.match_index >= sent[k].index
                  /\ after.log[Len(after.log)] = sent[Len(sent)]
                  /\ Contiguous(node) /\ kept >= 0 =>
                       after.log = SubSeq(node.log, 1, kept) \o sent
             /\ ~ answer.success =>
                  \/ answer.term > request.term
                  \/ answer.rejection_hint < request.prev_index
    /\ \A min_commit \in 0 .. MaxLogIndex, allow \in BOOLEAN :
         ReadResponseValid(ReadIndex(n, min_commit, allow))
================================================================================
