----------------------------- MODULE MCRaftCluster -----------------------------
EXTENDS ClusterAnswers, TLC

MCBytes == [p \in {"small"} |-> 1]

\* Two voters and a learner, or two voters and a witness.
MCInitialPeers ==
  { 1 :> "Voter" @@ 2 :> "Voter" @@ 3 :> "Learner",
    1 :> "Voter" @@ 2 :> "Voter" @@ 3 :> "Witness" }

\* A voter and a learner, which may be promoted.
MCTwoPeers == { 1 :> "Voter" @@ 2 :> "Learner" }

MCAddablePeers == { <<3, "Learner">> }

\* Entries as other processes' leaders may send them: of an earlier and a later
\* term than the local leader's.
MCEntry(t, i) == [term |-> t, index |-> i, payload |-> "small"]

MCTails == {<< MCEntry(1, 2), MCEntry(1, 3) >>}

\* A late first entry with the next leader's second one; and the second entry of
\* an earlier term alone, which commits more than the member then holds and may
\* come after a tail that brought the third.
MCAppendRequests ==
  { [term |-> 2, prev_index |-> 0, entries |-> << MCEntry(1, 1), MCEntry(2, 2) >>,
     leader_commit |-> 2],
    [term |-> 1, prev_index |-> 1, entries |-> << MCEntry(1, 2) >>,
     leader_commit |-> 3] }

\* Iterator::filter and the loop of append_entry, stated by the definition of
\* the sequences' module and by the fold of single steps.
ASSUME EntriesAboveIsSelectSeq ==
  \A log \in UNION {[1 .. n -> [index : 1 .. 3]] : n \in 0 .. 3}, i \in 0 .. 3 :
    EntriesAbove(log, i) = SelectSeq(log, LAMBDA e : e.index > i)
ASSUME AppendEntriesIsTheLoop ==
  \A log \in UNION {[1 .. n -> [index : 1 .. 3]] : n \in 0 .. 2},
     es  \in UNION {[1 .. n -> [index : 1 .. 3]] : n \in 0 .. 3} :
    LET loop[i \in 0 .. Len(es)] ==
          IF i = 0 THEN log ELSE AppendEntry(loop[i - 1], es[i])
    IN  AppendEntries(log, es) = loop[Len(es)]
================================================================================
