------------------------------- MODULE AppliedLog -------------------------------
(***************************************************************************)
(* What the state machine adapter promises: the user's state machine is    *)
(* handed no log index twice, whatever is replayed, and goes back only to  *)
(* a state that was saved, or to the empty one.                            *)
(***************************************************************************)
EXTENDS Naturals, Sequences

CONSTANT LogId   \* records with a term and an index

VARIABLES
  history,   \* the log ids handed to the state machine, in order
  saved      \* the histories of the snapshots taken

vars == <<history, saved>>

Fresh(e) == \A k \in DOMAIN history : history[k].index # e.index

Init == history = << >> /\ saved = {}

Apply(e) ==
  /\ Fresh(e)
  /\ history' = Append(history, e)
  /\ UNCHANGED saved

Save == saved' = saved \cup {history} /\ UNCHANGED history

Restore == history' \in saved /\ UNCHANGED saved

Restart == history' = << >> /\ UNCHANGED saved

Next == (\E e \in LogId : Apply(e)) \/ Save \/ Restore \/ Restart

Spec == Init /\ [][Next]_vars
================================================================================
