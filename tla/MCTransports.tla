----------------------------- MODULE MCTransports -----------------------------
EXTENDS Transports

MCAppend(prev, index) ==
  [ rpc |-> "append_entries", target |-> 1, group_id |-> 1, sender |-> 2,
    body |-> [prev |-> prev, entries |-> << [index |-> index] >>] ]

\* A good request, one with a gap before its entry, and one to the target 0.
MCRequests ==
  { MCAppend(1, 2), MCAppend(None, 2),
    [ rpc |-> "vote", target |-> 0, group_id |-> 1, sender |-> 2,
      body |-> [last |-> None] ] }
================================================================================
