-------------------------- MODULE MCSnapshotLifecycle --------------------------
(***************************************************************************)
(* Values for SnapshotLifecycle: a snapshot of three chunks, the last one  *)
(* short, and an empty one of a single chunk; a tick sends two chunks, or  *)
(* one where two exceed its bytes.                                         *)
(***************************************************************************)
EXTENDS SnapshotLifecycle

MCSize == [s \in Snapshot |-> IF s = 1 THEN 5 ELSE 0]
================================================================================
