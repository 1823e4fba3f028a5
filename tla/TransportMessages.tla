--------------------------- MODULE TransportMessages ---------------------------
(***************************************************************************)
(* The checks the transports make on the four kinds of requests and their  *)
(* answers (the rustraft_validate functions), as pure operators.           *)
(*                                                                         *)
(* A request is [rpc, target, group_id, sender, body]: the sender is the   *)
(* leader, the candidate or the requester.  A log id counts by its index,  *)
(* and a text by whether it is empty.                                      *)
(***************************************************************************)
EXTENDS RaftTypes

PositiveId(id) == id > 0
LogIdValid(id) == id # None => id > 0

\* Entries follow the previous id, or start the log, without a gap.
AppendBodyValid(body) ==
  /\ LogIdValid(body.prev)
  /\ \A k \in DOMAIN body.entries :
       body.entries[k].index = (IF body.prev = None THEN 0 ELSE body.prev) + k

SnapshotMetaValid(meta) ==
  meta.last_index > 0 /\ meta.snapshot_id # "" /\ meta.membership # {}

RequestValid(request) ==
  /\ PositiveId(request.group_id) /\ PositiveId(request.sender)
  /\ request.rpc = "append_entries" => AppendBodyValid(request.body)
  /\ request.rpc = "vote" => LogIdValid(request.body.last)
  /\ request.rpc = "install_snapshot" => SnapshotMetaValid(request.body.meta)

\* Only the TCP server asks for a positive target.
TcpRequestValid(request) == RequestValid(request) /\ PositiveId(request.target)

AppendResponseValid(answer) == answer.success => answer.rejection_hint = None
ReasonGiven(answer)         == answer.reason # ""
ReadResponseValid(answer) ==
  ReasonGiven(answer) /\ (answer.lease_read => answer.safe)
================================================================================
