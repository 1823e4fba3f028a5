--------------------------- MODULE SnapshotLifecycle ---------------------------
(***************************************************************************)
(* Sending a snapshot in chunks: struct RaftSnapshotLifecycle in           *)
(* src/lib.rs, one of them sending on the leader and one installing on the *)
(* follower, and the messages between them.                                *)
(*                                                                         *)
(* The transport may lose messages and deliver them in any order; a chunk  *)
(* sent again may arrive twice.  What the code leaves to its caller is     *)
(* modelled as the tests call it: a chunk the follower cannot install is   *)
(* answered with a refusal and the offset it expects, the leader's caller  *)
(* reports answers that do not come as timeouts, and the follower's caller *)
(* may roll an installation back at any time.  A snapshot is its last log  *)
(* index; its payload is a number of bytes.                                *)
(***************************************************************************)
EXTENDS Integers, FiniteSets, SequencesExt

CONSTANTS
  Snapshot,            \* the snapshots: their last log indexes
  Size,                \* the bytes of each snapshot's payload
  ChunkSize, MaxChunksPerTick, MaxBytesPerTick,
  MaxRetryAttempts,    \* the fields of RaftSnapshotLifecycleConfig
  MaxSends,            \* bound: sends begun
  MaxRollbacks         \* bound: installations rolled back

ASSUME LifecycleAssumption ==
  /\ Snapshot \subseteq Nat \ {0} /\ IsFiniteSet(Snapshot)
  /\ Size \in [Snapshot -> Nat]
  /\ {ChunkSize, MaxChunksPerTick, MaxBytesPerTick} \subseteq Nat \ {0}
  /\ {MaxRetryAttempts, MaxSends, MaxRollbacks} \subseteq Nat

VARIABLES
  sender,           \* << >> or one [snapshot, next_chunk, accepted_chunks, retry_count]
  snapshot_id, sending, sent,  \* the leader's status; sent is completed
  installer,        \* << >> or one [snapshot, next_offset, chunks]
  installing,       \* the follower's status: installing
  installed_index,  \* the follower's status: the last snapshot installed
  requests,         \* chunks under way to the follower
  responses,        \* answers under way to the leader
  deliveries,       \* history: the snapshots the follower handed on
  sends, rollbacks, \* history: sends begun, installations rolled back
  undisturbed       \* history: no rollback, and no message of an earlier send

senderVars == <<sender, snapshot_id, sending, sent>>
installVars == <<installer, installing, installed_index, deliveries>>
countVars == <<sends, rollbacks, undisturbed>>
lifecycleVars == <<senderVars, installVars, requests, responses, countVars>>

--------------------------------------------------------------------------------
\* checkpoint: the payload in chunks of ChunkSize, the last one done; an empty
\* payload is one empty chunk.
ChunkCount(s) == Max({1, (Size[s] + ChunkSize - 1) \div ChunkSize})

Chunks(s) ==
  [k \in 1 .. ChunkCount(s) |->
     [ snapshot |-> s,
       offset   |-> (k - 1) * ChunkSize,
       length   |-> Min({ChunkSize, Size[s] - (k - 1) * ChunkSize}),
       done     |-> k = ChunkCount(s) ]]

LifecycleInit ==
  /\ sender = << >> /\ snapshot_id = 0 /\ sending = FALSE /\ sent = FALSE
  /\ installer = << >> /\ installing = FALSE /\ installed_index = 0
  /\ requests = {} /\ responses = {} /\ deliveries = << >>
  /\ sends = 0 /\ rollbacks = 0 /\ undisturbed = TRUE

BeginSend(s) ==
  /\ sender = << >>
  /\ sends < MaxSends
  /\ sender' = << [snapshot |-> s, next_chunk |-> 1, accepted_chunks |-> 0,
                   retry_count |-> 0] >>
  /\ snapshot_id' = s /\ sending' = TRUE /\ sent' = FALSE
  /\ sends' = sends + 1
  /\ undisturbed' = (undisturbed /\ requests = {} /\ responses = {} /\ installer = << >>)
  /\ UNCHANGED <<installVars, requests, responses, rollbacks>>

\* How many of the chunks left a tick sends: the first always, more up to the
\* limits on chunks and on bytes.
TickChunks(chunks) ==
  LET bytes(n) == FoldSeq(LAMBDA c, sum : c.length + sum, 0, SubSeq(chunks, 1, n))
  IN  Max({n \in 0 .. Min({Len(chunks), MaxChunksPerTick}) :
             n <= 1 \/ bytes(n) <= MaxBytesPerTick})

\* poll_send_requests.
Poll ==
  LET chunks == Chunks(sender[1].snapshot)
      left   == SubSeq(chunks, sender[1].next_chunk, Len(chunks))
      n      == TickChunks(left)
  IN  /\ sender # << >>
      /\ sender' = [sender EXCEPT ![1].next_chunk = @ + n]
      /\ requests' = requests \cup {left[k] : k \in 1 .. n}
      /\ UNCHANGED <<snapshot_id, sending, sent, installVars, responses, countVars>>

--------------------------------------------------------------------------------
\* install_request: without an installation under way the chunk starts one,
\* whatever its offset.
Started(chunk) ==
  IF installer = << >>
    THEN [snapshot |-> chunk.snapshot, next_offset |-> 0, chunks |-> << >>]
    ELSE installer[1]

\* Mutant: the offset is not compared.
FitsAnyOffset(state, chunk) == chunk.snapshot = state.snapshot

\* install_chunk accepts the next chunk of the same snapshot.
Fits(state, chunk) ==
  /\ chunk.snapshot = state.snapshot
  /\ chunk.offset = state.next_offset

Answer(accepted, next_offset) == [accepted |-> accepted, next_offset |-> next_offset]

\* The chunk is stored and is not the last.
Receive(chunk) ==
  LET state == Started(chunk)
  IN  /\ chunk \in requests
      /\ Fits(state, chunk) /\ ~ chunk.done
      /\ installer' = << [state EXCEPT !.next_offset = @ + chunk.length,
                                       !.chunks      = Append(@, chunk)] >>
      /\ installing' = TRUE
      /\ requests' = requests \ {chunk}
      /\ responses' = responses \cup {Answer(TRUE, chunk.offset + chunk.length)}
      /\ UNCHANGED <<installed_index, deliveries, senderVars, countVars>>

\* The last chunk completes the snapshot, which is handed on.
Install(chunk) ==
  LET state == Started(chunk)
  IN  /\ chunk \in requests
      /\ Fits(state, chunk) /\ chunk.done
      /\ installer' = << >> /\ installing' = FALSE
      /\ installed_index' = state.snapshot
      /\ deliveries' = Append(deliveries, Append(state.chunks, chunk))
      /\ requests' = requests \ {chunk}
      /\ responses' = responses \cup {Answer(TRUE, chunk.offset + chunk.length)}
      /\ UNCHANGED <<senderVars, countVars>>

\* A chunk that does not fit is an error, and leaves the installation it started.
Refuse(chunk) ==
  LET state == Started(chunk)
  IN  /\ chunk \in requests
      /\ ~ Fits(state, chunk)
      /\ installer' = <<state>> /\ installing' = TRUE
      /\ requests' = requests \ {chunk}
      /\ responses' = responses \cup {Answer(FALSE, state.next_offset)}
      /\ UNCHANGED <<installed_index, deliveries, senderVars, countVars>>

RollbackInstall ==
  /\ rollbacks < MaxRollbacks
  /\ installer' = << >> /\ installing' = FALSE
  /\ rollbacks' = rollbacks + 1 /\ undisturbed' = FALSE
  /\ UNCHANGED <<installed_index, deliveries, senderVars, requests, responses, sends>>

--------------------------------------------------------------------------------
\* Mutant: one answer too few completes the send.
AcceptedEarly(r) ==
  LET accepted == sender[1].accepted_chunks + 1
      all      == accepted + 1 >= ChunkCount(sender[1].snapshot)
  IN  /\ r \in responses /\ r.accepted /\ sender # << >>
      /\ sender' = IF all THEN << >>
                   ELSE [sender EXCEPT ![1].accepted_chunks = accepted]
      /\ sending' = ~ all /\ sent' = all
      /\ responses' = responses \ {r}
      /\ UNCHANGED <<snapshot_id, installVars, requests, countVars>>

\* record_send_response with an accepted chunk: the answers are counted, and as
\* many as there are chunks complete the send.
Accepted(r) ==
  LET accepted == sender[1].accepted_chunks + 1
      all      == accepted >= ChunkCount(sender[1].snapshot)
  IN  /\ r \in responses /\ r.accepted /\ sender # << >>
      /\ sender' = IF all THEN << >>
                   ELSE [sender EXCEPT ![1].accepted_chunks = accepted]
      /\ sending' = ~ all /\ sent' = all
      /\ responses' = responses \ {r}
      /\ UNCHANGED <<snapshot_id, installVars, requests, countVars>>

\* An answer without a send under way is passed over.
Ignored(r) ==
  /\ r \in responses /\ sender = << >>
  /\ responses' = responses \ {r}
  /\ UNCHANGED <<senderVars, installVars, requests, countVars>>

\* Mutant: the attempt is not counted.
RetryUncounted(next_chunk) ==
  /\ sender' = [sender EXCEPT ![1].next_chunk = next_chunk]
  /\ UNCHANGED <<snapshot_id, sending, sent>>

\* One more attempt, going on from next_chunk; after the last one the send ends.
Retry(next_chunk) ==
  LET attempts == sender[1].retry_count + 1
  IN  /\ IF attempts > MaxRetryAttempts
           THEN sender' = << >> /\ sending' = FALSE
           ELSE /\ sender' = [sender EXCEPT ![1].retry_count = attempts,
                                            ![1].next_chunk  = next_chunk]
                /\ UNCHANGED sending
      /\ UNCHANGED <<snapshot_id, sent>>

\* A refusal goes back to the first chunk from the offset the follower expects.
Refused(r) ==
  LET chunks == Chunks(sender[1].snapshot)
      from   == {k \in DOMAIN chunks : chunks[k].offset >= r.next_offset}
  IN  /\ r \in responses /\ ~ r.accepted /\ sender # << >>
      /\ Retry(IF from = {} THEN Len(chunks) + 1 ELSE Min(from))
      /\ responses' = responses \ {r}
      /\ UNCHANGED <<installVars, requests, countVars>>

\* record_send_timeout counts an attempt and sends nothing again.
Timeout ==
  /\ sender # << >>
  /\ Retry(sender[1].next_chunk)
  /\ UNCHANGED <<installVars, requests, responses, countVars>>

LoseRequest(chunk) ==
  /\ chunk \in requests
  /\ requests' = requests \ {chunk}
  /\ UNCHANGED <<senderVars, installVars, responses, countVars>>

LoseResponse(r) ==
  /\ r \in responses
  /\ responses' = responses \ {r}
  /\ UNCHANGED <<senderVars, installVars, requests, countVars>>

LifecycleNext ==
  \/ \E s \in Snapshot : BeginSend(s)
  \/ Poll
  \/ \E chunk \in requests :
       \/ Receive(chunk) \/ Install(chunk) \/ Refuse(chunk) \/ LoseRequest(chunk)
  \/ RollbackInstall
  \/ \E r \in responses :
       \/ Accepted(r) \/ Ignored(r) \/ Refused(r) \/ LoseResponse(r)
  \/ Timeout

\* The leader's caller does not wait for an answer for ever.
LifecycleSpec ==
  LifecycleInit /\ [][LifecycleNext]_lifecycleVars /\ WF_lifecycleVars(Timeout)

--------------------------------------------------------------------------------
\* A snapshot handed on is whole: its chunks are all of one snapshot and follow
\* each other from offset 0 to the last byte, whatever was lost, repeated,
\* reordered or mixed with another snapshot.
Whole(chunks) ==
  /\ chunks[1].offset = 0
  /\ \A k \in 2 .. Len(chunks) :
       /\ chunks[k].snapshot = chunks[1].snapshot
       /\ chunks[k].offset = chunks[k - 1].offset + chunks[k - 1].length
  /\ Last(chunks).offset + Last(chunks).length = Size[chunks[1].snapshot]

InstalledWhole == \A k \in DOMAIN deliveries : Whole(deliveries[k])

\* A send that completed was installed, unless the follower rolled back or
\* messages of an earlier send were still under way: an answer names no chunk and
\* no snapshot, and the leader counts whatever answers come.
CompletedMeansInstalled ==
  undisturbed /\ sent =>
    deliveries # << >> /\ Last(deliveries)[1].snapshot = snapshot_id

\* Every send ends, completed or with its attempts used up.
SendEnds == sending ~> ~ sending
================================================================================
