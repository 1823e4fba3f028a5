------------------------------ MODULE Transports ------------------------------
(***************************************************************************)
(* The two transports between processes: the TCP client and server         *)
(* (TcpRaftTransport, TcpRaftTransportServer) and the in-memory router     *)
(* (InMemoryRaftTransport), either one wrapped by the authenticated        *)
(* transport or not.                                                       *)
(*                                                                         *)
(* A call is a thread of its own.  A TCP call opens a connection, writes a *)
(* line and reads one, with no timeout; the server's one worker thread     *)
(* serves one connection to its end before it accepts the next.  The       *)
(* handler behind a transport may answer with a response that passes its   *)
(* validation, with one that does not, or with an error.  A handler that   *)
(* panics and a caller that dies within a call are not modelled.           *)
(***************************************************************************)
EXTENDS TransportMessages, SequencesExt

CONSTANTS
  Caller,        \* the threads that call, each of them once
  SilentPeer,    \* connections of strangers that never write a line
  Wake,          \* the connection shutdown makes to its own listener
  Requests,      \* the requests of the callers
  Addressed,     \* the targets the TCP client has the server's address for
  Registrable,   \* the ids handlers are registered under in the router
  Validating     \* validate_messages of the router

Response == {"ok", "invalid", "error"}

ASSUME TransportAssumption ==
  /\ Caller \cap SilentPeer = {} /\ Wake \notin Caller \cup SilentPeer
  /\ None \notin Caller \cup SilentPeer \cup {Wake}
  /\ None \notin Response \cup {"refused"}
  /\ Registrable \subseteq Nat \ {0} /\ Validating \in BOOLEAN

Route == {"tcp", "memory"}
Token == {"plain", "right", "wrong"}
Connection == Caller \cup SilentPeer \cup {Wake}

VARIABLES
  calls,        \* the calls: [pc, route, request, result]
  executed,     \* history: how often a handler ran for the call
  registered,   \* the ids with a handler in the router
  connections,  \* the server's side of a connection, see NoConnection
  backlog,      \* connections the listener has not accepted
  worker,       \* the worker thread: [pc, serving]
  owner         \* how far the owner of the server is in shutdown

serverVars == <<connections, backlog, worker, owner>>
transportsVars == <<calls, executed, registered, serverVars>>

\* wrote: a line can be read; gone: the peer has closed; closed: the server has;
\* response: what can be read back.
NoConnection == [wrote |-> FALSE, gone |-> FALSE, closed |-> FALSE,
                 response |-> None]

TransportsInit ==
  /\ calls = [c \in Caller |->
                [pc |-> "idle", route |-> None, request |-> None, result |-> None]]
  /\ executed = [c \in Caller |-> 0]
  /\ registered \in SUBSET Registrable
  /\ connections = [k \in Connection |-> NoConnection]
  /\ backlog = << >>
  /\ worker = [pc |-> "checking", serving |-> None]
  /\ owner = "running"

Listening   == worker.pc # "exited"
FlagStored  == owner # "running"

--------------------------------------------------------------------------------
\* The caller's side.
Goes(c, pc) == calls' = [calls EXCEPT ![c].pc = pc]

Returns(c, result) ==
  calls' = [calls EXCEPT ![c] = [@ EXCEPT !.pc = "returned", !.result = result]]

\* Validation, the token and the target are checked before anything is sent; the
\* plain methods of the authenticated transport ask for no token.
Admitted(route, request, token) ==
  /\ token # "wrong"
  /\ route = "tcp" => RequestValid(request) /\ request.target \in Addressed
  /\ route = "memory" =>
       /\ Validating => RequestValid(request)
       /\ request.target \in registered

\* The router's lookup clones the handler under its lock; the handler runs after
\* the lock is released.
BeginCall(c, route, request, token) ==
  /\ calls[c].pc = "idle"
  /\ calls' = [calls EXCEPT ![c] =
       IF Admitted(route, request, token)
         THEN [ pc |-> IF route = "tcp" THEN "connecting" ELSE "found",
                route |-> route, request |-> request, result |-> None ]
         ELSE [ pc |-> "returned", route |-> route, request |-> request,
                result |-> "refused" ]]
  /\ UNCHANGED <<executed, registered, serverVars>>

\* What a call makes of a response; the router may pass on an invalid one.
ResultOf(route, response) ==
  IF response = "ok" \/ (response = "invalid" /\ route = "memory" /\ ~ Validating)
    THEN "ok" ELSE "error"

CallHandler(c) ==
  /\ calls[c].pc = "found"
  /\ executed' = [executed EXCEPT ![c] = @ + 1]
  /\ \E response \in Response : Returns(c, ResultOf("memory", response))
  /\ UNCHANGED <<registered, serverVars>>

Connect(c) ==
  /\ calls[c].pc = "connecting"
  /\ \/ Listening /\ backlog' = Append(backlog, c) /\ Goes(c, "writing")
     \/ ~ Listening /\ Returns(c, "error") /\ UNCHANGED backlog
  /\ UNCHANGED <<executed, registered, connections, worker, owner>>

Write(c) ==
  /\ calls[c].pc = "writing"
  /\ \/ /\ ~ connections[c].closed
        /\ connections' = [connections EXCEPT ![c].wrote = TRUE]
        /\ Goes(c, "reading")
     \/ /\ connections[c].closed
        /\ Returns(c, "error") /\ UNCHANGED connections
  /\ UNCHANGED <<executed, registered, backlog, worker, owner>>

\* Mutant: an answered error is tried again.
ReadRetrying(c) ==
  /\ calls[c].pc = "reading"
  /\ connections[c].closed
  /\ connections' = [connections EXCEPT ![c] = NoConnection]
  /\ IF connections[c].response \in {"invalid", "error"} THEN Goes(c, "connecting")
     ELSE Returns(c, ResultOf("tcp", connections[c].response))
  /\ UNCHANGED <<executed, registered, backlog, worker, owner>>

\* A connection closed without a line is an error to decode.
Read(c) ==
  /\ calls[c].pc = "reading"
  /\ connections[c].closed
  /\ connections' = [connections EXCEPT ![c].gone = TRUE]
  /\ Returns(c, ResultOf("tcp", connections[c].response))
  /\ UNCHANGED <<executed, registered, backlog, worker, owner>>

Register(n) ==
  /\ registered' = registered \cup {n}
  /\ UNCHANGED <<calls, executed, serverVars>>

Unregister(n) ==
  /\ registered' = registered \ {n}
  /\ UNCHANGED <<calls, executed, serverVars>>

--------------------------------------------------------------------------------
\* The worker thread.
\* Mutant: the connections not accepted stay open.
ExitKeepingListener ==
  /\ worker' = [pc |-> "exited", serving |-> None]
  /\ UNCHANGED <<backlog, connections>>

\* Leaving the loop drops the listener, which resets what it has not accepted.
Exit ==
  /\ worker' = [pc |-> "exited", serving |-> None]
  /\ backlog' = << >>
  /\ connections' = [k \in Connection |->
       [connections[k] EXCEPT !.closed = @ \/ k \in Range(backlog)]]

CheckShutdown ==
  /\ worker.pc = "checking"
  /\ \/ FlagStored /\ Exit
     \/ /\ ~ FlagStored
        /\ worker' = [worker EXCEPT !.pc = "accepting"]
        /\ UNCHANGED <<connections, backlog>>
  /\ UNCHANGED <<calls, executed, registered, owner>>

\* The listener does not block: with nobody waiting the worker sleeps.
Accept ==
  /\ worker.pc = "accepting"
  /\ \/ /\ backlog # << >>
        /\ worker' = [pc |-> "reading", serving |-> Head(backlog)]
        /\ backlog' = Tail(backlog)
     \/ /\ backlog = << >>
        /\ worker' = [worker EXCEPT !.pc = "checking"]
        /\ UNCHANGED backlog
  /\ UNCHANGED <<calls, executed, registered, connections, owner>>

\* Any other error of accept ends the worker for good.
AcceptFails ==
  /\ worker.pc = "accepting"
  /\ Exit
  /\ UNCHANGED <<calls, executed, registered, owner>>

\* The served connection is dropped with the given response or none.
CloseServed(response) ==
  /\ connections' = [connections EXCEPT
       ![worker.serving] = [@ EXCEPT !.closed = TRUE, !.response = response]]
  /\ worker' = [pc |-> "checking", serving |-> None]

\* A line is read, or the peer has closed; a peer that does neither holds the
\* worker.  An empty line or an invalid request is closed without an answer.
ReadRequest ==
  /\ worker.pc = "reading"
  /\ \/ /\ connections[worker.serving].wrote
        /\ TcpRequestValid(calls[worker.serving].request)
        /\ worker' = [worker EXCEPT !.pc = "handling"]
        /\ UNCHANGED connections
     \/ /\ connections[worker.serving].wrote
        /\ ~ TcpRequestValid(calls[worker.serving].request)
        /\ CloseServed(None)
     \/ /\ connections[worker.serving].gone
        /\ CloseServed(None)
  /\ UNCHANGED <<calls, executed, registered, backlog, owner>>

\* The handler runs and its answer is written.
Handle ==
  /\ worker.pc = "handling"
  /\ executed' = [executed EXCEPT ![worker.serving] = @ + 1]
  /\ \E response \in Response : CloseServed(response)
  /\ UNCHANGED <<calls, registered, backlog, owner>>

Work == CheckShutdown \/ Accept \/ ReadRequest \/ Handle

--------------------------------------------------------------------------------
\* shutdown, also called by drop: the flag, a connection of its own that wakes
\* the worker, and the join.
StoreFlag ==
  /\ owner = "running"
  /\ owner' = "waking"
  /\ UNCHANGED <<calls, executed, registered, connections, backlog, worker>>

\* Mutant: shutdown keeps its connection while it joins.
WakeUpHeld ==
  /\ owner = "waking"
  /\ owner' = "joining"
  /\ backlog' = IF Listening THEN Append(backlog, Wake) ELSE backlog
  /\ UNCHANGED <<calls, executed, registered, connections, worker>>

WakeUp ==
  /\ owner = "waking"
  /\ owner' = "joining"
  /\ connections' = [connections EXCEPT ![Wake].gone = TRUE]
  /\ backlog' = IF Listening THEN Append(backlog, Wake) ELSE backlog
  /\ UNCHANGED <<calls, executed, registered, worker>>

Join ==
  /\ owner = "joining"
  /\ worker.pc = "exited"
  /\ owner' = "stopped"
  /\ UNCHANGED <<calls, executed, registered, connections, backlog, worker>>

\* A stranger connects and later goes away, or never does.
SilentConnects(s) ==
  /\ Listening /\ s \notin Range(backlog) /\ worker.serving # s
  /\ connections[s] = NoConnection
  /\ backlog' = Append(backlog, s)
  /\ UNCHANGED <<calls, executed, registered, connections, worker, owner>>

SilentLeaves(s) ==
  /\ s \in Range(backlog) \cup {worker.serving}
  /\ ~ connections[s].gone
  /\ connections' = [connections EXCEPT ![s].gone = TRUE]
  /\ UNCHANGED <<calls, executed, registered, backlog, worker, owner>>

--------------------------------------------------------------------------------
CallerStep(c) == CallHandler(c) \/ Connect(c) \/ Write(c) \/ Read(c)

TransportsNext ==
  \/ \E c \in Caller, route \in Route, request \in Requests, token \in Token :
       BeginCall(c, route, request, token)
  \/ \E c \in Caller : CallerStep(c)
  \/ \E n \in Registrable : Register(n) \/ Unregister(n)
  \/ Work
  \/ AcceptFails
  \/ StoreFlag \/ WakeUp \/ Join
  \/ \E s \in SilentPeer : SilentConnects(s) \/ SilentLeaves(s)

\* Every thread runs on: a caller within its call, the worker, and the owner once
\* it shuts the server down.  Nobody has to call, to shut down or to go away.
TransportsSpec ==
  /\ TransportsInit /\ [][TransportsNext]_transportsVars
  /\ \A c \in Caller : WF_transportsVars(CallerStep(c))
  /\ WF_transportsVars(Work)
  /\ WF_transportsVars(WakeUp \/ Join)

--------------------------------------------------------------------------------
Calling(c) == calls[c].pc \notin {"idle", "returned"}

\* A stranger has been accepted and neither writes nor leaves.
HeldBySilent ==
  /\ worker.pc = "reading" /\ worker.serving \in SilentPeer
  /\ ~ connections[worker.serving].gone

\* What a result tells the caller, whatever was shut down, unregistered or reset
\* meanwhile: ok means that a handler ran the request, exactly once and after it
\* passed the checks; refused means that none ran; and nothing is ever run
\* twice, so that an error means once or not at all.
AnsweredMeansHandled ==
  \A c \in Caller :
    /\ executed[c] <= 1
    /\ calls[c].result = "ok" => executed[c] = 1
    /\ calls[c].result = "refused" => executed[c] = 0
    /\ executed[c] = 1 /\ (calls[c].route = "tcp" \/ Validating) =>
         RequestValid(calls[c].request)
    /\ executed[c] = 1 => PositiveId(calls[c].request.target)

\* Every call returns, although neither side has a timeout, through shutdown and
\* a listener that failed, unless a silent stranger holds the worker for ever.
CallsReturn ==
  \A c \in Caller : Calling(c) ~> (calls[c].pc = "returned" \/ [] HeldBySilent)

\* shutdown returns, whoever is waiting to be served, with the same exception.
ShutdownReturns == FlagStored ~> (owner = "stopped" \/ [] HeldBySilent)
================================================================================
