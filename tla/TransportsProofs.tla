---------------------------- MODULE TransportsProofs ----------------------------
(***************************************************************************)
(* The proofs about transports.                                            *)
(*                                                                         *)
(* First, for any number of callers, silent strangers and requests: what a *)
(* result of a transport tells its caller (TransportsSpec).                *)
(*                                                                         *)
(* Then, for any group and any requests: what the requests a transport     *)
(* delivers, mixed with the calls of the group's own process, leave true   *)
(* of the group (Spec of RaftCluster), that the verdicts on reads agree,   *)
(* and what an answer tells its caller.                                    *)
(***************************************************************************)
EXTENDS Transports, ClusterAnswers, RaftClusterProofs

CallType ==
  [ pc : {"idle", "found", "connecting", "writing", "reading", "returned"},
    route : Route \cup {None}, request : Requests \cup {None},
    result : {None, "ok", "error", "refused"} ]

TransportType ==
  /\ calls \in [Caller -> CallType]
  /\ executed \in [Caller -> Nat]
  /\ registered \in SUBSET Registrable
  /\ connections \in [Connection -> [ wrote : BOOLEAN, gone : BOOLEAN,
                                      closed : BOOLEAN,
                                      response : Response \cup {None} ]]
  /\ backlog \in Seq(Connection)
  /\ worker \in [ pc : {"checking", "accepting", "reading", "handling", "exited"},
                  serving : Connection \cup {None} ]

\* The listener or the worker has the connection of the call.
Held(c) == c \in Range(backlog) \/ worker.serving = c

\* A call whose connection is held is in the middle of writing or reading and has
\* not been handled; a handled call had a request that was fit for it.
CallTracked(c) ==
  LET call == calls[c]
  IN  /\ Held(c) => /\ executed[c] = 0 /\ call.pc \in {"writing", "reading"}
                    /\ ~ connections[c].closed
      /\ call.pc \in {"idle", "found", "connecting"} =>
           executed[c] = 0 /\ ~ connections[c].closed
      /\ connections[c].response # None => executed[c] = 1
      /\ executed[c] <= 1
      /\ executed[c] = 1 =>
           /\ PositiveId(call.request.target)
           /\ call.route = "tcp" \/ Validating => RequestValid(call.request)
      /\ call.pc \in {"connecting", "writing", "reading"} =>
           call.route = "tcp" /\ RequestValid(call.request)
      /\ call.pc = "found" =>
           /\ call.route = "memory" /\ PositiveId(call.request.target)
           /\ Validating => RequestValid(call.request)
      /\ call.pc # "returned" => call.result = None
      /\ call.result = "ok" => executed[c] = 1
      /\ call.result = "refused" => executed[c] = 0

CallersOnce(q) == \A i, j \in DOMAIN q : q[i] = q[j] /\ q[i] \in Caller => i = j

\* The worker handles calls only, and has one connection at a time.
WorkerTracked ==
  /\ worker.pc \in {"checking", "accepting", "exited"} => worker.serving = None
  /\ worker.pc \in {"reading", "handling"} => worker.serving \in Connection
  /\ worker.pc = "handling" =>
       /\ worker.serving \in Caller
       /\ TcpRequestValid(calls[worker.serving].request)
  /\ worker.serving \in Caller => worker.serving \notin Range(backlog)
  /\ \A k \in Connection \ Caller : ~ connections[k].wrote
  /\ CallersOnce(backlog)

TransportInv ==
  TransportType /\ (\A c \in Caller : CallTracked(c)) /\ WorkerTracked

--------------------------------------------------------------------------------
\* A connection at the end of the backlog.
LEMMA Queued ==
  ASSUME NEW S, NEW q \in Seq(S), NEW c \in S
  PROVE  /\ Range(Append(q, c)) = Range(q) \cup {c}
         /\ Append(q, c) \in Seq(S)
         /\ CallersOnce(q) /\ (c \in Caller => c \notin Range(q)) =>
              CallersOnce(Append(q, c))
<1>1. /\ DOMAIN q = 1 .. Len(q) /\ Len(q) \in Nat
      /\ DOMAIN Append(q, c) = 1 .. Len(q) + 1
      /\ \A i \in 1 .. Len(q) : Append(q, c)[i] = q[i]
      /\ Append(q, c)[Len(q) + 1] = c
      /\ Append(q, c) \in Seq(S)
  OBVIOUS
<1>2. 1 .. Len(q) + 1 = (1 .. Len(q)) \cup {Len(q) + 1}
  BY <1>1
<1>3. Range(Append(q, c)) = Range(q) \cup {c}
  BY <1>1, <1>2 DEF Range
<1>4. ASSUME CallersOnce(q), c \in Caller => c \notin Range(q)
      PROVE  CallersOnce(Append(q, c))
  <2>1. \A i \in DOMAIN q : q[i] = c => c \notin Caller
    BY <1>4 DEF Range
  <2> QED
    BY <1>1, <1>2, <1>4, <2>1 DEF CallersOnce
<1> QED
  BY <1>1, <1>3, <1>4

\* The oldest connection leaves the backlog.
LEMMA Dequeued ==
  ASSUME NEW S, NEW q \in Seq(S), q # << >>,
         CallersOnce(q)
  PROVE  /\ Tail(q) \in Seq(S) /\ Head(q) \in S /\ Head(q) \in Range(q)
         /\ Range(Tail(q)) \subseteq Range(q)
         /\ Head(q) \in Caller => Head(q) \notin Range(Tail(q))
         /\ CallersOnce(Tail(q))
<1>1. /\ Tail(q) \in Seq(S) /\ Head(q) = q[1]
      /\ Len(q) \in Nat \ {0} /\ DOMAIN q = 1 .. Len(q)
      /\ DOMAIN Tail(q) = 1 .. Len(q) - 1
      /\ \A i \in 1 .. Len(q) - 1 : Tail(q)[i] = q[i + 1] /\ i + 1 \in DOMAIN q
      /\ 1 \in DOMAIN q
  OBVIOUS
<1>2. Range(Tail(q)) \subseteq Range(q)
  BY <1>1 DEF Range
<1>3. CallersOnce(Tail(q))
  BY <1>1 DEF CallersOnce
<1>4. ASSUME Head(q) \in Caller, Head(q) \in Range(Tail(q)) PROVE FALSE
  <2>1. PICK i \in DOMAIN Tail(q) : Head(q) = Tail(q)[i]
    BY <1>4 DEF Range
  <2> QED
    BY <1>1, <1>4, <2>1 DEF CallersOnce
<1>5. Head(q) \in S /\ Head(q) \in Range(q)
  BY <1>1 DEF Range
<1> QED
  BY <1>1, <1>2, <1>3, <1>4, <1>5

\* What a call becomes when it goes on or returns.
LEMMA CallSet ==
  ASSUME TransportInv, NEW c \in Caller
  PROVE  /\ \A pc \in {"writing", "reading"} : Goes(c, pc) =>
              /\ calls' \in [Caller -> CallType]
              /\ calls'[c].pc = pc /\ calls'[c].route = calls[c].route
              /\ calls'[c].request = calls[c].request
              /\ calls'[c].result = calls[c].result
              /\ \A d \in Caller \ {c} : calls'[d] = calls[d]
         /\ \A result \in {"ok", "error"} : Returns(c, result) =>
              /\ calls' \in [Caller -> CallType]
              /\ calls'[c].pc = "returned" /\ calls'[c].route = calls[c].route
              /\ calls'[c].request = calls[c].request /\ calls'[c].result = result
              /\ \A d \in Caller \ {c} : calls'[d] = calls[d]
<1>1. calls \in [Caller -> CallType] /\ calls[c] \in CallType
  BY DEF TransportInv, TransportType
<1>2. ASSUME NEW pc \in {"writing", "reading"}, Goes(c, pc)
      PROVE  /\ calls' \in [Caller -> CallType]
             /\ calls'[c].pc = pc /\ calls'[c].route = calls[c].route
             /\ calls'[c].request = calls[c].request
             /\ calls'[c].result = calls[c].result
             /\ \A d \in Caller \ {c} : calls'[d] = calls[d]
  BY <1>1, <1>2 DEF Goes, CallType
<1>3. ASSUME NEW result \in {"ok", "error"}, Returns(c, result)
      PROVE  /\ calls' \in [Caller -> CallType]
             /\ calls'[c].pc = "returned" /\ calls'[c].route = calls[c].route
             /\ calls'[c].request = calls[c].request /\ calls'[c].result = result
             /\ \A d \in Caller \ {c} : calls'[d] = calls[d]
  <2> DEFINE new == [calls[c] EXCEPT !.pc = "returned", !.result = result]
  <2>1. new \in CallType /\ new.pc = "returned" /\ new.route = calls[c].route
        /\ new.request = calls[c].request /\ new.result = result
    BY <1>1 DEF CallType
  <2>2. calls' = [calls EXCEPT ![c] = new]
    BY <1>3 DEF Returns
  <2> HIDE DEF new
  <2> QED
    BY <1>1, <2>1, <2>2
<1> QED
  BY <1>2, <1>3

\* No call has begun and no connection is held.
LEMMA TransportInit == TransportsInit => TransportInv
<1> SUFFICES ASSUME TransportsInit PROVE TransportInv
  OBVIOUS
<1> USE TransportAssumption DEF TransportsInit, Response
<1>1. TransportType
  <2>1. calls \in [Caller -> CallType]
    BY DEF CallType
  <2>2. executed \in [Caller -> Nat] /\ backlog \in Seq(Connection)
    OBVIOUS
  <2>3. connections \in [Connection -> [ wrote : BOOLEAN, gone : BOOLEAN,
                                          closed : BOOLEAN,
                                          response : Response \cup {None} ]]
    BY DEF NoConnection
  <2>4. worker \in [ pc : {"checking", "accepting", "reading", "handling", "exited"},
                     serving : Connection \cup {None} ]
    OBVIOUS
  <2> QED
    BY <2>1, <2>2, <2>3, <2>4 DEF TransportType
<1>2. ASSUME NEW c \in Caller PROVE CallTracked(c)
  <2>1. ~ Held(c) /\ c \in Connection
    BY DEF Held, Range, Connection
  <2>2. /\ calls[c].pc = "idle" /\ calls[c].result = None
        /\ executed[c] = 0 /\ connections[c].response = None
        /\ ~ connections[c].closed
    BY <2>1 DEF NoConnection
  <2> QED
    BY <2>1, <2>2 DEF CallTracked
<1>3. WorkerTracked
  BY DEF WorkerTracked, CallersOnce, NoConnection
<1> QED
  BY <1>1, <1>2, <1>3 DEF TransportInv

\* A step of one call that touches its own entries and no connection it holds.
LEMMA CallChanges ==
  ASSUME TransportInv, NEW c \in Caller,
         calls' \in [Caller -> CallType], executed' \in [Caller -> Nat],
         \A d \in Caller \ {c} : calls'[d] = calls[d] /\ executed'[d] = executed[d],
         worker.pc = "handling" /\ worker.serving = c =>
           calls'[c].request = calls[c].request,
         UNCHANGED <<registered, serverVars>>,
         CallTracked(c)'
  PROVE  TransportInv'
<1>1. TransportType'
  BY DEF TransportInv, TransportType, serverVars
<1>2. ASSUME NEW d \in Caller PROVE CallTracked(d)'
  <2>1. CASE d = c
    BY <2>1
  <2>2. CASE d # c
    BY <2>2 DEF TransportInv, CallTracked, Held, serverVars
  <2> QED
    BY <2>1, <2>2
<1>3. WorkerTracked'
  BY DEF TransportInv, WorkerTracked, serverVars
<1> QED
  BY <1>1, <1>2, <1>3 DEF TransportInv

\* A call finds its route or returns.
LEMMA BeginCallKeeps ==
  ASSUME TransportInv, NEW c \in Caller, NEW route \in Route,
         NEW request \in Requests, NEW token \in Token,
         BeginCall(c, route, request, token)
  PROVE  TransportInv'
<1> USE TransportAssumption DEF Response
<1>1. /\ calls[c].pc = "idle" /\ executed[c] = 0 /\ calls[c].result = None
      /\ ~ Held(c) /\ connections[c].response = None /\ ~ connections[c].closed
  BY DEF BeginCall, TransportInv, CallTracked
<1>2. /\ calls' = [calls EXCEPT ![c] = calls'[c]]
      /\ calls'[c] \in CallType /\ calls'[c].request = request
      /\ calls'[c].route = route
      /\ \/ /\ calls'[c].pc = (IF route = "tcp" THEN "connecting" ELSE "found")
            /\ calls'[c].result = None /\ Admitted(route, request, token)
         \/ calls'[c].pc = "returned" /\ calls'[c].result = "refused"
      /\ UNCHANGED <<executed, registered, serverVars>>
  BY DEF BeginCall, TransportInv, TransportType, CallType
<1>3. calls' \in [Caller -> CallType] /\ \A d \in Caller \ {c} : calls'[d] = calls[d]
  BY <1>2 DEF TransportInv, TransportType
<1>4. calls'[c].pc = "found" => PositiveId(request.target)
  <2> SUFFICES ASSUME calls'[c].pc = "found" PROVE PositiveId(request.target)
    OBVIOUS
  <2>1. route = "memory" /\ Admitted(route, request, token)
    BY <1>2 DEF Route
  <2>2. request.target \in Nat \ {0}
    BY <2>1 DEF Admitted, TransportInv, TransportType
  <2> QED
    BY <2>2 DEF PositiveId
<1>5. CallTracked(c)'
  BY <1>1, <1>2, <1>4 DEF CallTracked, Held, Admitted, Route, serverVars
<1>6. ~ (worker.pc = "handling" /\ worker.serving = c)
  BY <1>1 DEF Held
<1>7. executed' \in [Caller -> Nat] /\ \A d \in Caller \ {c} : executed'[d] = executed[d]
  BY <1>2 DEF TransportInv, TransportType
<1> QED
  BY <1>2, <1>3, <1>5, <1>6, <1>7, CallChanges

\* The in-memory transport calls the handler itself.
LEMMA CallHandlerKeeps ==
  ASSUME TransportInv, NEW c \in Caller, CallHandler(c)
  PROVE  TransportInv'
<1> USE TransportAssumption DEF Response
<1>1. /\ calls[c].pc = "found" /\ executed[c] = 0 /\ ~ Held(c)
      /\ calls[c].route = "memory" /\ PositiveId(calls[c].request.target)
      /\ Validating => RequestValid(calls[c].request)
  BY DEF CallHandler, TransportInv, CallTracked
<1>2. /\ \E result \in {"ok", "error"} : Returns(c, result)
      /\ executed' = [executed EXCEPT ![c] = @ + 1]
      /\ UNCHANGED <<registered, serverVars>>
  BY DEF CallHandler, ResultOf
<1>3. /\ calls' \in [Caller -> CallType] /\ calls'[c].request = calls[c].request
      /\ calls'[c].route = calls[c].route /\ calls'[c].pc = "returned"
      /\ calls'[c].result \in {"ok", "error"}
      /\ \A d \in Caller \ {c} : calls'[d] = calls[d]
  BY <1>2, CallSet
<1>4. /\ executed' \in [Caller -> Nat] /\ executed'[c] = 1
      /\ \A d \in Caller \ {c} : executed'[d] = executed[d]
  BY <1>1, <1>2 DEF TransportInv, TransportType
<1>5. CallTracked(c)'
  BY <1>1, <1>2, <1>3, <1>4 DEF CallTracked, Held, serverVars
<1> QED
  BY <1>2, <1>3, <1>4, <1>5, CallChanges

\* A connection is queued at the listener or fails.
LEMMA ConnectKeeps ==
  ASSUME TransportInv, NEW c \in Caller, Connect(c)
  PROVE  TransportInv'
<1> USE TransportAssumption DEF Response
<1>1. /\ calls[c].pc = "connecting" /\ executed[c] = 0 /\ ~ Held(c) /\ c \in Connection
      /\ calls[c].route = "tcp" /\ RequestValid(calls[c].request)
      /\ calls[c].result = None /\ connections[c].response = None
      /\ ~ connections[c].closed
      /\ UNCHANGED <<executed, registered, connections, worker, owner>>
  BY DEF Connect, TransportInv, CallTracked, Connection
<1>2. worker.pc = "handling" /\ worker.serving = c =>
        calls'[c].request = calls[c].request
  BY <1>1 DEF Held
<1>3. /\ executed' \in [Caller -> Nat]
      /\ \A d \in Caller \ {c} : executed'[d] = executed[d]
  BY <1>1 DEF TransportInv, TransportType
<1>4. CASE ~ Listening
  <2>1. Returns(c, "error") /\ UNCHANGED <<registered, serverVars>>
    BY <1>1, <1>4 DEF Connect, serverVars
  <2>2. /\ calls' \in [Caller -> CallType]
        /\ calls'[c].pc = "returned" /\ calls'[c].route = calls[c].route
        /\ calls'[c].request = calls[c].request /\ calls'[c].result = "error"
        /\ \A d \in Caller \ {c} : calls'[d] = calls[d]
    BY <2>1, CallSet
  <2>3. CallTracked(c)'
    BY <1>1, <2>1, <2>2 DEF CallTracked, Held, serverVars
  <2> QED
    BY <1>2, <1>3, <2>1, <2>2, <2>3, CallChanges
<1>5. CASE Listening
  <2>1. Goes(c, "writing") /\ backlog' = Append(backlog, c)
    BY <1>5 DEF Connect
  <2>2. /\ calls' \in [Caller -> CallType]
        /\ calls'[c].pc = "writing" /\ calls'[c].route = calls[c].route
        /\ calls'[c].request = calls[c].request /\ calls'[c].result = calls[c].result
        /\ \A d \in Caller \ {c} : calls'[d] = calls[d]
    BY <2>1, CallSet
  <2>3. /\ Range(backlog') = Range(backlog) \cup {c} /\ backlog' \in Seq(Connection)
        /\ CallersOnce(backlog')
    BY <1>1, <2>1, Queued DEF TransportInv, TransportType, WorkerTracked, Held
  <2>4. TransportType'
    BY <1>1, <2>2, <2>3 DEF TransportInv, TransportType
  <2>5. ASSUME NEW d \in Caller PROVE CallTracked(d)'
    <3>1. CASE d = c
      BY <3>1, <1>1, <2>2 DEF CallTracked
    <3>2. CASE d # c
      BY <3>2, <1>1, <2>2, <2>3 DEF TransportInv, CallTracked, Held
    <3> QED
      BY <3>1, <3>2
  <2>6. WorkerTracked'
    BY <1>1, <2>2, <2>3 DEF TransportInv, WorkerTracked, Held
  <2> QED
    BY <2>4, <2>5, <2>6 DEF TransportInv
<1> QED
  BY <1>4, <1>5

\* A write and a read: the call moves on, and its connection loses nothing.
LEMMA WriteKeeps ==
  ASSUME TransportInv, NEW c \in Caller, Write(c) \/ Read(c)
  PROVE  TransportInv'
<1> USE TransportAssumption DEF Response
<1>1. /\ calls[c].pc \in {"writing", "reading"} /\ c \in Connection
      /\ calls[c].result = None /\ calls[c].route = "tcp"
      /\ UNCHANGED <<executed, registered, backlog, worker, owner>>
  BY DEF Write, Read, TransportInv, CallTracked, Connection
<1> DEFINE Moved ==
      /\ calls' \in [Caller -> CallType]
      /\ calls'[c].request = calls[c].request /\ calls'[c].route = "tcp"
      /\ \A d \in Caller \ {c} : calls'[d] = calls[d]
      /\ \/ calls'[c].pc = "reading" /\ calls'[c].result = None
         \/ /\ calls'[c].pc = "returned" /\ calls'[c].result \in {"ok", "error"}
            /\ calls'[c].result = "ok" => connections[c].response = "ok"
            /\ connections[c].closed
<1>2. Moved
  <2>1. CASE Goes(c, "reading")
    BY <1>1, <2>1, CallSet
  <2>2. ASSUME NEW result \in {"ok", "error"}, Returns(c, result),
               result = "ok" => connections[c].response = "ok", connections[c].closed
        PROVE  Moved
    BY <1>1, <2>2, CallSet
  <2> QED
    BY <2>1, <2>2 DEF Write, Read, ResultOf
<1>3. /\ connections' \in [Connection -> [ wrote : BOOLEAN, gone : BOOLEAN,
                                           closed : BOOLEAN,
                                           response : Response \cup {None} ]]
      /\ connections'[c].closed = connections[c].closed
      /\ connections'[c].response = connections[c].response
      /\ \A k \in Connection \ {c} : connections'[k] = connections[k]
  <2>1. connections \in [Connection -> [ wrote : BOOLEAN, gone : BOOLEAN,
                                         closed : BOOLEAN,
                                         response : Response \cup {None} ]]
    BY DEF TransportInv, TransportType
  <2>2. CASE connections' = [connections EXCEPT ![c].wrote = TRUE]
    BY <1>1, <2>1, <2>2
  <2>3. CASE connections' = [connections EXCEPT ![c].gone = TRUE]
    BY <1>1, <2>1, <2>3
  <2>4. CASE UNCHANGED connections
    BY <1>1, <2>1, <2>4
  <2> QED
    BY <2>2, <2>3, <2>4 DEF Write, Read
<1>4. TransportType'
  BY <1>1, <1>2, <1>3 DEF TransportInv, TransportType
<1>5. ASSUME NEW d \in Caller PROVE CallTracked(d)'
  <2>1. CASE d = c
    BY <2>1, <1>1, <1>2, <1>3 DEF TransportInv, CallTracked, Held
  <2>2. CASE d # c
    BY <2>2, <1>1, <1>2, <1>3 DEF TransportInv, CallTracked, Held, Connection
  <2> QED
    BY <2>1, <2>2
<1>6. WorkerTracked'
  BY <1>1, <1>2, <1>3 DEF TransportInv, WorkerTracked
<1> QED
  BY <1>4, <1>5, <1>6 DEF TransportInv

\* A handler appears or goes; the owner stores the flag or has joined.
LEMMA QuietKeeps ==
  ASSUME TransportInv,
         \/ \E n \in Registrable : Register(n) \/ Unregister(n)
         \/ StoreFlag \/ Join
         \/ UNCHANGED transportsVars
  PROVE  TransportInv'
<1>1. /\ UNCHANGED <<calls, executed, connections, backlog, worker>>
      /\ registered' \in SUBSET Registrable
  BY DEF Register, Unregister, StoreFlag, Join, serverVars, transportsVars, TransportInv,
         TransportType
<1> QED
  BY <1>1 DEF TransportInv, TransportType, CallTracked, WorkerTracked, Held

\* The worker leaves, and every connection it has not accepted is closed.
LEMMA ExitKeeps ==
  ASSUME TransportInv, worker.serving = None, Exit,
         UNCHANGED <<calls, executed, registered>>
  PROVE  TransportInv'
<1> USE TransportAssumption
<1>1. /\ worker' = [pc |-> "exited", serving |-> None] /\ backlog' = << >>
      /\ Range(backlog') = {}
  BY DEF Exit, Range
<1>2. /\ connections' \in [Connection -> [ wrote : BOOLEAN, gone : BOOLEAN,
                                           closed : BOOLEAN,
                                           response : Response \cup {None} ]]
      /\ \A k \in Connection :
           /\ connections'[k].response = connections[k].response
           /\ connections'[k].wrote = connections[k].wrote
           /\ k \notin Range(backlog) => connections'[k].closed = connections[k].closed
  <2>1. connections \in [Connection -> [ wrote : BOOLEAN, gone : BOOLEAN,
                                         closed : BOOLEAN,
                                         response : Response \cup {None} ]]
    BY DEF TransportInv, TransportType
  <2>2. connections' = [k \in Connection |->
          [connections[k] EXCEPT !.closed = @ \/ k \in Range(backlog)]]
    BY DEF Exit
  <2>3. ASSUME NEW k \in Connection
        PROVE  /\ connections'[k] \in [ wrote : BOOLEAN, gone : BOOLEAN,
                      closed : BOOLEAN, response : Response \cup {None} ]
               /\ connections'[k].response = connections[k].response
               /\ connections'[k].wrote = connections[k].wrote
               /\ k \notin Range(backlog) =>
                    connections'[k].closed = connections[k].closed
    BY <2>1, <2>2
  <2> QED
    BY <2>2, <2>3
<1>3. TransportType'
  BY <1>1, <1>2 DEF TransportInv, TransportType
<1>4. ASSUME NEW c \in Caller PROVE CallTracked(c)'
  <2>1. c \in Connection /\ ~ Held(c)'
    BY <1>1 DEF Connection, Held
  <2>2. calls[c].pc \in {"idle", "found", "connecting"} => c \notin Range(backlog)
    BY DEF TransportInv, CallTracked, Held
  <2> QED
    BY <1>2, <2>1, <2>2 DEF TransportInv, CallTracked
<1>5. WorkerTracked'
  BY <1>1, <1>2 DEF TransportInv, WorkerTracked, CallersOnce
<1> QED
  BY <1>3, <1>4, <1>5 DEF TransportInv

\* The worker goes for the flag or a connection, or reads a request.
LEMMA AcceptKeeps ==
  ASSUME TransportInv, Accept
  PROVE  TransportInv'
<1> USE TransportAssumption
<1>1. /\ worker.pc = "accepting" /\ worker.serving = None
      /\ UNCHANGED <<calls, executed, registered, connections>>
  BY DEF Accept, TransportInv, WorkerTracked
<1>2. CASE backlog # << >>
  <2> DEFINE h == Head(backlog)
  <2>1. worker' = [pc |-> "reading", serving |-> h] /\ backlog' = Tail(backlog)
    BY <1>2 DEF Accept
  <2>2. /\ backlog' \in Seq(Connection) /\ h \in Connection /\ h \in Range(backlog)
        /\ Range(backlog') \subseteq Range(backlog)
        /\ h \in Caller => h \notin Range(backlog')
        /\ CallersOnce(backlog')
    BY <1>2, <2>1, Dequeued DEF TransportInv, TransportType, WorkerTracked
  <2> HIDE DEF h
  <2>3. TransportType'
    BY <1>1, <2>1, <2>2 DEF TransportInv, TransportType
  <2>4. ASSUME NEW c \in Caller PROVE CallTracked(c)'
    <3>1. Held(c)' => Held(c)
      BY <2>1, <2>2 DEF Held
    <3> QED
      BY <1>1, <3>1 DEF TransportInv, CallTracked
  <2>5. WorkerTracked'
    BY <1>1, <2>1, <2>2 DEF TransportInv, WorkerTracked
  <2> QED
    BY <2>3, <2>4, <2>5 DEF TransportInv
<1>3. CASE backlog = << >>
  <2>1. worker' = [worker EXCEPT !.pc = "checking"] /\ UNCHANGED backlog
    BY <1>3 DEF Accept
  <2>2. worker'.pc = "checking" /\ worker'.serving = None
    BY <1>1, <2>1 DEF TransportInv, TransportType
  <2> QED
    BY <1>1, <2>1, <2>2 DEF TransportInv, TransportType, CallTracked, WorkerTracked, Held
<1> QED
  BY <1>2, <1>3

\* The worker looks at the shutdown flag, or an accept fails.
LEMMA CheckKeeps ==
  ASSUME TransportInv, CheckShutdown \/ AcceptFails
  PROVE  TransportInv'
<1>1. worker.serving = None /\ UNCHANGED <<calls, executed, registered>>
  BY DEF CheckShutdown, AcceptFails, TransportInv, WorkerTracked
<1>2. CASE Exit
  BY <1>1, <1>2, ExitKeeps
<1>3. CASE /\ worker' = [worker EXCEPT !.pc = "accepting"]
           /\ UNCHANGED <<connections, backlog>>
  <2>1. worker'.pc = "accepting" /\ worker'.serving = None
    BY <1>1, <1>3 DEF TransportInv, TransportType
  <2> QED
    BY <1>1, <1>3, <2>1 DEF TransportInv, TransportType, CallTracked, WorkerTracked, Held
<1> QED
  BY <1>2, <1>3 DEF CheckShutdown, AcceptFails

\* The served connection is closed, and was handled if it has a response.
LEMMA CloseKeeps ==
  ASSUME TransportInv, worker.serving \in Connection,
         NEW response \in Response \cup {None}, CloseServed(response),
         UNCHANGED <<calls, registered, backlog>>,
         \/ response = None /\ UNCHANGED executed
         \/ /\ worker.pc = "handling"
            /\ executed' = [executed EXCEPT ![worker.serving] = @ + 1]
  PROVE  TransportInv'
<1> USE TransportAssumption DEF Response
<1> DEFINE h == worker.serving
           new == [connections[h] EXCEPT !.closed = TRUE, !.response = response]
<1>1. /\ worker' = [pc |-> "checking", serving |-> None]
      /\ connections' = [connections EXCEPT ![h] = new]
  BY DEF CloseServed
<1>2. /\ new \in [ wrote : BOOLEAN, gone : BOOLEAN, closed : BOOLEAN,
                   response : Response \cup {None} ]
      /\ new.wrote = connections[h].wrote /\ new.response = response
  BY DEF TransportInv, TransportType
<1>3. worker.pc = "handling" =>
        /\ h \in Caller /\ executed[h] = 0
        /\ PositiveId(calls[h].request.target) /\ RequestValid(calls[h].request)
  BY DEF TransportInv, WorkerTracked, CallTracked, Held, TcpRequestValid
<1>4. h \in Caller => /\ executed[h] = 0 /\ h \notin Range(backlog)
                      /\ calls[h].pc \in {"writing", "reading"}
  BY DEF TransportInv, WorkerTracked, CallTracked, Held
<1> HIDE DEF new
<1>5. /\ connections' \in [Connection -> [ wrote : BOOLEAN, gone : BOOLEAN,
                                           closed : BOOLEAN,
                                           response : Response \cup {None} ]]
      /\ connections'[h] = new
      /\ \A k \in Connection \ {h} : connections'[k] = connections[k]
  BY <1>1, <1>2 DEF TransportInv, TransportType
<1> HIDE DEF h
<1>6. /\ executed' \in [Caller -> Nat]
      /\ \A c \in Caller \ {h} : executed'[c] = executed[c]
      /\ response # None => executed'[h] = 1
      /\ h \in Caller => executed'[h] <= 1
      /\ h \in Caller /\ executed'[h] = 1 => worker.pc = "handling"
  <2>1. CASE response = None /\ UNCHANGED executed
    BY <2>1, <1>4 DEF TransportInv, TransportType
  <2>2. CASE worker.pc = "handling" /\ executed' = [executed EXCEPT ![h] = @ + 1]
    BY <2>2, <1>3 DEF TransportInv, TransportType
  <2> QED
    BY <2>1, <2>2 DEF h
<1>7. TransportType'
  BY <1>1, <1>5, <1>6 DEF TransportInv, TransportType
<1>8. ASSUME NEW c \in Caller PROVE CallTracked(c)'
  <2>1. CASE c = h
    <3>1. ~ Held(c)'
      BY <2>1, <1>1, <1>4 DEF Held
    <3> QED
      BY <2>1, <3>1, <1>2, <1>3, <1>4, <1>5, <1>6 DEF TransportInv, CallTracked
  <2>2. CASE c # h
    <3>1. Held(c)' => Held(c)
      BY <1>1 DEF Held
    <3>2. c \in Connection
      BY DEF Connection
    <3> QED
      BY <2>2, <3>1, <3>2, <1>5, <1>6 DEF TransportInv, CallTracked
  <2> QED
    BY <2>1, <2>2
<1>9. WorkerTracked'
  BY <1>1, <1>2, <1>5 DEF TransportInv, WorkerTracked
<1> QED
  BY <1>7, <1>8, <1>9 DEF TransportInv

\* The worker reads a request, or answers it.
LEMMA ServeKeeps ==
  ASSUME TransportInv, ReadRequest \/ Handle
  PROVE  TransportInv'
<1> USE TransportAssumption DEF Response
<1>1. worker.serving \in Connection /\ UNCHANGED <<calls, registered, backlog>>
  BY DEF ReadRequest, Handle, TransportInv, WorkerTracked
<1>2. CASE Handle
  BY <1>1, <1>2, CloseKeeps DEF Handle
<1>3. CASE ReadRequest /\ CloseServed(None)
  BY <1>1, <1>3, CloseKeeps DEF ReadRequest
<1>4. CASE /\ connections[worker.serving].wrote
           /\ TcpRequestValid(calls[worker.serving].request)
           /\ worker' = [worker EXCEPT !.pc = "handling"]
           /\ UNCHANGED <<connections, executed>>
  <2>1. worker'.pc = "handling" /\ worker'.serving = worker.serving
    BY <1>4 DEF TransportInv, TransportType
  <2>2. worker.serving \in Caller
    BY <1>1, <1>4 DEF TransportInv, WorkerTracked
  <2>3. TransportType'
    BY <1>1, <1>4 DEF TransportInv, TransportType
  <2> QED
    BY <1>1, <1>4, <2>1, <2>2, <2>3 DEF TransportInv, CallTracked, WorkerTracked, Held
<1> QED
  BY <1>2, <1>3, <1>4 DEF ReadRequest

\* A connection of nobody's call joins the backlog, or its peer goes away.
LEMMA StrangerKeeps ==
  ASSUME TransportInv,
         WakeUp \/ \E s \in SilentPeer : SilentConnects(s) \/ SilentLeaves(s)
  PROVE  TransportInv'
<1> USE TransportAssumption
<1>1. PICK k \in SilentPeer \cup {Wake} :
        /\ UNCHANGED <<calls, executed, registered, worker>>
        /\ backlog' = Append(backlog, k) \/ UNCHANGED backlog
        /\ connections' = [connections EXCEPT ![k].gone = TRUE] \/ UNCHANGED connections
  BY DEF WakeUp, SilentConnects, SilentLeaves
<1>2. k \in Connection /\ k \notin Caller
  BY <1>1 DEF Connection
<1>3. /\ connections' \in [Connection -> [ wrote : BOOLEAN, gone : BOOLEAN,
                                           closed : BOOLEAN,
                                           response : Response \cup {None} ]]
      /\ connections'[k].wrote = connections[k].wrote
      /\ \A d \in Connection \ {k} : connections'[d] = connections[d]
  <2>1. connections \in [Connection -> [ wrote : BOOLEAN, gone : BOOLEAN,
                                         closed : BOOLEAN,
                                         response : Response \cup {None} ]]
    BY DEF TransportInv, TransportType
  <2>2. CASE connections' = [connections EXCEPT ![k].gone = TRUE]
    BY <1>2, <2>1, <2>2
  <2>3. CASE UNCHANGED connections
    BY <1>2, <2>1, <2>3
  <2> QED
    BY <1>1, <2>2, <2>3
<1>4. /\ backlog' \in Seq(Connection) /\ CallersOnce(backlog')
      /\ Range(backlog') \subseteq Range(backlog) \cup {k}
  <2>1. backlog \in Seq(Connection) /\ CallersOnce(backlog)
    BY DEF TransportInv, TransportType, WorkerTracked
  <2>2. /\ Append(backlog, k) \in Seq(Connection) /\ CallersOnce(Append(backlog, k))
        /\ Range(Append(backlog, k)) = Range(backlog) \cup {k}
    BY <1>2, <2>1, Queued
  <2> QED
    BY <1>1, <2>1, <2>2
<1>5. TransportType'
  BY <1>1, <1>3, <1>4 DEF TransportInv, TransportType
<1>6. ASSUME NEW c \in Caller PROVE CallTracked(c)'
  <2>1. c \in Connection \ {k}
    BY <1>2 DEF Connection
  <2>2. Held(c)' => Held(c)
    BY <1>1, <1>4, <2>1 DEF Held
  <2> QED
    BY <1>1, <1>3, <2>1, <2>2 DEF TransportInv, CallTracked
<1>7. WorkerTracked'
  BY <1>1, <1>2, <1>3, <1>4 DEF TransportInv, WorkerTracked
<1> QED
  BY <1>5, <1>6, <1>7 DEF TransportInv

\* Every step keeps the invariant.
LEMMA TransportKeeps == TransportInv /\ [TransportsNext]_transportsVars => TransportInv'
<1> SUFFICES ASSUME TransportInv, [TransportsNext]_transportsVars PROVE TransportInv'
  OBVIOUS
<1>1. CASE \E c \in Caller, route \in Route, request \in Requests, token \in Token :
             BeginCall(c, route, request, token)
  BY <1>1, BeginCallKeeps
<1>2. CASE \E c \in Caller : CallerStep(c)
  BY <1>2, CallHandlerKeeps, ConnectKeeps, WriteKeeps DEF CallerStep
<1>3. CASE Work \/ AcceptFails
  BY <1>3, CheckKeeps, AcceptKeeps, ServeKeeps DEF Work
<1>4. CASE WakeUp \/ \E s \in SilentPeer : SilentConnects(s) \/ SilentLeaves(s)
  BY <1>4, StrangerKeeps
<1>5. CASE \/ \E n \in Registrable : Register(n) \/ Unregister(n)
           \/ StoreFlag \/ Join
           \/ UNCHANGED transportsVars
  BY <1>5, QuietKeeps
<1> QED
  BY <1>1, <1>2, <1>3, <1>4, <1>5 DEF TransportsNext

--------------------------------------------------------------------------------
\* Calls, connections and the worker stay in step, whatever shutdown, a failed
\* accept or a stranger does (the serve loop and the two transports).
THEOREM TransportSafety == TransportsSpec => []TransportInv
<1> QED
  BY TransportInit, TransportKeeps, PTL DEF TransportsSpec

\* A result means what it says: ok that the request was run once and was fit to
\* run, refused that it was not run, and nothing is run twice.
THEOREM HandledOnce == TransportsSpec => []AnsweredMeansHandled
<1>1. TransportInv => AnsweredMeansHandled
  BY DEF TransportInv, CallTracked, AnsweredMeansHandled
<1> QED
  BY <1>1, TransportSafety, PTL

--------------------------------------------------------------------------------
(***************************************************************************)
(* What the operators on one member return, whatever the order of its log. *)
(***************************************************************************)

\* What is kept of a log is a log, and above the index.
LEMMA EntriesAboveTyped ==
  ASSUME NEW E, NEW log \in Seq(E), NEW index
  PROVE  /\ EntriesAbove(log, index) \in Seq(E)
         /\ \A k \in DOMAIN EntriesAbove(log, index) :
              EntriesAbove(log, index)[k].index > index
<1> DEFINE kept == {k \in DOMAIN log : log[k].index > index}
           nth(j) == CHOOSE k \in kept : Cardinality({m \in kept : m <= k}) = j
<1>1. /\ Len(log) \in Nat /\ DOMAIN log = 1 .. Len(log)
      /\ \A k \in DOMAIN log : log[k] \in E
  BY ElementOfSeq, LenProperties
<1>2. kept \in SUBSET Nat /\ IsFiniteSet(kept) /\ Cardinality(kept) \in Nat
  <2>1. IsFiniteSet(1 .. Len(log))
    BY <1>1, FS_Interval
  <2>2. IsFiniteSet(kept)
    BY <1>1, <2>1, FS_Subset
  <2> QED
    BY <1>1, <2>2, FS_CardinalityType
<1>3. EntriesAbove(log, index) = [j \in 1 .. Cardinality(kept) |-> log[nth(j)]]
  BY DEF EntriesAbove
<1> HIDE DEF kept
<1>4. ASSUME NEW j \in 1 .. Cardinality(kept)
      PROVE  nth(j) \in kept
  BY <1>2, Numbered
<1>5. \A j \in 1 .. Cardinality(kept) : log[nth(j)] \in E /\ log[nth(j)].index > index
  BY <1>1, <1>4 DEF kept
<1> HIDE DEF nth
<1> QED
  BY <1>2, <1>3, <1>5, IsASeq

\* append_entry leaves the entry at the end of the log.
LEMMA AppendEntryLast ==
  ASSUME NEW E, NEW log \in Seq(E), NEW e \in E
  PROVE  /\ AppendEntry(log, e) \in Seq(E)
         /\ AppendEntry(log, e) # << >>
         /\ LastIndex(AppendEntry(log, e)) = e.index
<1> DEFINE same == {k \in DOMAIN log : log[k].index = e.index}
           cut == SubSeq(log, 1, Min(same) - 1)
<1>1. /\ Len(log) \in Nat /\ DOMAIN log = 1 .. Len(log)
      /\ \A k \in DOMAIN log : log[k] \in E
  BY ElementOfSeq, LenProperties
<1>2. \E before \in Seq(E) : AppendEntry(log, e) = Append(before, e)
  <2>1. CASE same = {}
    BY <2>1 DEF AppendEntry
  <2>2. CASE same # {}
    <3> DEFINE m == Min(same)
               n == m - 1
    <3>1. m \in same
      <4>1. same \in SUBSET Nat
        BY <1>1
      <4> HIDE DEF same
      <4> QED
        BY <2>2, <4>1, MinNat
    <3>2. AppendEntry(log, e) = Append(SubSeq(log, 1, n), e)
      BY <2>2 DEF AppendEntry
    <3> HIDE DEF m
    <3>3. n \in Nat /\ \A i \in 1 .. n : log[i] \in E
      BY <1>1, <3>1
    <3> HIDE DEF n
    <3>4. SubSeq(log, 1, n) \in Seq(E)
      BY <3>3, SubSeqProperties
    <3> QED
      BY <3>2, <3>4
  <2> QED
    BY <2>1, <2>2
<1>3. PICK before \in Seq(E) : AppendEntry(log, e) = Append(before, e)
  BY <1>2
<1>4. /\ Append(before, e) \in Seq(E) /\ Append(before, e) # << >>
      /\ Append(before, e)[Len(Append(before, e))] = e
  BY AppendProperties, LenProperties
<1> QED
  BY <1>3, <1>4 DEF LastIndex

\* The steps g of the loop of append_entry over es.
Steps(log, es, g) ==
  /\ g[0] = log
  /\ \A i \in 1 .. Len(es) : g[i] = AppendEntry(g[i - 1], es[i])

Distinct(es) == \A i, j \in DOMAIN es : es[i].index = es[j].index => i = j

\* None of the entries has an index of the log or of another entry.
AllFresh(log, es) ==
  /\ \A i \in DOMAIN es, k \in DOMAIN log : log[k].index # es[i].index
  /\ Distinct(es)

\* append_entries pushes the entries, or is the loop, which leaves a log.
LEMMA AppendEntriesSteps ==
  ASSUME NEW E, NEW log \in Seq(E), NEW es \in Seq(E)
  PROVE  /\ AllFresh(log, es) => AppendEntries(log, es) = log \o es
         /\ ~ AllFresh(log, es) =>
              \E g : Steps(log, es, g) /\ AppendEntries(log, es) = g[Len(es)]
         /\ AppendEntries(log, es) \in Seq(E)
<1> DEFINE n == Len(es)
           Loop(g, m) == g = [i \in 0 .. m |->
                                IF i = 0 THEN log ELSE AppendEntry(g[i - 1], es[i])]
           appended == CHOOSE g : Loop(g, n)
<1>1. n \in Nat /\ \A i \in 1 .. n : es[i] \in E
  BY ElementOfSeq, LenProperties
<1>2. AppendEntries(log, es) = IF AllFresh(log, es) THEN log \o es ELSE appended[n]
  BY DEF AppendEntries, AllFresh, Distinct
<1>3. log \o es \in Seq(E)
  BY ConcatProperties
<1> HIDE DEF n
<1> DEFINE Solved == {m \in Nat : m <= n => \E g : Loop(g, m) /\ g[m] \in Seq(E)}
<1>4. Solved \in SUBSET Nat
  OBVIOUS
<1>5. 0 \in Solved
  <2> DEFINE g == [i \in 0 .. 0 |-> log]
  <2>1. Loop(g, 0)
    OBVIOUS
  <2>2. g[0] \in Seq(E)
    OBVIOUS
  <2> QED
    BY <2>1, <2>2
<1>6. ASSUME NEW m \in Solved PROVE m + 1 \in Solved
  <2>1. m \in Nat
    BY <1>4
  <2> SUFFICES ASSUME m + 1 <= n
               PROVE  \E g : Loop(g, m + 1) /\ g[m + 1] \in Seq(E)
    BY <2>1
  <2>2. m <= n /\ m + 1 \in 1 .. n
    BY <1>1, <2>1
  <2>3. PICK g : Loop(g, m) /\ g[m] \in Seq(E)
    BY <2>2
  <2> DEFINE next == AppendEntry(g[m], es[m + 1])
             h == [i \in 0 .. m + 1 |-> IF i = m + 1 THEN next ELSE g[i]]
  <2>4. next \in Seq(E)
    BY <1>1, <2>2, <2>3, AppendEntryLast
  <2>5. h[m] = g[m] /\ h[m + 1] = next /\ \A i \in 0 .. m : h[i] = g[i]
    BY <2>1
  <2>6. Loop(h, m + 1)
    <3>1. \A i \in 0 .. m + 1 :
            h[i] = IF i = 0 THEN log ELSE AppendEntry(h[i - 1], es[i])
      <4> SUFFICES ASSUME NEW i \in 0 .. m + 1
                   PROVE  h[i] = IF i = 0 THEN log ELSE AppendEntry(h[i - 1], es[i])
        OBVIOUS
      <4>1. CASE i = m + 1
        <5>1. i # 0 /\ i - 1 = m
          BY <2>1, <4>1
        <5> HIDE DEF h
        <5> QED
          BY <2>5, <4>1, <5>1
      <4>2. CASE i \in 0 .. m
        <5>1. g[i] = IF i = 0 THEN log ELSE AppendEntry(g[i - 1], es[i])
          BY <2>3, <4>2
        <5>2. i # 0 => i - 1 \in 0 .. m
          BY <2>1, <4>2
        <5> HIDE DEF h
        <5> QED
          BY <2>5, <4>2, <5>1, <5>2
      <4> QED
        BY <2>1, <4>1, <4>2
    <3>2. h = [i \in 0 .. m + 1 |-> h[i]]
      OBVIOUS
    <3> HIDE DEF h
    <3> QED
      BY <3>1, <3>2
  <2> HIDE DEF h
  <2> QED
    BY <2>4, <2>5, <2>6
<1>7. n \in Solved
  <2>1. \A m \in Nat : m \in Solved
    <3> HIDE DEF Solved
    <3> QED
      BY <1>4, <1>5, <1>6, NatSet
  <2> QED
    BY <1>1, <2>1
<1>8. \E g : Loop(g, n) /\ g[n] \in Seq(E)
  BY <1>1, <1>7
<1>9. ASSUME NEW g, NEW h, Loop(g, n), Loop(h, n)
      PROVE  g = h
  <2> DEFINE Same == {i \in Nat : i <= n => g[i] = h[i]}
  <2>1. 0 \in Same
    BY <1>1, <1>9
  <2>2. ASSUME NEW i \in Same PROVE i + 1 \in Same
    <3>1. i \in Nat
      BY <2>2
    <3>2. CASE i + 1 <= n
      <4>1. i + 1 \in 0 .. n /\ i + 1 # 0 /\ (i + 1) - 1 = i /\ i <= n
        BY <1>1, <3>1, <3>2
      <4>2. g[i] = h[i]
        BY <2>2, <4>1
      <4>3. g[i + 1] = AppendEntry(g[i], es[i + 1])
        BY <1>9, <4>1
      <4>4. h[i + 1] = AppendEntry(h[i], es[i + 1])
        BY <1>9, <4>1
      <4> QED
        BY <3>1, <4>2, <4>3, <4>4
    <3> QED
      BY <3>1, <3>2
  <2>3. Same \in SUBSET Nat
    OBVIOUS
  <2>4. \A i \in Nat : i \in Same
    <3> HIDE DEF Same
    <3> QED
      BY <2>1, <2>2, <2>3, NatSet
  <2>5. \A i \in 0 .. n : g[i] = h[i]
    BY <1>1, <2>4
  <2>6. g = [i \in 0 .. n |-> g[i]] /\ h = [i \in 0 .. n |-> h[i]]
    BY <1>9
  <2> QED
    BY <2>5, <2>6
<1>10. Loop(appended, n)
  <2>1. \E g : Loop(g, n)
    BY <1>8
  <2> HIDE DEF Loop
  <2> QED
    BY <2>1
<1>11. appended[n] \in Seq(E)
  <2>1. PICK g : Loop(g, n) /\ g[n] \in Seq(E)
    BY <1>8
  <2> HIDE DEF Loop, appended
  <2>2. g = appended
    BY <1>9, <1>10, <2>1
  <2> QED
    BY <2>1, <2>2
<1>12. Steps(log, es, appended)
  <2>1. n \in Nat /\ appended = [i \in 0 .. n |->
                 IF i = 0 THEN log ELSE AppendEntry(appended[i - 1], es[i])]
    BY <1>1, <1>10
  <2> HIDE DEF appended
  <2>2. appended[0] = log
    BY <2>1
  <2>3. \A i \in 1 .. n : appended[i] = AppendEntry(appended[i - 1], es[i])
    BY <2>1
  <2> QED
    BY <2>2, <2>3 DEF Steps, n
<1> HIDE DEF appended
<1> QED
  BY <1>2, <1>3, <1>11, <1>12 DEF n

\* append_entries leaves a log.
LEMMA AppendEntriesTyped ==
  ASSUME NEW E, NEW log \in Seq(E), NEW es \in Seq(E)
  PROVE  AppendEntries(log, es) \in Seq(E)
  BY AppendEntriesSteps

\* s is the log after the first m entries of es: b entries of the log, then the
\* entries since the one, the j + 1st, that last met its own index in the log.
Built(s, log, es, b, j, m) ==
  /\ b \in 0 .. Len(log) /\ j \in 0 .. m /\ (m > 0 => j < m)
  /\ Len(s) = b + (m - j)
  /\ \A k \in 1 .. b : s[k] = log[k]
  /\ \A k \in j + 1 .. m : s[b + (k - j)] = es[k]
  /\ \A k \in 1 .. b, i \in 1 .. m : log[k].index # es[i].index
  /\ \/ b = Len(log) /\ j = 0
     \/ b < Len(log) /\ j < m /\ log[b + 1].index = es[j + 1].index

\* One more entry.
LEMMA AppendEntryBuilds ==
  ASSUME NEW E, NEW log \in Seq(E), NEW es \in Seq(E), Distinct(es),
         NEW m \in Nat, m + 1 <= Len(es), NEW s \in Seq(E), NEW b, NEW j,
         Built(s, log, es, b, j, m)
  PROVE  \E c, i : Built(AppendEntry(s, es[m + 1]), log, es, c, i, m + 1)
<1> DEFINE e == es[m + 1]
           same == {k \in DOMAIN s : s[k].index = e.index}
           next == AppendEntry(s, e)
<1>1. /\ Len(log) \in Nat /\ Len(es) \in Nat /\ Len(s) \in Nat
      /\ DOMAIN s = 1 .. Len(s) /\ DOMAIN es = 1 .. Len(es)
      /\ e \in E /\ m + 1 \in 1 .. Len(es)
      /\ \A k \in 1 .. Len(s) : s[k] \in E
  BY LenProperties, ElementOfSeq
<1>2. /\ b \in Nat /\ b <= Len(log) /\ j \in Nat /\ j <= m /\ (m > 0 => j < m)
      /\ Len(s) = b + (m - j)
  BY <1>1 DEF Built
<1>3. \A k \in 1 .. b : s[k] = log[k]
  BY DEF Built
<1>4. \A k \in j + 1 .. m : s[b + (k - j)] = es[k]
  BY DEF Built
<1>5. \A k \in 1 .. b, i \in 1 .. m : log[k].index # es[i].index
  BY DEF Built
<1>6. \/ b = Len(log) /\ j = 0
      \/ b < Len(log) /\ j < m /\ log[b + 1].index = es[j + 1].index
  BY DEF Built
<1>7. same \subseteq 1 .. b
  <2> SUFFICES ASSUME NEW k \in DOMAIN s, k > b
               PROVE  s[k].index # e.index
    BY <1>1, <1>2
  <2> DEFINE i == j + (k - b)
  <2>1. i \in j + 1 .. m /\ b + (i - j) = k /\ i # m + 1 /\ i \in 1 .. Len(es)
    BY <1>1, <1>2
  <2> HIDE DEF i
  <2>2. s[k] = es[i]
    BY <1>4, <2>1
  <2> QED
    BY <1>1, <2>1, <2>2 DEF Distinct
<1>8. CASE same = {}
  <2>1. next = Append(s, e)
    BY <1>8 DEF AppendEntry
  <2> HIDE DEF same, next, e
  <2>2. /\ Len(next) = Len(s) + 1
        /\ \A k \in 1 .. Len(s) : next[k] = s[k]
        /\ next[Len(s) + 1] = e
    BY <1>1, <2>1, AppendProperties
  <2>3. Len(next) = b + ((m + 1) - j)
    BY <1>2, <2>2
  <2>4. \A k \in 1 .. b : next[k] = log[k]
    BY <1>2, <1>3, <2>2
  <2>5. ASSUME NEW k \in j + 1 .. m + 1 PROVE next[b + (k - j)] = es[k]
    <3>1. CASE k = m + 1
      <4>1. b + (k - j) = Len(s) + 1
        BY <1>2, <3>1
      <4> QED
        BY <2>2, <3>1, <4>1 DEF e
    <3>2. CASE k \in j + 1 .. m
      BY <1>2, <1>4, <2>2, <3>2
    <3> QED
      BY <1>2, <3>1, <3>2
  <2>6. ASSUME NEW k \in 1 .. b, NEW i \in 1 .. m + 1
        PROVE  log[k].index # es[i].index
    <3>1. CASE i = m + 1
      <4>1. s[k].index # e.index /\ s[k] = log[k]
        BY <1>1, <1>2, <1>3, <1>8 DEF same
      <4> QED
        BY <3>1, <4>1 DEF e
    <3>2. CASE i \in 1 .. m
      BY <1>5, <3>2
    <3> QED
      BY <3>1, <3>2
  <2>7. Built(next, log, es, b, j, m + 1)
    BY <1>1, <1>2, <1>6, <2>3, <2>4, <2>5, <2>6 DEF Built
  <2> QED
    BY <2>7 DEF next, e
<1>9. CASE same # {}
  <2> DEFINE p == Min(same)
             c == p - 1
             cut == SubSeq(s, 1, c)
  <2>1. p \in same /\ \A k \in same : p <= k
    <3>1. same \in SUBSET Nat
      BY <1>1
    <3> HIDE DEF same
    <3> QED
      BY <1>9, <3>1, MinNat
  <2>2. next = Append(cut, e)
    BY <1>9 DEF AppendEntry
  <2>3. p \in 1 .. b /\ s[p].index = e.index
    BY <1>7, <2>1
  <2>4. ASSUME NEW k \in 1 .. c PROVE s[k].index # e.index
    <3> HIDE DEF p
    <3>1. k \in DOMAIN s /\ ~ (p <= k)
      BY <1>1, <1>2, <2>3
    <3> QED
      BY <2>1, <3>1
  <2> HIDE DEF p, same, next, e
  <2>5. c \in Nat /\ c + 1 = p /\ c < b
    BY <1>2, <2>3
  <2> HIDE DEF c
  <2>6. cut \in Seq(E) /\ Len(cut) = c /\ \A k \in 1 .. c : cut[k] = s[k]
    <3>1. \A k \in 1 .. c : s[k] \in E
      BY <1>1, <1>2, <2>5
    <3> QED
      BY <2>5, <3>1, SubSeqProperties
  <2> HIDE DEF cut
  <2>7. /\ Len(next) = c + 1
        /\ \A k \in 1 .. c : next[k] = cut[k]
        /\ next[c + 1] = e
    BY <1>1, <2>2, <2>6, AppendProperties
  <2>8. Len(next) = c + ((m + 1) - m)
    BY <2>5, <2>7
  <2>9. ASSUME NEW k \in 1 .. c PROVE next[k] = log[k]
    <3>1. k \in 1 .. b
      BY <1>2, <2>5
    <3> QED
      BY <1>3, <2>6, <2>7, <3>1
  <2>10. \A k \in m + 1 .. m + 1 : next[c + (k - m)] = es[k]
    BY <2>5, <2>7 DEF e
  <2>11. ASSUME NEW k \in 1 .. c, NEW i \in 1 .. m + 1
         PROVE  log[k].index # es[i].index
    <3>1. k \in 1 .. b
      BY <1>2, <2>5
    <3>2. CASE i = m + 1
      BY <1>3, <2>4, <3>1, <3>2 DEF e
    <3> QED
      BY <1>5, <3>1, <3>2
  <2>12. c < Len(log) /\ log[c + 1].index = es[m + 1].index
    BY <1>1, <1>2, <1>3, <2>3, <2>5 DEF e
  <2>13. Built(next, log, es, c, m, m + 1)
    BY <1>1, <1>2, <2>5, <2>8, <2>9, <2>10, <2>11, <2>12 DEF Built
  <2> QED
    BY <2>13 DEF next, e
<1> QED
  BY <1>8, <1>9

\* append_entries, of entries no two of which have the same index.
LEMMA AppendEntriesBuilds ==
  ASSUME NEW E, NEW log \in Seq(E), NEW es \in Seq(E), Distinct(es)
  PROVE  \E b, j : Built(AppendEntries(log, es), log, es, b, j, Len(es))
<1> DEFINE n == Len(es)
<1>1. /\ Len(log) \in Nat /\ n \in Nat
      /\ DOMAIN log = 1 .. Len(log) /\ DOMAIN es = 1 .. n
      /\ \A i \in 1 .. n : es[i] \in E
  BY LenProperties, ElementOfSeq
<1>2. CASE AllFresh(log, es)
  <2>1. AppendEntries(log, es) = log \o es
    BY <1>2, AppendEntriesSteps
  <2> DEFINE s == log \o es
  <2>2. /\ Len(s) = Len(log) + n
        /\ \A k \in 1 .. Len(log) : s[k] = log[k]
        /\ \A k \in 1 .. n : s[Len(log) + k] = es[k]
    <3>1. /\ Len(s) = Len(log) + n
          /\ \A k \in 1 .. Len(log) + n :
               s[k] = IF k <= Len(log) THEN log[k] ELSE es[k - Len(log)]
      BY ConcatProperties
    <3> HIDE DEF s, n
    <3>2. \A k \in 1 .. Len(log) : s[k] = log[k]
      BY <1>1, <3>1
    <3>3. ASSUME NEW k \in 1 .. n PROVE s[Len(log) + k] = es[k]
      <4>1. /\ Len(log) + k \in 1 .. Len(log) + n /\ ~ (Len(log) + k <= Len(log))
            /\ (Len(log) + k) - Len(log) = k
        BY <1>1
      <4> QED
        BY <3>1, <4>1
    <3> QED
      BY <3>1, <3>2, <3>3
  <2> HIDE DEF s
  <2>3. \A k \in 1 .. Len(log), i \in 1 .. n : log[k].index # es[i].index
    BY <1>1, <1>2 DEF AllFresh
  <2> HIDE DEF n
  <2>4. Len(s) = Len(log) + (n - 0)
    BY <1>1, <2>2
  <2>5. \A k \in 0 + 1 .. n : s[Len(log) + (k - 0)] = es[k]
    BY <1>1, <2>2
  <2>6. Built(s, log, es, Len(log), 0, n)
    BY <1>1, <2>2, <2>3, <2>4, <2>5 DEF Built
  <2> QED
    BY <2>1, <2>6 DEF s, n
<1>3. CASE ~ AllFresh(log, es)
  <2>1. PICK g : Steps(log, es, g) /\ AppendEntries(log, es) = g[n]
    BY <1>3, AppendEntriesSteps
  <2> HIDE DEF n
  <2>2. /\ g[0] = log
        /\ \A i \in 1 .. n : g[i] = AppendEntry(g[i - 1], es[i])
    BY <2>1 DEF Steps, n
  <2> DEFINE Good(m) == g[m] \in Seq(E) /\ \E b, j : Built(g[m], log, es, b, j, m)
             Done == {m \in Nat : m <= n => Good(m)}
  <2>3. Good(0)
    <3>1. Built(log, log, es, Len(log), 0, 0)
      BY <1>1 DEF Built
    <3> QED
      BY <2>2, <3>1
  <2>4. ASSUME NEW m \in Nat, m + 1 <= n, Good(m) PROVE Good(m + 1)
    <3>1. /\ m + 1 \in 1 .. n /\ (m + 1) - 1 = m
          /\ es[m + 1] \in E
      BY <1>1, <2>4
    <3>2. g[m + 1] = AppendEntry(g[m], es[m + 1])
      BY <2>2, <3>1
    <3>3. g[m] \in Seq(E)
      BY <2>4
    <3>4. PICK b, j : Built(g[m], log, es, b, j, m)
      BY <2>4
    <3>5. \E c, i : Built(AppendEntry(g[m], es[m + 1]), log, es, c, i, m + 1)
      BY <2>4, <3>3, <3>4, AppendEntryBuilds DEF n
    <3>6. AppendEntry(g[m], es[m + 1]) \in Seq(E)
      BY <3>1, <3>3, AppendEntryLast
    <3> QED
      BY <3>2, <3>5, <3>6
  <2>5. Done \in SUBSET Nat
    OBVIOUS
  <2>6. 0 \in Done
    BY <2>3
  <2>7. ASSUME NEW m \in Done PROVE m + 1 \in Done
    <3> HIDE DEF Good
    <3> QED
      BY <1>1, <2>4
  <2> HIDE DEF Done
  <2>8. \A m \in Nat : m \in Done
    BY <2>5, <2>6, <2>7, NatSet
  <2>9. Good(n)
    <3> HIDE DEF Good
    <3> QED
      BY <1>1, <2>8 DEF Done
  <2> QED
    BY <2>1, <2>9 DEF n
<1> QED
  BY <1>2, <1>3

\* The same entries again change nothing, whatever the order of the log.
LEMMA AppendEntriesTwice ==
  ASSUME NEW E, NEW log \in Seq(E), NEW es \in Seq(E), Distinct(es)
  PROVE  AppendEntries(AppendEntries(log, es), es) = AppendEntries(log, es)
<1> DEFINE n == Len(es)
           s == AppendEntries(log, es)
           t == AppendEntries(s, es)
<1>1. s \in Seq(E) /\ t \in Seq(E)
  BY AppendEntriesTyped
<1>2. PICK b, j : Built(s, log, es, b, j, n)
  BY AppendEntriesBuilds
<1> HIDE DEF s
<1>3. PICK c, i : Built(t, s, es, c, i, n)
  BY <1>1, AppendEntriesBuilds
<1> HIDE DEF t
<1>4. /\ n \in Nat /\ DOMAIN es = 1 .. n /\ Len(s) \in Nat /\ Len(t) \in Nat
      /\ Len(log) \in Nat
  BY <1>1, LenProperties
<1> HIDE DEF n
<1>5. /\ b \in Nat /\ j \in Nat /\ j <= n /\ (n > 0 => j < n)
      /\ Len(s) = b + (n - j)
      /\ \A k \in 1 .. b : s[k] = log[k]
      /\ \A k \in j + 1 .. n : s[b + (k - j)] = es[k]
      /\ \A k \in 1 .. b, l \in 1 .. n : log[k].index # es[l].index
  BY <1>2, <1>4 DEF Built
<1>6. /\ c \in Nat /\ c <= Len(s) /\ i \in Nat /\ i <= n /\ (n > 0 => i < n)
      /\ Len(t) = c + (n - i)
      /\ \A k \in 1 .. c : t[k] = s[k]
      /\ \A k \in i + 1 .. n : t[c + (k - i)] = es[k]
      /\ \A k \in 1 .. c, l \in 1 .. n : s[k].index # es[l].index
      /\ \/ c = Len(s) /\ i = 0
         \/ c < Len(s) /\ i < n /\ s[c + 1].index = es[i + 1].index
  BY <1>3, <1>4 DEF Built
<1>7. CASE n = 0
  <2>1. Len(t) = Len(s) /\ \A k \in 1 .. Len(s) : t[k] = s[k]
    BY <1>4, <1>5, <1>6, <1>7
  <2>2. t = s
    BY <1>1, <2>1, SeqEqual
  <2> QED
    BY <2>2 DEF t, s
<1>8. CASE n > 0
  <2>1. j < n /\ i < n /\ j + 1 \in 1 .. n
    BY <1>4, <1>5, <1>6, <1>8
  <2>2. s[b + 1] = es[j + 1]
    <3>1. j + 1 \in j + 1 .. n /\ b + ((j + 1) - j) = b + 1
      BY <1>4, <1>5, <2>1
    <3> QED
      BY <1>5, <3>1
  <2>3. c <= b
    <3> SUFFICES ASSUME b < c PROVE FALSE
      BY <1>5, <1>6
    <3>1. b + 1 \in 1 .. c
      BY <1>5, <1>6
    <3> QED
      BY <1>6, <2>1, <2>2, <3>1
  <2>4. c < Len(s) /\ s[c + 1].index = es[i + 1].index
    BY <1>4, <1>5, <1>6, <2>1, <2>3
  <2>5. c = b
    <3> SUFFICES ASSUME c < b PROVE FALSE
      BY <1>5, <1>6, <2>3
    <3>1. c + 1 \in 1 .. b /\ i + 1 \in 1 .. n
      BY <1>4, <1>5, <1>6, <2>1
    <3> QED
      BY <1>5, <2>4, <3>1
  <2>6. i = j
    <3>1. es[i + 1].index = es[j + 1].index
      BY <2>2, <2>4, <2>5
    <3>2. i + 1 \in DOMAIN es /\ j + 1 \in DOMAIN es
      BY <1>4, <1>5, <1>6, <2>1
    <3>3. i + 1 = j + 1
      BY <3>1, <3>2 DEF Distinct
    <3> QED
      BY <1>5, <1>6, <3>3
  <2>7. Len(t) = Len(s)
    BY <1>5, <1>6, <2>5, <2>6
  <2>8. ASSUME NEW k \in 1 .. Len(t) PROVE t[k] = s[k]
    <3>1. CASE k <= b
      BY <1>5, <1>6, <2>5, <3>1
    <3>2. CASE k > b
      <4> DEFINE l == j + (k - b)
      <4>1. l \in j + 1 .. n /\ b + (l - j) = k
        BY <1>4, <1>5, <2>7, <3>2
      <4> HIDE DEF l
      <4>2. s[k] = es[l] /\ t[k] = es[l]
        BY <1>5, <1>6, <2>5, <2>6, <4>1
      <4> QED
        BY <4>2
    <3> QED
      BY <1>4, <1>5, <3>1, <3>2
  <2>9. t = s
    BY <1>1, <2>7, <2>8, SeqEqual
  <2> QED
    BY <2>9 DEF t, s
<1> QED
  BY <1>4, <1>7, <1>8

\* The last entry ends up last.
LEMMA AppendEntriesLast ==
  ASSUME NEW E, NEW log \in Seq(E), NEW es \in Seq(E), Distinct(es), Len(es) > 0
  PROVE  /\ LastIndex(AppendEntries(log, es)) = es[Len(es)].index
         /\ AppendEntries(log, es)[Len(AppendEntries(log, es))] = es[Len(es)]
<1> DEFINE n == Len(es)
           s == AppendEntries(log, es)
<1>1. PICK b, j : Built(s, log, es, b, j, n)
  BY AppendEntriesBuilds
<1>2. s \in Seq(E) /\ n \in Nat /\ Len(log) \in Nat
  BY AppendEntriesTyped, LenProperties
<1> HIDE DEF s
<1>3. /\ b \in Nat /\ j \in Nat /\ j < n /\ Len(s) = b + (n - j)
      /\ \A k \in j + 1 .. n : s[b + (k - j)] = es[k]
  BY <1>1, <1>2 DEF Built
<1> HIDE DEF n
<1>4. s[Len(s)] = es[n] /\ Len(s) > 0
  BY <1>2, <1>3
<1>5. s # << >>
  BY <1>4
<1> QED
  BY <1>4, <1>5 DEF LastIndex, s, n

\* The log begins with the first p entries of another one.
Begins(s, log, p) == p <= Len(s) /\ \A k \in 1 .. p : s[k] = log[k]

\* append_entry leaves what comes before the first entry with the same index.
LEMMA AppendEntryBegins ==
  ASSUME NEW E, NEW log \in Seq(E), NEW p \in DOMAIN log,
         NEW s \in Seq(E), Begins(s, log, p),
         NEW e \in E, \A k \in 1 .. p : log[k].index # e.index
  PROVE  Begins(AppendEntry(s, e), log, p)
<1> DEFINE same == {k \in DOMAIN s : s[k].index = e.index}
<1>1. /\ p \in Nat /\ p > 0 /\ Len(s) \in Nat /\ p <= Len(s)
      /\ DOMAIN s = 1 .. Len(s)
      /\ \A k \in 1 .. Len(s) : s[k] \in E
      /\ \A k \in 1 .. p : s[k] = log[k]
  BY LenProperties, ElementOfSeq DEF Begins
<1>2. CASE same = {}
  <2>1. AppendEntry(s, e) = Append(s, e)
    BY <1>2 DEF AppendEntry
  <2>2. /\ Len(Append(s, e)) = Len(s) + 1
        /\ \A k \in 1 .. Len(s) : Append(s, e)[k] = s[k]
    BY AppendProperties, LenProperties
  <2> QED
    BY <1>1, <2>1, <2>2 DEF Begins
<1>3. CASE same # {}
  <2> DEFINE m == Min(same)
             c == m - 1
             cut == SubSeq(s, 1, c)
  <2>1. m \in same
    <3>1. same \in SUBSET Nat
      BY <1>1
    <3> HIDE DEF same
    <3> QED
      BY <1>3, <3>1, MinNat
  <2>2. AppendEntry(s, e) = Append(cut, e)
    BY <1>3 DEF AppendEntry
  <2> HIDE DEF m
  <2>3. m \in 1 .. Len(s) /\ m > p
    BY <1>1, <2>1
  <2> HIDE DEF same
  <2>4. c \in Nat /\ p <= c /\ c <= Len(s)
    BY <1>1, <2>3
  <2> HIDE DEF c
  <2>5. cut \in Seq(E) /\ Len(cut) = c /\ \A k \in 1 .. c : cut[k] = s[k]
    <3>1. \A k \in 1 .. c : s[k] \in E
      BY <1>1, <2>4
    <3> QED
      BY <2>4, <3>1, SubSeqProperties
  <2> HIDE DEF cut
  <2>6. Len(Append(cut, e)) = c + 1 /\ \A k \in 1 .. c : Append(cut, e)[k] = cut[k]
    BY <2>5, AppendProperties, LenProperties
  <2> QED
    BY <1>1, <2>2, <2>4, <2>5, <2>6 DEF Begins
<1> QED
  BY <1>2, <1>3

\* So do append_entries, when none of the entries has an index of the beginning.
LEMMA AppendEntriesBegins ==
  ASSUME NEW E, NEW log \in Seq(E), NEW es \in Seq(E), NEW p \in DOMAIN log,
         \A i \in DOMAIN es, k \in 1 .. p : log[k].index # es[i].index
  PROVE  Begins(AppendEntries(log, es), log, p)
<1> DEFINE n == Len(es)
<1>1. /\ n \in Nat /\ DOMAIN es = 1 .. n /\ \A i \in 1 .. n : es[i] \in E
      /\ Len(log) \in Nat /\ p \in Nat /\ p <= Len(log)
  BY LenProperties, ElementOfSeq
<1>2. CASE AllFresh(log, es)
  <2>1. AppendEntries(log, es) = log \o es
    BY <1>2, AppendEntriesSteps
  <2>2. /\ Len(log \o es) = Len(log) + n
        /\ \A k \in 1 .. Len(log) : (log \o es)[k] = log[k]
    <3>1. /\ Len(log \o es) = Len(log) + n
          /\ \A k \in 1 .. Len(log) + n :
               (log \o es)[k] = IF k <= Len(log) THEN log[k] ELSE es[k - Len(log)]
      BY ConcatProperties
    <3> HIDE DEF n
    <3> QED
      BY <1>1, <3>1
  <2> HIDE DEF n
  <2> QED
    BY <1>1, <2>1, <2>2 DEF Begins
<1>3. CASE ~ AllFresh(log, es)
  <2>1. PICK g : Steps(log, es, g) /\ AppendEntries(log, es) = g[n]
    BY <1>3, AppendEntriesSteps
  <2> HIDE DEF n
  <2>2. /\ g[0] = log
        /\ \A i \in 1 .. n : g[i] = AppendEntry(g[i - 1], es[i])
    BY <2>1 DEF Steps, n
  <2> DEFINE Good(m) == g[m] \in Seq(E) /\ Begins(g[m], log, p)
             Done == {m \in Nat : m <= n => Good(m)}
  <2>3. Good(0)
    BY <1>1, <2>2 DEF Begins
  <2>4. ASSUME NEW m \in Nat, m + 1 <= n, Good(m) PROVE Good(m + 1)
    <3>1. m + 1 \in 1 .. n /\ (m + 1) - 1 = m /\ es[m + 1] \in E
      BY <1>1, <2>4
    <3>2. g[m + 1] = AppendEntry(g[m], es[m + 1])
      BY <2>2, <3>1
    <3>3. \A k \in 1 .. p : log[k].index # es[m + 1].index
      BY <1>1, <3>1
    <3>4. g[m + 1] \in Seq(E)
      BY <2>4, <3>1, <3>2, AppendEntryLast
    <3>5. Begins(g[m + 1], log, p)
      BY <2>4, <3>1, <3>2, <3>3, AppendEntryBegins
    <3> QED
      BY <3>4, <3>5
  <2>5. Done \in SUBSET Nat /\ 0 \in Done
    BY <2>3
  <2>6. ASSUME NEW m \in Done PROVE m + 1 \in Done
    <3> HIDE DEF Good
    <3> QED
      BY <1>1, <2>4
  <2> HIDE DEF Done
  <2>7. \A m \in Nat : m \in Done
    BY <2>5, <2>6, NatSet
  <2>8. Good(n)
    <3> HIDE DEF Good
    <3> QED
      BY <1>1, <2>7 DEF Done
  <2> QED
    BY <2>1, <2>8
<1> QED
  BY <1>2, <1>3

\* The indexes of a log are naturals.
LEMMA LogIndexes ==
  ASSUME NEW log \in Seq(Entry)
  PROVE  \A k \in DOMAIN log : log[k].index \in Nat
<1>1. \A k \in DOMAIN log : log[k] \in Entry
  BY ElementOfSeq, LenProperties
<1> QED
  BY <1>1 DEF Entry

\* A log in index order keeps every entry that is before all that are appended.
LEMMA OrderedKeeps ==
  ASSUME NEW log \in Seq(Entry), Ordered(log), NEW es \in Seq(Entry),
         NEW p \in DOMAIN log, \A i \in DOMAIN es : es[i].index > log[p].index
  PROVE  Keeps(AppendEntries(log, es), log[p])
<1>1. /\ DOMAIN log = 1 .. Len(log) /\ Len(log) \in Nat
      /\ \A k \in DOMAIN log : log[k].index \in Nat
      /\ \A i \in DOMAIN es : es[i].index \in Nat
  BY LogIndexes, LenProperties
<1>2. ASSUME NEW i \in DOMAIN es, NEW k \in 1 .. p
      PROVE  log[k].index # es[i].index
  <2>1. k \in DOMAIN log /\ (k = p \/ k < p)
    BY <1>1
  <2>2. k = p \/ log[k].index < log[p].index
    BY <2>1 DEF Ordered
  <2>3. es[i].index > log[p].index
    OBVIOUS
  <2> QED
    BY <1>1, <2>1, <2>2, <2>3
<1>3. Begins(AppendEntries(log, es), log, p)
  BY <1>2, AppendEntriesBegins
<1>4. AppendEntries(log, es) \in Seq(Entry)
  BY AppendEntriesTyped
<1> DEFINE s == AppendEntries(log, es)
<1> HIDE DEF s
<1>5. p \in DOMAIN s /\ s[p] = log[p]
  BY <1>1, <1>3, <1>4, LenProperties DEF Begins, s
<1> QED
  BY <1>5 DEF Keeps, s

--------------------------------------------------------------------------------
(***************************************************************************)
(* One member, whatever requests and snapshots reach it.                   *)
(***************************************************************************)
\* What every member satisfies, in whatever order calls and requests come.
Serving(node) == node \in NodeRecord /\ node.applied_index <= node.commit_index

\* b has taken back no commit and no application of a.
Advanced(b, a) ==
  /\ a.commit_index <= b.commit_index
  /\ a.applied_index <= b.applied_index

\* The types of a member's fields.
LEMMA ServingTypes ==
  ASSUME NEW node, Serving(node)
  PROVE  /\ node.log \in Seq(Entry) /\ LastIndex(node.log) \in Nat
         /\ node.installed_snapshot \in Nat
         /\ node.commit_index \in Nat /\ node.applied_index \in Nat
         /\ node.current_term \in Nat
         /\ node.replica_role \in ReplicaRole
         /\ MatchIndex(node) \in Nat
         /\ LastIndex(node.log) <= MatchIndex(node)
         /\ node.installed_snapshot <= MatchIndex(node)
         /\ MatchIndex(node) \in {LastIndex(node.log), node.installed_snapshot}
         /\ Advanced(node, node)
<1>1. /\ node.log \in Seq(Entry) /\ node.installed_snapshot \in Nat
      /\ node.commit_index \in Nat /\ node.applied_index \in Nat
      /\ node.current_term \in Nat
      /\ node.replica_role \in ReplicaRole
  BY DEF Serving, NodeRecord
<1>2. LastIndex(node.log) \in Nat
  <2>1. CASE node.log = << >>
    BY <2>1 DEF LastIndex
  <2>2. CASE node.log # << >>
    <3>1. Len(node.log) \in 1 .. Len(node.log)
      BY <1>1, <2>2, LenProperties, EmptySeq
    <3>2. node.log[Len(node.log)] \in Entry
      BY <1>1, <3>1, ElementOfSeq
    <3> QED
      BY <2>2, <3>2 DEF LastIndex, Entry
  <2> QED
    BY <2>1, <2>2
<1>3. MatchIndex(node) = IF LastIndex(node.log) >= node.installed_snapshot
                           THEN LastIndex(node.log) ELSE node.installed_snapshot
  BY <1>1, <1>2, MaxPair DEF MatchIndex
<1> QED
  BY <1>1, <1>2, <1>3 DEF Advanced

\* advance_commit, without any order of the log.
LEMMA AdvanceCommitServes ==
  ASSUME NEW node, Serving(node), NEW target \in Nat
  PROVE  /\ Serving(AdvanceCommit(node, target))
         /\ Advanced(AdvanceCommit(node, target), node)
         /\ MatchIndex(AdvanceCommit(node, target)) = MatchIndex(node)
<1> DEFINE match == MatchIndex(node)
           held == Min({target, match})
           commit == Max({node.commit_index, held})
           applied == IF CanServeData(node.replica_role)
                        THEN Max({node.applied_index, commit})
                        ELSE node.applied_index
           committed == IF commit > 0
                          THEN [term |-> node.current_term, index |-> commit]
                          ELSE None
           advanced == [node EXCEPT !.commit_index = commit,
                                    !.applied_index = applied,
                                    !.committed = committed]
<1>1. AdvanceCommit(node, target) = advanced
  BY DEF AdvanceCommit
<1>2. /\ match \in Nat /\ node \in NodeRecord
      /\ node.commit_index \in Nat /\ node.applied_index \in Nat
      /\ node.current_term \in Nat
      /\ node.applied_index <= node.commit_index
  BY ServingTypes DEF Serving
<1> HIDE DEF match
<1>3. held \in Nat
  BY <1>2, MinPair
<1> HIDE DEF held
<1>4. commit \in Nat /\ node.commit_index <= commit
  BY <1>2, <1>3, MaxPair
<1> HIDE DEF commit
<1>5. applied \in Nat /\ node.applied_index <= applied /\ applied <= commit
  BY <1>2, <1>4, MaxPair
<1>6. committed \in LogId \cup {None}
  BY <1>2, <1>4 DEF LogId
<1> HIDE DEF applied, committed
<1>7. /\ advanced \in NodeRecord
      /\ advanced.commit_index = commit /\ advanced.applied_index = applied
      /\ advanced.log = node.log
      /\ advanced.installed_snapshot = node.installed_snapshot
  BY <1>2, <1>4, <1>5, <1>6 DEF NodeRecord
<1> HIDE DEF advanced
<1> QED
  BY <1>1, <1>2, <1>4, <1>5, <1>7 DEF Serving, Advanced, MatchIndex

\* A member with another log, term and role is still typed.
LEMMA WithLog ==
  ASSUME NEW node, Serving(node), NEW log \in Seq(Entry)
  PROVE  /\ Serving([node EXCEPT !.log = log])
         /\ Advanced([node EXCEPT !.log = log], node)
         /\ [node EXCEPT !.log = log].log = log
         /\ [node EXCEPT !.log = log].installed_snapshot = node.installed_snapshot
<1>1. node \in NodeRecord /\ Advanced(node, node)
  BY ServingTypes DEF Serving
<1>2. /\ [node EXCEPT !.log = log] \in NodeRecord
      /\ [node EXCEPT !.log = log].log = log
      /\ [node EXCEPT !.log = log].commit_index = node.commit_index
      /\ [node EXCEPT !.log = log].applied_index = node.applied_index
      /\ [node EXCEPT !.log = log].installed_snapshot = node.installed_snapshot
  BY <1>1 DEF NodeRecord
<1> QED
  BY <1>1, <1>2 DEF Serving, Advanced

\* compact_log_through leaves the indexes alone.
LEMMA CompactServes ==
  ASSUME NEW node, Serving(node), NEW log_index \in Nat
  PROVE  /\ Serving(CompactLogThrough(node, log_index))
         /\ Advanced(CompactLogThrough(node, log_index), node)
<1>1. node.log \in Seq(Entry)
  BY ServingTypes
<1>2. EntriesAbove(node.log, log_index) \in Seq(Entry)
  BY <1>1, EntriesAboveTyped
<1> QED
  BY <1>2, WithLog DEF CompactLogThrough

\* install_snapshot, also of a snapshot below what the member holds.
LEMMA InstallServes ==
  ASSUME NEW node, Serving(node), NEW snapshot_index \in Nat
  PROVE  /\ Serving(InstallSnapshot(node, snapshot_index))
         /\ Advanced(InstallSnapshot(node, snapshot_index), node)
<1> DEFINE commit == Max({node.commit_index, snapshot_index})
           kept == EntriesAbove(node.log, snapshot_index)
           applied == IF CanServeData(node.replica_role)
                        THEN Max({node.applied_index, snapshot_index})
                        ELSE node.applied_index
           committed == [term |-> node.current_term, index |-> commit]
           installed == [node EXCEPT !.installed_snapshot = snapshot_index,
                                     !.log = kept,
                                     !.commit_index = commit,
                                     !.applied_index = applied,
                                     !.committed = committed]
<1>1. InstallSnapshot(node, snapshot_index) = installed
  BY DEF InstallSnapshot
<1>2. /\ node \in NodeRecord /\ node.log \in Seq(Entry)
      /\ node.commit_index \in Nat /\ node.applied_index \in Nat
      /\ node.current_term \in Nat
      /\ node.applied_index <= node.commit_index
  BY ServingTypes DEF Serving
<1>3. kept \in Seq(Entry)
  BY <1>2, EntriesAboveTyped
<1>4. /\ commit \in Nat /\ node.commit_index <= commit /\ snapshot_index <= commit
  BY <1>2, MaxPair
<1> HIDE DEF commit, kept
<1>5. applied \in Nat /\ node.applied_index <= applied /\ applied <= commit
  BY <1>2, <1>4, MaxPair
<1>6. committed \in LogId
  BY <1>2, <1>4 DEF LogId
<1> HIDE DEF applied, committed
<1>7. /\ installed \in NodeRecord
      /\ installed.commit_index = commit /\ installed.applied_index = applied
  BY <1>2, <1>3, <1>4, <1>5, <1>6 DEF NodeRecord
<1> HIDE DEF installed
<1> QED
  BY <1>1, <1>2, <1>4, <1>5, <1>7 DEF Serving, Advanced

\* Progress adds up.
LEMMA AdvancedOn ==
  ASSUME NEW a, NEW b, NEW c, Serving(a), Serving(b), Serving(c),
         Advanced(b, a), Advanced(c, b)
  PROVE  Advanced(c, a)
  BY ServingTypes DEF Advanced

\* install_snapshot_with_tail_to, for any tail.
LEMMA TailServes ==
  ASSUME NEW node, Serving(node), NEW snapshot_index \in Nat, NEW tail \in Seq(Entry)
  PROVE  /\ Serving(TailInstalled(node, snapshot_index, tail))
         /\ Advanced(TailInstalled(node, snapshot_index, tail), node)
<1> DEFINE installed == InstallSnapshot(node, snapshot_index)
           log == AppendEntries(installed.log, tail)
           filled == [installed EXCEPT !.log = log]
<1>1. TailInstalled(node, snapshot_index, tail)
        = AdvanceCommit(filled, MatchIndex(filled))
  BY DEF TailInstalled
<1>2. Serving(installed) /\ Advanced(installed, node)
  BY InstallServes
<1> HIDE DEF installed
<1>3. log \in Seq(Entry)
  BY <1>2, ServingTypes, AppendEntriesTyped
<1> HIDE DEF log
<1>4. Serving(filled) /\ Advanced(filled, installed)
  BY <1>2, <1>3, WithLog
<1> HIDE DEF filled
<1>5. MatchIndex(filled) \in Nat
  BY <1>4, ServingTypes
<1>6. /\ Serving(AdvanceCommit(filled, MatchIndex(filled)))
      /\ Advanced(AdvanceCommit(filled, MatchIndex(filled)), filled)
  BY <1>4, <1>5, AdvanceCommitServes
<1> QED
  BY <1>1, <1>2, <1>4, <1>6, AdvancedOn

\* append_entries_to, for any request.
LEMMA AppendServes ==
  ASSUME NEW node, Serving(node), NEW request \in AppendRequests
  PROVE  /\ Serving(AppendedTo(node, request))
         /\ Advanced(AppendedTo(node, request), node)
<1> DEFINE role == IdleRole(node.replica_role)
           log == IF CanServeData(node.replica_role)
                    THEN AppendEntries(node.log, request.entries) ELSE node.log
           follower == [node EXCEPT !.current_term = request.term,
                                    !.raft_role = role, !.log = log]
<1>1. AppendedTo(node, request) = AdvanceCommit(follower, request.leader_commit)
  BY DEF AppendedTo
<1>2. /\ request.term \in Nat /\ request.leader_commit \in Nat
      /\ request.entries \in Seq(Entry)
  BY ClusterAssumption DEF Entry
<1>3. node \in NodeRecord /\ node.log \in Seq(Entry) /\ Advanced(node, node)
  BY ServingTypes DEF Serving
<1>4. log \in Seq(Entry)
  BY <1>2, <1>3, AppendEntriesTyped
<1>5. role \in RaftRole
  BY DEF IdleRole, RaftRole
<1> HIDE DEF log, role
<1>6. /\ follower \in NodeRecord
      /\ follower.commit_index = node.commit_index
      /\ follower.applied_index = node.applied_index
  BY <1>2, <1>3, <1>4, <1>5 DEF NodeRecord
<1> HIDE DEF follower
<1>7. Serving(follower) /\ Advanced(follower, node)
  BY <1>3, <1>6 DEF Serving, Advanced
<1>8. /\ Serving(AdvanceCommit(follower, request.leader_commit))
      /\ Advanced(AdvanceCommit(follower, request.leader_commit), follower)
  BY <1>2, <1>7, AdvanceCommitServes
<1> QED
  BY <1>1, <1>7, <1>8, AdvancedOn

\* learner_catch_up_loop, also from a leader with a snapshot.
LEMMA CatchUpServes ==
  ASSUME NEW learner \in Member, leader_id \in Member,
         Serving(nodes[learner]), Serving(nodes[leader_id]), commit_index \in Nat
  PROVE  /\ Serving(CaughtUpLearner(learner))
         /\ Advanced(CaughtUpLearner(learner), nodes[learner])
<1> DEFINE leader == nodes[leader_id]
           node == nodes[learner]
           snapshot == leader.installed_snapshot
           floored == IF snapshot > MatchIndex(node)
                        THEN [node EXCEPT !.installed_snapshot = snapshot]
                        ELSE node
           tail == EntriesAbove(leader.log, MatchIndex(floored))
           log == AppendEntries(floored.log, tail)
           filled == [floored EXCEPT !.log = log]
           target == Min({commit_index, MatchIndex(filled)})
<1>1. CaughtUpLearner(learner) = AdvanceCommit(filled, target)
  BY DEF CaughtUpLearner
<1>2. /\ node \in NodeRecord /\ Advanced(node, node)
      /\ snapshot \in Nat /\ leader.log \in Seq(Entry)
  BY ServingTypes DEF Serving
<1>3. Serving(floored) /\ Advanced(floored, node)
  <2> DEFINE higher == [node EXCEPT !.installed_snapshot = snapshot]
  <2> HIDE DEF snapshot
  <2>1. /\ higher \in NodeRecord
        /\ higher.commit_index = node.commit_index
        /\ higher.applied_index = node.applied_index
    BY <1>2 DEF NodeRecord
  <2> HIDE DEF higher
  <2>2. Serving(higher) /\ Advanced(higher, node)
    BY <1>2, <2>1 DEF Serving, Advanced
  <2> QED
    BY <1>2, <2>2 DEF higher
<1> HIDE DEF floored, leader
<1>4. tail \in Seq(Entry)
  BY <1>2, EntriesAboveTyped
<1> HIDE DEF tail
<1>5. log \in Seq(Entry)
  BY <1>3, <1>4, ServingTypes, AppendEntriesTyped
<1> HIDE DEF log
<1>6. Serving(filled) /\ Advanced(filled, floored)
  BY <1>3, <1>5, WithLog
<1> HIDE DEF filled
<1>7. target \in Nat
  <2>1. MatchIndex(filled) \in Nat
    BY <1>6, ServingTypes
  <2> QED
    BY <2>1, MinPair
<1> HIDE DEF target
<1>8. /\ Serving(AdvanceCommit(filled, target))
      /\ Advanced(AdvanceCommit(filled, target), filled)
  BY <1>6, <1>7, AdvanceCommitServes
<1>9. Advanced(filled, node)
  BY <1>3, <1>6, AdvancedOn
<1> QED
  BY <1>1, <1>6, <1>8, <1>9, AdvancedOn

\* advance_commit leaves the log alone.
LEMMA AdvanceCommitLog ==
  ASSUME NEW node \in NodeRecord, NEW index
  PROVE  AdvanceCommit(node, index).log = node.log
  BY DEF AdvanceCommit, NodeRecord

\* What append_entries_to leaves of an ordered log.
LEMMA AppendKeeps ==
  ASSUME NEW node, Serving(node), Ordered(node.log),
         NEW request \in AppendRequests, NEW k \in DOMAIN node.log
  PROVE  \/ Keeps(AppendedTo(node, request).log, node.log[k])
         \/ \E j \in DOMAIN request.entries :
              request.entries[j].index <= node.log[k].index
<1> DEFINE role == IdleRole(node.replica_role)
           log == IF CanServeData(node.replica_role)
                    THEN AppendEntries(node.log, request.entries) ELSE node.log
           follower == [node EXCEPT !.current_term = request.term,
                                    !.raft_role = role, !.log = log]
<1> SUFFICES ASSUME \A j \in DOMAIN request.entries :
                      ~ (request.entries[j].index <= node.log[k].index)
             PROVE  Keeps(AppendedTo(node, request).log, node.log[k])
  OBVIOUS
<1>1. AppendedTo(node, request) = AdvanceCommit(follower, request.leader_commit)
  BY DEF AppendedTo
<1>2. request.term \in Nat /\ request.entries \in Seq(Entry)
  BY ClusterAssumption DEF Entry
<1>3. node \in NodeRecord /\ node.log \in Seq(Entry)
  BY ServingTypes DEF Serving
<1>4. log \in Seq(Entry)
  BY <1>2, <1>3, AppendEntriesTyped
<1>5. role \in RaftRole
  BY DEF IdleRole, RaftRole
<1>6. Keeps(log, node.log[k])
  <2>1. node.log[k].index \in Nat
    BY <1>3, LogIndexes
  <2>2. \A j \in DOMAIN request.entries :
          request.entries[j].index > node.log[k].index
    <3>1. \A j \in DOMAIN request.entries : request.entries[j].index \in Nat
      BY <1>2, LogIndexes
    <3> QED
      BY <2>1, <3>1
  <2>3. Keeps(AppendEntries(node.log, request.entries), node.log[k])
    BY <1>2, <1>3, <2>2, OrderedKeeps
  <2>4. Keeps(node.log, node.log[k])
    BY DEF Keeps
  <2> QED
    BY <2>3, <2>4
<1> HIDE DEF log, role
<1>7. follower \in NodeRecord /\ follower.log = log
  BY <1>2, <1>3, <1>4, <1>5 DEF NodeRecord
<1> HIDE DEF follower
<1> QED
  BY <1>1, <1>6, <1>7, AdvanceCommitLog

\* What a snapshot or a compaction leaves of an ordered log.
LEMMA AboveKeeps ==
  ASSUME NEW log \in Seq(Entry), Ordered(log), NEW index \in Nat,
         NEW k \in DOMAIN log, log[k].index > index
  PROVE  Keeps(EntriesAbove(log, index), log[k])
<1>1. \A e \in Entry : e.index \in Nat
  BY DEF Entry
<1> QED
  BY <1>1, EntriesAboveOrdered DEF Keeps

\* What the tail of a snapshot leaves of it.
LEMMA TailKeeps ==
  ASSUME NEW node, Serving(node), Ordered(node.log), NEW snapshot_index \in Nat,
         NEW tail \in Seq(Entry), NEW k \in DOMAIN node.log,
         node.log[k].index > snapshot_index,
         \A j \in DOMAIN tail : tail[j].index > node.log[k].index
  PROVE  Keeps(TailInstalled(node, snapshot_index, tail).log, node.log[k])
<1> DEFINE installed == InstallSnapshot(node, snapshot_index)
           above == EntriesAbove(node.log, snapshot_index)
           log == AppendEntries(installed.log, tail)
           filled == [installed EXCEPT !.log = log]
<1>1. TailInstalled(node, snapshot_index, tail)
        = AdvanceCommit(filled, MatchIndex(filled))
  BY DEF TailInstalled
<1>2. node \in NodeRecord /\ node.log \in Seq(Entry)
  BY ServingTypes DEF Serving
<1>3. Serving(installed) /\ installed.log = above
  BY <1>2, InstallServes DEF InstallSnapshot, NodeRecord
<1> HIDE DEF installed
<1>4. above \in Seq(Entry) /\ Ordered(above) /\ Keeps(above, node.log[k])
  <2>1. \A e \in Entry : e.index \in Nat
    BY DEF Entry
  <2> QED
    BY <1>2, <2>1, EntriesAboveOrdered, AboveKeeps
<1> HIDE DEF above
<1>5. PICK p \in DOMAIN above : above[p] = node.log[k]
  BY <1>4 DEF Keeps
<1>6. Keeps(log, node.log[k])
  <2>1. \A j \in DOMAIN tail : tail[j].index > above[p].index
    BY <1>5
  <2>2. Keeps(AppendEntries(above, tail), above[p])
    BY <1>4, <2>1, OrderedKeeps
  <2> QED
    BY <1>3, <1>5, <2>2
<1>7. log \in Seq(Entry)
  BY <1>3, <1>4, AppendEntriesTyped
<1> HIDE DEF log
<1>8. filled \in NodeRecord /\ filled.log = log
  BY <1>3, <1>7, WithLog DEF Serving
<1> HIDE DEF filled
<1> QED
  BY <1>1, <1>6, <1>8, AdvanceCommitLog

\* A catch-up only brings entries above the member's last index.
LEMMA CatchUpKeeps ==
  ASSUME NEW learner \in Member, leader_id \in Member,
         Serving(nodes[learner]), Serving(nodes[leader_id]),
         Ordered(nodes[learner].log), NEW k \in DOMAIN nodes[learner].log
  PROVE  Keeps(CaughtUpLearner(learner).log, nodes[learner].log[k])
<1> DEFINE leader == nodes[leader_id]
           node == nodes[learner]
           snapshot == leader.installed_snapshot
           floored == IF snapshot > MatchIndex(node)
                        THEN [node EXCEPT !.installed_snapshot = snapshot]
                        ELSE node
           bound == MatchIndex(floored)
           tail == EntriesAbove(leader.log, bound)
           log == AppendEntries(floored.log, tail)
           filled == [floored EXCEPT !.log = log]
           target == Min({commit_index, MatchIndex(filled)})
<1>1. CaughtUpLearner(learner) = AdvanceCommit(filled, target)
  BY DEF CaughtUpLearner
<1>2. /\ node \in NodeRecord /\ snapshot \in Nat /\ leader.log \in Seq(Entry)
      /\ node.log \in Seq(Entry)
  BY ServingTypes DEF Serving
<1>3. Serving(floored) /\ floored.log = node.log
  <2> DEFINE higher == [node EXCEPT !.installed_snapshot = snapshot]
  <2> HIDE DEF snapshot
  <2>1. /\ higher \in NodeRecord /\ higher.log = node.log
        /\ higher.commit_index = node.commit_index
        /\ higher.applied_index = node.applied_index
    BY <1>2 DEF NodeRecord
  <2> HIDE DEF higher
  <2>2. Serving(higher)
    BY <2>1 DEF Serving
  <2> QED
    BY <2>1, <2>2 DEF higher
<1> HIDE DEF floored, leader
<1>4. /\ bound \in Nat /\ LastIndex(node.log) <= bound /\ LastIndex(node.log) \in Nat
      /\ node.log[k].index \in Nat /\ node.log[k].index <= LastIndex(node.log)
  <2>1. \A e \in Entry : e.index \in Nat
    BY DEF Entry
  <2>2. node.log[k] \in Entry
    BY <1>2, ElementOfSeq, LenProperties
  <2>3. node.log[k].index <= LastIndex(node.log) /\ LastIndex(node.log) \in Nat
    BY <1>2, <2>1, LastIndexIsHighest
  <2>4. bound \in Nat /\ LastIndex(node.log) <= bound
    BY <1>3, ServingTypes
  <2> QED
    BY <2>1, <2>2, <2>3, <2>4
<1> HIDE DEF bound
<1>5. /\ tail \in Seq(Entry)
      /\ \A j \in DOMAIN tail : tail[j].index > node.log[k].index
  <2>1. tail \in Seq(Entry) /\ \A j \in DOMAIN tail : tail[j].index > bound
    BY <1>2, EntriesAboveTyped
  <2>2. \A j \in DOMAIN tail : tail[j].index \in Nat
    BY <2>1, LogIndexes
  <2> HIDE DEF tail
  <2> QED
    BY <1>4, <2>1, <2>2
<1> HIDE DEF tail
<1>6. Keeps(log, node.log[k])
  BY <1>2, <1>3, <1>5, OrderedKeeps
<1>7. log \in Seq(Entry)
  BY <1>2, <1>3, <1>5, AppendEntriesTyped
<1> HIDE DEF log
<1>8. filled \in NodeRecord /\ filled.log = log
  BY <1>3, <1>7, WithLog DEF Serving
<1> HIDE DEF filled, target
<1> QED
  BY <1>1, <1>6, <1>8, AdvanceCommitLog

--------------------------------------------------------------------------------
(***************************************************************************)
(* The cluster's indexes, whatever the members hold.                       *)
(***************************************************************************)
ServingGroup(ns) ==
  /\ IsFiniteSet(DOMAIN ns)
  /\ \A n \in DOMAIN ns : Serving(ns[n])

\* The greatest of 0 and finitely many naturals bounds them all.
LEMMA MaxOverMembers ==
  ASSUME NEW D, IsFiniteSet(D), NEW f \in [D -> Nat],
         NEW T, T = {0} \cup {f[n] : n \in D}
  PROVE  Max(T) \in Nat /\ \A n \in D : f[n] <= Max(T)
<1> DEFINE values == {f[n] : n \in D}
<1>1. IsFiniteSet(values)
  <2>1. f \in Surjection(D, values)
    BY DEF Surjection
  <2> QED
    BY <2>1, FS_Surjection
<1>2. values \in SUBSET Nat /\ \A n \in D : f[n] \in values
  OBVIOUS
<1>3. T = values \cup {0}
  OBVIOUS
<1> HIDE DEF values
<1>4. IsFiniteSet(T)
  BY <1>1, <1>3, FS_AddElement
<1>5. T \in SUBSET Nat /\ T # {} /\ \A n \in D : f[n] \in T
  BY <1>2, <1>3
<1> QED
  BY <1>4, <1>5, MaxFinite

\* refresh_cluster_indexes computes indexes that cover the members.
LEMMA RefreshedServes ==
  ASSUME NEW ns, ServingGroup(ns)
  PROVE  /\ MaxCommit(ns) \in Nat /\ MaxLastIndex(ns) \in Nat
         /\ MinApplied(ns) \in Nat
         /\ \A n \in DOMAIN ns : /\ ns[n].commit_index <= MaxCommit(ns)
                                 /\ MatchIndex(ns[n]) <= MaxLastIndex(ns)
<1>1. \A n \in DOMAIN ns :
        /\ ns[n].commit_index \in Nat /\ ns[n].applied_index \in Nat
        /\ MatchIndex(ns[n]) \in Nat
  BY ServingTypes DEF ServingGroup
<1>2. IsFiniteSet(DOMAIN ns)
  BY DEF ServingGroup
<1>3. /\ MaxCommit(ns) \in Nat
      /\ \A n \in DOMAIN ns : ns[n].commit_index <= MaxCommit(ns)
  <2> DEFINE f == [n \in DOMAIN ns |-> ns[n].commit_index]
             T == {0} \cup {f[n] : n \in DOMAIN ns}
  <2>1. f \in [DOMAIN ns -> Nat] /\ \A n \in DOMAIN ns : f[n] = ns[n].commit_index
    BY <1>1
  <2>2. MaxCommit(ns) = Max(T)
    BY DEF MaxCommit
  <2> HIDE DEF f
  <2>3. Max(T) \in Nat /\ \A n \in DOMAIN ns : f[n] <= Max(T)
    BY <1>2, <2>1, MaxOverMembers
  <2> QED
    BY <2>1, <2>2, <2>3
<1>4. /\ MaxLastIndex(ns) \in Nat
      /\ \A n \in DOMAIN ns : MatchIndex(ns[n]) <= MaxLastIndex(ns)
  <2> DEFINE f == [n \in DOMAIN ns |-> MatchIndex(ns[n])]
             T == {0} \cup {f[n] : n \in DOMAIN ns}
  <2>1. f \in [DOMAIN ns -> Nat] /\ \A n \in DOMAIN ns : f[n] = MatchIndex(ns[n])
    BY <1>1
  <2>2. MaxLastIndex(ns) = Max(T)
    BY DEF MaxLastIndex
  <2> HIDE DEF f
  <2>3. Max(T) \in Nat /\ \A n \in DOMAIN ns : f[n] <= Max(T)
    BY <1>2, <2>1, MaxOverMembers
  <2> QED
    BY <2>1, <2>2, <2>3
<1>5. MinApplied(ns) \in Nat
  <2> DEFINE serving == {n \in DOMAIN ns : CanServeData(ns[n].replica_role)}
             S == {ns[n].applied_index : n \in serving}
  <2>1. S \in SUBSET Nat /\ (serving # {} => S # {})
    BY <1>1
  <2>2. MinApplied(ns) = IF serving = {} THEN 0 ELSE Min(S)
    BY DEF MinApplied
  <2> HIDE DEF S, serving
  <2>3. serving # {} => Min(S) \in Nat
    BY <2>1, MinNat
  <2> QED
    BY <2>2, <2>3
<1> QED
  BY <1>3, <1>4, <1>5

\* What holds of a group in whatever order its own calls, the requests of other
\* processes, snapshots, tails and compactions reach it.
ServedInv ==
  /\ TypeOK
  /\ \A n \in Member : Serving(nodes[n])
  /\ ClusterIndexesCover

\* No member that stays has taken anything back.
Progress == \A n \in Member \cap Member' : Advanced(nodes'[n], nodes[n])

\* What the step proofs use of the invariant.
LEMMA ServedFacts ==
  ASSUME ServedInv
  PROVE  /\ Member \subseteq Node /\ IsFiniteSet(Member) /\ Member \subseteq Nat
         /\ nodes = [n \in Member |-> nodes[n]]
         /\ DOMAIN peer_pipelines = Member
         /\ commit_index \in Nat /\ applied_index \in Nat /\ last_log_index \in Nat
         /\ current_term \in Nat
         /\ \A n \in Member :
              /\ Serving(nodes[n]) /\ Advanced(nodes[n], nodes[n])
              /\ nodes[n] \in NodeRecord
              /\ MatchIndex(nodes[n]) \in Nat
              /\ MatchIndex(nodes[n]) <= last_log_index
              /\ nodes[n].commit_index <= commit_index
<1>1. /\ Member \subseteq Node /\ nodes \in [Member -> NodeRecord]
      /\ DOMAIN peer_pipelines = Member
      /\ commit_index \in Nat /\ applied_index \in Nat /\ last_log_index \in Nat
      /\ current_term \in Nat
  BY DEF ServedInv, TypeOK
<1>2. IsFiniteSet(Member) /\ Member \subseteq Nat
  BY <1>1, ClusterAssumption, FS_Subset
<1>3. \A n \in Member : Serving(nodes[n])
  BY DEF ServedInv
<1>4. \A n \in Member :
        MatchIndex(nodes[n]) \in Nat /\ Advanced(nodes[n], nodes[n])
  BY <1>3, ServingTypes
<1>5. \A n \in Member : /\ MatchIndex(nodes[n]) <= last_log_index
                        /\ nodes[n].commit_index <= commit_index
  BY DEF ServedInv, ClusterIndexesCover
<1> QED
  BY <1>1, <1>2, <1>3, <1>4, <1>5

--------------------------------------------------------------------------------
(***************************************************************************)
(* The two kinds of steps: a call that refreshes the cluster's indexes from *)
(* the members, and one that leaves them and keeps the members below them.  *)
(***************************************************************************)
\* What a step leaves of the variables that are neither members nor indexes.
Frame ==
  /\ DOMAIN peer_pipelines' = Member'
  /\ leader_id' \in Node \cup {None}
  /\ current_term' \in Nat
  /\ running' \in BOOLEAN /\ leader_lease_valid' \in BOOLEAN
  /\ acknowledged' \in Seq(LogId)

\* A call that ends with refresh_cluster_indexes.
LEMMA RefreshedStep ==
  ASSUME ServedInv, NEW ns, DOMAIN ns = Member, ns = [n \in Member |-> ns[n]],
         \A n \in Member : Serving(ns[n]) /\ Advanced(ns[n], nodes[n]),
         nodes' = ns, RefreshClusterIndexes(ns), Frame
  PROVE  ServedInv' /\ Progress
<1>1. Member' = Member /\ Member \subseteq Node /\ IsFiniteSet(Member)
  BY ServedFacts DEF Member
<1>2. ServingGroup(ns)
  BY <1>1 DEF ServingGroup
<1>3. /\ commit_index' \in Nat /\ applied_index' \in Nat /\ last_log_index' \in Nat
      /\ \A n \in Member : /\ ns[n].commit_index <= commit_index'
                           /\ MatchIndex(ns[n]) <= last_log_index'
  BY <1>2, RefreshedServes DEF RefreshClusterIndexes
<1>4. nodes' \in [Member' -> NodeRecord]
  <2>1. \A n \in Member : ns[n] \in NodeRecord
    BY DEF Serving
  <2> QED
    BY <1>1, <2>1
<1>5. TypeOK'
  BY <1>1, <1>3, <1>4 DEF TypeOK, Frame
<1>6. ClusterIndexesCover'
  BY <1>1, <1>3 DEF ClusterIndexesCover
<1>7. \A n \in Member' : Serving(nodes'[n])
  BY <1>1
<1>8. Progress
  BY <1>1 DEF Progress
<1> QED
  BY <1>5, <1>6, <1>7, <1>8 DEF ServedInv

\* A call whose indexes still cover every member.
LEMMA KeptStep ==
  ASSUME ServedInv, NEW ns, DOMAIN ns \subseteq Node,
         ns = [n \in DOMAIN ns |-> ns[n]],
         \A n \in DOMAIN ns : /\ Serving(ns[n])
                              /\ n \in Member => Advanced(ns[n], nodes[n])
                              /\ MatchIndex(ns[n]) <= last_log_index'
                              /\ ns[n].commit_index <= commit_index',
         nodes' = ns, Frame,
         commit_index' \in Nat, applied_index' \in Nat, last_log_index' \in Nat
  PROVE  ServedInv' /\ Progress
<1>1. Member' = DOMAIN ns
  BY DEF Member
<1>2. nodes' \in [Member' -> NodeRecord]
  <2>1. \A n \in DOMAIN ns : ns[n] \in NodeRecord
    BY DEF Serving
  <2> QED
    BY <1>1, <2>1
<1>3. TypeOK'
  BY <1>1, <1>2 DEF TypeOK, Frame
<1>4. ClusterIndexesCover'
  BY <1>1 DEF ClusterIndexesCover
<1>5. \A n \in Member' : Serving(nodes'[n])
  BY <1>1
<1>6. Progress
  BY <1>1 DEF Progress
<1> QED
  BY <1>3, <1>4, <1>5, <1>6 DEF ServedInv

--------------------------------------------------------------------------------
(***************************************************************************)
(* Elections, flags and the membership.                                    *)
(***************************************************************************)
LEMMA FrameKept ==
  ASSUME ServedInv, Member' = Member, DOMAIN peer_pipelines' = Member,
         leader_id' = leader_id, current_term' = current_term,
         running' = running, leader_lease_valid' = leader_lease_valid,
         acknowledged' = acknowledged
  PROVE  Frame
  BY DEF Frame, ServedInv, TypeOK

\* A member that differs only in what an election or an operator sets.
LEMMA SameProgress ==
  ASSUME NEW node, Serving(node), NEW b, b \in NodeRecord,
         b.log = node.log, b.installed_snapshot = node.installed_snapshot,
         b.commit_index = node.commit_index, b.applied_index = node.applied_index
  PROVE  /\ Serving(b) /\ Advanced(b, node)
         /\ MatchIndex(b) = MatchIndex(node) /\ b.commit_index = node.commit_index
<1>1. node.commit_index \in Nat /\ node.applied_index \in Nat
  BY ServingTypes
<1> QED
  BY <1>1 DEF Serving, Advanced, MatchIndex

\* An election.
LEMMA ElectServes ==
  ASSUME ServedInv, NEW candidate \in Node, Elect(candidate),
         running' \in BOOLEAN, acknowledged' = acknowledged
  PROVE  ServedInv' /\ Progress
<1> DEFINE term == current_term + 1
           role(n) == IF n = candidate THEN "Leader"
                      ELSE IdleRole(nodes[n].replica_role)
           voted == [n \in Member |->
                      [nodes[n] EXCEPT !.current_term = term,
                                       !.voted_for = candidate,
                                       !.raft_role = role(n)]]
<1>1. /\ nodes' = voted /\ leader_id' = candidate /\ current_term' = term
      /\ leader_lease_valid' = TRUE
      /\ commit_index' = commit_index /\ applied_index' = applied_index
      /\ last_log_index' = last_log_index
      /\ DOMAIN peer_pipelines' = Member
  BY RefreshPipelinesDomain DEF Elect, indexVars
<1>2. term \in Nat
  BY ServedFacts
<1> HIDE DEF term
<1>3. ASSUME NEW n \in Member
      PROVE  /\ Serving(voted[n]) /\ Advanced(voted[n], nodes[n])
             /\ MatchIndex(voted[n]) <= last_log_index'
             /\ voted[n].commit_index <= commit_index'
  <2> DEFINE r == role(n)
  <2>1. r \in RaftRole
    BY DEF RaftRole, IdleRole
  <2>2. voted[n] = [nodes[n] EXCEPT !.current_term = term, !.voted_for = candidate,
                                    !.raft_role = r]
    OBVIOUS
  <2>3. Serving(nodes[n]) /\ nodes[n] \in NodeRecord
    BY ServedFacts
  <2> HIDE DEF voted, r
  <2>4. /\ voted[n] \in NodeRecord
        /\ voted[n].log = nodes[n].log
        /\ voted[n].installed_snapshot = nodes[n].installed_snapshot
        /\ voted[n].commit_index = nodes[n].commit_index
        /\ voted[n].applied_index = nodes[n].applied_index
    BY <1>2, <2>1, <2>2, <2>3 DEF NodeRecord
  <2>5. /\ Serving(voted[n]) /\ Advanced(voted[n], nodes[n])
        /\ MatchIndex(voted[n]) = MatchIndex(nodes[n])
    BY <2>3, <2>4, SameProgress
  <2> QED
    BY <1>1, <2>4, <2>5, ServedFacts
<1>4. DOMAIN voted = Member /\ voted = [n \in Member |-> voted[n]]
  OBVIOUS
<1> HIDE DEF voted
<1>5. Frame
  <2>1. Member' = Member
    BY <1>1, <1>4 DEF Member
  <2>2. acknowledged' \in Seq(LogId)
    BY DEF ServedInv, TypeOK
  <2> QED
    BY <1>1, <1>2, <2>1, <2>2 DEF Frame
<1>6. /\ commit_index' \in Nat /\ applied_index' \in Nat /\ last_log_index' \in Nat
      /\ DOMAIN voted \subseteq Node
  BY <1>1, <1>4, ServedFacts
<1>7. /\ voted = [n \in DOMAIN voted |-> voted[n]]
      /\ \A n \in DOMAIN voted :
           /\ Serving(voted[n])
           /\ n \in Member => Advanced(voted[n], nodes[n])
           /\ MatchIndex(voted[n]) <= last_log_index'
           /\ voted[n].commit_index <= commit_index'
  BY <1>3, <1>4
<1>8. nodes' = voted
  BY <1>1
<1> QED
  BY <1>5, <1>6, <1>7, <1>8, KeptStep

\* A step that leaves members and indexes alone.
LEMMA FlagsServe ==
  ASSUME ServedInv, UNCHANGED <<nodes, indexVars>>, Frame
  PROVE  ServedInv' /\ Progress
<1>1. /\ nodes' = nodes /\ commit_index' = commit_index
      /\ applied_index' = applied_index /\ last_log_index' = last_log_index
  BY DEF indexVars
<1>2. /\ nodes = [n \in DOMAIN nodes |-> nodes[n]] /\ DOMAIN nodes \subseteq Node
      /\ \A n \in DOMAIN nodes :
           /\ Serving(nodes[n])
           /\ n \in Member => Advanced(nodes[n], nodes[n])
           /\ MatchIndex(nodes[n]) <= last_log_index'
           /\ nodes[n].commit_index <= commit_index'
  BY <1>1, ServedFacts DEF Member
<1>3. commit_index' \in Nat /\ applied_index' \in Nat /\ last_log_index' \in Nat
  BY <1>1, ServedFacts
<1> QED
  BY <1>1, <1>2, <1>3, KeptStep

\* A step that changes of one member what SameProgress allows.
LEMMA OneMemberServes ==
  ASSUME ServedInv, NEW n \in Member, NEW b,
         nodes' = [nodes EXCEPT ![n] = b], UNCHANGED indexVars, Frame,
         b \in NodeRecord, b.log = nodes[n].log,
         b.installed_snapshot = nodes[n].installed_snapshot,
         b.commit_index = nodes[n].commit_index,
         b.applied_index = nodes[n].applied_index
  PROVE  ServedInv' /\ Progress
<1> DEFINE ns == [nodes EXCEPT ![n] = b]
<1>1. /\ commit_index' = commit_index
      /\ applied_index' = applied_index /\ last_log_index' = last_log_index
  BY DEF indexVars
<1>2. /\ DOMAIN ns = Member /\ ns[n] = b
      /\ \A m \in Member : m # n => ns[m] = nodes[m]
      /\ ns = [m \in Member |-> ns[m]]
  BY ServedFacts DEF Member
<1>3. nodes' = ns
  OBVIOUS
<1> HIDE DEF ns
<1>4. Serving(nodes[n])
  BY ServedFacts
<1>5. /\ Serving(b) /\ Advanced(b, nodes[n]) /\ MatchIndex(b) = MatchIndex(nodes[n])
  BY <1>4, SameProgress
<1>6. \A m \in DOMAIN ns :
        /\ Serving(ns[m])
        /\ m \in Member => Advanced(ns[m], nodes[m])
        /\ MatchIndex(ns[m]) <= last_log_index'
        /\ ns[m].commit_index <= commit_index'
  BY <1>1, <1>2, <1>5, ServedFacts
<1>7. /\ ns = [m \in DOMAIN ns |-> ns[m]] /\ DOMAIN ns \subseteq Node
      /\ commit_index' \in Nat /\ applied_index' \in Nat /\ last_log_index' \in Nat
  BY <1>1, <1>2, ServedFacts
<1> QED
  BY <1>3, <1>6, <1>7, KeptStep

\* Reporting a member up or down.
LEMMA SetNodeHealthyServes ==
  ASSUME ServedInv, NEW n, NEW healthy \in BOOLEAN, SetNodeHealthy(n, healthy)
  PROVE  ServedInv' /\ Progress
<1> DEFINE b == [nodes[n] EXCEPT !.healthy = healthy]
<1>1. /\ n \in Member /\ nodes' = [nodes EXCEPT ![n] = b]
      /\ UNCHANGED indexVars
      /\ leader_id' = leader_id /\ current_term' = current_term
      /\ leader_lease_valid' = (leader_lease_valid /\ ~ (leader_id = n /\ ~ healthy))
      /\ running' = running /\ acknowledged' = acknowledged
      /\ peer_pipelines' = peer_pipelines
  BY DEF SetNodeHealthy, leaderVars
<1>2. nodes[n] \in NodeRecord
  BY <1>1, ServedFacts
<1>3. /\ b \in NodeRecord /\ b.log = nodes[n].log
      /\ b.installed_snapshot = nodes[n].installed_snapshot
      /\ b.commit_index = nodes[n].commit_index
      /\ b.applied_index = nodes[n].applied_index
  BY <1>2 DEF NodeRecord
<1> HIDE DEF b
<1>4. Frame
  <2>1. leader_lease_valid' \in BOOLEAN
    BY <1>1
  <2>2. Member' = Member
    BY <1>1 DEF Member
  <2> QED
    BY <1>1, <2>1, <2>2 DEF Frame, ServedInv, TypeOK
<1> QED
  BY <1>1, <1>3, <1>4, OneMemberServes

\* Promoting a member.
LEMMA PromotePeerServes ==
  ASSUME ServedInv, NEW n, PromotePeer(n)
  PROVE  ServedInv' /\ Progress
<1> DEFINE b == [nodes[n] EXCEPT !.replica_role = "Voter", !.raft_role = "Follower"]
<1>1. /\ n \in Member
      /\ nodes' = [nodes EXCEPT ![n].replica_role = "Voter",
                                ![n].raft_role    = "Follower"]
      /\ UNCHANGED indexVars
      /\ leader_id' = leader_id /\ current_term' = current_term
      /\ leader_lease_valid' = leader_lease_valid
      /\ running' = running /\ acknowledged' = acknowledged
      /\ peer_pipelines' = peer_pipelines
  BY DEF PromotePeer, leaderVars
<1>2. nodes[n] \in NodeRecord
  BY <1>1, ServedFacts
<1>3. /\ b \in NodeRecord /\ b.log = nodes[n].log
      /\ b.installed_snapshot = nodes[n].installed_snapshot
      /\ b.commit_index = nodes[n].commit_index
      /\ b.applied_index = nodes[n].applied_index
  BY <1>2 DEF NodeRecord, ReplicaRole, RaftRole
<1>4. nodes' = [nodes EXCEPT ![n] = b]
  BY <1>1 DEF Member
<1> HIDE DEF b
<1>5. Frame
  <2>1. Member' = Member /\ DOMAIN peer_pipelines' = Member
    BY <1>1, <1>4, ServedFacts DEF Member
  <2> QED
    BY <1>1, <2>1, FrameKept
<1> QED
  BY <1>1, <1>3, <1>4, <1>5, OneMemberServes

\* Adding a member.
LEMMA AddPeerServes ==
  ASSUME ServedInv, NEW n \in Node, NEW role \in ReplicaRole, AddPeer(n, role)
  PROVE  ServedInv' /\ Progress
<1> DEFINE added == [m \in Member \cup {n} |->
                       IF m = n THEN NewNode(role) ELSE nodes[m]]
<1>1. /\ n \notin Member /\ nodes' = added
      /\ leader_id' = leader_id /\ current_term' = current_term
      /\ leader_lease_valid' = leader_lease_valid
      /\ running' = running /\ acknowledged' = acknowledged
      /\ commit_index' = commit_index
      /\ applied_index' = applied_index /\ last_log_index' = last_log_index
      /\ DOMAIN peer_pipelines' = DOMAIN added
  BY RefreshPipelinesDomain DEF AddPeer, leaderVars, indexVars
<1>2. /\ DOMAIN added = Member \cup {n} /\ added[n] = NewNode(role)
      /\ \A m \in Member : added[m] = nodes[m]
      /\ added = [m \in DOMAIN added |-> added[m]]
  BY <1>1
<1> HIDE DEF added
<1>3. /\ Serving(NewNode(role)) /\ MatchIndex(NewNode(role)) = 0
      /\ NewNode(role).commit_index = 0
  <2>1. NodeInv(NewNode(role)) /\ MatchIndex(NewNode(role)) = 0
        /\ NewNode(role).commit_index = 0
    BY NewNodeInv
  <2> QED
    BY <2>1 DEF NodeInv, Serving
<1>4. /\ DOMAIN added \subseteq Node
      /\ commit_index' \in Nat /\ applied_index' \in Nat /\ last_log_index' \in Nat
  BY <1>1, <1>2, ServedFacts
<1>5. \A m \in DOMAIN added :
        /\ Serving(added[m])
        /\ m \in Member => Advanced(added[m], nodes[m])
        /\ MatchIndex(added[m]) <= last_log_index'
        /\ added[m].commit_index <= commit_index'
  <2> SUFFICES ASSUME NEW m \in DOMAIN added
               PROVE  /\ Serving(added[m])
                      /\ m \in Member => Advanced(added[m], nodes[m])
                      /\ MatchIndex(added[m]) <= last_log_index'
                      /\ added[m].commit_index <= commit_index'
    OBVIOUS
  <2>1. CASE m = n
    BY <1>1, <1>2, <1>3, <1>4, <2>1
  <2>2. CASE m \in Member
    BY <1>1, <1>2, <2>2, ServedFacts
  <2> QED
    BY <1>2, <2>1, <2>2
<1>6. Frame
  <2>1. DOMAIN peer_pipelines' = Member'
    BY <1>1 DEF Member
  <2> QED
    BY <1>1, <2>1 DEF Frame, ServedInv, TypeOK
<1>7. /\ nodes' = added /\ added = [m \in DOMAIN added |-> added[m]]
  BY <1>1, <1>2
<1> QED
  BY <1>4, <1>5, <1>6, <1>7, KeptStep

\* Removing a member: the indexes keep counting it.
LEMMA RemovePeerServes ==
  ASSUME ServedInv, NEW n, RemovePeer(n)
  PROVE  ServedInv' /\ Progress
<1> DEFINE rest == [m \in Member \ {n} |-> nodes[m]]
<1>1. /\ nodes' = rest
      /\ leader_id' = (IF leader_id = n THEN None ELSE leader_id)
      /\ leader_lease_valid' = (leader_lease_valid /\ leader_id # n)
      /\ current_term' = current_term
      /\ running' = running /\ acknowledged' = acknowledged
      /\ commit_index' = commit_index
      /\ applied_index' = applied_index /\ last_log_index' = last_log_index
      /\ DOMAIN peer_pipelines' = DOMAIN rest
  BY RefreshPipelinesDomain DEF RemovePeer, indexVars
<1>2. /\ DOMAIN rest = Member \ {n}
      /\ \A m \in Member \ {n} : rest[m] = nodes[m]
      /\ rest = [m \in DOMAIN rest |-> rest[m]]
  OBVIOUS
<1> HIDE DEF rest
<1>3. /\ DOMAIN rest \subseteq Node
      /\ commit_index' \in Nat /\ applied_index' \in Nat /\ last_log_index' \in Nat
  BY <1>1, <1>2, ServedFacts
<1>4. \A m \in DOMAIN rest :
        /\ Serving(rest[m])
        /\ m \in Member => Advanced(rest[m], nodes[m])
        /\ MatchIndex(rest[m]) <= last_log_index'
        /\ rest[m].commit_index <= commit_index'
  BY <1>1, <1>2, ServedFacts
<1>5. Frame
  <2>1. DOMAIN peer_pipelines' = Member'
    BY <1>1 DEF Member
  <2>2. leader_lease_valid' \in BOOLEAN
    BY <1>1
  <2>3. leader_id' \in Node \cup {None}
    BY <1>1 DEF ServedInv, TypeOK
  <2> QED
    BY <1>1, <2>1, <2>2, <2>3 DEF Frame, ServedInv, TypeOK
<1>6. nodes' = rest /\ rest = [m \in DOMAIN rest |-> rest[m]]
  BY <1>1, <1>2
<1> QED
  BY <1>3, <1>4, <1>5, <1>6, KeptStep

--------------------------------------------------------------------------------
(***************************************************************************)
(* The steps that write logs.                                              *)
(***************************************************************************)
\* Whoever appends a proposed entry reaches its index exactly, also when an entry
\* with that index was overwritten.
LEMMA ReplicatedServes ==
  ASSUME ServedInv, NEW payload \in Payload, NEW ns,
         ns = Replicated(NewEntry(payload))
  PROVE  /\ DOMAIN ns = Member /\ ns = [n \in Member |-> ns[n]]
         /\ \A n \in Member :
              /\ Serving(ns[n]) /\ Advanced(ns[n], nodes[n])
              /\ MatchIndex(ns[n]) <= last_log_index + 1
              /\ ns[n].commit_index <= commit_index
<1> DEFINE e == NewEntry(payload)
<1>1. /\ current_term \in Nat /\ last_log_index \in Nat
  BY ServedFacts
<1>2. e \in Entry /\ e.index = last_log_index + 1
  BY <1>1 DEF NewEntry, Entry
<1>3. /\ DOMAIN ns = Member /\ ns = [n \in Member |-> ns[n]]
      /\ \A n \in Member :
           \/ ns[n] = nodes[n]
           \/ ns[n] = [nodes[n] EXCEPT !.log = AppendEntry(nodes[n].log, e)]
  BY DEF Replicated
<1> HIDE DEF e
<1>4. ASSUME NEW n \in Member
      PROVE  /\ Serving(ns[n]) /\ Advanced(ns[n], nodes[n])
             /\ MatchIndex(ns[n]) <= last_log_index + 1
             /\ ns[n].commit_index <= commit_index
  <2>1. /\ Serving(nodes[n]) /\ Advanced(nodes[n], nodes[n])
        /\ MatchIndex(nodes[n]) <= last_log_index
        /\ nodes[n].commit_index <= commit_index
        /\ MatchIndex(nodes[n]) \in Nat
        /\ nodes[n] \in NodeRecord
    BY ServedFacts
  <2>2. CASE ns[n] = nodes[n]
    BY <1>1, <2>1, <2>2
  <2>3. CASE ns[n] = [nodes[n] EXCEPT !.log = AppendEntry(nodes[n].log, e)]
    <3> DEFINE log == AppendEntry(nodes[n].log, e)
    <3>1. log \in Seq(Entry) /\ LastIndex(log) = last_log_index + 1
      <4>1. nodes[n].log \in Seq(Entry)
        BY <2>1, ServingTypes
      <4> QED
        BY <1>2, <4>1, AppendEntryLast
    <3>2. ns[n] = [nodes[n] EXCEPT !.log = log]
      BY <2>3
    <3> HIDE DEF log
    <3>3. /\ Serving(ns[n]) /\ Advanced(ns[n], nodes[n]) /\ ns[n].log = log
          /\ ns[n].installed_snapshot = nodes[n].installed_snapshot
      BY <2>1, <3>1, <3>2, WithLog
    <3>4. ns[n].commit_index = nodes[n].commit_index
      BY <2>1, <3>2 DEF NodeRecord
    <3>5. /\ MatchIndex(ns[n]) \in {LastIndex(ns[n].log), ns[n].installed_snapshot}
          /\ nodes[n].installed_snapshot \in Nat
          /\ nodes[n].installed_snapshot <= MatchIndex(nodes[n])
      BY <2>1, <3>3, ServingTypes
    <3>6. MatchIndex(ns[n]) <= last_log_index + 1
      BY <1>1, <2>1, <3>1, <3>3, <3>5
    <3> QED
      BY <2>1, <3>3, <3>4, <3>6
  <2> QED
    BY <1>3, <2>2, <2>3
<1> QED
  BY <1>3, <1>4

\* The quorum match index is one of the match indexes.
LEMMA QuorumMatchServes ==
  ASSUME NEW ns, ServingGroup(ns), LiveParticipants(ns) # {}
  PROVE  QuorumMatchIndex(ns) \in Nat
<1> DEFINE live == LiveParticipants(ns)
           needed == Min({Cardinality(live), QuorumSize(ns)})
           match(n) == MatchIndex(ns[n])
           matches == {match(n) : n \in live}
           holding(i) == {n \in live : match(n) >= i}
           S == {i \in matches : Cardinality(holding(i)) >= needed}
<1>1. /\ live \subseteq DOMAIN ns /\ IsFiniteSet(live)
      /\ IsFiniteSet(QuorumParticipants(ns))
  <2>1. /\ QuorumParticipants(ns) \subseteq DOMAIN ns
        /\ live \subseteq QuorumParticipants(ns)
    BY DEF QuorumParticipants, LiveParticipants
  <2> QED
    BY <2>1, FS_Subset DEF ServingGroup
<1>2. \A n \in live : match(n) \in Nat /\ match(n) <= MaxLastIndex(ns)
  <2>1. \A n \in live : n \in DOMAIN ns /\ Serving(ns[n])
    BY <1>1 DEF ServingGroup
  <2> QED
    BY <2>1, ServingTypes, RefreshedServes
<1>3. needed \in Nat /\ needed <= Cardinality(live)
  <2>1. Cardinality(live) \in Nat /\ Cardinality(QuorumParticipants(ns)) \in Nat
    BY <1>1, FS_CardinalityType
  <2>2. QuorumSize(ns) \in Nat
    BY <2>1 DEF QuorumSize
  <2> HIDE DEF live
  <2> QED
    BY <2>1, <2>2, MinPair
<1>4. matches \in SUBSET Nat /\ matches # {}
  BY <1>2
<1>5. Min(matches) \in matches /\ \A i \in matches : Min(matches) <= i
  <2> HIDE DEF matches
  <2> QED
    BY <1>4, MinNat
<1>6. S \in SUBSET Nat /\ S # {} /\ \A i \in S : i <= MaxLastIndex(ns)
  <2>1. \A n \in live : match(n) >= Min(matches)
    BY <1>2, <1>5
  <2> HIDE DEF live, match
  <2>2. holding(Min(matches)) = live
    BY <2>1
  <2> HIDE DEF holding, needed
  <2>3. Min(matches) \in S
    BY <1>1, <1>3, <1>5, <2>2, FS_CardinalityType
  <2>4. \A i \in matches : i <= MaxLastIndex(ns)
    BY <1>2
  <2> HIDE DEF matches
  <2> QED
    BY <1>4, <2>3, <2>4
<1>7. QuorumMatchIndex(ns) = Max(S)
  BY DEF QuorumMatchIndex
<1> HIDE DEF S
<1>8. MaxLastIndex(ns) \in Nat
  BY RefreshedServes
<1> QED
  BY <1>6, <1>7, <1>8, MaxNat

\* What propose leaves besides members and indexes.
LEMMA ProposeServes ==
  ASSUME ServedInv, NEW payload \in Payload, Propose(payload)
  PROVE  ServedInv' /\ Progress
<1> DEFINE e == NewEntry(payload)
           ns == Replicated(e)
           id == [term |-> current_term, index |-> last_log_index + 1]
<1>1. /\ current_term \in Nat /\ last_log_index \in Nat /\ commit_index \in Nat
      /\ applied_index \in Nat /\ Member \subseteq Node /\ IsFiniteSet(Member)
  BY ServedFacts
<1>2. e.term = current_term /\ e.index = last_log_index + 1
  BY <1>1 DEF NewEntry
<1>3. /\ RefreshCommitIndex(ns, last_log_index + 1)
      /\ acknowledged' = Append(acknowledged, id)
      /\ DOMAIN peer_pipelines' = Member
      /\ leader_id' = leader_id /\ current_term' = current_term
      /\ running' = running /\ leader_lease_valid' = leader_lease_valid
  BY <1>2 DEF Propose, CanPropose, ReplicatedPipelines, leaderVars
<1>4. acknowledged' \in Seq(LogId)
  <2>1. id \in LogId /\ acknowledged \in Seq(LogId)
    BY <1>1 DEF LogId, ServedInv, TypeOK
  <2> HIDE DEF id
  <2> QED
    BY <1>3, <2>1, AppendProperties
<1>5. /\ DOMAIN ns = Member /\ ns = [n \in Member |-> ns[n]]
      /\ \A n \in Member :
           /\ Serving(ns[n]) /\ Advanced(ns[n], nodes[n])
           /\ MatchIndex(ns[n]) <= last_log_index + 1
           /\ ns[n].commit_index <= commit_index
  BY ReplicatedServes
<1> HIDE DEF e, ns, id
<1>6. ASSUME Member' = Member PROVE Frame
  BY <1>3, <1>4, <1>6 DEF Frame, ServedInv, TypeOK
<1>7. CASE LiveParticipants(ns) = {}
  <2>1. /\ nodes' = ns /\ last_log_index' = last_log_index + 1
        /\ commit_index' = commit_index /\ applied_index' = applied_index
    BY <1>3, <1>7 DEF RefreshCommitIndex
  <2>2. Frame
    BY <1>5, <1>6, <2>1 DEF Member
  <2>3. /\ commit_index' \in Nat /\ applied_index' \in Nat /\ last_log_index' \in Nat
        /\ DOMAIN ns \subseteq Node /\ ns = [n \in DOMAIN ns |-> ns[n]]
        /\ \A n \in DOMAIN ns : /\ Serving(ns[n])
                                /\ n \in Member => Advanced(ns[n], nodes[n])
                                /\ MatchIndex(ns[n]) <= last_log_index'
                                /\ ns[n].commit_index <= commit_index'
    BY <1>1, <1>5, <2>1
  <2> QED
    BY <2>1, <2>2, <2>3, KeptStep
<1>8. CASE LiveParticipants(ns) # {}
  <2> DEFINE target == Max({commit_index, QuorumMatchIndex(ns)})
             advanced == [n \in DOMAIN ns |->
                            IF ns[n].healthy THEN AdvanceCommit(ns[n], target)
                            ELSE ns[n]]
  <2>1. nodes' = advanced /\ RefreshClusterIndexes(advanced)
    BY <1>3, <1>8 DEF RefreshCommitIndex
  <2>2. target \in Nat
    <3>1. ServingGroup(ns)
      BY <1>1, <1>5 DEF ServingGroup
    <3>2. QuorumMatchIndex(ns) \in Nat
      BY <1>8, <3>1, QuorumMatchServes
    <3> QED
      BY <1>1, <3>2, MaxPair
  <2> HIDE DEF target
  <2>3. ASSUME NEW n \in Member
        PROVE  Serving(advanced[n]) /\ Advanced(advanced[n], nodes[n])
    <3>1. Serving(ns[n]) /\ Advanced(ns[n], nodes[n]) /\ Serving(nodes[n])
      BY <1>5, ServedFacts
    <3>2. CASE ns[n].healthy
      <4>1. advanced[n] = AdvanceCommit(ns[n], target)
        BY <1>5, <3>2
      <4> HIDE DEF advanced
      <4>2. Serving(advanced[n]) /\ Advanced(advanced[n], ns[n])
        BY <2>2, <3>1, <4>1, AdvanceCommitServes
      <4> QED
        BY <3>1, <4>2, AdvancedOn
    <3>3. CASE ~ ns[n].healthy
      BY <1>5, <3>1, <3>3
    <3> QED
      BY <3>2, <3>3
  <2>4. DOMAIN advanced = Member /\ advanced = [n \in Member |-> advanced[n]]
    BY <1>5
  <2> HIDE DEF advanced
  <2>5. Frame
    BY <1>6, <2>1, <2>4 DEF Member
  <2> QED
    BY <2>1, <2>3, <2>4, <2>5, RefreshedStep
<1> QED
  BY <1>7, <1>8

\* A proposal refused half way: its index is used up.
LEMMA ProposeRefusedServes ==
  ASSUME ServedInv, NEW payload \in Payload, ProposeRefused(payload)
  PROVE  ServedInv' /\ Progress
<1> DEFINE ns == Replicated(NewEntry(payload))
<1>1. /\ last_log_index \in Nat /\ commit_index \in Nat
      /\ applied_index \in Nat /\ Member \subseteq Node
  BY ServedFacts
<1>2. /\ nodes' = ns /\ last_log_index' = last_log_index + 1
      /\ commit_index' = commit_index /\ applied_index' = applied_index
      /\ DOMAIN peer_pipelines' = Member
      /\ leader_id' = leader_id /\ current_term' = current_term
      /\ running' = running /\ leader_lease_valid' = leader_lease_valid
      /\ acknowledged' = acknowledged
  BY DEF ProposeRefused, ReplicatedPipelines, leaderVars, NewEntry
<1>3. /\ DOMAIN ns = Member /\ ns = [n \in Member |-> ns[n]]
      /\ \A n \in Member :
           /\ Serving(ns[n]) /\ Advanced(ns[n], nodes[n])
           /\ MatchIndex(ns[n]) <= last_log_index + 1
           /\ ns[n].commit_index <= commit_index
  BY ReplicatedServes
<1> HIDE DEF ns
<1>4. Frame
  <2>1. Member' = Member
    BY <1>2, <1>3 DEF Member
  <2> QED
    BY <1>2, <2>1, FrameKept
<1>5. /\ commit_index' \in Nat /\ applied_index' \in Nat /\ last_log_index' \in Nat
      /\ DOMAIN ns \subseteq Node /\ ns = [n \in DOMAIN ns |-> ns[n]]
      /\ \A n \in DOMAIN ns : /\ Serving(ns[n])
                              /\ n \in Member => Advanced(ns[n], nodes[n])
                              /\ MatchIndex(ns[n]) <= last_log_index'
                              /\ ns[n].commit_index <= commit_index'
  BY <1>1, <1>2, <1>3
<1>6. nodes' = ns
  BY <1>2
<1> QED
  BY <1>4, <1>5, <1>6, KeptStep

\* One member changes and the cluster's indexes are computed again.
LEMMA OneMemberRefreshed ==
  ASSUME ServedInv, NEW n \in Member, NEW b,
         Serving(b), Advanced(b, nodes[n]),
         nodes' = [nodes EXCEPT ![n] = b],
         RefreshClusterIndexes([nodes EXCEPT ![n] = b]),
         DOMAIN peer_pipelines' = Member,
         UNCHANGED <<leaderVars, running, leader_lease_valid, acknowledged>>
  PROVE  ServedInv' /\ Progress
<1> DEFINE ns == [nodes EXCEPT ![n] = b]
<1>1. /\ DOMAIN ns = Member /\ ns[n] = b
      /\ \A m \in Member : m # n => ns[m] = nodes[m]
      /\ ns = [m \in Member |-> ns[m]]
  BY ServedFacts DEF Member
<1>2. nodes' = ns /\ RefreshClusterIndexes(ns)
  OBVIOUS
<1> HIDE DEF ns
<1>3. Frame
  <2>1. Member' = Member
    BY <1>1, <1>2 DEF Member
  <2> QED
    BY <2>1, FrameKept DEF leaderVars
<1>4. \A m \in Member : Serving(ns[m]) /\ Advanced(ns[m], nodes[m])
  BY <1>1, ServedFacts
<1> QED
  BY <1>1, <1>2, <1>3, <1>4, RefreshedStep

\* A learner catches up.
LEMMA LearnerCatchUpServes ==
  ASSUME ServedInv, NEW learner, LearnerCatchUp(learner)
  PROVE  ServedInv' /\ Progress
<1> DEFINE b == CaughtUpLearner(learner)
<1>1. /\ leader_id \in Member /\ learner \in Member
      /\ nodes' = [nodes EXCEPT ![learner] = b]
      /\ RefreshClusterIndexes([nodes EXCEPT ![learner] = b])
      /\ DOMAIN peer_pipelines' = DOMAIN peer_pipelines
      /\ UNCHANGED <<leaderVars, running, leader_lease_valid, acknowledged>>
  BY DEF LearnerCatchUp
<1>2. Serving(nodes[learner]) /\ Serving(nodes[leader_id]) /\ commit_index \in Nat
      /\ DOMAIN peer_pipelines = Member
  BY <1>1, ServedFacts
<1>3. Serving(b) /\ Advanced(b, nodes[learner])
  BY <1>1, <1>2, CatchUpServes
<1> HIDE DEF b
<1> QED
  BY <1>1, <1>2, <1>3, OneMemberRefreshed

--------------------------------------------------------------------------------
(***************************************************************************)
(* The requests of other processes.                                        *)
(***************************************************************************)
LEMMA AppendEntriesToServes ==
  ASSUME ServedInv, NEW target, NEW request \in AppendRequests,
         AppendEntriesTo(target, request)
  PROVE  ServedInv' /\ Progress
<1> DEFINE b == AppendedTo(nodes[target], request)
<1>1. /\ target \in Member
      /\ nodes' = [nodes EXCEPT ![target] = b]
      /\ RefreshClusterIndexes([nodes EXCEPT ![target] = b])
      /\ UNCHANGED peer_pipelines
      /\ UNCHANGED <<leaderVars, running, leader_lease_valid, acknowledged>>
  BY DEF AppendEntriesTo, Member, RefreshClusterIndexes
<1>2. Serving(nodes[target]) /\ DOMAIN peer_pipelines' = Member
  BY <1>1, ServedFacts
<1>3. Serving(b) /\ Advanced(b, nodes[target])
  BY <1>2, AppendServes
<1> HIDE DEF b
<1> QED
  BY <1>1, <1>2, <1>3, OneMemberRefreshed

\* A snapshot arrives.
LEMMA InstallSnapshotToServes ==
  ASSUME ServedInv, NEW target, NEW snapshot_index \in SnapshotIndexes,
         InstallSnapshotTo(target, snapshot_index)
  PROVE  ServedInv' /\ Progress
<1> DEFINE b == InstallSnapshot(nodes[target], snapshot_index)
<1>1. /\ target \in Member
      /\ nodes' = [nodes EXCEPT ![target] = b]
      /\ RefreshClusterIndexes([nodes EXCEPT ![target] = b])
      /\ DOMAIN peer_pipelines' = DOMAIN peer_pipelines
      /\ UNCHANGED <<leaderVars, running, leader_lease_valid, acknowledged>>
  BY DEF InstallSnapshotTo, Member, RefreshClusterIndexes
<1>2. Serving(nodes[target]) /\ DOMAIN peer_pipelines' = Member
  BY <1>1, ServedFacts
<1>3. Serving(b) /\ Advanced(b, nodes[target])
  BY <1>2, InstallServes, ClusterAssumption
<1> HIDE DEF b
<1> QED
  BY <1>1, <1>2, <1>3, OneMemberRefreshed

\* A snapshot arrives with a tail.
LEMMA TailToServes ==
  ASSUME ServedInv, NEW target, NEW snapshot_index \in SnapshotIndexes,
         NEW tail \in Tails, InstallSnapshotWithTailTo(target, snapshot_index, tail)
  PROVE  ServedInv' /\ Progress
<1> DEFINE b == TailInstalled(nodes[target], snapshot_index, tail)
<1>1. /\ target \in Member
      /\ nodes' = [nodes EXCEPT ![target] = b]
      /\ RefreshClusterIndexes([nodes EXCEPT ![target] = b])
      /\ DOMAIN peer_pipelines' = DOMAIN peer_pipelines
      /\ UNCHANGED <<leaderVars, running, leader_lease_valid, acknowledged>>
  BY DEF InstallSnapshotWithTailTo, Member, RefreshClusterIndexes
<1>2. Serving(nodes[target]) /\ DOMAIN peer_pipelines' = Member
  BY <1>1, ServedFacts
<1>3. snapshot_index \in Nat /\ tail \in Seq(Entry)
  BY ClusterAssumption DEF Entry
<1>4. Serving(b) /\ Advanced(b, nodes[target])
  BY <1>2, <1>3, TailServes
<1> HIDE DEF b
<1> QED
  BY <1>1, <1>2, <1>4, OneMemberRefreshed

\* Every member compacts its log.
LEMMA CompactLogsServes ==
  ASSUME ServedInv, NEW log_index \in SnapshotIndexes, CompactLogsThrough(log_index)
  PROVE  ServedInv' /\ Progress
<1> DEFINE ns == [n \in Member |-> CompactLogThrough(nodes[n], log_index)]
<1>1. /\ nodes' = ns /\ RefreshClusterIndexes(ns)
      /\ UNCHANGED peer_pipelines
      /\ UNCHANGED <<leaderVars, running, leader_lease_valid, acknowledged>>
  BY DEF CompactLogsThrough, RefreshClusterIndexes
<1>2. log_index \in Nat
  BY ClusterAssumption
<1>3. DOMAIN ns = Member /\ ns = [n \in Member |-> ns[n]]
  OBVIOUS
<1>4. ASSUME NEW n \in Member
      PROVE  Serving(ns[n]) /\ Advanced(ns[n], nodes[n])
  <2>1. Serving(nodes[n])
    BY ServedFacts
  <2> QED
    BY <1>2, <2>1, CompactServes
<1> HIDE DEF ns
<1>5. Frame
  <2>1. Member' = Member /\ DOMAIN peer_pipelines' = Member
    BY <1>1, <1>3, ServedFacts DEF Member
  <2> QED
    BY <1>1, <2>1, FrameKept DEF leaderVars
<1> QED
  BY <1>1, <1>3, <1>4, <1>5, RefreshedStep

--------------------------------------------------------------------------------
(***************************************************************************)
(* Every step.                                                             *)
(***************************************************************************)
LEMMA InitServes == Init => ServedInv
<1> SUFFICES ASSUME Init PROVE ServedInv
  OBVIOUS
<1>1. GroupInv
  BY InitInv DEF RuntimeInv
<1> QED
  BY <1>1 DEF GroupInv, NodeInv, ServedInv, Serving

\* The calls of the group's own process.
LEMMA RuntimeNextServes ==
  ASSUME ServedInv, RuntimeNext
  PROVE  ServedInv' /\ Progress
<1>1. CASE Start
  <2> DEFINE electable == {n \in Member : Electable(n)}
  <2>1. running' \in BOOLEAN /\ acknowledged' = acknowledged
    BY <1>1 DEF Start
  <2>2. CASE electable # {} /\ Elect(Min(electable))
    <3>1. electable \in SUBSET Nat /\ electable \subseteq Node
      BY ServedFacts
    <3>2. Elect(Min(electable)) /\ electable # {}
      BY <2>2
    <3> HIDE DEF electable
    <3>3. Min(electable) \in Node
      BY <3>1, <3>2, MinNat
    <3> QED
      BY <2>1, <3>2, <3>3, ElectServes
  <2>3. CASE UNCHANGED <<nodes, peer_pipelines, leaderVars, indexVars,
                         leader_lease_valid>>
    <3>1. UNCHANGED <<nodes, indexVars>>
      BY <2>3
    <3>2. Frame
      BY <2>1, <2>3 DEF Frame, ServedInv, TypeOK, leaderVars, Member
    <3> QED
      BY <3>1, <3>2, FlagsServe
  <2> QED
    BY <1>1, <2>2, <2>3 DEF Start
<1>2. CASE Stop
  <2>1. UNCHANGED <<nodes, indexVars>>
    BY <1>2 DEF Stop
  <2>2. Frame
    BY <1>2 DEF Stop, Frame, ServedInv, TypeOK, leaderVars, Member
  <2> QED
    BY <2>1, <2>2, FlagsServe
<1>3. ASSUME NEW n \in Node, NEW forced \in BOOLEAN, Campaign(n, forced)
      PROVE  ServedInv' /\ Progress
  <2>1. /\ Elect(n) /\ running' = running /\ acknowledged' = acknowledged
        /\ running \in BOOLEAN
    BY <1>3 DEF Campaign, ServedInv, TypeOK
  <2> QED
    BY <2>1, ElectServes
<1>4. ASSUME NEW n \in Node, TransferLeader(n)
      PROVE  ServedInv' /\ Progress
  <2>1. /\ Elect(n) /\ running' = running /\ acknowledged' = acknowledged
        /\ running \in BOOLEAN
    BY <1>4 DEF TransferLeader, ServedInv, TypeOK
  <2> QED
    BY <2>1, ElectServes
<1>5. ASSUME NEW n \in Node, NEW healthy \in BOOLEAN, SetNodeHealthy(n, healthy)
      PROVE  ServedInv' /\ Progress
  BY <1>5, SetNodeHealthyServes
<1>6. ASSUME NEW valid \in LeaseUpdates, SetLeaderLeaseValid(valid)
      PROVE  ServedInv' /\ Progress
  <2>1. UNCHANGED <<nodes, indexVars>>
    BY <1>6 DEF SetLeaderLeaseValid
  <2>2. Frame
    BY <1>6, ClusterAssumption
       DEF SetLeaderLeaseValid, Frame, ServedInv, TypeOK, leaderVars, Member
  <2> QED
    BY <2>1, <2>2, FlagsServe
<1>7. ASSUME NEW payload \in Payload, Propose(payload)
      PROVE  ServedInv' /\ Progress
  BY <1>7, ProposeServes
<1>8. ASSUME NEW payload \in Payload, ProposeRefused(payload)
      PROVE  ServedInv' /\ Progress
  BY <1>8, ProposeRefusedServes
<1>9. ASSUME NEW peer \in AddablePeers, AddPeer(peer[1], peer[2])
      PROVE  ServedInv' /\ Progress
  <2>1. peer[1] \in Node /\ peer[2] \in ReplicaRole
    BY ClusterAssumption
  <2> QED
    BY <1>9, <2>1, AddPeerServes
<1>10. ASSUME NEW n \in Node, PromotePeer(n)
       PROVE  ServedInv' /\ Progress
  BY <1>10, PromotePeerServes
<1>11. ASSUME NEW n \in RemovablePeers, RemovePeer(n)
       PROVE  ServedInv' /\ Progress
  BY <1>11, RemovePeerServes
<1>12. ASSUME NEW n \in Node, LearnerCatchUp(n)
       PROVE  ServedInv' /\ Progress
  BY <1>12, LearnerCatchUpServes
<1> QED
  BY <1>1, <1>2, <1>3, <1>4, <1>5, <1>6, <1>7, <1>8, <1>9, <1>10, <1>11, <1>12
     DEF RuntimeNext

\* Every call and every request.
LEMMA ServedStep == ServedInv /\ [Next]_vars => ServedInv' /\ Progress
<1> SUFFICES ASSUME ServedInv, [Next]_vars PROVE ServedInv' /\ Progress
  OBVIOUS
<1>1. CASE RuntimeNext
  BY <1>1, RuntimeNextServes
<1>2. CASE TransportNext
  <2>1. ASSUME NEW n \in Node, NEW request \in AppendRequests,
               AppendEntriesTo(n, request)
        PROVE  ServedInv' /\ Progress
    BY <2>1, AppendEntriesToServes
  <2>2. ASSUME NEW n \in Node, NEW i \in SnapshotIndexes, InstallSnapshotTo(n, i)
        PROVE  ServedInv' /\ Progress
    BY <2>2, InstallSnapshotToServes
  <2>3. ASSUME NEW n \in Node, NEW i \in SnapshotIndexes, NEW tail \in Tails,
               InstallSnapshotWithTailTo(n, i, tail)
        PROVE  ServedInv' /\ Progress
    BY <2>3, TailToServes
  <2>4. ASSUME NEW i \in SnapshotIndexes, CompactLogsThrough(i)
        PROVE  ServedInv' /\ Progress
    BY <2>4, CompactLogsServes
  <2> QED
    BY <1>2, <2>1, <2>2, <2>3, <2>4 DEF TransportNext
<1>3. CASE UNCHANGED vars
  <2>1. UNCHANGED <<nodes, indexVars>>
    BY <1>3 DEF vars, indexVars
  <2>2. Frame
    BY <1>3 DEF vars, Frame, ServedInv, TypeOK, Member
  <2> QED
    BY <2>1, <2>2, FlagsServe
<1> QED
  BY <1>1, <1>2, <1>3 DEF Next

\* Whatever requests, snapshots, tails and compactions are mixed with the calls
\* of the group's own process, the types hold, no member has applied more than it
\* committed, and the cluster's indexes cover every member's.
THEOREM ServedSafety == Spec => []ServedInv
<1>1. Init => ServedInv
  BY InitServes
<1>2. ServedInv /\ [Next]_vars => ServedInv'
  BY ServedStep
<1> QED
  BY <1>1, <1>2, PTL DEF Spec

\* refresh_cluster_indexes is enough: requests that go around the leader do not
\* leave the indexes that propose, transfer_leader and promote_peer compare with
\* behind those of a member.
THEOREM ServedIndexesCover == Spec => []ClusterIndexesCover
<1>1. ServedInv => ClusterIndexesCover
  BY DEF ServedInv
<1> QED
  BY <1>1, ServedSafety, PTL

--------------------------------------------------------------------------------
(***************************************************************************)
(* What every step leaves of the members' logs.                            *)
(***************************************************************************)
\* A member's ordered log loses only what the step may take.
LogKept(n) ==
  Ordered(nodes[n].log) =>
    \A k \in DOMAIN nodes[n].log : \/ Keeps(nodes'[n].log, nodes[n].log[k])
                                   \/ MayTake(n, nodes[n].log[k])

LEMMA SameLogKept ==
  ASSUME NEW n, nodes'[n].log = nodes[n].log
  PROVE  LogKept(n)
  BY DEF LogKept, Keeps

\* A proposed entry goes behind an ordered log, whose last index it exceeds.
LEMMA ReplicatedLogs ==
  ASSUME ServedInv, NEW payload \in Payload, NEW n \in Member, Ordered(nodes[n].log),
         NEW k \in DOMAIN nodes[n].log
  PROVE  Keeps(Replicated(NewEntry(payload))[n].log, nodes[n].log[k])
<1> DEFINE e == NewEntry(payload)
           log == nodes[n].log
           longer == AppendEntry(log, e)
<1>1. /\ nodes[n] \in NodeRecord /\ log \in Seq(Entry)
      /\ LastIndex(log) \in Nat /\ LastIndex(log) <= MatchIndex(nodes[n])
      /\ MatchIndex(nodes[n]) \in Nat /\ MatchIndex(nodes[n]) <= last_log_index
      /\ current_term \in Nat /\ last_log_index \in Nat
  BY ServedFacts, ServingTypes
<1>2. e \in Entry /\ e.index = last_log_index + 1
  BY <1>1 DEF NewEntry, Entry
<1>3. Replicated(e)[n] = IF n \in Appending(e)
                           THEN [nodes[n] EXCEPT !.log = AppendEntry(@, e)]
                           ELSE nodes[n]
  BY DEF Replicated
<1> HIDE DEF e
<1>4. longer = Append(log, e)
  <2>1. \A x \in Entry : x.index \in Nat
    BY DEF Entry
  <2>2. e.index > LastIndex(log)
    BY <1>1, <1>2
  <2> QED
    BY <1>1, <1>2, <2>1, <2>2, AppendEntryPushes
<1>5. k \in DOMAIN Append(log, e) /\ Append(log, e)[k] = log[k]
  <2>1. /\ DOMAIN log = 1 .. Len(log) /\ Len(log) \in Nat
        /\ DOMAIN Append(log, e) = 1 .. (Len(log) + 1)
        /\ \A j \in 1 .. Len(log) : Append(log, e)[j] = log[j]
    BY <1>1, <1>2, AppendProperties, LenProperties
  <2> QED
    BY <2>1
<1>6. Keeps(longer, log[k]) /\ Keeps(log, log[k])
  BY <1>4, <1>5 DEF Keeps
<1> HIDE DEF longer
<1>7. [nodes[n] EXCEPT !.log = longer].log = longer
  BY <1>1 DEF NodeRecord
<1> QED
  BY <1>3, <1>6, <1>7 DEF e, longer

LEMMA ProposeLogs ==
  ASSUME ServedInv, NEW payload \in Payload,
         Propose(payload) \/ ProposeRefused(payload), NEW n \in Member
  PROVE  LogKept(n)
<1> DEFINE ns == Replicated(NewEntry(payload))
<1>1. /\ DOMAIN ns = Member /\ ns[n] \in NodeRecord
  BY ReplicatedServes DEF Serving
<1>2. nodes'[n].log = ns[n].log
  <2>1. CASE ProposeRefused(payload)
    BY <2>1 DEF ProposeRefused
  <2>2. CASE Propose(payload)
    <3>1. RefreshCommitIndex(ns, last_log_index + 1)
      BY <2>2 DEF Propose, NewEntry
    <3> HIDE DEF ns
    <3>2. \/ nodes'[n] = ns[n]
          \/ \E index : nodes'[n] = AdvanceCommit(ns[n], index)
      BY <1>1, <3>1 DEF RefreshCommitIndex
    <3> QED
      BY <1>1, <3>2, AdvanceCommitLog
  <2> QED
    BY <2>1, <2>2
<1> QED
  BY <1>2, ReplicatedLogs DEF LogKept

\* The calls of the group's own process take nothing from an ordered log.
LEMMA RuntimeNextLogs ==
  ASSUME ServedInv, RuntimeNext, NEW n \in Member \cap Member'
  PROVE  LogKept(n)
<1>1. nodes[n] \in NodeRecord
  BY ServedFacts
<1>2. CASE \E payload \in Payload : Propose(payload) \/ ProposeRefused(payload)
  BY <1>2, ProposeLogs
<1>3. CASE \E learner \in Node : LearnerCatchUp(learner)
  <2>1. PICK learner : LearnerCatchUp(learner)
    BY <1>3
  <2>2. /\ leader_id \in Member /\ learner \in Member
        /\ nodes' = [nodes EXCEPT ![learner] = CaughtUpLearner(learner)]
    BY <2>1 DEF LearnerCatchUp
  <2>3. CASE n # learner
    <3>1. nodes'[n] = nodes[n]
      BY <2>2, <2>3 DEF Member
    <3> QED
      BY <3>1, SameLogKept
  <2>4. CASE n = learner
    <3>1. nodes'[n] = CaughtUpLearner(n)
      BY <2>2, <2>4 DEF Member
    <3>2. Serving(nodes[n]) /\ Serving(nodes[leader_id])
      BY <2>2, ServedFacts
    <3> QED
      BY <2>2, <3>1, <3>2, CatchUpKeeps DEF LogKept
  <2> QED
    BY <2>3, <2>4
<1>4. CASE \E candidate \in Node : Elect(candidate)
  <2>1. PICK candidate \in Node : Elect(candidate)
    BY <1>4
  <2> DEFINE role == IF n = candidate THEN "Leader"
                     ELSE IdleRole(nodes[n].replica_role)
  <2>2. nodes'[n] = [nodes[n] EXCEPT !.current_term = current_term + 1,
                                     !.voted_for    = candidate,
                                     !.raft_role    = role]
    BY <2>1 DEF Elect
  <2> HIDE DEF role
  <2>3. nodes'[n].log = nodes[n].log
    BY <1>1, <2>2 DEF NodeRecord
  <2> QED
    BY <2>3, SameLogKept
<1>5. CASE \/ UNCHANGED nodes
           \/ \E m \in Node, healthy \in BOOLEAN : SetNodeHealthy(m, healthy)
           \/ \E peer \in AddablePeers : AddPeer(peer[1], peer[2])
           \/ \E m \in Node : PromotePeer(m)
           \/ \E m \in RemovablePeers : RemovePeer(m)
  <2>1. CASE UNCHANGED nodes
    BY <2>1, SameLogKept
  <2>2. ASSUME NEW m \in Node, NEW healthy \in BOOLEAN, SetNodeHealthy(m, healthy)
        PROVE  nodes'[n].log = nodes[n].log
    BY <1>1, <2>2 DEF SetNodeHealthy, Member, NodeRecord
  <2>3. ASSUME NEW peer \in AddablePeers, AddPeer(peer[1], peer[2])
        PROVE  nodes'[n].log = nodes[n].log
    BY <2>3 DEF AddPeer
  <2>4. ASSUME NEW m \in Node, PromotePeer(m)
        PROVE  nodes'[n].log = nodes[n].log
    BY <1>1, <2>4 DEF PromotePeer, Member, NodeRecord
  <2>5. ASSUME NEW m \in RemovablePeers, RemovePeer(m)
        PROVE  nodes'[n].log = nodes[n].log
    BY <2>5 DEF RemovePeer, Member
  <2> QED
    BY <1>5, <2>1, <2>2, <2>3, <2>4, <2>5, SameLogKept
<1>6. CASE Start
  <2> DEFINE electable == {m \in Member : Electable(m)}
  <2>1. CASE electable # {} /\ Elect(Min(electable))
    <3>1. electable \in SUBSET Nat /\ electable \subseteq Node
      BY ServedFacts
    <3>2. Elect(Min(electable)) /\ electable # {}
      BY <2>1
    <3> HIDE DEF electable
    <3>3. Min(electable) \in Node
      BY <3>1, <3>2, MinNat
    <3> QED
      BY <1>4, <3>2, <3>3
  <2>2. CASE UNCHANGED nodes
    BY <1>5, <2>2
  <2> QED
    BY <1>6, <2>1, <2>2 DEF Start
<1>7. CASE \/ Stop \/ \E valid \in LeaseUpdates : SetLeaderLeaseValid(valid)
  BY <1>5, <1>7 DEF Stop, SetLeaderLeaseValid
<1>8. CASE \E m \in Node : \/ \E forced \in BOOLEAN : Campaign(m, forced)
                           \/ TransferLeader(m)
  BY <1>4, <1>8 DEF Campaign, TransferLeader
<1> QED
  BY <1>2, <1>3, <1>5, <1>6, <1>7, <1>8 DEF RuntimeNext

\* The requests of other processes take what MayTake says.
LEMMA TransportNextLogs ==
  ASSUME ServedInv, TransportNext, NEW n \in Member \cap Member'
  PROVE  LogKept(n)
<1>1. /\ Serving(nodes[n]) /\ nodes[n] \in NodeRecord /\ nodes[n].log \in Seq(Entry)
      /\ DOMAIN nodes = Member
  BY ServedFacts, ServingTypes DEF Member
<1>2. SnapshotIndexes \subseteq Nat /\ Tails \subseteq Seq(Entry)
  BY ClusterAssumption DEF Entry
<1> SUFFICES ASSUME Ordered(nodes[n].log), NEW k \in DOMAIN nodes[n].log,
                    ~ MayTake(n, nodes[n].log[k])
             PROVE  Keeps(nodes'[n].log, nodes[n].log[k])
  BY DEF LogKept
<1> DEFINE e == nodes[n].log[k]
<1>3. e.index \in Nat /\ Keeps(nodes[n].log, e)
  BY <1>1, LogIndexes DEF Keeps
<1>4. ASSUME NEW m, NEW b, nodes' = [nodes EXCEPT ![m] = b], m = n => Keeps(b.log, e)
      PROVE  Keeps(nodes'[n].log, e)
  BY <1>1, <1>3, <1>4
<1>5. ASSUME NEW m \in Node, NEW request \in AppendRequests, AppendEntriesTo(m, request)
      PROVE  Keeps(nodes'[n].log, e)
  <2>1. nodes' = [nodes EXCEPT ![m] = AppendedTo(nodes[m], request)]
    BY <1>5 DEF AppendEntriesTo
  <2>2. ASSUME m = n PROVE Keeps(AppendedTo(nodes[m], request).log, e)
    <3>1. ~ \E j \in DOMAIN request.entries : request.entries[j].index <= e.index
      BY <1>5, <2>2 DEF MayTake
    <3> QED
      BY <1>1, <2>2, <3>1, AppendKeeps
  <2> QED
    BY <1>4, <2>1, <2>2
<1>6. ASSUME NEW m \in Node, NEW i \in SnapshotIndexes, InstallSnapshotTo(m, i)
      PROVE  Keeps(nodes'[n].log, e)
  <2>1. nodes' = [nodes EXCEPT ![m] = InstallSnapshot(nodes[m], i)]
    BY <1>6 DEF InstallSnapshotTo
  <2>2. ASSUME m = n PROVE Keeps(InstallSnapshot(nodes[m], i).log, e)
    <3>1. i \in Nat /\ e.index > i
      <4>1. ~ (e.index <= i)
        BY <1>6, <2>2 DEF MayTake
      <4> QED
        BY <1>2, <1>3, <4>1
    <3>2. InstallSnapshot(nodes[n], i).log = EntriesAbove(nodes[n].log, i)
      BY <1>1 DEF InstallSnapshot, NodeRecord
    <3> QED
      BY <1>1, <2>2, <3>1, <3>2, AboveKeeps
  <2> QED
    BY <1>4, <2>1, <2>2
<1>7. ASSUME NEW m \in Node, NEW i \in SnapshotIndexes, NEW tail \in Tails,
             InstallSnapshotWithTailTo(m, i, tail)
      PROVE  Keeps(nodes'[n].log, e)
  <2>1. nodes' = [nodes EXCEPT ![m] = TailInstalled(nodes[m], i, tail)]
    BY <1>7 DEF InstallSnapshotWithTailTo
  <2>2. ASSUME m = n PROVE Keeps(TailInstalled(nodes[m], i, tail).log, e)
    <3>1. ~ (e.index <= i) /\ \A j \in DOMAIN tail : ~ (tail[j].index <= e.index)
      BY <1>7, <2>2 DEF MayTake
    <3>2. i \in Nat /\ tail \in Seq(Entry)
      BY <1>2
    <3>3. i \in Nat /\ e.index > i
      BY <1>3, <3>1, <3>2
    <3>4. \A j \in DOMAIN tail : tail[j].index > e.index
      <4>1. \A j \in DOMAIN tail : tail[j].index \in Nat
        BY <3>2, LogIndexes
      <4> QED
        BY <1>3, <3>1, <4>1
    <3> QED
      BY <1>1, <2>2, <3>2, <3>3, <3>4, TailKeeps
  <2> QED
    BY <1>4, <2>1, <2>2
<1>8. ASSUME NEW i \in SnapshotIndexes, CompactLogsThrough(i)
      PROVE  Keeps(nodes'[n].log, e)
  <2>1. nodes'[n] = CompactLogThrough(nodes[n], i)
    BY <1>8 DEF CompactLogsThrough
  <2>2. nodes'[n].log = EntriesAbove(nodes[n].log, i)
    BY <1>1, <2>1 DEF CompactLogThrough, NodeRecord
  <2>3. ~ (e.index <= i)
    BY <1>8 DEF MayTake
  <2>4. i \in Nat /\ e.index > i
    BY <1>2, <1>3, <2>3
  <2> QED
    BY <1>1, <2>2, <2>4, AboveKeeps
<1> QED
  BY <1>5, <1>6, <1>7, <1>8 DEF TransportNext

\* Whatever calls, requests, snapshots, tails and compactions are mixed, no
\* member's commit or applied index falls, and a log in index order loses an
\* entry only to a snapshot or a compaction that reaches its index or to a
\* request or a tail with an entry at or before it.  Committed or not makes no
\* difference: append_entry has no floor.
THEOREM ServedProgress == Spec => MembersKeepProgress
<1>1. ServedInv /\ [Next]_vars =>
        [\A n \in Member \cap Member' :
           /\ nodes[n].commit_index <= nodes'[n].commit_index
           /\ nodes[n].applied_index <= nodes'[n].applied_index
           /\ Ordered(nodes[n].log) =>
                \A k \in DOMAIN nodes[n].log :
                  \/ Keeps(nodes'[n].log, nodes[n].log[k])
                  \/ MayTake(n, nodes[n].log[k])]_vars
  <2> SUFFICES ASSUME ServedInv, Next, NEW n \in Member \cap Member'
               PROVE  /\ nodes[n].commit_index <= nodes'[n].commit_index
                      /\ nodes[n].applied_index <= nodes'[n].applied_index
                      /\ LogKept(n)
    BY DEF LogKept
  <2>1. Advanced(nodes'[n], nodes[n])
    BY ServedStep DEF Progress
  <2>2. LogKept(n)
    BY RuntimeNextLogs, TransportNextLogs DEF Next
  <2> QED
    BY <2>1, <2>2 DEF Advanced
<1> QED
  BY <1>1, ServedSafety, PTL DEF Spec, MembersKeepProgress

--------------------------------------------------------------------------------
(***************************************************************************)
(* The verdicts on reads.                                                  *)
(***************************************************************************)
LEMMA FirstRefusalNone ==
  ASSUME NEW checks, DOMAIN checks \subseteq Nat,
         \A i \in DOMAIN checks : checks[i].reason \in RefusalReason
  PROVE  FirstRefusal(checks) = None => \A i \in DOMAIN checks : checks[i].passed
<1> DEFINE failing == {i \in DOMAIN checks : ~ checks[i].passed}
<1>1. failing \in SUBSET Nat /\ failing \subseteq DOMAIN checks
  OBVIOUS
<1>2. FirstRefusal(checks)
        = IF failing = {} THEN None ELSE checks[Min(failing)].reason
  BY DEF FirstRefusal
<1>3. failing = {} => \A i \in DOMAIN checks : checks[i].passed
  OBVIOUS
<1> HIDE DEF failing
<1>4. failing # {} => Min(failing) \in DOMAIN checks
  BY <1>1, MinNat
<1> QED
  BY <1>2, <1>3, <1>4, ReasonsAssumption

\* read_index refuses exactly when one of its three checks fails.
LEMMA ReadRefusalNone ==
  ASSUME NEW n, NEW min_commit
  PROVE  ReadRefusal(n, min_commit) = None
           <=> /\ nodes[n].healthy
               /\ HasLiveQuorum(nodes)
               /\ min_commit <= nodes[n].applied_index
<1> DEFINE checks == << Check(nodes[n].healthy, "node_unhealthy"),
                        Check(HasLiveQuorum(nodes), "no_live_quorum"),
                        Check(min_commit <= nodes[n].applied_index,
                              "applied_index_behind_min_commit") >>
<1>1. ReadRefusal(n, min_commit) = FirstRefusal(checks)
  BY DEF ReadRefusal
<1>2. /\ DOMAIN checks = 1 .. 3
      /\ checks[1].passed = nodes[n].healthy
      /\ checks[2].passed = HasLiveQuorum(nodes)
      /\ checks[3].passed = (min_commit <= nodes[n].applied_index)
      /\ checks[1].reason = "node_unhealthy"
      /\ checks[2].reason = "no_live_quorum"
      /\ checks[3].reason = "applied_index_behind_min_commit"
  BY DEF Check
<1> HIDE DEF checks
<1>3. DOMAIN checks \subseteq Nat /\ \A i \in DOMAIN checks : i = 1 \/ i = 2 \/ i = 3
  BY <1>2
<1>4. \A i \in DOMAIN checks : checks[i].reason \in RefusalReason
  BY <1>2, <1>3 DEF RefusalReason
<1>5. ASSUME FirstRefusal(checks) = None
      PROVE  /\ nodes[n].healthy
             /\ HasLiveQuorum(nodes)
             /\ min_commit <= nodes[n].applied_index
  <2>1. \A i \in DOMAIN checks : checks[i].passed
    BY <1>3, <1>4, <1>5, FirstRefusalNone
  <2>2. checks[1].passed /\ checks[2].passed /\ checks[3].passed
    BY <1>2, <2>1
  <2> QED
    BY <1>2, <2>2
<1>6. ASSUME nodes[n].healthy, HasLiveQuorum(nodes),
             min_commit <= nodes[n].applied_index
      PROVE  FirstRefusal(checks) = None
  <2>1. checks[1].passed /\ checks[2].passed /\ checks[3].passed
    BY <1>2, <1>6
  <2>2. {i \in DOMAIN checks : ~ checks[i].passed} = {}
    BY <1>3, <2>1
  <2> QED
    BY <2>2 DEF FirstRefusal
<1> QED
  BY <1>1, <1>5, <1>6

\* The membership derived from the members counts the same participants.
LEMMA LiveQuorumReached == HasLiveQuorum(nodes) => ReadQuorumReached
<1> DEFINE m == MembershipOf(nodes, current_term)
<1>1. m.voters \cup m.witnesses = QuorumParticipants(nodes)
  BY DEF MembershipOf, QuorumParticipants, ParticipatesInQuorum
<1>2. MembershipQuorumSize(m) = QuorumSize(nodes)
  BY <1>1 DEF MembershipQuorumSize, QuorumSize
<1>3. {n \in m.voters \cup m.witnesses : nodes[n].healthy} = LiveParticipants(nodes)
  BY <1>1 DEF LiveParticipants
<1> QED
  BY <1>2, <1>3 DEF HasLiveQuorum, ReadQuorumReached

\* When the library's decision lets a read through.
LEMMA RuntimeReadAllowed ==
  ASSUME NEW op \in {"ReadIndex", "LeaseRead", "BoundedStaleRead"}, NEW in,
         in.alive, in.serves_data,
         op = "LeaseRead" => in.lease_valid,
         in.has_majority,
         BoundedStaleAllowed(in.commit, in.leader_commit,
                             IF op = "BoundedStaleRead" THEN in.max_lag ELSE 0)
  PROVE  RuntimeRefusal(op, in) = None
<1> DEFINE checks ==
      << Check(in.alive /\ in.serves_data, "node_unavailable"),
         Check(op = "LeaseRead" => in.lease_valid, "stale_leader_lease"),
         Check(op \in {"ReadIndex", "LeaseRead"} => in.has_majority,
               "minority_partition"),
         Check(BoundedStaleAllowed(in.commit, in.leader_commit,
                 IF op = "BoundedStaleRead" THEN in.max_lag ELSE 0),
               "replica_lagging") >>
<1>1. RuntimeRefusal(op, in) = FirstRefusal(checks)
  BY DEF RuntimeRefusal
<1>2. /\ DOMAIN checks = 1 .. 4
      /\ checks[1].passed = (in.alive /\ in.serves_data)
      /\ checks[2].passed = (op = "LeaseRead" => in.lease_valid)
      /\ checks[3].passed = (op \in {"ReadIndex", "LeaseRead"} => in.has_majority)
      /\ checks[4].passed
           = BoundedStaleAllowed(in.commit, in.leader_commit,
               IF op = "BoundedStaleRead" THEN in.max_lag ELSE 0)
  BY DEF Check
<1> HIDE DEF checks
<1>3. \A i \in DOMAIN checks : i = 1 \/ i = 2 \/ i = 3 \/ i = 4
  BY <1>2
<1>4. /\ checks[1].passed /\ checks[2].passed /\ checks[3].passed
      /\ checks[4].passed
  BY <1>2
<1>5. {i \in DOMAIN checks : ~ checks[i].passed} = {}
  BY <1>3, <1>4
<1> QED
  BY <1>1, <1>5 DEF FirstRefusal

\* A group with these indexes gives verdicts that agree.
LEMMA ServedVerdicts == ServedInv => VerdictsAgree
<1> SUFFICES ASSUME ServedInv, NEW n \in Member
             PROVE  /\ PreVoteGranted(n) => Electable(n)
                    /\ \A max_lag \in 0 .. 1, min_commit \in {0, commit_index},
                          allow \in BOOLEAN :
                         LET answer == ReadIndex(n, min_commit, allow)
                             report == ReadPathReport(n, min_commit, allow, max_lag)
                             input  == RuntimeInput(n, max_lag)
                         IN  /\ answer.safe => report.quorum /\ report.fence
                             /\ answer.lease_read <=> answer.safe /\ report.eligible
                             /\ report.lease_read =>
                                  LeaseReadEligible(n, min_commit)
                                    /\ ~ report.stale_leader_rejected
                             /\ report.safe /\ leader_id # None /\ input.serves_data =>
                                  /\ RuntimeRefusal("BoundedStaleRead", input) = None
                                  /\ max_lag = 0 =>
                                       RuntimeRefusal("ReadIndex", input) = None
                                  /\ max_lag = 0 /\ report.lease_read =>
                                       RuntimeRefusal("LeaseRead", input) = None
                             /\ StatusReadSafe(n, min_commit) /\ ReadRefusal(n, 0) = None
                                  => answer.safe
  BY DEF VerdictsAgree
<1>1. PreVoteGranted(n) => Electable(n)
  BY DEF PreVoteGranted, Electable
<1>2. SUFFICES ASSUME NEW max_lag \in 0 .. 1, NEW min_commit \in {0, commit_index},
                      NEW allow \in BOOLEAN
               PROVE  LET answer == ReadIndex(n, min_commit, allow)
                          report == ReadPathReport(n, min_commit, allow, max_lag)
                          input  == RuntimeInput(n, max_lag)
                      IN  /\ answer.safe => report.quorum /\ report.fence
                          /\ answer.lease_read <=> answer.safe /\ report.eligible
                          /\ report.lease_read =>
                               LeaseReadEligible(n, min_commit)
                                 /\ ~ report.stale_leader_rejected
                          /\ report.safe /\ leader_id # None /\ input.serves_data =>
                               /\ RuntimeRefusal("BoundedStaleRead", input) = None
                               /\ max_lag = 0 =>
                                    RuntimeRefusal("ReadIndex", input) = None
                               /\ max_lag = 0 /\ report.lease_read =>
                                    RuntimeRefusal("LeaseRead", input) = None
                          /\ StatusReadSafe(n, min_commit) /\ ReadRefusal(n, 0) = None
                               => answer.safe
  BY <1>1
<1> DEFINE answer == ReadIndex(n, min_commit, allow)
           report == ReadPathReport(n, min_commit, allow, max_lag)
           input  == RuntimeInput(n, max_lag)
           passes == /\ nodes[n].healthy
                     /\ HasLiveQuorum(nodes)
                     /\ min_commit <= nodes[n].applied_index
           fence  == AppliedIndexFence(min_commit, nodes[n].commit_index,
                                       nodes[n].applied_index)
           near   == BoundedStaleAllowed(nodes[n].commit_index, commit_index, max_lag)
           leased == allow /\ EnableLeaseRead /\ leader_id = n /\ leader_lease_valid
<1>3. /\ nodes[n].commit_index \in Nat /\ nodes[n].applied_index \in Nat
      /\ nodes[n].applied_index <= nodes[n].commit_index
      /\ min_commit \in Nat
  BY ServingTypes, ServedFacts DEF Serving
<1>4. ReadRefusal(n, min_commit) = None <=> passes
  BY ReadRefusalNone
<1>5. passes => ReadQuorumReached /\ fence
  BY <1>3, LiveQuorumReached DEF AppliedIndexFence
<1> HIDE DEF passes
<1>6. /\ answer.safe <=> passes
      /\ answer.lease_read <=> passes /\ leased
  BY <1>4 DEF ReadIndex
<1>7. /\ report.quorum <=> ReadQuorumReached
      /\ report.fence <=> fence
      /\ report.eligible <=> leased /\ fence
      /\ report.safe <=> /\ answer.safe /\ ReadQuorumReached /\ fence
                         /\ leader_id # None => near
      /\ report.lease_read <=> answer.lease_read /\ report.safe
      /\ report.stale_leader_rejected
           <=> allow /\ leader_id = n /\ ~ leader_lease_valid
  BY DEF ReadPathReport, LeaseEligibility
<1>8. LeaseReadEligible(n, min_commit)
        <=> passes /\ EnableLeaseRead /\ leader_id = n /\ leader_lease_valid
  BY <1>4 DEF LeaseReadEligible, ReadIndex
<1>9. /\ input.alive <=> nodes[n].healthy
      /\ input.lease_valid <=> leader_lease_valid
      /\ input.has_majority <=> ReadQuorumReached
      /\ input.commit = nodes[n].commit_index
      /\ input.leader_commit = commit_index
      /\ input.max_lag = max_lag
  BY DEF RuntimeInput
<1>10. StatusReadSafe(n, min_commit) /\ ReadRefusal(n, 0) = None => passes
  BY ReadRefusalNone DEF StatusReadSafe, passes
<1> HIDE DEF answer, report, input, fence, near, leased
<1>11. ASSUME report.safe, leader_id # None, input.serves_data
       PROVE  /\ RuntimeRefusal("BoundedStaleRead", input) = None
              /\ max_lag = 0 => RuntimeRefusal("ReadIndex", input) = None
              /\ max_lag = 0 /\ report.lease_read =>
                   RuntimeRefusal("LeaseRead", input) = None
  <2>1. passes /\ ReadQuorumReached /\ near
    BY <1>6, <1>7, <1>11
  <2>2. input.alive /\ input.has_majority
    BY <1>9, <2>1 DEF passes
  <2>3. BoundedStaleAllowed(input.commit, input.leader_commit, input.max_lag)
    BY <1>9, <2>1 DEF near
  <2>4. RuntimeRefusal("BoundedStaleRead", input) = None
    BY <1>11, <2>2, <2>3, RuntimeReadAllowed
  <2>5. ASSUME max_lag = 0
        PROVE  BoundedStaleAllowed(input.commit, input.leader_commit, 0)
    BY <1>9, <2>3, <2>5
  <2>6. max_lag = 0 => RuntimeRefusal("ReadIndex", input) = None
    BY <1>11, <2>2, <2>5, RuntimeReadAllowed
  <2>7. report.lease_read => input.lease_valid
    BY <1>6, <1>7, <1>9 DEF leased
  <2>8. max_lag = 0 /\ report.lease_read => RuntimeRefusal("LeaseRead", input) = None
    BY <1>11, <2>2, <2>5, <2>7, RuntimeReadAllowed
  <2> QED
    BY <2>4, <2>6, <2>8
<1>12. answer.safe => report.quorum /\ report.fence
  BY <1>5, <1>6, <1>7
<1>13. answer.lease_read <=> answer.safe /\ report.eligible
  BY <1>5, <1>6, <1>7
<1>14. report.lease_read =>
         LeaseReadEligible(n, min_commit) /\ ~ report.stale_leader_rejected
  BY <1>6, <1>7, <1>8 DEF leased
<1>15. StatusReadSafe(n, min_commit) /\ ReadRefusal(n, 0) = None => answer.safe
  BY <1>6, <1>10
<1> QED
  BY <1>11, <1>12, <1>13, <1>14, <1>15 DEF answer, report, input

\* The two computations of every verdict on reads and pre-votes agree, whatever
\* other processes send: for any number of members and any configuration.
THEOREM VerdictsHold == Spec => []VerdictsAgree
  BY ServedSafety, ServedVerdicts, PTL
--------------------------------------------------------------------------------
(***************************************************************************)
(* The answers to requests.                                                *)
(***************************************************************************)
\* A record is what its fields say.
LEMMA NodeRecordEqual ==
  ASSUME NEW a \in NodeRecord, NEW b \in NodeRecord,
         a.replica_role = b.replica_role, a.raft_role = b.raft_role,
         a.current_term = b.current_term, a.voted_for = b.voted_for,
         a.committed = b.committed, a.log = b.log,
         a.installed_snapshot = b.installed_snapshot,
         a.commit_index = b.commit_index, a.applied_index = b.applied_index,
         a.healthy = b.healthy
  PROVE  a = b
  BY DEF NodeRecord

\* advance_commit leaves the rest of the member alone, and the same commit index
\* again changes nothing.
LEMMA AdvanceCommitTwice ==
  ASSUME NEW node, Serving(node), NEW target \in Nat
  PROVE  LET a == AdvanceCommit(node, target)
         IN  /\ a \in NodeRecord
             /\ a.current_term = node.current_term /\ a.raft_role = node.raft_role
             /\ a.replica_role = node.replica_role /\ a.log = node.log
             /\ MatchIndex(a) = MatchIndex(node)
             /\ AdvanceCommit(a, target) = a
<1> DEFINE a == AdvanceCommit(node, target)
           match == MatchIndex(node)
           held == Min({target, match})
           commit == Max({node.commit_index, held})
           serves == CanServeData(node.replica_role)
           applied == IF serves THEN Max({node.applied_index, commit})
                      ELSE node.applied_index
           committed == IF commit > 0
                          THEN [term |-> node.current_term, index |-> commit]
                          ELSE None
           again == AdvanceCommit(a, target)
<1>1. a = [node EXCEPT !.commit_index = commit, !.applied_index = applied,
                       !.committed = committed]
  BY DEF AdvanceCommit
<1>2. /\ match \in Nat /\ node \in NodeRecord
      /\ node.commit_index \in Nat /\ node.applied_index \in Nat
      /\ node.current_term \in Nat
  BY ServingTypes DEF Serving
<1>3. MatchIndex(a) = match /\ Serving(a)
  BY AdvanceCommitServes
<1>4. again = [a EXCEPT
                 !.commit_index = Max({a.commit_index, Min({target, MatchIndex(a)})}),
                 !.applied_index =
                   IF CanServeData(a.replica_role)
                     THEN Max({a.applied_index,
                               Max({a.commit_index, Min({target, MatchIndex(a)})})})
                     ELSE a.applied_index,
                 !.committed =
                   IF Max({a.commit_index, Min({target, MatchIndex(a)})}) > 0
                     THEN [term |-> a.current_term,
                           index |-> Max({a.commit_index,
                                          Min({target, MatchIndex(a)})})]
                     ELSE None]
  BY DEF AdvanceCommit
<1> HIDE DEF again, a, match
<1>5. held \in Nat
  BY <1>2, MinPair
<1>6. commit \in Nat /\ Max({commit, held}) = commit
  <2> HIDE DEF held
  <2>1. commit = IF node.commit_index >= held THEN node.commit_index ELSE held
    BY <1>2, <1>5, MaxPair
  <2>2. commit \in Nat /\ commit >= held
    BY <1>2, <1>5, <2>1
  <2> HIDE DEF commit
  <2> QED
    BY <1>5, <2>2, MaxPair
<1>7. applied \in Nat /\ (serves => Max({applied, commit}) = applied)
  <2> HIDE DEF commit
  <2>1. serves => applied = IF node.applied_index >= commit THEN node.applied_index
                            ELSE commit
    BY <1>2, <1>6, MaxPair
  <2>2. applied \in Nat /\ (serves => applied >= commit)
    BY <1>2, <1>6, <2>1
  <2> HIDE DEF applied
  <2> QED
    BY <1>6, <2>2, MaxPair
<1>8. /\ a \in NodeRecord
      /\ a.commit_index = commit /\ a.applied_index = applied
      /\ a.committed = committed
      /\ a.current_term = node.current_term /\ a.raft_role = node.raft_role
      /\ a.replica_role = node.replica_role /\ a.log = node.log
  <2>1. committed \in LogId \cup {None}
    BY <1>2, <1>6 DEF LogId
  <2> HIDE DEF commit, applied, committed
  <2> QED
    BY <1>1, <1>2, <1>6, <1>7, <2>1 DEF NodeRecord
<1> HIDE DEF commit, applied
<1>9. again = [a EXCEPT !.commit_index = commit, !.applied_index = applied,
                        !.committed = committed]
  BY <1>3, <1>4, <1>6, <1>7, <1>8 DEF held
<1>10. again = a
  <2> HIDE DEF committed
  <2>1. again \in NodeRecord
    BY <1>8, <1>9 DEF NodeRecord
  <2>2. /\ again.commit_index = a.commit_index
        /\ again.applied_index = a.applied_index
        /\ again.committed = a.committed
        /\ again.replica_role = a.replica_role /\ again.raft_role = a.raft_role
        /\ again.current_term = a.current_term /\ again.voted_for = a.voted_for
        /\ again.log = a.log /\ again.installed_snapshot = a.installed_snapshot
        /\ again.healthy = a.healthy
    BY <1>8, <1>9 DEF NodeRecord
  <2> QED
    BY <1>8, <2>1, <2>2, NodeRecordEqual
<1> QED
  BY <1>3, <1>8, <1>10 DEF a, again, match

\* The entries of a request follow its previous index without a gap: the
\* transports' check (AppendBodyValid) lets nothing else through.
EntriesFollow(request) ==
  \A k \in DOMAIN request.entries :
    request.entries[k].index = request.prev_index + k

\* The indexes go up one by one behind f.
CountsUp(es, f) == \A k \in DOMAIN es : es[k].index = f + k

\* Entries that follow the c-th of a log whose indexes go up one by one replace
\* what comes after it.
LEMMA FollowingEntries ==
  ASSUME NEW E, NEW log \in Seq(E), NEW f \in Nat, CountsUp(log, f),
         NEW c \in Nat, c <= Len(log),
         NEW es \in Seq(E), Len(es) > 0, CountsUp(es, f + c)
  PROVE  AppendEntries(log, es) = SubSeq(log, 1, c) \o es
<1> DEFINE n == Len(es)
           s == AppendEntries(log, es)
           cut == SubSeq(log, 1, c)
           joined == cut \o es
<1>1. /\ Len(log) \in Nat /\ DOMAIN log = 1 .. Len(log)
      /\ n \in Nat /\ n > 0 /\ DOMAIN es = 1 .. n
      /\ \A k \in 1 .. Len(log) : log[k] \in E
  BY LenProperties, ElementOfSeq
<1>2. s \in Seq(E) /\ Len(s) \in Nat
  BY AppendEntriesTyped, LenProperties
<1>3. PICK b, j : Built(s, log, es, b, j, n)
  <2>1. Distinct(es)
    <3> SUFFICES ASSUME NEW i \in DOMAIN es, NEW k \in DOMAIN es,
                        es[i].index = es[k].index
                 PROVE  i = k
      BY DEF Distinct
    <3>1. (f + c) + i = (f + c) + k /\ i \in Nat /\ k \in Nat
      BY <1>1 DEF CountsUp
    <3> QED
      BY <3>1
  <2> QED
    BY <2>1, AppendEntriesBuilds
<1>4. cut \in Seq(E) /\ Len(cut) = c /\ \A k \in 1 .. c : cut[k] = log[k]
  <2>1. \A k \in 1 .. c : log[k] \in E
    BY <1>1
  <2> QED
    BY <2>1, SubSeqProperties
<1>5. /\ joined \in Seq(E) /\ Len(joined) = c + n
      /\ \A k \in 1 .. c + n :
           joined[k] = IF k <= c THEN cut[k] ELSE es[k - c]
  <2> HIDE DEF cut
  <2> QED
    BY <1>4, ConcatProperties
<1> HIDE DEF n, s, cut, joined
<1>6. b \in Nat /\ b <= Len(log) /\ j \in Nat /\ j < n
  <2>1. b \in 0 .. Len(log) /\ j \in 0 .. n /\ (n > 0 => j < n)
    BY <1>3 DEF Built
  <2> QED
    BY <1>1, <2>1
<1>7. Len(s) = b + (n - j) /\ \A k \in 1 .. b : s[k] = log[k]
  BY <1>3 DEF Built
<1>8. \A k \in j + 1 .. n : s[b + (k - j)] = es[k]
  BY <1>3 DEF Built
<1>9. \A k \in 1 .. b, i \in 1 .. n : log[k].index # es[i].index
  BY <1>3 DEF Built
<1>10. \/ b = Len(log) /\ j = 0
       \/ b < Len(log) /\ j < n /\ log[b + 1].index = es[j + 1].index
  BY <1>3 DEF Built
<1>11. b <= c
  <2> SUFFICES ASSUME c < b PROVE FALSE
    BY <1>6
  <2>1. c + 1 \in 1 .. b /\ 1 \in 1 .. n /\ c + 1 \in DOMAIN log /\ 1 \in DOMAIN es
    BY <1>1, <1>6
  <2>2. log[c + 1].index = f + (c + 1) /\ es[1].index = (f + c) + 1
    BY <2>1 DEF CountsUp
  <2>3. log[c + 1].index # es[1].index
    BY <1>9, <2>1
  <2> QED
    BY <2>2, <2>3
<1>12. b = c /\ j = 0
  <2>1. CASE b = Len(log) /\ j = 0
    BY <1>6, <1>11, <2>1
  <2>2. CASE b < Len(log) /\ j < n /\ log[b + 1].index = es[j + 1].index
    <3>1. b + 1 \in DOMAIN log /\ j + 1 \in DOMAIN es
      BY <1>1, <1>6, <2>2
    <3>2. log[b + 1].index = f + (b + 1) /\ es[j + 1].index = (f + c) + (j + 1)
      BY <3>1 DEF CountsUp
    <3>3. f + (b + 1) = (f + c) + (j + 1)
      BY <2>2, <3>2
    <3> QED
      BY <1>6, <1>11, <3>3
  <2> QED
    BY <1>10, <2>1, <2>2
<1>13. /\ Len(s) = c + n
       /\ \A k \in 1 .. c : s[k] = log[k]
       /\ \A k \in 1 .. n : s[c + k] = es[k]
  <2>1. Len(s) = c + n
    BY <1>1, <1>6, <1>7, <1>12
  <2>2. \A k \in 1 .. c : s[k] = log[k]
    BY <1>7, <1>12
  <2>3. ASSUME NEW k \in 1 .. n PROVE s[c + k] = es[k]
    <3>1. k \in j + 1 .. n /\ b + (k - j) = c + k
      BY <1>1, <1>12
    <3> QED
      BY <1>8, <3>1
  <2> QED
    BY <2>1, <2>2, <2>3
<1>14. ASSUME NEW k \in 1 .. Len(s) PROVE s[k] = joined[k]
  <2>1. k \in 1 .. c + n
    BY <1>13
  <2>2. CASE k <= c
    <3>1. k \in 1 .. c
      BY <1>1, <2>1, <2>2
    <3> QED
      BY <1>4, <1>5, <1>13, <2>1, <2>2, <3>1
  <2>3. CASE ~ (k <= c)
    <3>1. k - c \in 1 .. n /\ c + (k - c) = k
      BY <1>1, <2>1, <2>3
    <3>2. s[c + (k - c)] = es[k - c]
      BY <1>13, <3>1
    <3>3. joined[k] = es[k - c]
      BY <1>5, <2>1, <2>3
    <3> QED
      BY <3>1, <3>2, <3>3
  <2> QED
    BY <2>2, <2>3
<1>15. s = joined
  <2>1. Len(s) = Len(joined)
    BY <1>5, <1>13
  <2> QED
    BY <1>2, <1>5, <1>14, <2>1, SeqEqual
<1> QED
  BY <1>15 DEF s, joined, cut

\* So a member whose log has no hole holds what the request continues and the
\* entries sent.
LEMMA FollowingRequest ==
  ASSUME NEW node, Serving(node), Contiguous(node),
         NEW prev \in Nat, prev <= MatchIndex(node), node.installed_snapshot <= prev,
         NEW es \in Seq(Entry), Len(es) > 0, \A k \in DOMAIN es : es[k].index = prev + k
  PROVE  AppendEntries(node.log, es)
           = SubSeq(node.log, 1, prev - node.installed_snapshot) \o es
<1>1. /\ node.log \in Seq(Entry) /\ Len(node.log) \in Nat
      /\ DOMAIN node.log = 1 .. Len(node.log)
      /\ node.installed_snapshot \in Nat /\ LastIndex(node.log) \in Nat
      /\ MatchIndex(node) \in {LastIndex(node.log), node.installed_snapshot}
  BY ServingTypes, LenProperties
<1>2. \A k \in DOMAIN node.log : node.log[k].index = node.installed_snapshot + k
  BY DEF Contiguous
<1>3. \/ LastIndex(node.log) = 0
      \/ LastIndex(node.log) = node.installed_snapshot + Len(node.log)
  <2>1. CASE node.log = << >>
    BY <2>1 DEF LastIndex
  <2>2. CASE node.log # << >>
    <3>1. Len(node.log) \in DOMAIN node.log
      BY <1>1, <2>2, EmptySeq
    <3>2. LastIndex(node.log) = node.log[Len(node.log)].index
      BY <2>2 DEF LastIndex
    <3> QED
      BY <1>2, <3>1, <3>2
  <2> QED
    BY <2>1, <2>2
<1> DEFINE f == node.installed_snapshot
           c == prev - f
<1>4. c \in Nat /\ c <= Len(node.log) /\ f \in Nat /\ f + c = prev
  BY <1>1, <1>3
<1>5. CountsUp(es, f + c)
  <2> HIDE DEF c, f
  <2> QED
    BY <1>4 DEF CountsUp
<1>6. CountsUp(node.log, f)
  BY <1>2 DEF CountsUp
<1> HIDE DEF f, c
<1>7. AppendEntries(node.log, es) = SubSeq(node.log, 1, c) \o es
  BY <1>1, <1>4, <1>5, <1>6, FollowingEntries
<1> QED
  BY <1>7 DEF c, f

\* What a member is after a request it accepted.
Taken(node, request, after) ==
  /\ after.current_term = request.term
  /\ CanServeData(node.replica_role) =>
       \A k \in DOMAIN request.entries :
         MatchIndex(after) >= request.entries[k].index
  /\ CanServeData(node.replica_role) /\ request.entries # << >> =>
       /\ after.log[Len(after.log)] = request.entries[Len(request.entries)]
       /\ Contiguous(node) /\ request.prev_index - node.installed_snapshot >= 0 =>
            after.log = SubSeq(node.log, 1, request.prev_index - node.installed_snapshot)
                          \o request.entries
  /\ request.prev_index <= MatchIndex(after)
  /\ MatchIndex(after) \in Nat
  /\ AppendedTo(after, request) = after

\* append_entries_to leaves the request's term and its entries at the end of the
\* log; the same request again changes nothing.
LEMMA AppendTaken ==
  ASSUME NEW node, Serving(node), NEW request \in AppendRequests,
         EntriesFollow(request), AppendAccepted(node, request)
  PROVE  Taken(node, request, AppendedTo(node, request))
<1> DEFINE serves == CanServeData(node.replica_role)
           es == request.entries
           role == IdleRole(node.replica_role)
           log == IF serves THEN AppendEntries(node.log, es) ELSE node.log
           follower == [node EXCEPT !.current_term = request.term,
                                    !.raft_role = role, !.log = log]
           after == AppendedTo(node, request)
<1>1. after = AdvanceCommit(follower, request.leader_commit)
  BY DEF AppendedTo
<1>2. /\ request.term \in Nat /\ request.leader_commit \in Nat
      /\ request.prev_index \in Nat /\ es \in Seq(Entry)
  BY ClusterAssumption DEF Entry
<1>3. node \in NodeRecord /\ node.log \in Seq(Entry) /\ Serving(node)
  BY ServingTypes DEF Serving
<1>4. /\ Len(es) \in Nat /\ DOMAIN es = 1 .. Len(es)
      /\ \A k \in DOMAIN es : es[k].index \in Nat
  <2>1. Len(es) \in Nat /\ DOMAIN es = 1 .. Len(es)
    BY <1>2, LenProperties
  <2>2. \A k \in DOMAIN es : es[k] \in Entry
    BY <1>2, <2>1, ElementOfSeq
  <2> HIDE DEF es
  <2> QED
    BY <2>1, <2>2 DEF Entry
<1>5. Distinct(es)
  <2> SUFFICES ASSUME NEW j \in DOMAIN es, NEW k \in DOMAIN es,
                      es[j].index = es[k].index
               PROVE  j = k
    BY DEF Distinct
  <2>1. request.prev_index + j = request.prev_index + k
    BY DEF EntriesFollow
  <2> QED
    BY <1>2, <1>4, <2>1
<1>6. /\ log \in Seq(Entry)
      /\ serves => AppendEntries(log, es) = log
      /\ serves /\ Len(es) > 0 =>
           LastIndex(log) = es[Len(es)].index /\ log[Len(log)] = es[Len(es)]
      /\ serves /\ Len(es) = 0 => log = node.log
  <2>1. serves => /\ AppendEntries(node.log, es) \in Seq(Entry)
                  /\ AppendEntries(AppendEntries(node.log, es), es)
                       = AppendEntries(node.log, es)
    BY <1>2, <1>3, <1>5, AppendEntriesTyped, AppendEntriesTwice
  <2>2. Len(es) > 0 =>
          /\ LastIndex(AppendEntries(node.log, es)) = es[Len(es)].index
          /\ AppendEntries(node.log, es)[Len(AppendEntries(node.log, es))] = es[Len(es)]
    BY <1>2, <1>3, <1>5, AppendEntriesLast
  <2>3. Len(es) = 0 => AppendEntries(node.log, es) = node.log
    <3> SUFFICES ASSUME Len(es) = 0 PROVE AppendEntries(node.log, es) = node.log
      OBVIOUS
    <3>1. es = << >> /\ DOMAIN es = {}
      BY <1>2, <1>4, EmptySeq
    <3>2. AllFresh(node.log, es)
      BY <3>1 DEF AllFresh, Distinct
    <3>3. AppendEntries(node.log, es) = node.log \o es
      BY <1>2, <1>3, <3>2, AppendEntriesSteps
    <3> QED
      BY <1>3, <3>1, <3>3, ConcatEmptySeq
  <2> QED
    BY <1>3, <2>1, <2>2, <2>3
<1>7. role \in RaftRole
  BY DEF IdleRole, RaftRole
<1>8. /\ follower \in NodeRecord /\ Serving(follower)
      /\ follower.current_term = request.term /\ follower.raft_role = role
      /\ follower.replica_role = node.replica_role /\ follower.log = log
      /\ follower.installed_snapshot = node.installed_snapshot
  <2> HIDE DEF log, role
  <2>1. /\ follower \in NodeRecord
        /\ follower.current_term = request.term /\ follower.raft_role = role
        /\ follower.replica_role = node.replica_role /\ follower.log = log
        /\ follower.installed_snapshot = node.installed_snapshot
        /\ follower.commit_index = node.commit_index
        /\ follower.applied_index = node.applied_index
    BY <1>2, <1>3, <1>6, <1>7 DEF NodeRecord
  <2> HIDE DEF follower
  <2> QED
    BY <1>3, <2>1 DEF Serving
<1> HIDE DEF log, follower, after
<1>9. /\ after \in NodeRecord /\ after.current_term = request.term
      /\ after.raft_role = role /\ after.replica_role = node.replica_role
      /\ after.log = log
      /\ MatchIndex(after) = MatchIndex(follower)
      /\ AdvanceCommit(after, request.leader_commit) = after
  BY <1>1, <1>2, <1>8, AdvanceCommitTwice
<1>10. /\ LastIndex(log) \in Nat /\ MatchIndex(follower) \in Nat
       /\ LastIndex(log) <= MatchIndex(follower)
  BY <1>8, ServingTypes
<1>11. ASSUME serves, NEW k \in DOMAIN es PROVE MatchIndex(after) >= es[k].index
  <2>1. Len(es) > 0 /\ Len(es) \in DOMAIN es /\ k <= Len(es)
    BY <1>4
  <2>2. es[k].index <= es[Len(es)].index
    <3>1. /\ es[k].index = request.prev_index + k
          /\ es[Len(es)].index = request.prev_index + Len(es)
      BY <2>1 DEF EntriesFollow
    <3> QED
      BY <1>2, <1>4, <2>1, <3>1
  <2>3. LastIndex(log) = es[Len(es)].index
    BY <1>6, <1>11, <2>1
  <2> QED
    BY <1>4, <1>9, <1>10, <2>1, <2>2, <2>3
<1>12. request.prev_index <= MatchIndex(after)
  <2>1. CASE serves /\ Len(es) > 0
    <3>1. 1 \in DOMAIN es /\ es[1].index > request.prev_index
      <4>1. 1 \in DOMAIN es /\ es[1].index = request.prev_index + 1
        BY <1>4, <2>1 DEF EntriesFollow
      <4> QED
        BY <1>2, <4>1
    <3>2. MatchIndex(after) >= es[1].index
      BY <1>11, <2>1, <3>1
    <3> QED
      BY <1>2, <1>4, <1>9, <1>10, <3>1, <3>2
  <2>2. CASE ~ serves \/ Len(es) = 0
    <3>1. log = node.log
      BY <1>6, <2>2 DEF log
    <3>2. MatchIndex(follower) = MatchIndex(node)
      BY <1>8, <3>1 DEF MatchIndex
    <3> QED
      BY <1>9, <3>2 DEF AppendAccepted
  <2> QED
    BY <1>4, <2>1, <2>2
<1>13. AppendedTo(after, request) = after
  <2> DEFINE l == IF CanServeData(after.replica_role)
                    THEN AppendEntries(after.log, request.entries) ELSE after.log
             f == [after EXCEPT !.current_term = request.term,
                                !.raft_role = IdleRole(after.replica_role),
                                !.log = l]
  <2>1. AppendedTo(after, request) = AdvanceCommit(f, request.leader_commit)
    BY DEF AppendedTo
  <2>2. l = after.log
    BY <1>6, <1>9
  <2> HIDE DEF l
  <2>3. f = after
    BY <1>9, <2>2 DEF NodeRecord
  <2> QED
    BY <1>9, <2>1, <2>3
<1>14. ASSUME serves, es # << >>
       PROVE  /\ after.log[Len(after.log)] = es[Len(es)]
              /\ Contiguous(node)
                 /\ request.prev_index - node.installed_snapshot >= 0 =>
                   after.log = SubSeq(node.log, 1,
                                      request.prev_index - node.installed_snapshot) \o es
  <2>1. Len(es) > 0
    BY <1>2, <1>4, <1>14, EmptySeq
  <2>2. after.log[Len(after.log)] = es[Len(es)]
    BY <1>6, <1>9, <1>14, <2>1
  <2>3. ASSUME Contiguous(node), request.prev_index - node.installed_snapshot >= 0
        PROVE  log = SubSeq(node.log, 1,
                            request.prev_index - node.installed_snapshot) \o es
    <3>1. /\ node.installed_snapshot \in Nat
          /\ node.installed_snapshot <= request.prev_index
      BY <1>2, <1>3, <2>3, ServingTypes
    <3>2. request.prev_index <= MatchIndex(node)
      BY DEF AppendAccepted
    <3>3. \A k \in DOMAIN es : es[k].index = request.prev_index + k
      BY DEF EntriesFollow
    <3>4. log = AppendEntries(node.log, es)
      BY <1>14 DEF log
    <3> HIDE DEF es
    <3> QED
      BY <1>2, <1>3, <2>1, <2>3, <3>1, <3>2, <3>3, <3>4, FollowingRequest
  <2> QED
    BY <1>9, <2>2, <2>3
<1>15. Taken(node, request, after)
  BY <1>9, <1>10, <1>11, <1>12, <1>13, <1>14 DEF Taken
<1> QED
  BY <1>15 DEF after

\* read_index names a reason, and grants a lease read with a safe one only.
LEMMA ReadAnswerValid ==
  ASSUME NEW n, NEW min_commit, NEW allow
  PROVE  ReadResponseValid(ReadIndex(n, min_commit, allow))
<1> DEFINE checks == << Check(nodes[n].healthy, "node_unhealthy"),
                        Check(HasLiveQuorum(nodes), "no_live_quorum"),
                        Check(min_commit <= nodes[n].applied_index,
                              "applied_index_behind_min_commit") >>
           failing == {i \in DOMAIN checks : ~ checks[i].passed}
<1>1. ReadRefusal(n, min_commit)
        = IF failing = {} THEN None ELSE checks[Min(failing)].reason
  BY DEF ReadRefusal, FirstRefusal
<1>2. /\ DOMAIN checks = 1 .. 3
      /\ checks[1].reason = "node_unhealthy"
      /\ checks[2].reason = "no_live_quorum"
      /\ checks[3].reason = "applied_index_behind_min_commit"
  BY DEF Check
<1> HIDE DEF checks
<1>3. failing \in SUBSET Nat /\ failing \subseteq {1, 2, 3}
  BY <1>2
<1> HIDE DEF failing
<1>4. failing # {} => Min(failing) \in {1, 2, 3}
  BY <1>3, MinNat
<1>5. ReadRefusal(n, min_commit) # None => ReadRefusal(n, min_commit) # ""
  BY <1>1, <1>2, <1>4
<1> QED
  BY <1>5 DEF ReadResponseValid, ReasonGiven, ReadIndex

\* The answer to an append-entries request at any member.
LEMMA AppendAnswerMatches ==
  ASSUME ServedInv, NEW n \in Member, NEW request \in AppendRequests,
         EntriesFollow(request)
  PROVE  LET node   == nodes[n]
             answer == AppendAnswer(n, request)
             after  == AppendedTo(node, request)
             sent   == request.entries
             kept   == request.prev_index - node.installed_snapshot
         IN  /\ AppendResponseValid(answer)
             /\ answer.success =>
                  /\ answer.term >= node.current_term
                  /\ AppendAccepted(after, request)
                  /\ AppendedTo(after, request) = after
             /\ answer.success /\ CanServeData(node.replica_role) /\ sent # << >> =>
                  /\ \A k \in DOMAIN sent : answer.match_index >= sent[k].index
                  /\ after.log[Len(after.log)] = sent[Len(sent)]
                  /\ Contiguous(node) /\ kept >= 0 =>
                       after.log = SubSeq(node.log, 1, kept) \o sent
             /\ ~ answer.success =>
                  \/ answer.term > request.term
                  \/ answer.rejection_hint < request.prev_index
<1> DEFINE node  == nodes[n]
           after == AppendedTo(node, request)
<1>1. /\ Serving(node) /\ node.current_term \in Nat /\ MatchIndex(node) \in Nat
      /\ request.term \in Nat /\ request.prev_index \in Nat
  BY ServedFacts, ServingTypes, ClusterAssumption
<1>2. CASE AppendAccepted(node, request)
  <2>1. Taken(node, request, after)
    BY <1>1, <1>2, AppendTaken
  <2>2. AppendAnswer(n, request) =
          [ term |-> request.term, success |-> TRUE,
            match_index |-> MatchIndex(after), rejection_hint |-> None ]
    BY <1>2 DEF AppendAnswer
  <2> HIDE DEF after
  <2>3. request.term >= node.current_term
    BY <1>2 DEF AppendAccepted
  <2>4. AppendAccepted(after, request)
    BY <1>1, <2>1 DEF Taken, AppendAccepted
  <2> QED
    <3>1. AppendResponseValid(AppendAnswer(n, request))
      BY <2>2 DEF AppendResponseValid
    <3>2. AppendAnswer(n, request).term >= node.current_term
      BY <2>2, <2>3
    <3>3. AppendedTo(after, request) = after
      BY <2>1 DEF Taken
    <3>4. CanServeData(node.replica_role) =>
            \A k \in DOMAIN request.entries :
              AppendAnswer(n, request).match_index >= request.entries[k].index
      BY <2>1, <2>2 DEF Taken
    <3>5. CanServeData(node.replica_role) /\ request.entries # << >> =>
            /\ after.log[Len(after.log)] = request.entries[Len(request.entries)]
            /\ Contiguous(node) /\ request.prev_index - node.installed_snapshot >= 0 =>
                 after.log = SubSeq(node.log, 1,
                                    request.prev_index - node.installed_snapshot)
                               \o request.entries
      BY <2>1 DEF Taken
    <3>6. AppendAnswer(n, request).success
      BY <2>2
    <3> HIDE DEF node
    <3> QED
      BY <2>4, <3>1, <3>2, <3>3, <3>4, <3>5, <3>6 DEF after, node
<1>3. CASE ~ AppendAccepted(node, request)
  <2>1. AppendAnswer(n, request) =
          [ term |-> node.current_term, success |-> FALSE,
            match_index |-> MatchIndex(node), rejection_hint |-> MatchIndex(node) ]
    BY <1>3 DEF AppendAnswer
  <2>2. node.current_term > request.term \/ MatchIndex(node) < request.prev_index
    BY <1>1, <1>3 DEF AppendAccepted
  <2> HIDE DEF after, node
  <2> QED
    BY <2>1, <2>2 DEF AppendResponseValid
<1> QED
  BY <1>2, <1>3

\* Every answer of a group tells what became of the log.
LEMMA ServedAnswers ==
  ASSUME \A request \in AppendRequests : EntriesFollow(request), ServedInv
  PROVE  AnswersMatchTheLog
<1>1. ASSUME NEW term \in 0 .. MaxTerm, NEW flag \in BOOLEAN
      PROVE  /\ ReasonGiven(VoteAnswer(term, flag))
             /\ ReasonGiven(InstallAnswer(term, flag))
             /\ VoteAnswer(term, flag).term >= current_term
  <2>1. current_term \in Nat /\ term \in Nat
    BY ServedFacts, ClusterAssumption
  <2>2. Max({current_term, term}) >= current_term
    BY <2>1, MaxPair
  <2> QED
    BY <2>2 DEF ReasonGiven, VoteAnswer, InstallAnswer
<1> QED
  BY <1>1, AppendAnswerMatches, ReadAnswerValid DEF AnswersMatchTheLog

\* The answers a transport returns match the log the request leaves, however late
\* or repeated it was: for any requests whose entries follow their previous
\* index, in every state that requests, snapshots and the group's own calls lead
\* to.  The log of a member without a hole then is its part up to that index and
\* the entries sent.
THEOREM AnswersHold ==
  ASSUME \A request \in AppendRequests : EntriesFollow(request)
  PROVE  Spec => []AnswersMatchTheLog
<1>1. ServedInv => AnswersMatchTheLog
  BY ServedAnswers
<1> QED
  BY <1>1, ServedSafety, PTL
================================================================================
