----------------------------- MODULE RuntimeHandle -----------------------------
(***************************************************************************)
(* The two ends of a node runtime: the handle (RaftNodeRuntime) its users  *)
(* share, and the thread behind it.  What the commands do to the cluster   *)
(* is NodeRuntime's; here they are sent, taken, answered, and waited for   *)
(* five seconds at most.                                                   *)
(*                                                                         *)
(* start, stop, restart and shutdown borrow the handle exclusively; every  *)
(* other method shares it, so any number of its calls may be under way.    *)
(* The channel is a queue; an answer goes to a channel of the call's own,  *)
(* and nobody misses it when the caller has stopped waiting.               *)
(*                                                                         *)
(* A command succeeds or fails as the cluster decides; stop and the stop   *)
(* within shutdown cannot fail.  A thread that cannot build its cluster or *)
(* open its log answers every command with that error.  A thread that      *)
(* panics is not modelled, so that a send succeeds as long as the handle   *)
(* has its sender.                                                         *)
(***************************************************************************)
EXTENDS RaftTypes, SequencesExt

CONSTANTS
  Caller,        \* the threads that call a shared method, each of them once
  MaxLifecycle   \* bound: commands of the lifecycle methods

ASSUME HandleAssumption ==
  /\ MaxLifecycle \in Nat /\ Caller \cap Nat = {}
  /\ None \notin {"call", "start", "stop", "shutdown", "ok", "error"}

Lifecycle == 1 .. MaxLifecycle
Command   == Caller \cup Lifecycle

VARIABLES
  handle_state,   \* RaftNodeRuntime.state
  command_tx,     \* the handle still has its sender
  restart_count,
  owner,          \* the lifecycle call under way, see Idle
  sent,           \* history: lifecycle commands sent so far
  kinds,          \* what the commands sent ask for
  calls,          \* the shared calls: "idle", "waiting" or their result
  queue,          \* the channel: commands in the order sent
  loop,           \* the thread: [mode, state]
  answers,        \* command -> its answer, None before
  executed,       \* history: how often a command was executed
  late            \* history: a lifecycle call stopped waiting

handleVars == <<handle_state, command_tx, restart_count, owner>>
loopVars   == <<queue, loop, answers, executed>>
handleAllVars == <<handleVars, sent, kinds, calls, loopVars, late>>

\* method: what was called, or "none"; pc: what it does next.
Idle == [method |-> "none", pc |-> "none"]

HandleInit ==
  /\ handle_state = "Created" /\ command_tx = TRUE /\ restart_count = 0
  /\ owner = Idle /\ sent = 0
  /\ kinds = [c \in Command |-> None]
  /\ calls = [c \in Caller |-> "idle"]
  /\ queue = << >>
  /\ loop = [mode |-> "opening", state |-> "Created"]
  /\ answers = [c \in Command |-> None]
  /\ executed = [c \in Command |-> 0]
  /\ late = FALSE

Alive == loop.mode # "exited"

--------------------------------------------------------------------------------
\* A command goes to the end of the channel.
Sends(c, kind) ==
  /\ queue' = Append(queue, c)
  /\ kinds' = [kinds EXCEPT ![c] = kind]
  /\ UNCHANGED <<loop, answers, executed>>

\* A shared call: propose, read_index, status and the like.
BeginCall(c) ==
  /\ owner = Idle /\ calls[c] = "idle"
  /\ \/ /\ command_tx
        /\ Sends(c, "call")
        /\ calls' = [calls EXCEPT ![c] = "waiting"]
     \/ /\ ~ command_tx
        /\ calls' = [calls EXCEPT ![c] = "refused"]
        /\ UNCHANGED <<kinds, loopVars>>
  /\ UNCHANGED <<handleVars, sent, late>>

CallReturns(c) ==
  /\ calls[c] = "waiting" /\ answers[c] # None
  /\ calls' = [calls EXCEPT ![c] = answers[c]]
  /\ UNCHANGED <<handleVars, sent, kinds, loopVars, late>>

\* Mutant: the command is sent once more.
CallTimesOutResending(c) ==
  /\ calls[c] = "waiting" /\ c \notin ToSet(queue)
  /\ Sends(c, "call")
  /\ UNCHANGED <<handleVars, sent, calls, late>>

\* recv_runtime_reply gives up; the command stays where it is.
CallTimesOut(c) ==
  /\ calls[c] = "waiting"
  /\ calls' = [calls EXCEPT ![c] = "timeout"]
  /\ UNCHANGED <<handleVars, sent, kinds, loopVars, late>>

--------------------------------------------------------------------------------
\* The lifecycle methods.
Exclusive == owner = Idle /\ \A c \in Caller : calls[c] # "waiting"

SendsLifecycle(kind) ==
  /\ sent < MaxLifecycle
  /\ sent' = sent + 1
  /\ Sends(sent + 1, kind)

\* start and stop; without the sender they return an error and do nothing.
BeginStartOrStop(method) ==
  /\ Exclusive /\ command_tx
  /\ SendsLifecycle(method)
  /\ owner' = [method |-> method, pc |-> method]
  /\ UNCHANGED <<handle_state, command_tx, restart_count, calls, late>>

\* restart stops first what it believes to run, and raises its count before it
\* starts; without the sender that is all it does.
BeginRestart ==
  /\ Exclusive /\ handle_state # "Shutdown"
  /\ \/ /\ handle_state = "Running" /\ command_tx
        /\ sent + 1 < MaxLifecycle
        /\ SendsLifecycle("stop")
        /\ owner' = [method |-> "restart", pc |-> "stop"]
        /\ UNCHANGED restart_count
     \/ /\ handle_state # "Running" /\ command_tx
        /\ SendsLifecycle("start")
        /\ owner' = [method |-> "restart", pc |-> "start"]
        /\ restart_count' = restart_count + 1
     \/ /\ handle_state # "Running" /\ ~ command_tx
        /\ restart_count < MaxLifecycle
        /\ restart_count' = restart_count + 1
        /\ UNCHANGED <<owner, sent, kinds, loopVars>>
  /\ UNCHANGED <<handle_state, command_tx, calls, late>>

\* shutdown, and drop, which ignores the result: the sender is taken from the
\* handle for good and gone when the call ends.
BeginShutdown ==
  /\ Exclusive /\ handle_state # "Shutdown" /\ command_tx
  /\ command_tx' = FALSE
  /\ SendsLifecycle("shutdown")
  /\ owner' = [method |-> "shutdown", pc |-> "shutdown"]
  /\ UNCHANGED <<handle_state, restart_count, calls, late>>

Answered == owner.pc \in {"start", "stop", "shutdown"} /\ answers[sent] # None

StateAfter(pc) == IF pc = "start" THEN "Running" ELSE "Stopped"

\* Mutant: the handle takes the new state whatever the answer was.
LifecycleReturnsAlways ==
  /\ Answered /\ owner.pc # "shutdown"
  /\ handle_state' = StateAfter(owner.pc)
  /\ owner' = Idle
  /\ UNCHANGED <<command_tx, restart_count, sent, kinds, calls, loopVars, late>>

\* The handle takes the new state if the answer is Ok; restart goes on after its
\* stop, unless that failed.
LifecycleReturns ==
  /\ Answered /\ owner.pc # "shutdown"
  /\ handle_state' = IF answers[sent] = "ok" THEN StateAfter(owner.pc)
                     ELSE handle_state
  /\ \/ /\ owner.method = "restart" /\ owner.pc = "stop"
        /\ answers[sent] = "ok"
        /\ SendsLifecycle("start")
        /\ owner' = [method |-> "restart", pc |-> "start"]
        /\ restart_count' = restart_count + 1
     \/ /\ ~ (owner.method = "restart" /\ owner.pc = "stop"
                /\ answers[sent] = "ok")
        /\ owner' = Idle
        /\ UNCHANGED <<restart_count, sent, kinds, loopVars>>
  /\ UNCHANGED <<command_tx, calls, late>>

\* After the answer shutdown waits for the thread to end.
ShutdownAnswered ==
  /\ Answered /\ owner.pc = "shutdown"
  /\ owner' = [owner EXCEPT !.pc = "joining"]
  /\ UNCHANGED <<handle_state, command_tx, restart_count, sent, kinds, calls,
                 loopVars, late>>

\* Mutant: the thread is not waited for.
JoinNobody ==
  /\ owner.pc = "joining"
  /\ handle_state' = "Shutdown"
  /\ owner' = Idle
  /\ UNCHANGED <<command_tx, restart_count, sent, kinds, calls, loopVars, late>>

\* Whatever the thread answered, the handle is shut down.
Join ==
  /\ owner.pc = "joining" /\ ~ Alive
  /\ handle_state' = "Shutdown"
  /\ owner' = Idle
  /\ UNCHANGED <<command_tx, restart_count, sent, kinds, calls, loopVars, late>>

\* A lifecycle call stops waiting: its state, and the join of a shutdown, never
\* come, although the command is still there.
LifecycleTimesOut ==
  /\ owner.pc \in {"start", "stop", "shutdown"}
  /\ owner' = Idle
  /\ late' = TRUE
  /\ UNCHANGED <<handle_state, command_tx, restart_count, sent, kinds, calls,
                 loopVars>>

--------------------------------------------------------------------------------
\* The thread.
\* It builds its cluster and opens its log, or cannot.
Opens ==
  /\ loop.mode = "opening"
  /\ \E mode \in {"serving", "failed"} : loop' = [loop EXCEPT !.mode = mode]
  /\ UNCHANGED <<queue, answers, executed>>

\* The thread takes the next command, runs it and answers.
Takes(answer) ==
  /\ queue # << >>
  /\ queue' = Tail(queue)
  /\ executed' = [executed EXCEPT ![Head(queue)] = @ + 1]
  /\ answers' = [answers EXCEPT ![Head(queue)] = answer]

\* A start or another command may fail at the cluster.
Serves ==
  LET kind == kinds[Head(queue)]
  IN  /\ loop.mode = "serving"
      /\ \/ /\ queue # << >> /\ kind = "shutdown"
            /\ Takes("ok") /\ loop' = [loop EXCEPT !.mode = "leaving"]
         \/ /\ queue # << >> /\ kind = "stop"
            /\ Takes("ok") /\ loop' = [loop EXCEPT !.state = "Stopped"]
         \/ /\ queue # << >> /\ kind = "start"
            /\ Takes("ok") /\ loop' = [loop EXCEPT !.state = "Running"]
         \/ /\ queue # << >> /\ kind = "call"
            /\ Takes("ok") /\ UNCHANGED loop
         \/ /\ queue # << >> /\ kind \in {"start", "call"}
            /\ Takes("error") /\ UNCHANGED loop

\* Mutant: respond_runtime_error does not tell a shutdown from the others.
RefusesShutdownToo ==
  /\ loop.mode = "failed"
  /\ Takes("error")
  /\ UNCHANGED loop

Refuses ==
  /\ loop.mode = "failed"
  /\ Takes("error")
  /\ loop' = IF kinds[Head(queue)] = "shutdown" THEN [loop EXCEPT !.mode = "leaving"]
             ELSE loop

\* The loop is left after a shutdown, or when the channel is empty and its only
\* sender is gone.
Leaves ==
  /\ \/ loop.mode = "leaving"
     \/ /\ loop.mode \in {"serving", "failed"}
        /\ queue = << >> /\ ~ command_tx /\ owner = Idle
  /\ loop' = [loop EXCEPT !.mode = "exited"]
  /\ UNCHANGED <<queue, answers, executed>>

ThreadStep ==
  /\ Opens \/ Serves \/ Refuses \/ Leaves
  /\ UNCHANGED <<handleVars, sent, kinds, calls, late>>

OwnerStep == LifecycleReturns \/ ShutdownAnswered \/ Join

HandleNext ==
  \/ \E c \in Caller : BeginCall(c) \/ CallReturns(c) \/ CallTimesOut(c)
  \/ \E method \in {"start", "stop"} : BeginStartOrStop(method)
  \/ BeginRestart
  \/ BeginShutdown
  \/ OwnerStep
  \/ LifecycleTimesOut
  \/ ThreadStep

\* The thread and the caller of a method run on.  Nobody has to call, and the
\* five seconds need not pass.
HandleSpec ==
  /\ HandleInit /\ [][HandleNext]_handleAllVars
  /\ WF_handleAllVars(ThreadStep)
  /\ WF_handleAllVars(OwnerStep)
  /\ \A c \in Caller : WF_handleAllVars(CallReturns(c))

--------------------------------------------------------------------------------
\* What a result tells the caller: Ok means that the command ran once; after an
\* error or a timeout it may have run, or run later, but never twice.  No command
\* is lost: one that was sent has run or waits in the channel.
AnsweredMeansExecuted ==
  \A c \in Command :
    /\ executed[c] <= 1
    /\ c \in Caller /\ calls[c] = "ok" => executed[c] = 1
    /\ kinds[c] # None => executed[c] = 1 \/ c \in ToSet(queue)
    /\ executed[c] = 1 => c \notin ToSet(queue)

\* While no lifecycle call gave up waiting, the state the handle reports is the
\* thread's own between two calls, after failed starts and restarts too.  The
\* condition is needed: a call that gave up leaves the handle behind for ever.
StatesAgree ==
  ~ late /\ owner = Idle /\ handle_state # "Shutdown" =>
    handle_state = loop.state

\* Once the handle is shut down the thread has ended, and every command any call
\* ever sent was executed before it, those nobody waited for included.
ShutdownIsFinal ==
  handle_state = "Shutdown" =>
    /\ loop.mode = "exited"
    /\ \A c \in Command : kinds[c] # None => executed[c] = 1

\* However shutdown ends, in time or not, of a thread that works or not: the
\* thread ends and the call returns.
ThreadEnds == ~ command_tx ~> (loop.mode = "exited" /\ owner = Idle)
================================================================================
