--------------------------- MODULE NodeRuntimeProofs ---------------------------
(***************************************************************************)
(* Proofs about the node runtime, in two parts.  The handle and its        *)
(* thread, for any number of callers and lifecycle calls: what an answer   *)
(* means, that the two states agree, and that a handle that is shut down   *)
(* has left nothing undone (HandleSpec).  The loop with its cluster and    *)
(* its write-ahead log, for any number of crashes and failed writes: an    *)
(* answered id is not answered again, and an answered entry of the local   *)
(* member outlives every incarnation (NodeSpec).                           *)
(***************************************************************************)
EXTENDS RuntimeHandle, NodeRuntime, RaftClusterProofs

--------------------------------------------------------------------------------
(***************************************************************************)
(* The handle and the thread.                                              *)
(***************************************************************************)

Kind == {"call", "start", "stop", "shutdown"}

HandleType ==
  /\ handle_state \in {"Created", "Running", "Stopped", "Shutdown"}
  /\ command_tx \in BOOLEAN /\ late \in BOOLEAN
  /\ sent \in Nat
  /\ owner \in [ method : {"none", "start", "stop", "restart", "shutdown"},
                 pc : {"none", "start", "stop", "shutdown", "joining"} ]
  /\ kinds \in [Command -> Kind \cup {None}]
  /\ calls \in [Caller -> {"idle", "waiting", "refused", "timeout", "ok", "error"}]
  /\ queue \in Seq(Command)
  /\ loop \in [ mode : {"opening", "serving", "failed", "leaving", "exited"},
                state : {"Created", "Running", "Stopped"} ]
  /\ answers \in [Command -> {"ok", "error", None}]
  /\ executed \in [Command -> Nat]

\* A command is sent, waits in the channel once, is executed once and answered.
QueueTracked ==
  /\ \A c \in Command :
       /\ kinds[c] = None => executed[c] = 0 /\ c \notin ToSet(queue)
       /\ kinds[c] # None => executed[c] = 1 \/ c \in ToSet(queue)
       /\ executed[c] = 0 <=> answers[c] = None
       /\ executed[c] <= 1
       /\ executed[c] = 1 => c \notin ToSet(queue)
  /\ \A i, j \in DOMAIN queue : queue[i] = queue[j] => i = j

\* Who sent what, and what a call that returned Ok was answered.
CommandsTracked ==
  /\ \A c \in Caller :
       /\ kinds[c] \in {"call", None}
       /\ calls[c] \in {"idle", "refused"} => kinds[c] = None
       /\ calls[c] = "ok" => answers[c] = "ok"
  /\ \A l \in Lifecycle : (kinds[l] = None <=> l > sent) /\ kinds[l] # "call"

\* What the owner waits for is the last command it sent, and while no call gave
\* up waiting it is the only one of its commands not answered yet.
OwnerTracked ==
  /\ owner.pc = "none" <=> owner.method = "none"
  /\ owner.pc \in {"start", "stop", "shutdown"} =>
       sent \in Lifecycle /\ kinds[sent] = owner.pc
  /\ owner.pc \in {"shutdown", "joining"} <=> owner.method = "shutdown"
  /\ owner.pc = "joining" => answers[sent] # None /\ kinds[sent] = "shutdown"
  /\ owner.pc = "joining" => sent \in Lifecycle
  /\ ~ late => \A l \in Lifecycle :
       kinds[l] # None /\ answers[l] = None =>
         l = sent /\ owner.pc \in {"start", "stop", "shutdown"}

\* The handle's state is the thread's, but for a start or a stop that succeeded
\* and whose answer was not taken yet.
StateTracked ==
  ~ late /\ handle_state # "Shutdown" =>
    loop.state = IF owner.pc \in {"start", "stop"} /\ answers[sent] = "ok"
                   THEN StateAfter(owner.pc) ELSE handle_state

\* The shutdown is the last command of the channel, and the thread ends only
\* behind it or when no sender is left.
EndTracked ==
  /\ owner.method \in {"start", "stop", "restart"} => command_tx
  /\ \A c \in Command : kinds[c] = "shutdown" =>
       /\ ~ command_tx
       /\ \A i \in DOMAIN queue : queue[i] = c => i = Len(queue)
       /\ answers[c] # None => loop.mode \in {"leaving", "exited"}
  /\ loop.mode \in {"leaving", "exited"} => queue = << >> /\ ~ command_tx
  /\ handle_state = "Shutdown" => loop.mode = "exited"

HandleInv ==
  /\ HandleType /\ QueueTracked /\ CommandsTracked
  /\ OwnerTracked /\ StateTracked /\ EndTracked

--------------------------------------------------------------------------------
(***************************************************************************)
(* What sending and taking do to the channel.                              *)
(***************************************************************************)
LEMMA AppendedSet ==
  ASSUME NEW S, NEW q \in Seq(S), NEW c \in S
  PROVE  ToSet(Append(q, c)) = ToSet(q) \cup {c}
<1>1. /\ DOMAIN q = 1 .. Len(q) /\ Len(q) \in Nat
      /\ DOMAIN Append(q, c) = 1 .. Len(q) + 1
      /\ \A i \in 1 .. Len(q) : Append(q, c)[i] = q[i]
      /\ Append(q, c)[Len(q) + 1] = c
  OBVIOUS
<1>2. 1 .. Len(q) + 1 = (1 .. Len(q)) \cup {Len(q) + 1}
  BY <1>1
<1> QED
  BY <1>1, <1>2 DEF ToSet

\* What is left of a queue without repetitions when its head is taken.
LEMMA TailSet ==
  ASSUME NEW S, NEW q \in Seq(S), q # << >>,
         \A i, j \in DOMAIN q : q[i] = q[j] => i = j
  PROVE  /\ ToSet(Tail(q)) = ToSet(q) \ {Head(q)}
         /\ Tail(q) \in Seq(S) /\ Head(q) \in S /\ Head(q) \in ToSet(q)
         /\ \A i, j \in DOMAIN Tail(q) : Tail(q)[i] = Tail(q)[j] => i = j
         /\ Len(Tail(q)) = Len(q) - 1
         /\ \A i \in DOMAIN Tail(q) : Tail(q)[i] = q[i + 1] /\ i + 1 \in DOMAIN q
<1>1. /\ Tail(q) \in Seq(S) /\ Len(Tail(q)) = Len(q) - 1 /\ Head(q) = q[1]
      /\ Len(q) \in Nat \ {0} /\ DOMAIN q = 1 .. Len(q)
      /\ DOMAIN Tail(q) = 1 .. Len(q) - 1
      /\ \A i \in 1 .. Len(q) - 1 : Tail(q)[i] = q[i + 1]
  OBVIOUS
<1>2. ToSet(Tail(q)) = ToSet(q) \ {Head(q)}
  <2>1. ASSUME NEW x \in ToSet(Tail(q)) PROVE x \in ToSet(q) \ {Head(q)}
    <3>1. PICK i \in 1 .. Len(q) - 1 : x = q[i + 1]
      BY <1>1, <2>1 DEF ToSet
    <3>2. i + 1 \in DOMAIN q /\ 1 \in DOMAIN q /\ i + 1 # 1
      BY <1>1
    <3> QED
      BY <1>1, <3>1, <3>2 DEF ToSet
  <2>2. ASSUME NEW x \in ToSet(q) \ {Head(q)} PROVE x \in ToSet(Tail(q))
    <3>1. PICK i \in 1 .. Len(q) : x = q[i] /\ i # 1
      BY <1>1, <2>2 DEF ToSet
    <3>2. i - 1 \in 1 .. Len(q) - 1 /\ Tail(q)[i - 1] = q[i]
      BY <1>1, <3>1
    <3> QED
      BY <1>1, <3>1, <3>2 DEF ToSet
  <2> QED
    BY <2>1, <2>2
<1>3. \A i, j \in DOMAIN Tail(q) : Tail(q)[i] = Tail(q)[j] => i = j
  BY <1>1
<1>4. Head(q) \in S /\ Head(q) \in ToSet(q)
  BY <1>1 DEF ToSet
<1>5. \A i \in DOMAIN Tail(q) : Tail(q)[i] = q[i + 1] /\ i + 1 \in DOMAIN q
  BY <1>1
<1> QED
  BY <1>1, <1>2, <1>3, <1>4, <1>5

\* A command sent for the first time.
LEMMA SendsStep ==
  ASSUME HandleType, QueueTracked, NEW c \in Command, NEW kind \in Kind,
         kinds[c] = None, Sends(c, kind)
  PROVE  /\ QueueTracked'
         /\ kinds' \in [Command -> Kind \cup {None}] /\ queue' \in Seq(Command)
         /\ kinds'[c] = kind
         /\ \A d \in Command \ {c} : kinds'[d] = kinds[d]
         /\ executed[c] = 0 /\ answers[c] = None
         /\ Len(queue') = Len(queue) + 1 /\ queue'[Len(queue) + 1] = c
         /\ \A i \in DOMAIN queue : queue'[i] = queue[i]
<1> USE HandleAssumption DEF Kind
<1>1. /\ queue' = Append(queue, c) /\ kinds' = [kinds EXCEPT ![c] = kind]
      /\ loop' = loop /\ answers' = answers /\ executed' = executed
      /\ queue \in Seq(Command) /\ kinds \in [Command -> Kind \cup {None}]
      /\ executed \in [Command -> Nat]
  BY DEF Sends, HandleType
<1>2. /\ queue' \in Seq(Command) /\ Len(queue') = Len(queue) + 1
      /\ Len(queue) \in Nat /\ DOMAIN queue = 1 .. Len(queue)
      /\ DOMAIN queue' = 1 .. Len(queue) + 1
      /\ \A i \in 1 .. Len(queue) : queue'[i] = queue[i]
      /\ queue'[Len(queue) + 1] = c
  BY <1>1
<1>3. ToSet(queue') = ToSet(queue) \cup {c}
  BY <1>1, AppendedSet
<1>4. executed[c] = 0 /\ answers[c] = None /\ c \notin ToSet(queue)
  BY DEF QueueTracked
<1>5. \A i \in DOMAIN queue : queue[i] # c
  BY <1>4 DEF ToSet
<1>6. \A i, j \in DOMAIN queue' : queue'[i] = queue'[j] => i = j
  BY <1>2, <1>5 DEF QueueTracked
<1>7. /\ kinds' \in [Command -> Kind \cup {None}] /\ kinds'[c] = kind /\ kind # None
      /\ \A d \in Command \ {c} : kinds'[d] = kinds[d]
  BY <1>1
<1>8. QueueTracked'
  BY <1>1, <1>3, <1>4, <1>6, <1>7 DEF QueueTracked
<1> QED
  BY <1>2, <1>4, <1>7, <1>8

\* The thread takes the command at the head.
LEMMA TakesStep ==
  ASSUME HandleType, QueueTracked, NEW answer \in {"ok", "error"},
         Takes(answer), UNCHANGED kinds
  PROVE  /\ QueueTracked'
         /\ queue' \in Seq(Command) /\ Head(queue) \in Command
         /\ kinds[Head(queue)] \in Kind
         /\ executed' \in [Command -> Nat]
         /\ answers' \in [Command -> {"ok", "error", None}]
         /\ answers[Head(queue)] = None /\ answers'[Head(queue)] = answer
         /\ \A d \in Command \ {Head(queue)} : answers'[d] = answers[d]
         /\ Len(queue') = Len(queue) - 1 /\ Len(queue) \in Nat \ {0}
         /\ queue[1] = Head(queue) /\ queue' = Tail(queue)
         /\ \A i \in DOMAIN queue' : queue'[i] = queue[i + 1] /\ i + 1 \in DOMAIN queue
<1> USE HandleAssumption
<1> DEFINE h == Head(queue)
<1>1. /\ queue # << >> /\ queue' = Tail(queue)
      /\ executed' = [executed EXCEPT ![h] = @ + 1]
      /\ answers' = [answers EXCEPT ![h] = answer]
      /\ queue \in Seq(Command) /\ executed \in [Command -> Nat]
      /\ answers \in [Command -> {"ok", "error", None}]
      /\ \A i, j \in DOMAIN queue : queue[i] = queue[j] => i = j
  BY DEF Takes, HandleType, QueueTracked
<1>2. /\ ToSet(queue') = ToSet(queue) \ {h} /\ queue' \in Seq(Command)
      /\ h \in Command /\ h \in ToSet(queue)
      /\ \A i, j \in DOMAIN queue' : queue'[i] = queue'[j] => i = j
      /\ Len(queue') = Len(queue) - 1
      /\ \A i \in DOMAIN queue' : queue'[i] = queue[i + 1] /\ i + 1 \in DOMAIN queue
  BY <1>1, TailSet
<1>3. Len(queue) \in Nat \ {0} /\ queue[1] = h
  BY <1>1
<1>4. kinds[h] # None /\ executed[h] = 0 /\ answers[h] = None
  BY <1>1, <1>2 DEF QueueTracked
<1>5. kinds[h] \in Kind
  BY <1>2, <1>4 DEF HandleType
<1>6. /\ executed' \in [Command -> Nat] /\ executed'[h] = 1
      /\ answers' \in [Command -> {"ok", "error", None}] /\ answers'[h] = answer
      /\ \A d \in Command \ {h} : answers'[d] = answers[d] /\ executed'[d] = executed[d]
  BY <1>1, <1>2, <1>4
<1>7. ASSUME NEW d \in Command
      PROVE  /\ kinds'[d] = None => executed'[d] = 0 /\ d \notin ToSet(queue')
             /\ kinds'[d] # None => executed'[d] = 1 \/ d \in ToSet(queue')
             /\ executed'[d] = 0 <=> answers'[d] = None
             /\ executed'[d] <= 1
             /\ executed'[d] = 1 => d \notin ToSet(queue')
  <2>1. CASE d = h
    BY <2>1, <1>2, <1>4, <1>6
  <2>2. CASE d # h
    BY <2>2, <1>2, <1>6 DEF QueueTracked
  <2> QED
    BY <2>1, <2>2
<1>8. QueueTracked'
  BY <1>2, <1>7 DEF QueueTracked
<1> QED
  BY <1>1, <1>2, <1>3, <1>4, <1>5, <1>6, <1>8

--------------------------------------------------------------------------------
(***************************************************************************)
(* The invariant, action by action.                                        *)
(***************************************************************************)
LEMMA LifecycleIds ==
  /\ Lifecycle \subseteq Nat \ {0} /\ Lifecycle \subseteq Command
  /\ Caller \subseteq Command /\ Caller \cap Lifecycle = {}
  /\ \A n \in Nat : n < MaxLifecycle => n + 1 \in Lifecycle
  BY HandleAssumption DEF Lifecycle, Command

\* A lifecycle command, sent when none is waited for.
LEMMA SendsLifecycleStep ==
  ASSUME HandleInv, NEW kind \in {"start", "stop", "shutdown"},
         SendsLifecycle(kind), UNCHANGED calls
  PROVE  /\ sent' = sent + 1 /\ sent' \in Lifecycle /\ sent' \in Nat
         /\ QueueTracked' /\ CommandsTracked'
         /\ kinds' \in [Command -> Kind \cup {None}] /\ queue' \in Seq(Command)
         /\ kinds'[sent'] = kind /\ answers'[sent'] = None
         /\ \A d \in Command \ {sent'} : kinds'[d] = kinds[d]
         /\ UNCHANGED <<loop, answers, executed>>
         /\ Len(queue') = Len(queue) + 1 /\ queue'[Len(queue) + 1] = sent'
         /\ \A i \in DOMAIN queue : queue'[i] = queue[i]
<1> USE HandleAssumption DEF Kind
<1> DEFINE c == sent + 1
<1>1. /\ sent \in Nat /\ sent' = c /\ c \in Lifecycle /\ c \in Command
      /\ Sends(c, kind) /\ kinds[c] = None
  BY LifecycleIds DEF HandleInv, HandleType, CommandsTracked, SendsLifecycle
<1>2. /\ QueueTracked'
      /\ kinds' \in [Command -> Kind \cup {None}] /\ queue' \in Seq(Command)
      /\ kinds'[c] = kind /\ \A d \in Command \ {c} : kinds'[d] = kinds[d]
      /\ executed[c] = 0 /\ answers[c] = None
      /\ Len(queue') = Len(queue) + 1 /\ queue'[Len(queue) + 1] = c
      /\ \A i \in DOMAIN queue : queue'[i] = queue[i]
  <2> HIDE DEF c
  <2> QED
    BY <1>1, SendsStep DEF HandleInv
<1>3. UNCHANGED <<loop, answers, executed>>
  BY <1>1 DEF Sends
<1>4. \A d \in Caller : d # c /\ d \in Command
  BY <1>1, LifecycleIds
<1>5. \A l \in Lifecycle : (kinds'[l] = None <=> l > sent') /\ kinds'[l] # "call"
  <2> SUFFICES ASSUME NEW l \in Lifecycle
               PROVE  (kinds'[l] = None <=> l > sent') /\ kinds'[l] # "call"
    OBVIOUS
  <2>1. l \in Nat /\ l \in Command
    BY LifecycleIds
  <2>2. (kinds[l] = None <=> l > sent) /\ kinds[l] # "call"
    BY DEF HandleInv, CommandsTracked
  <2>3. CASE l = c
    BY <2>3, <1>1, <1>2
  <2>4. CASE l # c
    BY <2>1, <2>2, <2>4, <1>1, <1>2
  <2> QED
    BY <2>3, <2>4
<1>6. CommandsTracked'
  BY <1>2, <1>3, <1>4, <1>5 DEF CommandsTracked, HandleInv
<1> QED
  BY <1>1, <1>2, <1>3, <1>6

\* A handle starts with an empty, consistent queue.
LEMMA HandleInitInv == HandleInit => HandleInv
<1> SUFFICES ASSUME HandleInit PROVE HandleInv
  OBVIOUS
<1> USE HandleAssumption DEF HandleInit
<1>1. HandleType
  <2>1. /\ kinds \in [Command -> Kind \cup {None}]
        /\ answers \in [Command -> {"ok", "error", None}]
        /\ executed \in [Command -> Nat]
    OBVIOUS
  <2>2. calls \in [Caller -> {"idle", "waiting", "refused", "timeout", "ok", "error"}]
    OBVIOUS
  <2>3. queue \in Seq(Command)
    OBVIOUS
  <2> QED
    BY <2>1, <2>2, <2>3 DEF HandleType, Idle
<1>2. QueueTracked
  BY DEF QueueTracked, ToSet
<1>3. CommandsTracked
  BY LifecycleIds DEF CommandsTracked
<1>4. OwnerTracked
  BY LifecycleIds DEF OwnerTracked, Idle
<1>5. StateTracked /\ EndTracked
  BY DEF StateTracked, EndTracked, Idle
<1> QED
  BY <1>1, <1>2, <1>3, <1>4, <1>5 DEF HandleInv

\* The calls of the shared methods.
LEMMA CallStep ==
  ASSUME HandleInv, NEW c \in Caller,
         BeginCall(c) \/ CallReturns(c) \/ CallTimesOut(c)
  PROVE  HandleInv'
<1> USE HandleAssumption, LifecycleIds DEF HandleInv
<1>1. CASE BeginCall(c) /\ command_tx
  <2>1. /\ Sends(c, "call") /\ calls' = [calls EXCEPT ![c] = "waiting"]
        /\ UNCHANGED <<handleVars, sent, late, loop, answers, executed>>
        /\ calls[c] = "idle" /\ c \in Command
    BY <1>1 DEF BeginCall, Sends
  <2>2. kinds[c] = None
    BY <2>1 DEF CommandsTracked
  <2>3. /\ QueueTracked'
        /\ kinds' \in [Command -> Kind \cup {None}] /\ queue' \in Seq(Command)
        /\ kinds'[c] = "call" /\ \A d \in Command \ {c} : kinds'[d] = kinds[d]
        /\ Len(queue') = Len(queue) + 1 /\ queue'[Len(queue) + 1] = c
        /\ \A i \in DOMAIN queue : queue'[i] = queue[i]
    BY <2>1, <2>2, SendsStep DEF Kind
  <2>4. /\ HandleType'
    BY <2>1, <2>3 DEF HandleType, handleVars
  <2>5. CommandsTracked'
    <3>1. \A l \in Lifecycle : kinds'[l] = kinds[l] /\ sent' = sent
      BY <2>1, <2>3
    <3>2. calls'[c] = "waiting" /\ \A d \in Caller \ {c} : calls'[d] = calls[d]
      BY <2>1 DEF HandleType
    <3> QED
      BY <2>1, <2>3, <3>1, <3>2 DEF CommandsTracked
  <2>6. OwnerTracked'
    BY <2>1, <2>3 DEF OwnerTracked, handleVars
  <2>7. StateTracked'
    BY <2>1 DEF StateTracked, handleVars
  <2>8. EndTracked'
    BY <1>1, <2>1, <2>3 DEF EndTracked, handleVars
  <2> QED
    BY <2>3, <2>4, <2>5, <2>6, <2>7, <2>8
<1>2. ASSUME NEW result \in {"refused", "timeout", "ok", "error"},
             calls' = [calls EXCEPT ![c] = result],
             UNCHANGED <<handleVars, sent, kinds, loopVars, late>>,
             result = "refused" => kinds[c] = None,
             result = "ok" => answers[c] = "ok"
      PROVE  HandleInv'
  <2>1. HandleType' /\ QueueTracked'
    BY <1>2 DEF HandleType, QueueTracked, handleVars, loopVars
  <2>2. CommandsTracked'
    <3>1. calls'[c] = result /\ \A d \in Caller \ {c} : calls'[d] = calls[d]
      BY <1>2 DEF HandleType
    <3> QED
      BY <1>2, <3>1 DEF CommandsTracked, loopVars
  <2>3. OwnerTracked' /\ StateTracked' /\ EndTracked'
    BY <1>2 DEF OwnerTracked, StateTracked, EndTracked, handleVars, loopVars
  <2> QED
    BY <2>1, <2>2, <2>3
<1>3. CASE BeginCall(c) /\ ~ command_tx
  <2>1. kinds[c] = None
    BY <1>3 DEF BeginCall, CommandsTracked
  <2> QED
    BY <1>2, <1>3, <2>1 DEF BeginCall
<1>4. CASE CallReturns(c)
  <2>1. answers[c] \in {"ok", "error"}
    BY <1>4 DEF CallReturns, HandleType
  <2> QED
    BY <1>2, <1>4, <2>1 DEF CallReturns
<1>5. CASE CallTimesOut(c)
  BY <1>2, <1>5 DEF CallTimesOut
<1> QED
  BY <1>1, <1>3, <1>4, <1>5

\* A lifecycle method sends its first command.
LEMMA BeginStep ==
  ASSUME HandleInv,
         \/ \E method \in {"start", "stop"} : BeginStartOrStop(method)
         \/ BeginRestart
         \/ BeginShutdown
  PROVE  HandleInv'
<1> USE HandleAssumption, LifecycleIds DEF HandleInv
<1>1. ASSUME NEW kind \in {"start", "stop", "shutdown"}, SendsLifecycle(kind),
             NEW method \in {"start", "stop", "restart", "shutdown"},
             owner = Idle, command_tx,
             owner' = [method |-> method, pc |-> kind],
             kind = "shutdown" <=> method = "shutdown",
             command_tx' = (kind # "shutdown"),
             restart_count' \in {restart_count, restart_count + 1},
             UNCHANGED <<handle_state, calls, late>>
      PROVE  HandleInv'
  <2>1. /\ sent' = sent + 1 /\ sent' \in Lifecycle /\ sent' \in Nat
        /\ QueueTracked' /\ CommandsTracked'
        /\ kinds' \in [Command -> Kind \cup {None}] /\ queue' \in Seq(Command)
        /\ kinds'[sent'] = kind /\ answers'[sent'] = None
        /\ \A d \in Command \ {sent'} : kinds'[d] = kinds[d]
        /\ UNCHANGED <<loop, answers, executed>>
        /\ Len(queue') = Len(queue) + 1 /\ queue'[Len(queue) + 1] = sent'
        /\ \A i \in DOMAIN queue : queue'[i] = queue[i]
    BY <1>1, SendsLifecycleStep
  <2>2. HandleType'
    BY <1>1, <2>1 DEF HandleType
  <2>3. owner.pc = "none" /\ owner.method = "none"
    BY <1>1 DEF Idle
  <2>4. OwnerTracked'
    <3>1. ~ late' => \A l \in Lifecycle :
            kinds'[l] # None /\ answers'[l] = None => l = sent'
      BY <1>1, <2>1, <2>3 DEF OwnerTracked
    <3> QED
      BY <1>1, <2>1, <3>1 DEF OwnerTracked
  <2>5. StateTracked'
    BY <1>1, <2>1, <2>3 DEF StateTracked
  <2>6. EndTracked'
    <3>1. \A d \in Command : kinds[d] # "shutdown"
      BY <1>1 DEF EndTracked
    <3>2. loop.mode \notin {"leaving", "exited"} /\ handle_state # "Shutdown"
      BY <1>1 DEF EndTracked
    <3>3. \A d \in Command : kinds'[d] = "shutdown" => d = sent' /\ kind = "shutdown"
      BY <2>1, <3>1
    <3>4. \A i \in DOMAIN queue' : queue'[i] = sent' => i = Len(queue')
      BY <2>1 DEF QueueTracked
    <3> QED
      BY <1>1, <2>1, <3>2, <3>3, <3>4 DEF EndTracked
  <2> QED
    BY <2>1, <2>2, <2>4, <2>5, <2>6
<1>2. CASE \E method \in {"start", "stop"} : BeginStartOrStop(method)
  <2>1. PICK method \in {"start", "stop"} : BeginStartOrStop(method)
    BY <1>2
  <2> QED
    BY <1>1, <2>1 DEF BeginStartOrStop, Exclusive, HandleType
<1>3. CASE BeginRestart
  <2>1. CASE command_tx
    BY <1>1, <1>3, <2>1 DEF BeginRestart, Exclusive, HandleType
  <2>2. CASE ~ command_tx
    <3>1. UNCHANGED <<handle_state, command_tx, owner, sent, kinds, calls, loopVars, late>>
      BY <1>3, <2>2 DEF BeginRestart
    <3> QED
      BY <3>1 DEF HandleType, QueueTracked, CommandsTracked, OwnerTracked,
                  StateTracked, EndTracked, loopVars
  <2> QED
    BY <2>1, <2>2
<1>4. CASE BeginShutdown
  BY <1>1, <1>4 DEF BeginShutdown, Exclusive
<1> QED
  BY <1>2, <1>3, <1>4

\* The answer reaches the method, or the method gives up.
LEMMA OwnerStepKeeps ==
  ASSUME HandleInv, OwnerStep \/ LifecycleTimesOut
  PROVE  HandleInv'
<1> USE HandleAssumption, LifecycleIds DEF HandleInv
<1>1. CASE LifecycleReturns
  <2>1. /\ owner.pc \in {"start", "stop"} /\ owner.method \in {"start", "stop", "restart"}
        /\ answers[sent] # None /\ sent \in Lifecycle /\ kinds[sent] = owner.pc
        /\ command_tx /\ handle_state # "Shutdown"
        /\ loop.mode \notin {"leaving", "exited"}
    BY <1>1 DEF LifecycleReturns, Answered, OwnerTracked, EndTracked, HandleType
  <2>2. ~ late => \A l \in Lifecycle : kinds[l] # None => answers[l] # None
    BY <2>1 DEF OwnerTracked
  <2>3. /\ UNCHANGED <<command_tx, calls, late>>
        /\ handle_state' = IF answers[sent] = "ok" THEN StateAfter(owner.pc)
                           ELSE handle_state
        /\ handle_state' \in {"Created", "Running", "Stopped"}
    BY <1>1, <2>1 DEF LifecycleReturns, HandleType, StateAfter
  <2>4. ~ late => loop.state = handle_state'
    BY <2>1, <2>3 DEF StateTracked
  <2>5. CASE owner.method = "restart" /\ owner.pc = "stop" /\ answers[sent] = "ok"
    <3>1. SendsLifecycle("start") /\ owner' = [method |-> "restart", pc |-> "start"]
      BY <1>1, <2>5 DEF LifecycleReturns
    <3>2. /\ sent' = sent + 1 /\ sent' \in Lifecycle /\ sent' \in Nat
          /\ QueueTracked' /\ CommandsTracked'
          /\ kinds' \in [Command -> Kind \cup {None}] /\ queue' \in Seq(Command)
          /\ kinds'[sent'] = "start" /\ answers'[sent'] = None
          /\ \A d \in Command \ {sent'} : kinds'[d] = kinds[d]
          /\ UNCHANGED <<loop, answers, executed>>
      BY <2>3, <3>1, SendsLifecycleStep
    <3>3. HandleType'
      BY <2>3, <3>1, <3>2 DEF HandleType
    <3>4. OwnerTracked'
      <4>1. ~ late' => \A l \in Lifecycle :
              kinds'[l] # None /\ answers'[l] = None => l = sent'
        BY <2>2, <2>3, <3>2
      <4> QED
        BY <3>1, <3>2, <4>1 DEF OwnerTracked
    <3>5. StateTracked'
      BY <2>3, <2>4, <3>1, <3>2 DEF StateTracked
    <3>6. EndTracked'
      <4>1. \A d \in Command : kinds'[d] # "shutdown"
        BY <2>1, <3>2 DEF EndTracked
      <4> QED
        BY <2>1, <2>3, <3>1, <3>2, <4>1 DEF EndTracked
    <3> QED
      BY <3>2, <3>3, <3>4, <3>5, <3>6
  <2>6. CASE owner' = Idle /\ UNCHANGED <<restart_count, sent, kinds, loopVars>>
    <3>1. HandleType' /\ QueueTracked' /\ CommandsTracked'
      BY <2>3, <2>6 DEF HandleType, QueueTracked, CommandsTracked, loopVars, Idle
    <3>2. OwnerTracked'
      BY <2>2, <2>3, <2>6 DEF OwnerTracked, loopVars, Idle
    <3>3. StateTracked'
      BY <2>3, <2>4, <2>6 DEF StateTracked, loopVars, Idle
    <3>4. EndTracked'
      BY <2>3, <2>6 DEF EndTracked, loopVars, Idle
    <3> QED
      BY <3>1, <3>2, <3>3, <3>4
  <2> QED
    BY <1>1, <2>5, <2>6 DEF LifecycleReturns
<1>2. CASE ShutdownAnswered
  <2>1. /\ owner.pc = "shutdown" /\ owner.method = "shutdown" /\ answers[sent] # None
        /\ sent \in Lifecycle /\ kinds[sent] = "shutdown"
        /\ owner' = [owner EXCEPT !.pc = "joining"]
        /\ UNCHANGED <<handle_state, command_tx, sent, kinds, calls, loopVars, late>>
    BY <1>2 DEF ShutdownAnswered, Answered, OwnerTracked
  <2>2. owner'.pc = "joining" /\ owner'.method = "shutdown"
    BY <2>1 DEF HandleType
  <2>3. HandleType' /\ QueueTracked' /\ CommandsTracked'
    BY <2>1 DEF HandleType, QueueTracked, CommandsTracked, loopVars
  <2>4. OwnerTracked'
    BY <2>1, <2>2 DEF OwnerTracked, loopVars
  <2>5. StateTracked' /\ EndTracked'
    BY <2>1, <2>2 DEF StateTracked, EndTracked, loopVars
  <2> QED
    BY <2>3, <2>4, <2>5
<1>3. CASE Join
  <2>1. /\ owner.pc = "joining" /\ answers[sent] # None /\ loop.mode = "exited"
        /\ handle_state' = "Shutdown" /\ owner' = Idle
        /\ UNCHANGED <<command_tx, sent, kinds, calls, loopVars, late>>
    BY <1>3 DEF Join, Alive, OwnerTracked
  <2>2. HandleType' /\ QueueTracked' /\ CommandsTracked'
    BY <2>1 DEF HandleType, QueueTracked, CommandsTracked, loopVars, Idle
  <2>3. OwnerTracked' /\ StateTracked' /\ EndTracked'
    BY <2>1 DEF OwnerTracked, StateTracked, EndTracked, loopVars, Idle
  <2> QED
    BY <2>2, <2>3
<1>4. CASE LifecycleTimesOut
  <2>1. /\ owner' = Idle /\ late'
        /\ UNCHANGED <<handle_state, command_tx, sent, kinds, calls, loopVars>>
    BY <1>4 DEF LifecycleTimesOut
  <2>2. late' \in BOOLEAN
    BY <1>4 DEF LifecycleTimesOut
  <2>3. HandleType' /\ QueueTracked' /\ CommandsTracked'
    BY <2>1, <2>2 DEF HandleType, QueueTracked, CommandsTracked, loopVars, Idle
  <2>4. OwnerTracked' /\ StateTracked' /\ EndTracked'
    BY <2>1 DEF OwnerTracked, StateTracked, EndTracked, loopVars, Idle
  <2> QED
    BY <2>3, <2>4
<1> QED
  BY <1>1, <1>2, <1>3, <1>4 DEF OwnerStep

\* The thread takes a command, whatever it makes of it.
LEMMA TakenKeeps ==
  ASSUME HandleInv, NEW answer \in {"ok", "error"}, Takes(answer),
         loop.mode \in {"serving", "failed"},
         loop' = [mode |-> IF kinds[Head(queue)] = "shutdown" THEN "leaving"
                           ELSE loop.mode,
                  state |-> IF answer = "ok" /\ kinds[Head(queue)] \in {"start", "stop"}
                              THEN StateAfter(kinds[Head(queue)]) ELSE loop.state],
         UNCHANGED <<handleVars, sent, kinds, calls, late>>
  PROVE  HandleInv'
<1> USE HandleAssumption, LifecycleIds DEF HandleInv
<1> DEFINE h == Head(queue)
<1>1. /\ QueueTracked'
      /\ queue' \in Seq(Command) /\ h \in Command /\ kinds[h] \in Kind
      /\ executed' \in [Command -> Nat]
      /\ answers' \in [Command -> {"ok", "error", None}]
      /\ answers[h] = None /\ answers'[h] = answer
      /\ \A d \in Command \ {h} : answers'[d] = answers[d]
      /\ Len(queue') = Len(queue) - 1 /\ Len(queue) \in Nat \ {0}
      /\ queue[1] = h /\ queue' = Tail(queue)
      /\ \A i \in DOMAIN queue' : queue'[i] = queue[i + 1] /\ i + 1 \in DOMAIN queue
  BY TakesStep
<1>2. kinds[h] # None /\ answer # None
  BY <1>1 DEF Kind
<1>3. /\ loop' \in [ mode : {"serving", "failed", "leaving"},
                     state : {"Created", "Running", "Stopped"} ]
      /\ kinds[h] = "shutdown" => loop'.mode = "leaving"
      /\ kinds[h] # "shutdown" => loop'.mode = loop.mode
      /\ loop'.state = IF answer = "ok" /\ kinds[h] \in {"start", "stop"}
                         THEN StateAfter(kinds[h]) ELSE loop.state
  BY DEF HandleType, StateAfter
<1> HIDE DEF h
<1>4. HandleType'
  BY <1>1, <1>3 DEF HandleType, handleVars
<1>5. CommandsTracked'
  BY <1>1 DEF CommandsTracked
<1>6. kinds[h] = "call" \/ h \in Lifecycle
  BY <1>1, <1>2 DEF CommandsTracked, Command
<1>7. OwnerTracked'
  <2>1. \A d \in Command : answers'[d] = None => answers[d] = None
    BY <1>1, <1>2
  <2>2. sent \in Lifecycle /\ answers[sent] # None => answers'[sent] # None
    BY <2>1
  <2> QED
    BY <2>1, <2>2 DEF OwnerTracked, handleVars
<1>8. StateTracked'
  <2> SUFFICES ASSUME ~ late, handle_state # "Shutdown" PROVE StateTracked'
    BY DEF StateTracked, handleVars
  <2>1. CASE kinds[h] = "call"
    <3>1. owner.pc \in {"start", "stop"} => answers'[sent] = answers[sent]
      BY <1>1, <2>1 DEF OwnerTracked
    <3> QED
      BY <1>3, <2>1, <3>1 DEF StateTracked, handleVars
  <2>2. CASE kinds[h] # "call"
    <3>1. h = sent /\ owner.pc \in {"start", "stop", "shutdown"} /\ kinds[h] = owner.pc
      BY <1>1, <1>2, <1>6, <2>2 DEF OwnerTracked
    <3>2. loop.state = handle_state
      BY <1>1, <3>1 DEF StateTracked
    <3> QED
      BY <1>1, <1>3, <3>1, <3>2 DEF StateTracked, handleVars
  <2> QED
    BY <2>1, <2>2
<1>9. EndTracked'
  <2>1. ASSUME NEW c \in Command, kinds[c] = "shutdown"
        PROVE  /\ ~ command_tx
               /\ \A i \in DOMAIN queue' : queue'[i] = c => i = Len(queue')
               /\ answers'[c] # None => loop'.mode = "leaving"
    <3>1. \A i \in DOMAIN queue : queue[i] = c => i = Len(queue)
      BY <2>1 DEF EndTracked
    <3>2. DOMAIN queue' \subseteq Nat
      BY <1>1
    <3>3. answers[c] = None /\ ~ command_tx
      BY <2>1 DEF EndTracked
    <3>4. c # h => answers'[c] = None
      BY <1>1, <3>3
    <3> QED
      BY <1>1, <1>3, <2>1, <3>1, <3>2, <3>3, <3>4
  <2>2. kinds[h] = "shutdown" => queue' = << >> /\ ~ command_tx
    <3> SUFFICES ASSUME kinds[h] = "shutdown" PROVE queue' = << >> /\ ~ command_tx
      OBVIOUS
    <3>1. 1 \in DOMAIN queue
      BY <1>1 DEF HandleType
    <3>2. Len(queue) = 1 /\ ~ command_tx
      BY <1>1, <3>1 DEF EndTracked
    <3> QED
      BY <1>1, <3>2
  <2>3. handle_state # "Shutdown"
    BY DEF EndTracked
  <2>4. loop'.mode \in {"leaving", "exited"} => kinds[h] = "shutdown"
    BY <1>3
  <2> QED
    BY <2>1, <2>2, <2>3, <2>4 DEF EndTracked, handleVars
<1> QED
  BY <1>1, <1>4, <1>5, <1>7, <1>8, <1>9

\* The steps of the runtime thread keep the invariant of the handle.
LEMMA ThreadStepKeeps ==
  ASSUME HandleInv, ThreadStep
  PROVE  HandleInv'
<1> USE HandleAssumption DEF HandleInv
<1>1. UNCHANGED <<handleVars, sent, kinds, calls, late>>
  BY DEF ThreadStep
<1>2. loop = [mode |-> loop.mode, state |-> loop.state]
  BY DEF HandleType
<1>3. ASSUME NEW mode \in {"serving", "failed", "exited"},
             loop' = [loop EXCEPT !.mode = mode],
             UNCHANGED <<queue, answers, executed>>,
             mode = "exited" => queue = << >> /\ ~ command_tx,
             loop.mode = "opening" \/ mode = "exited"
      PROVE  HandleInv'
  <2>1. loop'.mode = mode /\ loop'.state = loop.state
    BY <1>3 DEF HandleType
  <2>2. HandleType' /\ QueueTracked' /\ CommandsTracked' /\ OwnerTracked'
    BY <1>1, <1>3 DEF HandleType, QueueTracked, CommandsTracked, OwnerTracked, handleVars
  <2>3. StateTracked'
    BY <1>1, <1>3, <2>1 DEF StateTracked, handleVars
  <2>4. EndTracked'
    BY <1>1, <1>3, <2>1 DEF EndTracked, handleVars
  <2> QED
    BY <2>2, <2>3, <2>4
<1>4. CASE Opens
  BY <1>3, <1>4 DEF Opens
<1>5. CASE Serves
  <2>1. ASSUME NEW answer \in {"ok", "error"}, Takes(answer),
               \/ answer = "ok" /\ kinds[Head(queue)] = "shutdown"
                  /\ loop' = [loop EXCEPT !.mode = "leaving"]
               \/ answer = "ok" /\ kinds[Head(queue)] = "stop"
                  /\ loop' = [loop EXCEPT !.state = "Stopped"]
               \/ answer = "ok" /\ kinds[Head(queue)] = "start"
                  /\ loop' = [loop EXCEPT !.state = "Running"]
               \/ answer = "ok" /\ kinds[Head(queue)] = "call" /\ loop' = loop
               \/ answer = "error" /\ kinds[Head(queue)] \in {"start", "call"}
                  /\ loop' = loop
        PROVE  HandleInv'
    <3>1. loop' = [mode |-> IF kinds[Head(queue)] = "shutdown" THEN "leaving"
                            ELSE loop.mode,
                   state |-> IF answer = "ok" /\ kinds[Head(queue)] \in {"start", "stop"}
                               THEN StateAfter(kinds[Head(queue)]) ELSE loop.state]
      BY <1>2, <2>1 DEF StateAfter
    <3>2. loop.mode = "serving"
      BY <1>5 DEF Serves
    <3> QED
      BY <1>1, <2>1, <3>1, <3>2, TakenKeeps
  <2> QED
    BY <1>5, <2>1 DEF Serves
<1>6. CASE Refuses
  <2>1. loop' = [mode |-> IF kinds[Head(queue)] = "shutdown" THEN "leaving"
                          ELSE loop.mode,
                 state |-> IF "error" = "ok" /\ kinds[Head(queue)] \in {"start", "stop"}
                             THEN StateAfter(kinds[Head(queue)]) ELSE loop.state]
    BY <1>2, <1>6 DEF Refuses
  <2>2. Takes("error") /\ loop.mode = "failed"
    BY <1>6 DEF Refuses
  <2> QED
    BY <1>1, <2>1, <2>2, TakenKeeps
<1>7. CASE Leaves
  BY <1>3, <1>7 DEF Leaves, EndTracked
<1> QED
  BY <1>4, <1>5, <1>6, <1>7 DEF ThreadStep

\* Every step of callers, loop and thread keeps it.
LEMMA HandleNextInv == HandleInv /\ [HandleNext]_handleAllVars => HandleInv'
<1> SUFFICES ASSUME HandleInv, [HandleNext]_handleAllVars PROVE HandleInv'
  OBVIOUS
<1>1. CASE \E c \in Caller : BeginCall(c) \/ CallReturns(c) \/ CallTimesOut(c)
  BY <1>1, CallStep
<1>2. CASE \/ \E method \in {"start", "stop"} : BeginStartOrStop(method)
           \/ BeginRestart
           \/ BeginShutdown
  BY <1>2, BeginStep
<1>3. CASE OwnerStep \/ LifecycleTimesOut
  BY <1>3, OwnerStepKeeps
<1>4. CASE ThreadStep
  BY <1>4, ThreadStepKeeps
<1>5. CASE UNCHANGED handleAllVars
  BY <1>5 DEF handleAllVars, handleVars, loopVars, HandleInv, HandleType, QueueTracked,
              CommandsTracked, OwnerTracked, StateTracked, EndTracked
<1> QED
  BY <1>1, <1>2, <1>3, <1>4, <1>5 DEF HandleNext

--------------------------------------------------------------------------------
(***************************************************************************)
(* The invariant and what it says.                                         *)
(***************************************************************************)
\* In every run of handle and thread, however calls, lifecycle methods, their
\* timeouts and the thread interleave, the bookkeeping above is right.
THEOREM HandleSafety == HandleSpec => []HandleInv
<1> QED
  BY HandleInitInv, HandleNextInv, PTL DEF HandleSpec

\* No command is lost or executed twice, and a call that returned Ok had its
\* command executed (send_command and run_node_runtime_loop).
THEOREM CommandsOnce == HandleSpec => []AnsweredMeansExecuted
<1>1. HandleInv => AnsweredMeansExecuted
  <2> SUFFICES ASSUME HandleInv PROVE AnsweredMeansExecuted
    OBVIOUS
  <2>1. ASSUME NEW c \in Command
        PROVE  /\ executed[c] <= 1
               /\ kinds[c] # None => executed[c] = 1 \/ c \in ToSet(queue)
               /\ executed[c] = 1 => c \notin ToSet(queue)
    BY DEF HandleInv, QueueTracked
  <2>2. ASSUME NEW c \in Caller, calls[c] = "ok"
        PROVE  executed[c] = 1
    <3>1. c \in Command /\ answers[c] = "ok" /\ "ok" # None
      BY <2>2, HandleAssumption DEF HandleInv, CommandsTracked, Command
    <3>2. executed[c] # 0 /\ executed[c] <= 1 /\ executed[c] \in Nat
      BY <3>1 DEF HandleInv, QueueTracked, HandleType
    <3> QED
      BY <3>2
  <2> QED
    BY <2>1, <2>2 DEF AnsweredMeansExecuted
<1> QED
  BY <1>1, HandleSafety, PTL

\* Between two lifecycle calls the handle's state is the thread's, unless a call
\* gave up waiting (start, stop, restart and their failed halves).
THEOREM StatesMatch == HandleSpec => []StatesAgree
<1>1. HandleInv => StatesAgree
  BY DEF HandleInv, StateTracked, StatesAgree, Idle
<1> QED
  BY <1>1, HandleSafety, PTL

\* A handle in state Shutdown has no thread any more and no command it sent was
\* left in the channel (shutdown joins the thread before it takes the state).
THEOREM ShutdownFinal == HandleSpec => []ShutdownIsFinal
<1>1. HandleInv => ShutdownIsFinal
  <2> SUFFICES ASSUME HandleInv, handle_state = "Shutdown" PROVE ShutdownIsFinal
    BY DEF ShutdownIsFinal
  <2>1. loop.mode = "exited" /\ queue = << >>
    BY DEF HandleInv, EndTracked
  <2>2. ToSet(queue) = {}
    BY <2>1 DEF ToSet
  <2> QED
    BY <2>1, <2>2 DEF HandleInv, QueueTracked, ShutdownIsFinal
<1> QED
  BY <1>1, HandleSafety, PTL

--------------------------------------------------------------------------------
(***************************************************************************)
(* The write-ahead log of a runtime: the invariant behind what its         *)
(* proposals were answered.                                                *)
(***************************************************************************)
\* The records the log may hold: those of members that satisfy NodeInv.
WalRecords == {WalRecord(node) : node \in {x \in NodeRecord : NodeInv(x)}}

\* Record b says all that record a says, or more: what a member persists later.
Continues(b, a) ==
  /\ a.current_term <= b.current_term
  /\ a.commit_index <= b.commit_index
  /\ Len(a.entries) <= Len(b.entries)
  /\ \A k \in 1 .. Len(a.entries) : b.entries[k] = a.entries[k]

LocalRecord == WalRecord(nodes[NodeId])

RecordHolds(record, e) == \E k \in 1 .. Len(record.entries) : record.entries[k] = e

\* What of a proposal is in the log: a record that no later line spoils has its
\* term and, if the member held it, its entry.
Kept(records, last, answer) ==
  \E i \in 1 .. Len(records) :
    /\ last = "unended" => i < Len(records)
    /\ records[i].current_term >= answer.entry.term
    /\ answer.local => RecordHolds(records[i], answer.entry)

\* The records in the log continue each other, and the local member continues
\* them all.
WalTracked ==
  /\ wal \in Seq(WalRecords)
  /\ tail \in {"whole", "unended", "torn", "glued"}
  /\ tail = "unended" => wal # << >>
  /\ \A j, k \in 1 .. Len(wal) : j <= k => Continues(wal[k], wal[j])
  /\ state # "Down" => \A k \in 1 .. Len(wal) : Continues(LocalRecord, wal[k])

\* The record being written is the local member's, and its entry has the id the
\* leader gave last.
WritingTracked ==
  \/ writing = << >>
  \/ /\ writing = << [entry |-> writing[1].entry, record |-> LocalRecord] >>
     /\ state # "Down" /\ leader_id # None
     /\ writing[1].entry \in Entry
     /\ writing[1].entry.term = current_term
     /\ writing[1].entry.index <= last_log_index
     /\ \A k \in 1 .. Len(replied) :
          replied[k].readable => Before(replied[k].entry, writing[1].entry)

Answer == [entry : Entry, local : BOOLEAN, readable : BOOLEAN]

\* No later proposal is given an id that was answered.
AnswersTracked ==
  /\ replied \in Seq(Answer)
  /\ RepliedOnce
  /\ \A k \in 1 .. Len(replied) :
       replied[k].readable =>
         /\ Kept(wal, tail, replied[k])
         /\ state # "Down" /\ leader_id # None /\ replied[k].entry.term = current_term =>
              replied[k].entry.index <= last_log_index

\* The group is consistent, and a leader has the local member's term.
LocalInv ==
  /\ GroupInv
  /\ NodeId \in Member
  /\ leader_id # None => nodes[NodeId].current_term = current_term

NodeRuntimeInv ==
  /\ LocalInv
  /\ WalTracked
  /\ WritingTracked
  /\ AnswersTracked

--------------------------------------------------------------------------------
(***************************************************************************)
(* Records.                                                                *)
(***************************************************************************)
LEMMA RecordOfNode ==
  ASSUME NEW node, NodeInv(node)
  PROVE  /\ WalRecord(node) \in WalRecords
         /\ WalRecord(node).current_term = node.current_term
         /\ WalRecord(node).voted_for = node.voted_for
         /\ WalRecord(node).committed = node.committed
         /\ WalRecord(node).entries = node.log
         /\ WalRecord(node).installed_snapshot = node.installed_snapshot
         /\ WalRecord(node).applied_index = node.applied_index
         /\ WalRecord(node).commit_index = node.commit_index
<1>1. node \in {x \in NodeRecord : NodeInv(x)}
  BY NodeTypes
<1>2. WalRecord(node) \in WalRecords
  BY <1>1 DEF WalRecords
<1> QED
  BY <1>2 DEF WalRecord

\* A record in the log is a member's, and passes the checks of recovery.
LEMMA RecordTypes ==
  ASSUME NEW r \in WalRecords
  PROVE  /\ \E node : NodeInv(node) /\ r = WalRecord(node)
         /\ r.current_term \in Nat /\ r.commit_index \in Nat
         /\ r.entries \in Seq(Entry) /\ Len(r.entries) \in Nat
         /\ DOMAIN r.entries = 1 .. Len(r.entries)
         /\ Recoverable(r) /\ CommittedIndex(r) = r.commit_index
<1>1. PICK node : NodeInv(node) /\ r = WalRecord(node)
  BY DEF WalRecords
<1>2. /\ r.current_term \in Nat /\ r.commit_index \in Nat /\ r.entries \in Seq(Entry)
  BY <1>1, RecordOfNode, NodeTypes
<1>3. Len(r.entries) \in Nat /\ DOMAIN r.entries = 1 .. Len(r.entries)
  BY <1>2, LenProperties
<1>4. Recoverable(r)
  BY <1>1, NodeRecoverable
<1>5. CommittedIndex(r) = r.commit_index
  BY <1>4 DEF Recoverable, ApplyFenceValid
<1> QED
  BY <1>1, <1>2, <1>3, <1>4, <1>5

\* Continuing is reflexive and transitive.
LEMMA ContinuesItself ==
  ASSUME NEW r \in WalRecords
  PROVE  Continues(r, r)
  BY RecordTypes DEF Continues

LEMMA ContinuesOn ==
  ASSUME NEW a \in WalRecords, NEW b \in WalRecords, NEW c \in WalRecords,
         Continues(b, a), Continues(c, b)
  PROVE  Continues(c, a)
<1>1. /\ a.current_term \in Nat /\ b.current_term \in Nat /\ c.current_term \in Nat
      /\ a.commit_index \in Nat /\ b.commit_index \in Nat /\ c.commit_index \in Nat
      /\ Len(a.entries) \in Nat /\ Len(b.entries) \in Nat /\ Len(c.entries) \in Nat
  BY RecordTypes
<1>2. \A k \in 1 .. Len(a.entries) : c.entries[k] = a.entries[k]
  <2> SUFFICES ASSUME NEW k \in 1 .. Len(a.entries) PROVE c.entries[k] = a.entries[k]
    OBVIOUS
  <2>1. k \in 1 .. Len(b.entries)
    BY <1>1 DEF Continues
  <2> QED
    BY <2>1 DEF Continues
<1> QED
  BY <1>1, <1>2 DEF Continues

\* What a record holds a later one holds.
LEMMA HoldsOn ==
  ASSUME NEW a \in WalRecords, NEW b \in WalRecords, Continues(b, a),
         NEW e, RecordHolds(a, e)
  PROVE  RecordHolds(b, e)
<1>1. PICK k \in 1 .. Len(a.entries) : a.entries[k] = e
  BY DEF RecordHolds
<1>2. Len(a.entries) \in Nat /\ Len(b.entries) \in Nat
  BY RecordTypes
<1>3. k \in 1 .. Len(b.entries) /\ b.entries[k] = e
  BY <1>1, <1>2 DEF Continues
<1> QED
  BY <1>3 DEF RecordHolds

\* The local member's record and its term.
LEMMA LocalFacts ==
  ASSUME GroupInv, NodeId \in Member
  PROVE  /\ LocalRecord \in WalRecords /\ NodeInv(nodes[NodeId])
         /\ LocalRecord.current_term = nodes[NodeId].current_term
         /\ LocalRecord.commit_index = nodes[NodeId].commit_index
         /\ LocalRecord.entries = nodes[NodeId].log
         /\ nodes[NodeId].current_term \in Nat /\ current_term \in Nat
         /\ nodes[NodeId].current_term <= current_term
         /\ last_log_index \in Nat
<1>1. /\ NodeInv(nodes[NodeId]) /\ nodes[NodeId].current_term <= current_term
      /\ current_term \in Nat /\ last_log_index \in Nat
  BY DEF GroupInv, TypeOK
<1> QED
  BY <1>1, RecordOfNode, NodeTypes DEF LocalRecord

--------------------------------------------------------------------------------
(***************************************************************************)
(* The calls on the cluster.                                               *)
(***************************************************************************)
\* What a call leaves to the log and to the answers: the local member goes on
\* from its record, and its ids go on from those given.
ClusterStep ==
  /\ GroupInv' /\ NodeId \in Member'
  /\ Continues(LocalRecord', LocalRecord)
  /\ leader_id' # None => nodes'[NodeId].current_term = current_term'
  /\ \/ current_term < current_term'
     \/ /\ current_term' = current_term /\ leader_id' = leader_id
        /\ last_log_index <= last_log_index'

\* A member whose log is the same or one entry longer continues its record.
LEMMA LongerContinues ==
  ASSUME LocalInv, GroupInv', NodeId \in Member',
         nodes[NodeId].current_term <= nodes'[NodeId].current_term,
         nodes[NodeId].commit_index <= nodes'[NodeId].commit_index,
         \/ nodes'[NodeId].log = nodes[NodeId].log
         \/ \E e \in Entry : nodes'[NodeId].log = Append(nodes[NodeId].log, e)
  PROVE  Continues(LocalRecord', LocalRecord)
<1>1. /\ LocalRecord.current_term = nodes[NodeId].current_term
      /\ LocalRecord.commit_index = nodes[NodeId].commit_index
      /\ LocalRecord.entries = nodes[NodeId].log
      /\ NodeInv(nodes[NodeId])
  BY LocalFacts DEF LocalInv
<1>2. NodeInv(nodes'[NodeId])
  BY DEF GroupInv
<1>3. /\ LocalRecord'.current_term = nodes'[NodeId].current_term
      /\ LocalRecord'.commit_index = nodes'[NodeId].commit_index
      /\ LocalRecord'.entries = nodes'[NodeId].log
  BY <1>2, RecordOfNode DEF LocalRecord
<1>4. nodes[NodeId].log \in Seq(Entry)
  BY <1>1, NodeTypes
<1>5. /\ Len(nodes[NodeId].log) <= Len(nodes'[NodeId].log)
      /\ \A k \in 1 .. Len(nodes[NodeId].log) :
           nodes'[NodeId].log[k] = nodes[NodeId].log[k]
  <2>1. CASE nodes'[NodeId].log = nodes[NodeId].log
    BY <1>4, <2>1, LenProperties
  <2>2. ASSUME NEW e \in Entry, nodes'[NodeId].log = Append(nodes[NodeId].log, e)
        PROVE  /\ Len(nodes[NodeId].log) <= Len(nodes'[NodeId].log)
               /\ \A k \in 1 .. Len(nodes[NodeId].log) :
                    nodes'[NodeId].log[k] = nodes[NodeId].log[k]
    BY <1>4, <2>2, AppendProperties, LenProperties
  <2> QED
    BY <2>1, <2>2
<1> QED
  BY <1>1, <1>3, <1>5 DEF Continues

\* An election is a step the WAL can follow.
LEMMA ElectStep ==
  ASSUME LocalInv, NEW candidate, Electable(candidate), Elect(candidate),
         running' \in BOOLEAN, acknowledged' = acknowledged
  PROVE  ClusterStep
<1>1. GroupInv'
  BY ElectGroup DEF LocalInv
<1>2. /\ current_term \in Nat /\ current_term' = current_term + 1
      /\ NodeId \in Member' /\ nodes[NodeId] \in NodeRecord
      /\ nodes[NodeId].current_term <= current_term
      /\ nodes[NodeId].current_term \in Nat
  BY LocalFacts, NodeTypes DEF LocalInv, Elect, Member
<1>3. /\ nodes'[NodeId].current_term = current_term + 1
      /\ nodes'[NodeId].log = nodes[NodeId].log
      /\ nodes'[NodeId].commit_index = nodes[NodeId].commit_index
  BY <1>2 DEF LocalInv, Elect, NodeRecord
<1>4. nodes[NodeId].commit_index \in Nat
  BY <1>2 DEF NodeRecord
<1>5. Continues(LocalRecord', LocalRecord)
  BY <1>1, <1>2, <1>3, <1>4, LongerContinues
<1> QED
  BY <1>1, <1>2, <1>3, <1>5 DEF ClusterStep

\* Calls that leave the local member's record and the indexes alone.
LEMMA FlagsStep ==
  ASSUME LocalInv, GroupInv', Member' = Member, UNCHANGED <<leaderVars, indexVars>>,
         nodes'[NodeId].current_term = nodes[NodeId].current_term,
         nodes'[NodeId].commit_index = nodes[NodeId].commit_index,
         nodes'[NodeId].log = nodes[NodeId].log
  PROVE  ClusterStep
<1>1. /\ NodeId \in Member /\ NodeId \in Member' /\ GroupInv
      /\ leader_id' = leader_id /\ current_term' = current_term
      /\ last_log_index' = last_log_index
  BY DEF LocalInv, leaderVars, indexVars
<1>2. /\ nodes[NodeId].current_term \in Nat /\ nodes[NodeId].commit_index \in Nat
      /\ last_log_index \in Nat
  BY <1>1, LocalFacts, NodeTypes
<1>3. Continues(LocalRecord', LocalRecord)
  BY <1>1, <1>2, LongerContinues
<1> QED
  BY <1>1, <1>2, <1>3 DEF ClusterStep, LocalInv

\* propose appends the entry to a member's log or leaves the log alone.
LEMMA ReplicatedPushes ==
  ASSUME GroupInv, NEW payload \in Payload, NEW n \in Member
  PROVE  \/ Replicated(NewEntry(payload))[n].log = nodes[n].log
         \/ /\ NewEntry(payload) \in Entry
            /\ Replicated(NewEntry(payload))[n].log
                 = Append(nodes[n].log, NewEntry(payload))
<1> DEFINE e == NewEntry(payload)
<1>1. /\ last_log_index \in Nat /\ current_term \in Nat
      /\ nodes[n] \in NodeRecord /\ NodeInv(nodes[n])
      /\ MatchIndex(nodes[n]) <= last_log_index
  BY GroupFacts DEF Family, Member
<1>2. e \in Entry /\ e.index = last_log_index + 1
  BY <1>1 DEF NewEntry, Entry
<1> HIDE DEF e
<1>3. /\ nodes[n].log \in Seq(Entry) /\ Ordered(nodes[n].log)
      /\ MatchIndex(nodes[n]) = LastIndex(nodes[n].log)
      /\ MatchIndex(nodes[n]) \in Nat
  BY <1>1, NodeTypes, MatchIndexIsLast DEF NodeInv
<1>4. AppendEntry(nodes[n].log, e) = Append(nodes[n].log, e)
  <2>1. \A x \in Entry : x.index \in Nat
    BY DEF Entry
  <2>2. e.index > LastIndex(nodes[n].log)
    BY <1>1, <1>2, <1>3
  <2> QED
    BY <1>2, <1>3, <2>1, <2>2, AppendEntryPushes
<1>5. Replicated(e)[n] = IF n \in Appending(e)
                           THEN [nodes[n] EXCEPT !.log = AppendEntry(@, e)]
                           ELSE nodes[n]
  BY DEF Replicated
<1> DEFINE longer == AppendEntry(nodes[n].log, e)
<1> HIDE DEF longer
<1>6. [nodes[n] EXCEPT !.log = longer].log = longer
  BY <1>1 DEF NodeRecord
<1>7. Replicated(e)[n].log = nodes[n].log \/ Replicated(e)[n].log = longer
  BY <1>5, <1>6 DEF longer
<1> QED
  BY <1>2, <1>4, <1>7 DEF e, longer

\* So is a proposal, accepted or refused half way.
LEMMA ProposeStep ==
  ASSUME LocalInv, NEW payload \in Payload, Propose(payload)
  PROVE  /\ ClusterStep /\ leader_id # None
         /\ current_term' = current_term /\ leader_id' = leader_id
         /\ last_log_index + 1 <= last_log_index'
<1> DEFINE ns == Replicated(NewEntry(payload))
<1>1. GroupInv /\ GroupInv' /\ NodeId \in Member
  BY ProposeGroup DEF LocalInv
<1>2. /\ last_log_index \in Nat /\ current_term \in Nat
      /\ nodes[NodeId].current_term \in Nat /\ nodes[NodeId].commit_index \in Nat
  BY <1>1, LocalFacts, NodeTypes
<1>3. /\ leader_id # None /\ leader_id \in Member /\ Member' = Member
      /\ leader_id' = leader_id /\ current_term' = current_term
      /\ nodes'[NodeId].log = ns[NodeId].log
      /\ nodes'[NodeId].current_term = nodes[NodeId].current_term
      /\ NodeInv(nodes'[leader_id])
      /\ MatchIndex(nodes'[leader_id]) <= last_log_index'
      /\ last_log_index' \in Nat
      /\ Keeps(nodes'[leader_id].log, NewEntry(payload))
  BY <1>1, ProposeWrites
<1>4. last_log_index + 1 <= last_log_index'
  <2>1. PICK k \in DOMAIN nodes'[leader_id].log :
          nodes'[leader_id].log[k] = NewEntry(payload)
    BY <1>3 DEF Keeps
  <2>2. nodes'[leader_id].log[k].index = last_log_index + 1
    BY <2>1 DEF NewEntry
  <2> QED
    BY <1>2, <1>3, <2>2, MatchIndexIsLast
<1>5. ns[NodeId].commit_index <= nodes'[NodeId].commit_index
  <2> DEFINE given == NewEntry(payload)
  <2>1. /\ Family(ns, last_log_index + 1)
        /\ RefreshCommitIndex(ns, last_log_index + 1)
        /\ commit_index \in Nat
        /\ DOMAIN ns = Member
        /\ \A n \in DOMAIN ns : ns[n].commit_index <= commit_index
    BY <1>1, ProposeRefreshes
  <2> HIDE DEF ns
  <2>2. \A n \in DOMAIN ns : ns[n].commit_index <= nodes'[n].commit_index
    BY <1>2, <2>1, RefreshCommitIndexBounds
  <2> QED
    BY <1>1, <2>1, <2>2
<1>6. ns[NodeId].commit_index = nodes[NodeId].commit_index
  BY <1>1, ReplicatedLeaves
<1>7. \/ ns[NodeId].log = nodes[NodeId].log
      \/ \E e \in Entry : ns[NodeId].log = Append(nodes[NodeId].log, e)
  BY <1>1, ReplicatedPushes
<1> HIDE DEF ns
<1>8. Continues(LocalRecord', LocalRecord)
  <2>1. nodes[NodeId].current_term <= nodes'[NodeId].current_term
    BY <1>2, <1>3
  <2>2. nodes[NodeId].commit_index <= nodes'[NodeId].commit_index
    BY <1>5, <1>6
  <2>3. \/ nodes'[NodeId].log = nodes[NodeId].log
        \/ \E e \in Entry : nodes'[NodeId].log = Append(nodes[NodeId].log, e)
    BY <1>3, <1>7
  <2>4. NodeId \in Member'
    BY <1>1, <1>3
  <2> QED
    BY <1>1, <2>1, <2>2, <2>3, <2>4, LongerContinues
<1>9. last_log_index <= last_log_index'
  BY <1>2, <1>3, <1>4
<1> QED
  BY <1>1, <1>3, <1>4, <1>8, <1>9 DEF ClusterStep, LocalInv

LEMMA ProposeRefusedStep ==
  ASSUME LocalInv, NEW payload \in Payload, ProposeRefused(payload)
  PROVE  ClusterStep
<1> DEFINE ns == Replicated(NewEntry(payload))
<1>1. GroupInv /\ GroupInv' /\ NodeId \in Member
  BY ProposeRefusedGroup DEF LocalInv
<1>2. /\ last_log_index \in Nat /\ current_term \in Nat
      /\ nodes[NodeId].current_term \in Nat /\ nodes[NodeId].commit_index \in Nat
  BY <1>1, LocalFacts, NodeTypes
<1>3. /\ nodes' = ns /\ last_log_index' = last_log_index + 1
      /\ leader_id' = leader_id /\ current_term' = current_term
  BY DEF ProposeRefused, NewEntry, leaderVars
<1>4. /\ DOMAIN ns = Member
      /\ ns[NodeId].commit_index = nodes[NodeId].commit_index
      /\ ns[NodeId].current_term = nodes[NodeId].current_term
  BY <1>1, ReplicatedKeeps
<1>5. \/ ns[NodeId].log = nodes[NodeId].log
      \/ \E e \in Entry : ns[NodeId].log = Append(nodes[NodeId].log, e)
  BY <1>1, ReplicatedPushes
<1> HIDE DEF ns
<1>6. NodeId \in Member'
  BY <1>1, <1>3, <1>4 DEF Member
<1>7. Continues(LocalRecord', LocalRecord)
  BY <1>1, <1>2, <1>3, <1>4, <1>5, <1>6, LongerContinues
<1> QED
  BY <1>1, <1>2, <1>3, <1>4, <1>6, <1>7 DEF ClusterStep, LocalInv

\* Every call of the loop on its cluster.
LEMMA ClusterCallStep ==
  ASSUME LocalInv,
         \/ Start \/ Stop
         \/ \E forced \in BOOLEAN : Campaign(NodeId, forced)
         \/ \E n \in Node : TransferLeader(n)
         \/ \E n \in Node, healthy \in BOOLEAN : SetNodeHealthy(n, healthy)
         \/ \E valid \in LeaseUpdates : SetLeaderLeaseValid(valid)
         \/ \E payload \in Payload : ProposeRefused(payload)
  PROVE  ClusterStep
<1>1. /\ GroupInv /\ NodeId \in Member /\ running \in BOOLEAN
      /\ leader_lease_valid \in BOOLEAN /\ IsFiniteSet(Member) /\ Member \subseteq Nat
  BY GroupFacts DEF LocalInv, GroupInv, TypeOK
<1>2. CASE Start
  <2> DEFINE electable == {n \in Member : Electable(n)}
  <2>1. running' = TRUE /\ acknowledged' = acknowledged
    BY <1>2 DEF Start
  <2>2. CASE electable # {} /\ Elect(Min(electable))
    <3> DEFINE first == Min(electable)
    <3>1. electable \in SUBSET Nat /\ electable # {} /\ IsFiniteSet(electable)
      BY <1>1, <2>2, FS_Subset
    <3>2. first \in electable
      <4> HIDE DEF electable
      <4> QED
        BY <3>1, MinNat
    <3>3. Electable(first) /\ Elect(first)
      BY <2>2, <3>2
    <3> HIDE DEF first
    <3> QED
      BY <2>1, <3>3, ElectStep
  <2>3. CASE UNCHANGED <<nodes, peer_pipelines, leaderVars, indexVars,
                         leader_lease_valid>>
    <3>1. GroupInv'
      BY <1>1, <2>1, <2>3, FlagsGroup
    <3> QED
      BY <2>3, <3>1, FlagsStep DEF Member
  <2> QED
    BY <1>2, <2>2, <2>3 DEF Start
<1>3. CASE Stop
  <2>1. GroupInv' /\ UNCHANGED <<nodes, leaderVars, indexVars>>
    BY <1>1, <1>3, FlagsGroup DEF Stop
  <2> QED
    BY <2>1, FlagsStep DEF Member
<1>4. ASSUME NEW forced \in BOOLEAN, Campaign(NodeId, forced)
      PROVE  ClusterStep
  BY <1>1, <1>4, ElectStep DEF Campaign
<1>5. ASSUME NEW n \in Node, TransferLeader(n)
      PROVE  ClusterStep
  BY <1>1, <1>5, ElectStep DEF TransferLeader
<1>6. ASSUME NEW n \in Node, NEW healthy \in BOOLEAN, SetNodeHealthy(n, healthy)
      PROVE  ClusterStep
  <2>1. GroupInv'
    BY <1>1, <1>6, SetNodeHealthyGroup
  <2>2. nodes[NodeId] \in NodeRecord
    BY <1>1, GroupFacts
  <2>3. /\ nodes' = [nodes EXCEPT ![n].healthy = healthy]
        /\ UNCHANGED <<leaderVars, indexVars>>
    BY <1>6 DEF SetNodeHealthy
  <2>4. Member' = Member
    BY <2>3 DEF Member
  <2>5. /\ nodes'[NodeId].current_term = nodes[NodeId].current_term
        /\ nodes'[NodeId].commit_index = nodes[NodeId].commit_index
        /\ nodes'[NodeId].log = nodes[NodeId].log
    BY <1>1, <2>2, <2>3 DEF Member, NodeRecord
  <2> QED
    BY <2>1, <2>3, <2>4, <2>5, FlagsStep
<1>7. ASSUME NEW valid \in LeaseUpdates, SetLeaderLeaseValid(valid)
      PROVE  ClusterStep
  <2>1. valid \in BOOLEAN
    BY <1>7, ClusterAssumption
  <2>2. GroupInv' /\ UNCHANGED <<nodes, leaderVars, indexVars>>
    BY <1>1, <1>7, <2>1, FlagsGroup DEF SetLeaderLeaseValid
  <2> QED
    BY <2>2, FlagsStep DEF Member
<1>8. ASSUME NEW payload \in Payload, ProposeRefused(payload)
      PROVE  ClusterStep
  BY <1>8, ProposeRefusedStep
<1> QED
  BY <1>2, <1>3, <1>4, <1>5, <1>6, <1>7, <1>8

\* An answer that is kept has a term the local member has reached.
LEMMA KeptBelowLocal ==
  ASSUME LocalInv, WalTracked, state # "Down", NEW a \in Answer,
         Kept(wal, tail, a)
  PROVE  /\ a.entry.term <= nodes[NodeId].current_term
         /\ a.entry.term <= current_term
<1>1. PICK i \in 1 .. Len(wal) : wal[i].current_term >= a.entry.term
  BY DEF Kept
<1>2. wal \in Seq(WalRecords) /\ Continues(LocalRecord, wal[i])
  BY DEF WalTracked
<1>3. wal[i] \in WalRecords
  BY <1>2, ElementOfSeq
<1>4. wal[i].current_term \in Nat
  BY <1>3, RecordTypes
<1>5. /\ LocalRecord.current_term = nodes[NodeId].current_term
      /\ nodes[NodeId].current_term \in Nat /\ current_term \in Nat
      /\ nodes[NodeId].current_term <= current_term
  BY LocalFacts DEF LocalInv
<1>6. a.entry.term \in Nat
  BY DEF Answer, Entry
<1> QED
  BY <1>1, <1>2, <1>4, <1>5, <1>6 DEF Continues

\* What the calls keep when nothing is being written.
LEMMA ClusterStepKeeps ==
  ASSUME NodeRuntimeInv, ClusterStep, writing = << >>,
         state # "Down", UNCHANGED <<logVars, replied>>
  PROVE  LocalInv' /\ WalTracked' /\ AnswersTracked'
<1>1. LocalInv /\ WalTracked /\ AnswersTracked
  BY DEF NodeRuntimeInv
<1>2. wal' = wal /\ tail' = tail /\ replied' = replied
  BY DEF logVars
<1>3. LocalInv'
  BY DEF ClusterStep, LocalInv
<1>4. LocalRecord \in WalRecords /\ LocalRecord' \in WalRecords
  <2>1. GroupInv' /\ NodeId \in Member'
    BY DEF ClusterStep
  <2>2. NodeInv(nodes'[NodeId])
    BY <2>1 DEF GroupInv
  <2> QED
    BY <1>1, <2>2, LocalFacts, RecordOfNode DEF LocalInv, LocalRecord
<1>5. WalTracked'
  <2>1. ASSUME NEW k \in 1 .. Len(wal)
        PROVE  Continues(LocalRecord', wal[k])
    <3>1. wal \in Seq(WalRecords) /\ Continues(LocalRecord, wal[k])
      BY <1>1 DEF WalTracked
    <3>2. wal[k] \in WalRecords
      BY <3>1, ElementOfSeq
    <3>3. Continues(LocalRecord', LocalRecord)
      BY DEF ClusterStep
    <3> QED
      BY <1>4, <3>1, <3>2, <3>3, ContinuesOn
  <2> QED
    BY <1>1, <1>2, <2>1 DEF WalTracked
<1>6. AnswersTracked'
  <2>1. ASSUME NEW k \in 1 .. Len(replied), replied[k].readable
        PROVE  /\ Kept(wal, tail, replied[k])
               /\ leader_id' # None /\ replied[k].entry.term = current_term' =>
                    replied[k].entry.index <= last_log_index'
    <3>1. /\ replied \in Seq(Answer) /\ Kept(wal, tail, replied[k])
          /\ leader_id # None /\ replied[k].entry.term = current_term =>
               replied[k].entry.index <= last_log_index
      BY <1>1, <2>1 DEF AnswersTracked
    <3>2. replied[k] \in Answer
      BY <3>1, ElementOfSeq
    <3>3. /\ replied[k].entry.term \in Nat /\ replied[k].entry.index \in Nat
      BY <3>2 DEF Answer, Entry
    <3>4. replied[k].entry.term <= current_term
      BY <1>1, <3>1, <3>2, KeptBelowLocal
    <3>5. /\ current_term \in Nat /\ current_term' \in Nat
          /\ last_log_index \in Nat /\ last_log_index' \in Nat
      BY <1>1, LocalFacts DEF LocalInv, ClusterStep, GroupInv, TypeOK
    <3> QED
      BY <3>1, <3>3, <3>4, <3>5 DEF ClusterStep
  <2>2. RepliedOnce'
    BY <1>1, <1>2 DEF AnswersTracked, RepliedOnce
  <2> QED
    BY <1>1, <1>2, <2>1, <2>2 DEF AnswersTracked
<1> QED
  BY <1>3, <1>5, <1>6

--------------------------------------------------------------------------------
(***************************************************************************)
(* The write-ahead log.                                                    *)
(***************************************************************************)
\* What a write of a record may leave.
WriteOutcome(r) ==
  \/ wal' = wal /\ tail' = tail
  \/ wal' = wal /\ tail' \in {"torn", "glued"} /\ tail # "unended"
  \/ wal' = Append(wal, r) /\ tail' \in {"whole", "unended"} /\ tail = "whole"
  \/ wal' = Front(wal) /\ tail' = "glued" /\ tail = "unended"

\* A write leaves the whole line, a cut one or nothing.
LEMMA WriteOutcomes ==
  ASSUME NEW r, Line(r) \/ CutShort(r)
  PROVE  WriteOutcome(r)
  BY DEF Line, CutShort, WriteOutcome, logVars

\* The records in the log continue each other, and r continues them all.
LogBelow(records, last, r) ==
  /\ records \in Seq(WalRecords)
  /\ last \in {"whole", "unended", "torn", "glued"}
  /\ last = "unended" => records # << >>
  /\ \A j, k \in 1 .. Len(records) : j <= k => Continues(records[k], records[j])
  /\ \A k \in 1 .. Len(records) : Continues(r, records[k])

\* A sequence without its last element.
LEMMA FrontFacts ==
  ASSUME NEW S, NEW s \in Seq(S), s # << >>
  PROVE  /\ Front(s) \in Seq(S) /\ Len(Front(s)) = Len(s) - 1
         /\ Len(Front(s)) \in Nat /\ Len(s) \in Nat
         /\ \A k \in 1 .. Len(Front(s)) : k \in 1 .. Len(s) /\ Front(s)[k] = s[k]
<1> DEFINE n == Len(s) - 1
<1>1. Len(s) \in Nat /\ Len(s) # 0
  BY LenProperties, EmptySeq
<1>2. n \in Nat /\ n + 1 = Len(s)
  BY <1>1
<1>3. Front(s) = SubSeq(s, 1, n)
  BY DEF Front
<1> HIDE DEF n
<1>4. \A i \in 1 .. n : i \in 1 .. Len(s) /\ s[i] \in S
  BY <1>1, <1>2, ElementOfSeq
<1>5. /\ SubSeq(s, 1, n) \in Seq(S)
      /\ Len(SubSeq(s, 1, n)) = IF 1 <= n THEN n - 1 + 1 ELSE 0
      /\ \A i \in 1 .. n - 1 + 1 : SubSeq(s, 1, n)[i] = s[1 + i - 1]
  BY <1>2, <1>4, SubSeqProperties
<1>6. Len(Front(s)) = n
  BY <1>2, <1>3, <1>5
<1>7. \A i \in 1 .. n : Front(s)[i] = s[i]
  BY <1>2, <1>3, <1>5
<1> QED
  BY <1>1, <1>2, <1>3, <1>4, <1>5, <1>6, <1>7

\* Whatever is left of a write, the log's records continue each other and no
\* answer loses what kept it.
LEMMA OutcomesKeep ==
  ASSUME NEW r \in WalRecords, LogBelow(wal, tail, r), WriteOutcome(r)
  PROVE  /\ LogBelow(wal', tail', r)
         /\ \A a \in Answer : Kept(wal, tail, a) => Kept(wal', tail', a)
<1>1. /\ wal \in Seq(WalRecords) /\ Len(wal) \in Nat
      /\ tail \in {"whole", "unended", "torn", "glued"}
      /\ tail = "unended" => wal # << >>
      /\ \A j, k \in 1 .. Len(wal) : j <= k => Continues(wal[k], wal[j])
      /\ \A k \in 1 .. Len(wal) : Continues(r, wal[k])
  BY LenProperties DEF LogBelow
<1>2. CASE wal' = wal /\ tail' = tail
  BY <1>2
<1>3. CASE wal' = wal /\ tail' \in {"torn", "glued"} /\ tail # "unended"
  <2>1. LogBelow(wal', tail', r)
    BY <1>1, <1>3 DEF LogBelow
  <2>2. \A a \in Answer : Kept(wal, tail, a) => Kept(wal', tail', a)
    BY <1>3 DEF Kept
  <2> QED
    BY <2>1, <2>2
<1>4. CASE wal' = Append(wal, r) /\ tail' \in {"whole", "unended"} /\ tail = "whole"
  <2>1. /\ wal' \in Seq(WalRecords) /\ Len(wal') = Len(wal) + 1
        /\ \A k \in 1 .. Len(wal) : wal'[k] = wal[k]
        /\ wal'[Len(wal) + 1] = r
        /\ \A k \in 1 .. Len(wal') : k \in 1 .. Len(wal) \/ k = Len(wal) + 1
    BY <1>1, <1>4, AppendProperties
  <2>2. Continues(r, r)
    BY ContinuesItself
  <2>3. \A k \in 1 .. Len(wal') : Continues(r, wal'[k])
    BY <1>1, <2>1, <2>2
  <2>4. ASSUME NEW j \in 1 .. Len(wal'), NEW k \in 1 .. Len(wal'), j <= k
        PROVE  Continues(wal'[k], wal'[j])
    <3>1. CASE k = Len(wal) + 1
      BY <2>1, <2>3, <3>1
    <3>2. CASE k \in 1 .. Len(wal)
      <4>1. j \in 1 .. Len(wal)
        BY <1>1, <2>1, <2>4, <3>2
      <4> QED
        BY <1>1, <2>1, <2>4, <3>2, <4>1
    <3> QED
      BY <2>1, <3>1, <3>2
  <2>5. wal' # << >>
    BY <1>1, <2>1
  <2>6. LogBelow(wal', tail', r)
    BY <1>4, <2>1, <2>3, <2>4, <2>5 DEF LogBelow
  <2>7. ASSUME NEW a \in Answer, Kept(wal, tail, a)
        PROVE  Kept(wal', tail', a)
    <3>1. PICK i \in 1 .. Len(wal) : /\ wal[i].current_term >= a.entry.term
                                     /\ a.local => RecordHolds(wal[i], a.entry)
      BY <2>7 DEF Kept
    <3>2. i \in 1 .. Len(wal') /\ i < Len(wal') /\ wal'[i] = wal[i]
      BY <1>1, <2>1
    <3> QED
      BY <3>1, <3>2 DEF Kept
  <2> QED
    BY <2>6, <2>7
<1>5. CASE wal' = Front(wal) /\ tail' = "glued" /\ tail = "unended"
  <2>1. /\ wal' \in Seq(WalRecords) /\ Len(wal') = Len(wal) - 1
        /\ Len(wal') \in Nat
        /\ \A k \in 1 .. Len(wal') : k \in 1 .. Len(wal) /\ wal'[k] = wal[k]
    BY <1>1, <1>5, FrontFacts
  <2>2. LogBelow(wal', tail', r)
    BY <1>1, <1>5, <2>1 DEF LogBelow
  <2>3. ASSUME NEW a \in Answer, Kept(wal, tail, a)
        PROVE  Kept(wal', tail', a)
    <3>1. PICK i \in 1 .. Len(wal) : /\ i < Len(wal)
                                     /\ wal[i].current_term >= a.entry.term
                                     /\ a.local => RecordHolds(wal[i], a.entry)
      BY <1>5, <2>3 DEF Kept
    <3>2. i \in 1 .. Len(wal') /\ wal'[i] = wal[i]
      BY <1>1, <2>1, <3>1
    <3> QED
      BY <1>5, <3>1, <3>2 DEF Kept
  <2> QED
    BY <2>2, <2>3
<1> QED
  BY <1>2, <1>3, <1>4, <1>5 DEF WriteOutcome

\* The log while the runtime is up.
LEMMA LogBelowLocal ==
  ASSUME WalTracked, state # "Down"
  PROVE  LogBelow(wal, tail, LocalRecord)
  BY DEF WalTracked, LogBelow

\* What is being written is the local member's record.
LEMMA WritingFacts ==
  ASSUME NodeRuntimeInv, writing # << >>
  PROVE  /\ state # "Down" /\ writing[1].record = LocalRecord
         /\ LocalRecord \in WalRecords /\ LogBelow(wal, tail, LocalRecord)
         /\ writing[1].entry \in Entry
         /\ writing[1].entry.term = current_term
         /\ writing[1].entry.index <= last_log_index
         /\ LocalRecord.current_term = current_term /\ current_term \in Nat
         /\ LocalRecord.entries = nodes[NodeId].log
         /\ \A k \in 1 .. Len(replied) :
              replied[k].readable => Before(replied[k].entry, writing[1].entry)
<1>1. LocalInv /\ WalTracked /\ WritingTracked
  BY DEF NodeRuntimeInv
<1>2. /\ writing = << [entry |-> writing[1].entry, record |-> LocalRecord] >>
      /\ state # "Down" /\ leader_id # None
      /\ writing[1].entry \in Entry
      /\ writing[1].entry.term = current_term
      /\ writing[1].entry.index <= last_log_index
      /\ \A k \in 1 .. Len(replied) :
           replied[k].readable => Before(replied[k].entry, writing[1].entry)
  BY <1>1 DEF WritingTracked
<1> DEFINE e == writing[1].entry
<1>3. writing[1].record = LocalRecord
  <2> HIDE DEF e
  <2>1. writing = << [entry |-> e, record |-> LocalRecord] >>
    BY <1>2 DEF e
  <2> QED
    BY <2>1
<1>4. /\ LocalRecord \in WalRecords
      /\ LocalRecord.current_term = nodes[NodeId].current_term
      /\ LocalRecord.entries = nodes[NodeId].log
      /\ current_term \in Nat
  BY <1>1, LocalFacts DEF LocalInv
<1>5. LocalRecord.current_term = current_term
  BY <1>1, <1>2, <1>4 DEF LocalInv
<1>6. LogBelow(wal, tail, LocalRecord)
  BY <1>1, <1>2, LogBelowLocal
<1> QED
  BY <1>2, <1>3, <1>4, <1>5, <1>6

\* A write that fails, or a crash: the answers stay as they were.
LEMMA LostInv ==
  ASSUME NodeRuntimeInv, state # "Down",
         UNCHANGED logVars \/ (writing # << >> /\ CutShort(writing[1].record)),
         writing' = << >>, state' \in {state, "Down"}, UNCHANGED <<vars, replied>>
  PROVE  NodeRuntimeInv'
<1>1. LocalInv /\ WalTracked /\ AnswersTracked
  BY DEF NodeRuntimeInv
<1>2. UNCHANGED <<nodes, peer_pipelines, leader_id, current_term, commit_index,
                  applied_index, last_log_index, running, leader_lease_valid,
                  acknowledged>> /\ replied' = replied
  BY DEF vars
<1>3. LocalInv'
  BY <1>1, <1>2 DEF LocalInv, GroupInv, Member, TypeOK, ElectionSafety,
       OneVotePerTerm, LogMatching, ClusterIndexesCover
<1>4. LocalRecord' = LocalRecord /\ LocalRecord \in WalRecords
  BY <1>1, <1>2, LocalFacts DEF LocalInv, LocalRecord
<1>5. WriteOutcome(LocalRecord)
  <2>1. CASE UNCHANGED logVars
    BY <2>1 DEF WriteOutcome, logVars
  <2>2. CASE writing # << >> /\ CutShort(writing[1].record)
    BY <2>2, WritingFacts, WriteOutcomes
  <2> QED
    BY <2>1, <2>2
<1>6. LogBelow(wal, tail, LocalRecord)
  BY <1>1, LogBelowLocal
<1>7. /\ LogBelow(wal', tail', LocalRecord)
      /\ \A a \in Answer : Kept(wal, tail, a) => Kept(wal', tail', a)
  BY <1>4, <1>5, <1>6, OutcomesKeep
<1>8. WalTracked'
  BY <1>4, <1>7 DEF WalTracked, LogBelow
<1>9. AnswersTracked'
  <2>1. ASSUME NEW k \in 1 .. Len(replied), replied[k].readable
        PROVE  Kept(wal', tail', replied[k])
    <3>1. replied \in Seq(Answer) /\ Kept(wal, tail, replied[k])
      BY <1>1, <2>1 DEF AnswersTracked
    <3>2. replied[k] \in Answer
      BY <3>1, ElementOfSeq
    <3> QED
      BY <1>7, <3>1, <3>2
  <2>2. RepliedOnce'
    BY <1>1, <1>2 DEF AnswersTracked, RepliedOnce
  <2> QED
    BY <1>1, <1>2, <2>1, <2>2 DEF AnswersTracked
<1>10. WritingTracked'
  BY DEF WritingTracked
<1> QED
  BY <1>3, <1>8, <1>9, <1>10 DEF NodeRuntimeInv

\* The write returns: the record is in the log, unless the line before spoils it,
\* and the proposal is answered.
LEMMA ReplyInv ==
  ASSUME NodeRuntimeInv, WriteAndReply
  PROVE  NodeRuntimeInv'
<1> DEFINE e == writing[1].entry
           a == [entry |-> e, local |-> LocalHolds(e), readable |-> tail = "whole"]
<1>1. /\ LocalInv /\ WalTracked /\ AnswersTracked /\ writing # << >>
      /\ writing' = << >> /\ state' = state
      /\ replied' = Append(replied, a)
  BY DEF NodeRuntimeInv, WriteAndReply
<1>2. UNCHANGED <<nodes, peer_pipelines, leader_id, current_term, commit_index,
                  applied_index, last_log_index, running, leader_lease_valid,
                  acknowledged>>
  BY DEF WriteAndReply, vars
<1>3. /\ state # "Down" /\ Line(LocalRecord)
      /\ LocalRecord \in WalRecords /\ LogBelow(wal, tail, LocalRecord)
      /\ e \in Entry /\ e.term = current_term /\ e.index <= last_log_index
      /\ LocalRecord.current_term = current_term /\ current_term \in Nat
      /\ LocalRecord.entries = nodes[NodeId].log
      /\ \A k \in 1 .. Len(replied) : replied[k].readable => Before(replied[k].entry, e)
  BY <1>1, WritingFacts DEF WriteAndReply
<1>4. a \in Answer /\ a.entry = e /\ a.local = LocalHolds(e)
      /\ a.readable = (tail = "whole")
  BY <1>3 DEF Answer, LocalHolds
<1> HIDE DEF e, a
<1>5. LocalInv'
  BY <1>1, <1>2 DEF LocalInv, GroupInv, Member, TypeOK, ElectionSafety,
       OneVotePerTerm, LogMatching, ClusterIndexesCover
<1>6. LocalRecord' = LocalRecord
  BY <1>2 DEF LocalRecord
<1>7. /\ LogBelow(wal', tail', LocalRecord)
      /\ \A x \in Answer : Kept(wal, tail, x) => Kept(wal', tail', x)
  BY <1>3, WriteOutcomes, OutcomesKeep
<1>8. WalTracked'
  BY <1>6, <1>7 DEF WalTracked, LogBelow
<1>9. a.readable => Kept(wal', tail', a)
  <2> SUFFICES ASSUME a.readable PROVE Kept(wal', tail', a)
    OBVIOUS
  <2>1. tail = "whole" /\ wal' = Append(wal, LocalRecord) /\ tail' = "whole"
    BY <1>3, <1>4 DEF Line
  <2>2. /\ Len(wal') \in 1 .. Len(wal') /\ wal'[Len(wal')] = LocalRecord
    BY <1>3, <2>1, AppendProperties, LenProperties DEF LogBelow
  <2>3. LocalRecord.current_term >= a.entry.term
    BY <1>3, <1>4
  <2>4. a.local => RecordHolds(LocalRecord, a.entry)
    <3>1. DOMAIN LocalRecord.entries = 1 .. Len(LocalRecord.entries)
      BY <1>3, RecordTypes
    <3> QED
      BY <1>3, <1>4, <3>1 DEF LocalHolds, RecordHolds
  <2> QED
    BY <2>1, <2>2, <2>3, <2>4 DEF Kept
<1>10. /\ replied \in Seq(Answer) /\ replied' \in Seq(Answer)
       /\ Len(replied) \in Nat /\ Len(replied') = Len(replied) + 1
       /\ DOMAIN replied = 1 .. Len(replied)
       /\ DOMAIN replied' = 1 .. (Len(replied) + 1)
       /\ \A k \in 1 .. Len(replied) :
            replied'[k] = replied[k] /\ replied[k] \in Answer
       /\ replied'[Len(replied) + 1] = a
  <2>1. replied \in Seq(Answer)
    BY <1>1 DEF AnswersTracked
  <2> QED
    BY <1>1, <1>4, <2>1, AppendProperties, LenProperties, ElementOfSeq
<1>11. RepliedOnce'
  <2> SUFFICES ASSUME NEW j \in DOMAIN replied', NEW k \in DOMAIN replied',
                      j < k, replied'[j].readable
               PROVE  Before(replied'[j].entry, replied'[k].entry)
    BY DEF RepliedOnce
  <2>1. j \in 1 .. Len(replied) /\ replied'[j] = replied[j]
    BY <1>10
  <2>2. CASE k \in 1 .. Len(replied)
    <3>1. RepliedOnce
      BY <1>1 DEF AnswersTracked
    <3> QED
      BY <1>10, <2>1, <2>2, <3>1 DEF RepliedOnce
  <2>3. CASE k = Len(replied) + 1
    BY <1>3, <1>4, <1>10, <2>1, <2>3
  <2> QED
    BY <1>10, <2>2, <2>3
<1>12. AnswersTracked'
  <2>1. ASSUME NEW k \in 1 .. Len(replied'), replied'[k].readable
        PROVE  /\ Kept(wal', tail', replied'[k])
               /\ state' # "Down" /\ leader_id' # None
                    /\ replied'[k].entry.term = current_term' =>
                  replied'[k].entry.index <= last_log_index'
    <3>1. CASE k \in 1 .. Len(replied)
      BY <1>1, <1>2, <1>7, <1>10, <2>1, <3>1 DEF AnswersTracked
    <3>2. CASE k = Len(replied) + 1
      BY <1>2, <1>3, <1>4, <1>9, <1>10, <2>1, <3>2
    <3> QED
      BY <1>10, <3>1, <3>2
  <2> QED
    BY <1>10, <1>11, <2>1 DEF AnswersTracked
<1>13. WritingTracked'
  BY <1>1 DEF WritingTracked
<1> QED
  BY <1>5, <1>8, <1>12, <1>13 DEF NodeRuntimeInv

\* A proposal the cluster accepts gets the next id, above all those answered.
LEMMA ProposeWriteInv ==
  ASSUME NodeRuntimeInv, NEW payload \in Payload, ProposeThenWrite(payload)
  PROVE  NodeRuntimeInv'
<1> DEFINE e == NewEntry(payload)
<1>1. /\ LocalInv /\ WalTracked /\ AnswersTracked
      /\ writing = << >> /\ state # "Down" /\ Propose(payload)
      /\ state' = state /\ replied' = replied /\ UNCHANGED <<logVars, replied>>
      /\ writing' = << [entry |-> e, record |-> LocalRecord'] >>
  BY DEF NodeRuntimeInv, ProposeThenWrite, Ready, LocalRecord
<1>2. /\ ClusterStep /\ leader_id # None
      /\ current_term' = current_term /\ leader_id' = leader_id
      /\ last_log_index + 1 <= last_log_index'
  BY <1>1, ProposeStep
<1>3. LocalInv' /\ WalTracked' /\ AnswersTracked'
  BY <1>1, <1>2, ClusterStepKeeps
<1>4. /\ current_term \in Nat /\ last_log_index \in Nat
  BY <1>1, LocalFacts DEF LocalInv
<1>5. e \in Entry /\ e.term = current_term /\ e.index = last_log_index + 1
  BY <1>4 DEF NewEntry, Entry
<1> HIDE DEF e
<1>6. ASSUME NEW k \in 1 .. Len(replied), replied[k].readable
      PROVE  Before(replied[k].entry, e)
  <2>1. /\ replied \in Seq(Answer) /\ Kept(wal, tail, replied[k])
        /\ replied[k].entry.term = current_term =>
             replied[k].entry.index <= last_log_index
    BY <1>1, <1>2, <1>6 DEF AnswersTracked
  <2>2. replied[k] \in Answer
    BY <2>1, ElementOfSeq
  <2>3. /\ replied[k].entry.term \in Nat /\ replied[k].entry.index \in Nat
    BY <2>2 DEF Answer, Entry
  <2>4. replied[k].entry.term <= current_term
    BY <1>1, <2>1, <2>2, KeptBelowLocal
  <2> QED
    BY <1>4, <1>5, <2>1, <2>3, <2>4 DEF Before
<1>7. WritingTracked'
  <2>1. writing'[1].entry = e
    BY <1>1
  <2> QED
    BY <1>1, <1>2, <1>5, <1>6, <2>1 DEF WritingTracked
<1> QED
  BY <1>3, <1>7 DEF NodeRuntimeInv

--------------------------------------------------------------------------------
(***************************************************************************)
(* A new incarnation.                                                      *)
(***************************************************************************)
\* Recovery finds the record that was written last.
LEMMA RecoveredIsLast ==
  ASSUME wal \in Seq(WalRecords),
         \A j, k \in 1 .. Len(wal) : j <= k => Continues(wal[k], wal[j])
  PROVE  Recovered = IF wal = << >> THEN << >> ELSE << wal[Len(wal)] >>
<1> DEFINE n == Len(wal)
           valid == {k \in DOMAIN wal : Recoverable(wal[k])}
           commits == {CommittedIndex(wal[k]) : k \in valid}
           highest == Max(commits)
           last == {k \in valid : CommittedIndex(wal[k]) = highest}
<1>1. /\ n \in Nat /\ DOMAIN wal = 1 .. n
      /\ \A k \in 1 .. n :
           /\ Recoverable(wal[k]) /\ CommittedIndex(wal[k]) \in Nat
           /\ CommittedIndex(wal[k]) = wal[k].commit_index
  <2>1. n \in Nat /\ DOMAIN wal = 1 .. n
    BY LenProperties
  <2>2. \A k \in 1 .. n : wal[k] \in WalRecords
    BY ElementOfSeq
  <2> QED
    BY <2>1, <2>2, RecordTypes
<1>2. valid = 1 .. n
  BY <1>1
<1>3. Recovered = IF valid = {} THEN << >> ELSE << wal[Max(last)] >>
  BY DEF Recovered
<1>4. CASE wal = << >>
  <2>1. valid = {}
    BY <1>4
  <2> HIDE DEF valid, last
  <2> QED
    BY <1>3, <1>4, <2>1
<1>5. CASE wal # << >>
  <2>1. n \in 1 .. n
    BY <1>1, <1>5, EmptySeq
  <2>2. \A k \in 1 .. n : CommittedIndex(wal[k]) <= CommittedIndex(wal[n])
    <3>1. \A k \in 1 .. n : k <= n
      BY <1>1
    <3> QED
      BY <1>1, <2>1, <3>1 DEF Continues
  <2> HIDE DEF n, valid
  <2>3. /\ commits \in SUBSET Nat /\ commits # {}
        /\ CommittedIndex(wal[n]) \in commits
        /\ \A c \in commits : c <= CommittedIndex(wal[n])
    BY <1>1, <1>2, <2>1, <2>2
  <2>4. highest = CommittedIndex(wal[n])
    <3>1. CommittedIndex(wal[n]) \in Nat
      BY <1>1, <2>1
    <3> HIDE DEF commits
    <3>2. Max(commits) \in commits /\ \A c \in commits : c <= Max(commits)
      BY <2>3, <3>1, MaxNat
    <3>3. Max(commits) <= CommittedIndex(wal[n]) /\ CommittedIndex(wal[n]) <= Max(commits)
      BY <2>3, <3>2
    <3>4. Max(commits) \in Nat
      BY <2>3, <3>2
    <3> QED
      BY <3>1, <3>3, <3>4
  <2> HIDE DEF highest
  <2>5. /\ last \in SUBSET Nat /\ last # {} /\ n \in last
        /\ \A k \in last : k <= n
    BY <1>1, <1>2, <2>1, <2>4
  <2>6. Max(last) = n
    <3> HIDE DEF last
    <3>1. Max(last) \in last /\ \A k \in last : k <= Max(last)
      BY <1>1, <2>5, MaxNat
    <3>2. Max(last) <= n /\ n <= Max(last) /\ Max(last) \in Nat
      BY <2>5, <3>1
    <3> QED
      BY <1>1, <3>2
  <2>7. valid # {}
    BY <1>2, <2>1
  <2> HIDE DEF last
  <2>8. Recovered = << wal[n] >>
    BY <1>3, <2>6, <2>7
  <2> QED
    BY <1>5, <2>8 DEF n
<1> QED
  BY <1>4, <1>5

\* A member restored from a record is consistent and its record is that one.
LEMMA RestoredInv ==
  ASSUME NEW role \in ReplicaRole, NEW r \in WalRecords
  PROVE  /\ NodeInv(Restored(NewNode(role), r))
         /\ WalRecord(Restored(NewNode(role), r)) = r
         /\ Restored(NewNode(role), r).replica_role = role
         /\ Restored(NewNode(role), r).raft_role = IdleRole(role)
         /\ Restored(NewNode(role), r).current_term = r.current_term
<1> DEFINE fresh == NewNode(role)
           node == Restored(fresh, r)
<1>1. PICK x : NodeInv(x) /\ r = WalRecord(x)
  BY RecordTypes
<1>2. /\ x \in NodeRecord
      /\ r.current_term = x.current_term /\ r.voted_for = x.voted_for
      /\ r.committed = x.committed /\ r.entries = x.log
      /\ r.installed_snapshot = x.installed_snapshot
      /\ r.applied_index = x.applied_index /\ r.commit_index = x.commit_index
  BY <1>1, RecordOfNode, NodeTypes
<1>3. /\ NodeInv(fresh) /\ fresh \in NodeRecord
      /\ fresh.replica_role = role /\ fresh.raft_role = IdleRole(role)
  BY NewNodeInv, NodeTypes
<1> HIDE DEF fresh
<1>4. /\ node \in NodeRecord
      /\ node.replica_role = role /\ node.raft_role = IdleRole(role)
      /\ node.current_term = x.current_term /\ node.voted_for = x.voted_for
      /\ node.committed = x.committed /\ node.log = x.log
      /\ node.installed_snapshot = x.installed_snapshot
      /\ node.commit_index = x.commit_index
      /\ node.applied_index = x.applied_index
  BY <1>2, <1>3 DEF Restored, NodeRecord
<1> HIDE DEF node
<1>5. IdleRole(role) = "Learner" <=> role = "Learner"
  BY DEF IdleRole
<1>6. NodeInv(node)
  BY <1>1, <1>4, <1>5 DEF NodeInv
<1>7. WalRecord(node) = r
  BY <1>1, <1>4 DEF WalRecord
<1> QED
  BY <1>2, <1>4, <1>6, <1>7 DEF node, fresh

\* create builds a consistent group without a leader, whose local member
\* continues every record in the log.
LEMMA RecreateInv ==
  ASSUME NodeRuntimeInv, Recreate
  PROVE  NodeRuntimeInv'
<1> DEFINE fresh(n) == NewNode(nodes[n].replica_role)
           last == wal[Len(wal)]
<1>1. /\ LocalInv /\ WalTracked /\ WritingTracked /\ AnswersTracked
      /\ GroupInv /\ NodeId \in Member /\ Member \subseteq Node
  BY GroupFacts DEF NodeRuntimeInv, LocalInv
<1>2. /\ state = "Down" /\ state' = "Created" /\ writing' = writing
      /\ wal' = wal /\ replied' = replied /\ acknowledged' = acknowledged
      /\ leader_id' = None /\ running' = FALSE /\ leader_lease_valid' = FALSE
      /\ tail' = (IF tail = "unended" THEN "unended" ELSE "whole")
      /\ DOMAIN peer_pipelines' = Member
  BY DEF Recreate
<1>3. /\ wal \in Seq(WalRecords) /\ Len(wal) \in Nat
      /\ \A j, k \in 1 .. Len(wal) : j <= k => Continues(wal[k], wal[j])
      /\ \A k \in 1 .. Len(wal) : wal[k] \in WalRecords
      /\ wal # << >> => Len(wal) \in 1 .. Len(wal)
  BY <1>1, LenProperties, ElementOfSeq, EmptySeq DEF WalTracked
<1>4. writing = << >>
  BY <1>1, <1>2 DEF WritingTracked
<1>5. Recovered = IF wal = << >> THEN << >> ELSE << last >>
  BY <1>3, RecoveredIsLast
<1> HIDE DEF last
<1>6. /\ nodes' = [n \in Member |-> nodes'[n]]
      /\ Member' = Member
      /\ \A n \in Member :
           nodes'[n] = IF n = NodeId /\ wal # << >> THEN Restored(fresh(n), last)
                       ELSE fresh(n)
      /\ current_term' = nodes'[NodeId].current_term
      /\ RefreshClusterIndexes(nodes')
  <2> DEFINE all == [n \in Member |-> fresh(n)]
             restored == IF Recovered = << >> THEN all
                         ELSE [all EXCEPT ![NodeId] = Restored(@, Recovered[1])]
  <2>1. /\ nodes' = restored /\ current_term' = restored[NodeId].current_term
        /\ RefreshClusterIndexes(restored)
    BY DEF Recreate, RestoreWalRecord
  <2> HIDE DEF fresh
  <2>2. Recovered = << >> <=> wal = << >>
    BY <1>5
  <2>3. wal # << >> => Recovered[1] = last
    BY <1>5
  <2>4. /\ restored = [n \in Member |-> restored[n]]
        /\ \A n \in Member :
             restored[n] = IF n = NodeId /\ wal # << >> THEN Restored(fresh(n), last)
                           ELSE fresh(n)
    <3>1. CASE wal = << >>
      BY <1>1, <2>2, <3>1
    <3>2. CASE wal # << >>
      BY <1>1, <2>2, <2>3, <3>2
    <3> QED
      BY <3>1, <3>2
  <2> HIDE DEF restored
  <2> QED
    BY <2>1, <2>4, <1>1 DEF Member
<1>7. ASSUME NEW n \in Member
      PROVE  /\ nodes[n].replica_role \in ReplicaRole
             /\ NodeInv(fresh(n))
             /\ fresh(n).replica_role = nodes[n].replica_role
             /\ fresh(n).raft_role = IdleRole(nodes[n].replica_role)
             /\ fresh(n).current_term = 0 /\ fresh(n).voted_for = None
             /\ fresh(n).commit_index = 0 /\ fresh(n).log = << >>
  <2>1. nodes[n].replica_role \in ReplicaRole
    BY <1>1, GroupFacts, NodeTypes
  <2> QED
    BY <2>1, NewNodeInv
<1>8. ASSUME wal # << >>
      PROVE  /\ NodeInv(nodes'[NodeId]) /\ WalRecord(nodes'[NodeId]) = last
             /\ nodes'[NodeId].raft_role = IdleRole(nodes[NodeId].replica_role)
             /\ nodes'[NodeId].replica_role = nodes[NodeId].replica_role
             /\ last \in WalRecords
  <2>1. last \in WalRecords
    BY <1>3, <1>8 DEF last
  <2>2. nodes'[NodeId] = Restored(fresh(NodeId), last)
    BY <1>1, <1>6, <1>8
  <2> QED
    BY <1>1, <1>7, <2>1, <2>2, RestoredInv
<1>9. ASSUME NEW n \in Member
      PROVE  /\ NodeInv(nodes'[n]) /\ nodes'[n] \in NodeRecord
             /\ nodes'[n].replica_role = nodes[n].replica_role
             /\ nodes'[n].raft_role = IdleRole(nodes[n].replica_role)
             /\ n # NodeId \/ wal = << >> => nodes'[n] = fresh(n)
  BY <1>6, <1>7, <1>8, NodeTypes
<1> HIDE DEF fresh
<1>10. current_term' \in Nat /\ current_term' = nodes'[NodeId].current_term
  BY <1>1, <1>6, <1>9, NodeTypes
<1>11. \A n \in Member :
         /\ nodes'[n].current_term \in Nat /\ nodes'[n].current_term <= current_term'
         /\ nodes'[n].current_term = 0 => nodes'[n].voted_for = None
  BY <1>6, <1>7, <1>9, <1>10, NodeTypes DEF NodeInv
<1>12. /\ commit_index' \in Nat /\ applied_index' \in Nat /\ last_log_index' \in Nat
       /\ ClusterIndexesCover'
  <2> DEFINE top == MatchIndex(nodes'[NodeId])
  <2>1. \A n \in Member : n # NodeId => MatchIndex(nodes'[n]) = 0
    BY <1>7, <1>9, MatchIndexIsLast DEF LastIndex
  <2>2. top \in Nat /\ \A n \in Member : MatchIndex(nodes'[n]) <= top
    BY <1>1, <1>9, <2>1, MatchIndexIsLast
  <2> HIDE DEF top
  <2>3. IsFiniteSet(DOMAIN nodes') /\ DOMAIN nodes' = Member
    BY <1>1, <1>6, GroupFacts DEF Member
  <2>4. Family(nodes', top)
    BY <1>9, <2>2, <2>3 DEF Family
  <2>5. /\ commit_index' = MaxCommit(nodes') /\ applied_index' = MinApplied(nodes')
        /\ last_log_index' = MaxLastIndex(nodes')
    BY <1>6 DEF RefreshClusterIndexes
  <2>6. /\ MaxCommit(nodes') \in Nat /\ MaxLastIndex(nodes') \in Nat
        /\ MinApplied(nodes') \in Nat
        /\ \A n \in DOMAIN nodes' :
             /\ nodes'[n].commit_index <= MaxCommit(nodes')
             /\ MatchIndex(nodes'[n]) <= MaxLastIndex(nodes')
    BY <2>4, RefreshedIndexesCover
  <2> QED
    BY <2>3, <2>5, <2>6, <1>6 DEF ClusterIndexesCover
<1>13. TypeOK'
  <2>1. nodes' \in [Member -> NodeRecord]
    BY <1>6, <1>9
  <2>2. acknowledged' \in Seq(LogId)
    BY <1>1, <1>2 DEF GroupInv, TypeOK
  <2> QED
    BY <1>1, <1>2, <1>6, <1>10, <1>12, <2>1, <2>2 DEF TypeOK
<1>14. ElectionSafety'
  BY <1>2, <1>6, <1>9 DEF ElectionSafety, IdleRole
<1>15. OneVotePerTerm'
  <2>1. ASSUME NEW m \in Member, NEW n \in Member,
               nodes'[m].current_term = nodes'[n].current_term
        PROVE  nodes'[m].voted_for = nodes'[n].voted_for
    BY <1>7, <1>9, <1>11, <2>1
  <2> QED
    BY <1>2, <1>6, <2>1 DEF OneVotePerTerm
<1>16. LogMatching'
  <2> SUFFICES ASSUME NEW m \in Member, NEW n \in Member,
                      NEW j \in DOMAIN nodes'[m].log, NEW k \in DOMAIN nodes'[n].log,
                      nodes'[m].log[j].index = nodes'[n].log[k].index
               PROVE  nodes'[m].log[j] = nodes'[n].log[k]
    BY <1>6 DEF LogMatching
  <2>1. \A x \in Member : DOMAIN nodes'[x].log # {} => x = NodeId
    <3>1. DOMAIN << >> = {}
      OBVIOUS
    <3> QED
      BY <1>7, <1>9, <3>1
  <2>2. m = NodeId /\ n = NodeId
    BY <2>1
  <2>3. /\ Ordered(nodes'[NodeId].log) /\ nodes'[NodeId].log \in Seq(Entry)
        /\ NodeInv(nodes'[NodeId])
    BY <1>1, <1>9, NodeTypes DEF NodeInv
  <2>4. \A i \in DOMAIN nodes'[NodeId].log : nodes'[NodeId].log[i].index \in Nat
    BY <2>3, MatchIndexIsLast DEF Entry
  <2>5. j \in Nat /\ k \in Nat
    BY <2>2, <2>3, LenProperties
  <2>6. ~ (j < k) /\ ~ (k < j)
    BY <2>2, <2>3, <2>4 DEF Ordered
  <2>7. j = k
    BY <2>5, <2>6
  <2> QED
    BY <2>2, <2>7
<1>17. LocalInv'
  BY <1>1, <1>2, <1>6, <1>9, <1>11, <1>12, <1>13, <1>14, <1>15, <1>16
     DEF LocalInv, GroupInv
<1>18. WalTracked'
  <2>1. ASSUME NEW k \in 1 .. Len(wal)
        PROVE  Continues(LocalRecord', wal[k])
    <3>1. wal # << >> /\ k <= Len(wal)
      BY <1>3, EmptySeq
    <3>2. LocalRecord' = last
      BY <1>8, <3>1 DEF LocalRecord
    <3>3. Continues(wal[Len(wal)], wal[k])
      BY <1>3, <3>1
    <3> QED
      BY <3>2, <3>3 DEF last
  <2> QED
    BY <1>1, <1>2, <2>1 DEF WalTracked
<1>19. AnswersTracked'
  <2>1. ASSUME NEW k \in 1 .. Len(replied), replied[k].readable
        PROVE  Kept(wal', tail', replied[k])
    <3>1. Kept(wal, tail, replied[k])
      BY <1>1, <2>1 DEF AnswersTracked
    <3> QED
      BY <1>2, <3>1 DEF Kept
  <2>2. RepliedOnce'
    BY <1>1, <1>2 DEF AnswersTracked, RepliedOnce
  <2> QED
    BY <1>1, <1>2, <2>1, <2>2 DEF AnswersTracked
<1>20. WritingTracked'
  BY <1>2, <1>4 DEF WritingTracked
<1> QED
  BY <1>17, <1>18, <1>19, <1>20 DEF NodeRuntimeInv

--------------------------------------------------------------------------------
(***************************************************************************)
(* The runtime.                                                            *)
(***************************************************************************)
LEMMA RuntimeInitInv == RuntimeInit => NodeRuntimeInv
<1> SUFFICES ASSUME RuntimeInit PROVE NodeRuntimeInv
  OBVIOUS
<1>1. /\ Init /\ NodeId \in Member /\ writing = << >> /\ wal = << >>
      /\ tail = "whole" /\ replied = << >>
  BY DEF RuntimeInit
<1>2. GroupInv /\ leader_id = None
  BY <1>1, InitInv DEF RuntimeInv, Init
<1>3. LocalInv
  BY <1>1, <1>2 DEF LocalInv
<1>4. WalTracked /\ WritingTracked
  BY <1>1 DEF WalTracked, WritingTracked
<1>5. AnswersTracked
  BY <1>1 DEF AnswersTracked, RepliedOnce
<1> QED
  BY <1>3, <1>4, <1>5 DEF NodeRuntimeInv

\* Every step of the node keeps the invariant.
LEMMA NodeNextInv == NodeRuntimeInv /\ [NodeNext]_allVars => NodeRuntimeInv'
<1> SUFFICES ASSUME NodeRuntimeInv, [NodeNext]_allVars PROVE NodeRuntimeInv'
  OBVIOUS
<1>1. LocalInv
  BY DEF NodeRuntimeInv
<1>2. ASSUME Ready, UNCHANGED <<writing, logVars, replied>>, state' # "Down",
             ClusterStep
      PROVE  NodeRuntimeInv'
  <2>1. writing = << >> /\ writing' = << >> /\ state # "Down"
        /\ UNCHANGED <<logVars, replied>>
    BY <1>2 DEF Ready
  <2>2. LocalInv' /\ WalTracked' /\ AnswersTracked'
    BY <1>2, <2>1, ClusterStepKeeps
  <2>3. WritingTracked'
    BY <2>1 DEF WritingTracked
  <2> QED
    BY <2>2, <2>3 DEF NodeRuntimeInv
<1>3. CASE StartNode
  <2>1. ClusterStep
    BY <1>1, <1>3, ClusterCallStep DEF StartNode
  <2> QED
    BY <1>2, <1>3, <2>1 DEF StartNode, Ready
<1>4. CASE StopNode
  <2>1. ClusterStep
    BY <1>1, <1>4, ClusterCallStep DEF StopNode
  <2> QED
    BY <1>2, <1>4, <2>1 DEF StopNode
<1>5. ASSUME \/ \E forced \in BOOLEAN : Pass(Campaign(NodeId, forced))
             \/ \E n \in Node : Pass(TransferLeader(n))
             \/ \E n \in Node, healthy \in BOOLEAN : Pass(SetNodeHealthy(n, healthy))
             \/ \E valid \in LeaseUpdates : Pass(SetLeaderLeaseValid(valid))
             \/ \E payload \in Payload : Pass(ProposeRefused(payload))
      PROVE  NodeRuntimeInv'
  <2>1. ClusterStep
    BY <1>1, <1>5, ClusterCallStep DEF Pass
  <2>2. Ready /\ UNCHANGED <<writing, logVars, replied>> /\ state' # "Down"
    BY <1>5 DEF Pass, runtimeVars, logVars, Ready
  <2> QED
    BY <1>2, <2>1, <2>2
<1>6. ASSUME NEW payload \in Payload, ProposeThenWrite(payload)
      PROVE  NodeRuntimeInv'
  BY <1>6, ProposeWriteInv
<1>7. CASE WriteAndReply
  BY <1>7, ReplyInv
<1>8. CASE WriteFails
  <2>1. /\ state # "Down" /\ state' = state
    BY <1>8, WritingFacts DEF WriteFails
  <2> QED
    BY <1>8, <2>1, LostInv DEF WriteFails
<1>9. CASE Crash
  BY <1>9, LostInv DEF Crash
<1>10. CASE Recreate
  BY <1>10, RecreateInv
<1>11. CASE UNCHANGED allVars
  <2>1. /\ UNCHANGED <<nodes, peer_pipelines, leader_id, current_term, commit_index,
                       applied_index, last_log_index, running, leader_lease_valid,
                       acknowledged>>
        /\ UNCHANGED <<state, writing, wal, tail, replied, faults>>
    BY <1>11 DEF allVars, vars, runtimeVars
  <2>2. LocalInv'
    BY <1>1, <2>1 DEF LocalInv, GroupInv, Member, TypeOK, ElectionSafety,
         OneVotePerTerm, LogMatching, ClusterIndexesCover
  <2>3. WalTracked' /\ WritingTracked'
    BY <2>1 DEF NodeRuntimeInv, WalTracked, WritingTracked, LocalRecord
  <2>4. AnswersTracked'
    BY <2>1 DEF NodeRuntimeInv, AnswersTracked, RepliedOnce
  <2> QED
    BY <2>2, <2>3, <2>4 DEF NodeRuntimeInv
<1> QED
  BY <1>3, <1>4, <1>5, <1>6, <1>7, <1>8, <1>9, <1>10, <1>11 DEF NodeNext

\* The log and the answers of a runtime, across crashes, failed writes and new
\* incarnations: the records continue each other, the local member continues
\* them all, and every answer whose record can be read is kept by one.
THEOREM NodeRuntimeSafety == NodeSpec => []NodeRuntimeInv
<1>1. RuntimeInit => NodeRuntimeInv
  BY RuntimeInitInv
<1>2. NodeRuntimeInv /\ [NodeNext]_allVars => NodeRuntimeInv'
  BY NodeNextInv
<1> QED
  BY <1>1, <1>2, PTL DEF NodeSpec

\* The loop never answers two proposals with the same id, whatever crashes lost:
\* what is answered after a readable answer has a later id (RepliedOnce).
THEOREM AnsweredOnce == NodeSpec => []RepliedOnce
<1>1. NodeRuntimeInv => RepliedOnce
  BY DEF NodeRuntimeInv, AnswersTracked
<1> QED
  BY <1>1, NodeRuntimeSafety, PTL

\* A proposal answered Ok that the local member held is in its log whenever the
\* runtime is up, in this incarnation and in every later one (RepliedDurable).
THEOREM AnsweredDurable == NodeSpec => []RepliedDurable
<1>1. NodeRuntimeInv => RepliedDurable
  <2> SUFFICES ASSUME NodeRuntimeInv, state # "Down", NEW k \in DOMAIN replied,
                      replied[k].local, replied[k].readable
               PROVE  LocalHolds(replied[k].entry)
    BY DEF RepliedDurable
  <2>1. /\ LocalInv /\ WalTracked /\ AnswersTracked
        /\ GroupInv /\ NodeId \in Member
    BY DEF NodeRuntimeInv, LocalInv
  <2>2. Kept(wal, tail, replied[k])
    <3>1. replied \in Seq(Answer)
      BY <2>1 DEF AnswersTracked
    <3>2. k \in 1 .. Len(replied)
      BY <3>1, LenProperties
    <3> QED
      BY <2>1, <3>2 DEF AnswersTracked
  <2>3. PICK i \in 1 .. Len(wal) : RecordHolds(wal[i], replied[k].entry)
    BY <2>2 DEF Kept
  <2>4. wal[i] \in WalRecords /\ Continues(LocalRecord, wal[i])
    BY <2>1, ElementOfSeq DEF WalTracked
  <2>5. /\ LocalRecord \in WalRecords /\ LocalRecord.entries = nodes[NodeId].log
    BY <2>1, LocalFacts
  <2>6. RecordHolds(LocalRecord, replied[k].entry)
    BY <2>3, <2>4, <2>5, HoldsOn
  <2>7. DOMAIN LocalRecord.entries = 1 .. Len(LocalRecord.entries)
    BY <2>5, RecordTypes
  <2> QED
    BY <2>5, <2>6, <2>7 DEF RecordHolds, LocalHolds
<1> QED
  BY <1>1, NodeRuntimeSafety, PTL
================================================================================
