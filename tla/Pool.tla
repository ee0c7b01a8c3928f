-------------------------------- MODULE Pool --------------------------------
(***************************************************************************)
(* The connection pool of one server: lib/connection/pool.js, with the     *)
(* part of lib/connection/connection.js that decides when a connection is  *)
(* usable, closed or destroyed.                                            *)
(*                                                                         *)
(* JavaScript runs each callback to its end, so an action is a whole       *)
(* callback: an API call, a timer, the result of a connection attempt, an  *)
(* event of a connection.  The exception is the execution loop, _execute,  *)
(* one of whose iterations is an action: it may call the callbacks of      *)
(* operations, which may call back into the pool while it runs.  Every     *)
(* other action waits for the loop to end.                                 *)
(*                                                                         *)
(* Functions given to process.nextTick run before the next event or timer: *)
(* "ticks" counts the _execute calls scheduled that way.                   *)
(***************************************************************************)
EXTENDS Integers, Sequences, FiniteSets, Functions

CONSTANTS
  Conns,          \* connections that can exist at one time
  Ops,            \* operations the clients submit, each once
  MonitoringOps,  \* those written with options.monitoring
  NoResponseOps,  \* those written with options.noResponse
  CompressedOps,  \* those whose buffer is compressed, asynchronously
  Size,           \* options.size
  MinSize,        \* options.minSize
  ReconnectTries, \* options.reconnectTries
  Reconnect,      \* options.reconnect
  InTopology,     \* options.inTopology
  MaxTimers       \* bound on the 10ms re-execute timers told apart

ASSUME PoolAssumption ==
  /\ IsFiniteSet(Conns)
  /\ IsFiniteSet(Ops)
  /\ MonitoringOps \subseteq Ops
  /\ NoResponseOps \subseteq Ops \ MonitoringOps
  /\ CompressedOps \subseteq Ops \ MonitoringOps
  /\ Size \in Nat \ {0}
  /\ MinSize \in 0..Size
  /\ ReconnectTries \in Nat
  /\ Reconnect \in BOOLEAN
  /\ InTopology \in BOOLEAN
  /\ MaxTimers \in Nat \ {0}

VARIABLES
  state,        \* Pool.state
  started,      \* has connect() been called
  available,    \* availableConnections
  inUse,        \* inUseConnections
  connecting,   \* connectingConnections
  attempts,     \* connection attempts under way, by the function that made them
  sock,         \* what each connection is good for
  workItems,    \* workItems of each connection: operations awaiting a response
  monq,         \* the monitoring operations at the front of Pool.queue
  queue,        \* the other operations of Pool.queue
  serializing,  \* operations being compressed, not yet in Pool.queue
  written,      \* operations given to write()
  calls,        \* how often the callback of each operation was called
  phase,        \* where _execute is; Pool.executing is phase # "idle"
  ticks,        \* calls of _execute scheduled with nextTick
  retryTimers,  \* armed 10ms timers that call _execute
  drainTimer,   \* is the 1ms timer of checkStatus armed
  reconnectId,  \* no timer, a timer that is armed, one that fired or was cleared
  retriesLeft,  \* Pool.retriesLeft
  timeouts,     \* numberOfConsecutiveTimeouts
  forced        \* history: was the pool destroyed with force

lists   == <<available, inUse>>
conns   == <<sock, workItems>>
ops     == <<monq, queue, serializing, written, calls>>
timers  == <<ticks, retryTimers, drainTimer>>
retry   == <<reconnectId, retriesLeft>>
vars    == <<state, started, lists, connecting, attempts, conns, ops, phase,
             timers, retry, timeouts, forced>>

States == {"disconnected", "connecting", "connected", "destroying", "destroyed"}

Kinds == {"connect", "create", "reconnect"}

(* A connection of the pool is "open" (isConnected), "closing" (the socket *)
(* is no longer writable, its close event has not been delivered),         *)
(* "ending" (connectionFailureHandler ran, which sets _connectionFail-     *)
(* Handled and ends the socket), "finishing" (ended by destroy, listeners  *)
(* removed) or "finished" (and its end callback was called).               *)
SockStates == {"none", "open", "closing", "ending", "finishing", "finished"}

Phases == {"idle", "loop", "calling", "leaving"}

(***************************************************************************)
(* State predicates and counts                                             *)
(***************************************************************************)

(* A queued or pending operation is in exactly one of these. *)
Queued   == Range(monq) \cup Range(queue)
InFlight == UNION {workItems[c] : c \in Conns}

Listed == available \cup inUse

IsDestroyed == state \in {"destroying", "destroyed"}

IsConnected == ~IsDestroyed /\ \E c \in Listed : sock[c] = "open"

TotalConnectionCount == Cardinality(available) + Cardinality(inUse) + connecting

(* No callback is running and none is scheduled before the next event. *)
Quiet == phase = "idle" /\ ticks = 0

(* The client's code can run: between events, or in an operation's callback. *)
ClientRuns == phase # "loop"

LegalTransitions ==
  [disconnected |-> {"connecting", "destroying", "disconnected"},
   connecting   |-> {"connecting", "destroying", "connected", "disconnected"},
   connected    |-> {"connected", "disconnected", "destroying"},
   destroying   |-> {"destroying", "destroyed"},
   destroyed    |-> {"destroyed"}]

(* An illegal transition is logged and leaves the state as it was. *)
StateTransition(new) ==
  state' = IF new \in LegalTransitions[state] THEN new ELSE state

(* The callbacks of the operations in S are called. *)
Answer(S) == calls' = [o \in Ops |-> calls[o] + (IF o \in S THEN 1 ELSE 0)]

(* flushMonitoringOperations advances past the element that takes the      *)
(* place of the one it removed, so it removes every other one.             *)
Flushed(q) == {q[k] : k \in {j \in DOMAIN q : j % 2 = 1}}
Kept(q)    == [k \in 1..(Len(q) \div 2) |-> q[2 * k]]

FlushMonitoringOperations == monq' = Kept(monq) /\ Answer(Flushed(monq))

(* Mutant: the pool is not looked at. *)
MutantCreateAlways(n) ==
  connecting' = n + 1 /\ attempts' = [attempts EXCEPT !["create"] = @ + 1]

(* _createConnection, called when connectingConnections is n. *)
CreateConnection(n) ==
  IF IsDestroyed
  THEN connecting' = n /\ UNCHANGED attempts
  ELSE connecting' = n + 1 /\ attempts' = [attempts EXCEPT !["create"] = @ + 1]

(* The attempt that was of this kind is over. *)
AttemptDone(kind) ==
  /\ attempts[kind] > 0
  /\ attempts' = [attempts EXCEPT ![kind] = @ - 1]
  /\ connecting' = connecting - 1

(* A call of _execute, up to the start of its loop, when Pool.state is s   *)
(* and connectingConnections is n.                                         *)
CallExecute(s, n) ==
  phase' = IF phase = "idle" /\ s # "destroyed" /\ n <= 0 THEN "loop" ELSE phase

(* Mutant: an attempt under way is not looked at. *)
MutantArmAgain(id) == IF Reconnect THEN "armed" ELSE id

(* A reconnect timer is set unless a reconnect loop is running. *)
ArmReconnect(id) == IF id = "null" /\ Reconnect THEN "armed" ELSE id

(* Mutant: the next loss of all connections finds the id still set. *)
MutantReconnectIdKept == reconnectId' = "spent"

(* The reconnect loop ends. *)
ReconnectOver == reconnectId' = "null"

(* Mutant: a connection in use by a monitoring operation is left there. *)
MutantRemoveAvailable(c) == available' = available \ {c} /\ UNCHANGED inUse

(* removeConnection *)
RemoveConnection(c) == available' = available \ {c} /\ inUse' = inUse \ {c}

(* Mutants: the callbacks are not called; the operations stay on the       *)
(* connection; they are queued again instead of answered.                  *)
MutantDropWorkItems(c) ==
  workItems' = [workItems EXCEPT ![c] = {}] /\ UNCHANGED <<queue, calls>>
MutantKeepWorkItems(c) == Answer(workItems[c]) /\ UNCHANGED <<queue, workItems>>
MutantRequeueWorkItems(c) ==
  /\ workItems' = [workItems EXCEPT ![c] = {}]
  /\ IF workItems[c] \subseteq MonitoringOps
     THEN Answer(workItems[c]) /\ UNCHANGED queue
     ELSE \E o \in workItems[c] \ MonitoringOps :
            queue' = <<o>> \o queue /\ Answer(workItems[c] \ {o})

(* The operations in flight on a connection that failed get its error. *)
FlushWorkItems(c) ==
  /\ workItems' = [workItems EXCEPT ![c] = {}]
  /\ Answer(workItems[c])
  /\ UNCHANGED queue

(***************************************************************************)
(* Destroying the pool                                                     *)
(***************************************************************************)

(* destroy(self, connections, {force: true}): the sockets are destroyed    *)
(* and the pool is, at once.  Listeners are removed first, so operations   *)
(* in flight get no answer.  "failed" holds the connection, if any, whose  *)
(* failure led here, already removed and its operations already flushed.   *)
ForceDestroy(failed) ==
  /\ state' = "destroyed"
  /\ forced' = TRUE
  /\ monq' = << >> /\ queue' = << >>
  /\ Answer(Queued \cup UNION {workItems[c] : c \in failed})
  /\ available' = {} /\ inUse' = {}
  /\ connecting' = 0
  /\ sock' = [c \in Conns |-> IF c \in failed THEN "ending"
                             ELSE IF c \in Listed THEN "none" ELSE sock[c]]
  /\ workItems' = [c \in Conns |-> IF c \in Listed \cup failed THEN {} ELSE workItems[c]]

(* Mutants: the connections in use are not looked at; a connection without *)
(* operations is waited for too (an off-by-one of workItems.length).       *)
MutantAvailableInFlight == \E c \in available : workItems[c] # {}
MutantListedInFlight == Listed # {}

OperationsInFlight == \E c \in Listed : workItems[c] # {}

(* checkStatus, called when connectingConnections is n: waits for the      *)
(* queue and the operations in flight, then ends every socket.             *)
CheckStatus(n) ==
  /\ FlushMonitoringOperations
  /\ UNCHANGED <<queue, workItems>>
  /\ IF Kept(monq) # << >> \/ queue # << >>
     THEN /\ state' = "destroying" /\ connecting' = n
          /\ drainTimer' = TRUE
          /\ CallExecute("destroying", n)
          /\ UNCHANGED <<lists, sock>>
     ELSE /\ UNCHANGED phase
          /\ IF OperationsInFlight
             THEN /\ state' = "destroying" /\ connecting' = n
                  /\ drainTimer' = TRUE
                  /\ UNCHANGED <<lists, sock>>
             ELSE /\ drainTimer' = FALSE
                  /\ sock' = [c \in Conns |-> IF c \in Listed THEN "finishing" ELSE sock[c]]
                  /\ UNCHANGED lists
                  /\ IF Listed = {}
                     THEN state' = "destroyed" /\ connecting' = 0
                     ELSE state' = "destroying" /\ connecting' = n

(* destroy(force) *)
Destroy(force) ==
  /\ ClientRuns
  /\ ~IsDestroyed
  /\ IF force
     THEN ForceDestroy({}) /\ UNCHANGED <<phase, drainTimer, reconnectId>>
     ELSE /\ CheckStatus(connecting)
          /\ reconnectId' = IF reconnectId = "armed" THEN "spent" ELSE reconnectId
          /\ UNCHANGED forced
  /\ UNCHANGED <<started, attempts, serializing, written, ticks, retryTimers,
                 retriesLeft, timeouts>>

(* The 1ms timer of checkStatus. *)
DrainTimer ==
  /\ Quiet
  /\ drainTimer
  /\ CheckStatus(connecting)
  /\ UNCHANGED <<started, attempts, serializing, written, ticks, retryTimers,
                 retry, timeouts, forced>>

(* connectionDestroyed: the end callback of a socket; the last one closes  *)
(* the pool.                                                               *)
ConnectionDestroyed(c) ==
  /\ Quiet
  /\ sock[c] = "finishing"
  /\ IF \E d \in Conns \ {c} : sock[d] = "finishing"
     THEN /\ sock' = [sock EXCEPT ![c] = "finished"]
          /\ UNCHANGED <<state, lists, connecting>>
     ELSE /\ sock' = [d \in Conns |-> IF sock[d] \in {"finishing", "finished"}
                                    THEN "none" ELSE sock[d]]
          /\ StateTransition("destroyed")
          /\ available' = {} /\ inUse' = {}
          /\ connecting' = 0
  /\ UNCHANGED <<started, attempts, workItems, ops, phase, timers, retry,
                 timeouts, forced>>

(***************************************************************************)
(* Opening connections                                                     *)
(***************************************************************************)

(* connect(); its callers, the servers, call it once on a pool they made.  *)
Connect ==
  /\ ClientRuns
  /\ ~started /\ state = "disconnected"
  /\ started' = TRUE
  /\ StateTransition("connecting")
  /\ connecting' = connecting + 1
  /\ attempts' = [attempts EXCEPT !["connect"] = @ + 1]
  /\ UNCHANGED <<lists, conns, ops, phase, timers, retry, timeouts, forced>>

(* The result of that attempt: a connection, to which the minSize others   *)
(* are added, or an error, which leaves the state as it is.                *)
Connected(c) ==
  /\ Quiet
  /\ attempts["connect"] > 0
  /\ sock[c] = "none"
  /\ IF IsDestroyed
     THEN AttemptDone("connect") /\ UNCHANGED <<state, available, sock>>
     ELSE /\ LET growth == IF InTopology THEN 0 ELSE MinSize
             IN  /\ connecting' = connecting - 1 + growth
                 /\ attempts' = [attempts EXCEPT !["connect"] = @ - 1,
                                                !["create"] = @ + growth]
          /\ StateTransition("connected")
          /\ available' = available \cup {c}
          /\ sock' = [sock EXCEPT ![c] = "open"]
  /\ UNCHANGED <<started, inUse, workItems, ops, phase, timers, retry, timeouts, forced>>

ConnectFailed ==
  /\ Quiet
  /\ AttemptDone("connect")
  /\ UNCHANGED <<state, started, lists, conns, ops, phase, timers, retry, timeouts, forced>>

(* The result of an attempt of _createConnection. *)
Created(c) ==
  /\ Quiet
  /\ sock[c] = "none"
  /\ AttemptDone("create")
  /\ IF IsDestroyed
     THEN UNCHANGED <<available, sock, phase>>
     ELSE /\ available' = available \cup {c}
          /\ sock' = [sock EXCEPT ![c] = "open"]
          /\ CallExecute(state, connecting - 1)
  /\ UNCHANGED <<state, started, inUse, workItems, ops, timers, retry, timeouts, forced>>

CreateFailed ==
  /\ Quiet
  /\ AttemptDone("create")
  /\ reconnectId' = ArmReconnect(reconnectId)
  /\ UNCHANGED <<state, started, lists, conns, ops, phase, timers, retriesLeft,
                 timeouts, forced>>

(* The reconnect timer. *)
AttemptReconnect ==
  /\ Quiet
  /\ reconnectId = "armed"
  /\ IF IsDestroyed
     THEN reconnectId' = "spent" /\ UNCHANGED <<connecting, attempts>>
     ELSE IF IsConnected
     THEN ReconnectOver /\ UNCHANGED <<connecting, attempts>>
     ELSE /\ reconnectId' = "spent"
          /\ connecting' = connecting + 1
          /\ attempts' = [attempts EXCEPT !["reconnect"] = @ + 1]
  /\ UNCHANGED <<state, started, lists, conns, ops, phase, timers, retriesLeft,
                 timeouts, forced>>

(* The result of its attempt.  Pool.state is not changed by a reconnect.   *)
Reconnected(c) ==
  /\ Quiet
  /\ sock[c] = "none"
  /\ AttemptDone("reconnect")
  /\ IF IsDestroyed
     THEN UNCHANGED <<available, sock, phase, retry>>
     ELSE /\ ReconnectOver
          /\ retriesLeft' = ReconnectTries
          /\ available' = available \cup {c}
          /\ sock' = [sock EXCEPT ![c] = "open"]
          /\ CallExecute(state, connecting - 1)
  /\ UNCHANGED <<state, started, inUse, workItems, ops, timers, timeouts, forced>>

(* With no tries left the pool is destroyed, without force. *)
ReconnectFailed ==
  /\ Quiet
  /\ attempts["reconnect"] > 0
  /\ attempts' = [attempts EXCEPT !["reconnect"] = @ - 1]
  /\ retriesLeft' = retriesLeft - 1
  /\ IF retriesLeft - 1 <= 0 /\ ~IsDestroyed
     THEN CheckStatus(connecting - 1) /\ UNCHANGED reconnectId
     ELSE /\ connecting' = connecting - 1
          /\ reconnectId' = IF retriesLeft - 1 <= 0 THEN reconnectId ELSE "armed"
          /\ UNCHANGED <<state, lists, conns, monq, queue, calls, phase, drainTimer>>
  /\ UNCHANGED <<started, serializing, written, ticks, retryTimers, timeouts, forced>>

(***************************************************************************)
(* Events of connections                                                   *)
(***************************************************************************)

(* The peer closes the socket, or it breaks: isConnected() is false from   *)
(* now on, the event is still to come.                                     *)
SocketDies(c) ==
  /\ phase = "idle"
  /\ sock[c] = "open"
  /\ sock' = [sock EXCEPT ![c] = "closing"]
  /\ UNCHANGED <<state, started, lists, connecting, attempts, workItems, ops, phase,
                 timers, retry, timeouts, forced>>

(* The sockets an event of each kind can come from; "close" stands for     *)
(* error too.                                                              *)
Emits(event) == [close      |-> {"closing"},
                 timeout    |-> {"open", "closing"},
                 parseError |-> {"open"}][event]

(* connectionFailureHandler, for the first failure of a connection. *)
ConnectionFails(c, event) ==
  /\ Quiet
  /\ sock[c] \in Emits(event)
  /\ ~(event = "timeout" /\ timeouts >= ReconnectTries)
  /\ sock' = [sock EXCEPT ![c] = IF event = "close" THEN "none" ELSE "ending"]
  /\ RemoveConnection(c)
  /\ FlushWorkItems(c)
  /\ timeouts' = IF event = "timeout" THEN timeouts + 1 ELSE timeouts
  /\ IF Listed \subseteq {c} /\ ~IsDestroyed
     THEN StateTransition("disconnected")
     ELSE UNCHANGED state
  /\ reconnectId' = ArmReconnect(reconnectId)
  /\ IF Cardinality(available') + Cardinality(inUse') + connecting < MinSize
     THEN CreateConnection(connecting)
     ELSE UNCHANGED <<connecting, attempts>>
  /\ UNCHANGED <<started, monq, serializing, written, phase, timers, retriesLeft,
                 forced>>

(* One timeout more than reconnectTries in a row destroys the pool.        *)
TooManyTimeouts(c) ==
  /\ Quiet
  /\ sock[c] \in Emits("timeout")
  /\ timeouts >= ReconnectTries
  /\ timeouts' = 0
  /\ IF IsDestroyed
     THEN /\ sock' = [sock EXCEPT ![c] = "ending"]
          /\ RemoveConnection(c)
          /\ FlushWorkItems(c)
          /\ UNCHANGED <<state, connecting, monq, forced>>
     ELSE ForceDestroy({c})
  /\ UNCHANGED <<started, attempts, serializing, written, phase, timers, retry>>

(* The socket that connectionFailureHandler ended is closed: a second      *)
(* event, which the handler ignores.                                       *)
SocketClosed(c) ==
  /\ Quiet
  /\ sock[c] = "ending"
  /\ sock' = [sock EXCEPT ![c] = "none"]
  /\ UNCHANGED <<state, started, lists, connecting, attempts, workItems, ops, phase,
                 timers, retry, timeouts, forced>>

ScheduleExecute ==
  ticks' = IF phase = "idle" THEN ticks + 1 ELSE ticks

(* Mutant: the connection is not made available again. *)
MutantNotReleased(c, o) == UNCHANGED lists

(* A connection whose monitoring operation is over is available again. *)
ReleaseConnection(c, o) ==
  IF o \in MonitoringOps /\ c \in inUse
  THEN inUse' = inUse \ {c} /\ available' = available \cup {c}
  ELSE UNCHANGED lists

(* messageHandler, for the response to o. *)
Message(c, o) ==
  /\ phase = "idle"
  /\ sock[c] = "open"
  /\ o \in workItems[c]
  /\ workItems' = [workItems EXCEPT ![c] = @ \ {o}]
  /\ ReleaseConnection(c, o)
  /\ timeouts' = 0
  /\ ScheduleExecute
  /\ Answer({o})
  /\ UNCHANGED <<state, started, connecting, attempts, sock, monq, queue, serializing,
                 written, phase, retryTimers, drainTimer, retry, forced>>

(* messageHandler, for a response that comes when the connection has timed *)
(* out, and its operations have been flushed, but is not closed yet.       *)
LateMessage(c) ==
  /\ Quiet
  /\ sock[c] = "ending"
  /\ timeouts' = 0
  /\ ScheduleExecute
  /\ UNCHANGED <<state, started, lists, connecting, attempts, conns, ops, phase,
                 retryTimers, drainTimer, retry, forced>>

(***************************************************************************)
(* Submitting operations                                                   *)
(***************************************************************************)

(* Mutant: monitoring operations wait their turn. *)
MutantEnqueueLast(o) == queue' = Append(queue, o) /\ UNCHANGED monq /\ ScheduleExecute

(* Monitoring operations go to the front of the queue, others to its end. *)
Enqueue(o) ==
  /\ IF o \in MonitoringOps
     THEN monq' = <<o>> \o monq /\ UNCHANGED queue
     ELSE queue' = Append(queue, o) /\ UNCHANGED monq
  /\ ScheduleExecute

(* write() *)
Write(o) ==
  /\ ClientRuns
  /\ o \notin written
  /\ written' = written \cup {o}
  /\ IF IsDestroyed
     THEN Answer({o}) /\ UNCHANGED <<monq, queue, serializing, ticks>>
     ELSE /\ UNCHANGED calls
          /\ IF o \in CompressedOps
             THEN serializing' = serializing \cup {o} /\ UNCHANGED <<monq, queue, ticks>>
             ELSE Enqueue(o) /\ UNCHANGED serializing
  /\ UNCHANGED <<state, started, lists, connecting, attempts, conns, phase,
                 retryTimers, drainTimer, retry, timeouts, forced>>

(* The callback of serializeCommand, when zlib has compressed the buffer.  *)
(* The state of the pool is not looked at again.                           *)
Serialized(o) ==
  /\ Quiet
  /\ o \in serializing
  /\ serializing' = serializing \ {o}
  /\ Enqueue(o)
  /\ UNCHANGED <<state, started, lists, connecting, attempts, conns, written, calls,
                 phase, retryTimers, drainTimer, retry, timeouts, forced>>

(***************************************************************************)
(* Executing operations                                                    *)
(***************************************************************************)

(* The nextTick function that calls _execute. *)
Tick ==
  /\ phase = "idle"
  /\ ticks > 0
  /\ ticks' = ticks - 1
  /\ CallExecute(state, connecting)
  /\ UNCHANGED <<state, started, lists, connecting, attempts, conns, ops, retryTimers,
                 drainTimer, retry, timeouts, forced>>

(* The 10ms timer that calls _execute. *)
RetryTimer ==
  /\ Quiet
  /\ retryTimers > 0
  /\ retryTimers' = retryTimers - 1
  /\ CallExecute(state, connecting)
  /\ UNCHANGED <<state, started, lists, connecting, attempts, conns, ops, ticks,
                 drainTimer, retry, timeouts, forced>>

(* Mutant: a connection with operations in flight counts as idle. *)
MutantAllIdle == available

(* The connections the round robin can select: those with no operations in *)
(* flight, or all of the available ones when each has some.                *)
Idle == {c \in available : workItems[c] = {}}
Selectable == IF Idle = {} THEN available ELSE Idle

(* The loop breaks, after the monitoring operations have been flushed. *)
FlushAndBreak ==
  /\ FlushMonitoringOperations
  /\ phase' = IF Flushed(monq) = {} THEN "idle" ELSE "leaving"

(* No available connection. *)
LoopNoConnection ==
  /\ phase = "loop"
  /\ available = {}
  /\ FlushAndBreak
  /\ UNCHANGED <<state, started, lists, connecting, attempts, conns, queue, serializing,
                 written, timers, retry, timeouts, forced>>

(* Nothing left to execute. *)
LoopQueueEmpty ==
  /\ phase = "loop"
  /\ available # {}
  /\ monq = << >> /\ queue = << >>
  /\ phase' = "idle"
  /\ UNCHANGED <<state, started, lists, connecting, attempts, conns, ops, timers, retry,
                 timeouts, forced>>

(* The selected connection is not connected. *)
LoopDisconnected(c) ==
  /\ phase = "loop"
  /\ monq # << >> \/ queue # << >>
  /\ c \in Selectable
  /\ sock[c] # "open"
  /\ available' = available \ {c}
  /\ FlushAndBreak
  /\ UNCHANGED <<state, started, inUse, connecting, attempts, conns, queue, serializing,
                 written, timers, retry, timeouts, forced>>

(* A monitoring operation, and no connection that runs nothing else. *)
LoopNoMonitoringConnection ==
  /\ phase = "loop"
  /\ monq # << >>
  /\ \E c \in Selectable : sock[c] = "open"
  /\ \A c \in Idle : sock[c] # "open"
  /\ IF TotalConnectionCount < Size
     THEN CreateConnection(connecting)
     ELSE UNCHANGED <<connecting, attempts>>
  /\ retryTimers' = IF retryTimers < MaxTimers THEN retryTimers + 1 ELSE retryTimers
  /\ phase' = "idle"
  /\ UNCHANGED <<state, started, lists, conns, ops, ticks, drainTimer, retry, timeouts,
                 forced>>

(* Mutant: off by one. *)
MutantGrowPastSize(c) == TotalConnectionCount <= Size /\ workItems[c] # {}

(* Every connection has operations in flight and the pool can grow. *)
MustGrow(c) == TotalConnectionCount < Size /\ workItems[c] # {}

LoopGrow(c) ==
  /\ phase = "loop"
  /\ monq = << >> /\ queue # << >>
  /\ c \in Selectable
  /\ sock[c] = "open"
  /\ MustGrow(c)
  /\ CreateConnection(connecting)
  /\ phase' = "idle"
  /\ UNCHANGED <<state, started, lists, conns, ops, timers, retry, timeouts, forced>>

(* Mutant: the operation stays in the queue. *)
MutantNoShift(q) == q

(* The queue after its first operation was taken. *)
Shift(q) == Tail(q)

(* A monitoring operation is sent on an idle connection, which is taken    *)
(* from the available ones.                                                *)
LoopSendMonitoring(c) ==
  /\ phase = "loop"
  /\ monq # << >>
  /\ c \in Idle
  /\ sock[c] = "open"
  /\ monq' = Shift(monq)
  /\ available' = available \ {c}
  /\ inUse' = inUse \cup {c}
  /\ workItems' = [workItems EXCEPT ![c] = @ \cup {Head(monq)}]
  /\ UNCHANGED <<state, started, connecting, attempts, sock, queue, serializing, written,
                 calls, phase, timers, retry, timeouts, forced>>

(* Another operation is sent on the selected connection; one that has no   *)
(* response is answered here.                                              *)
LoopSend(c) ==
  /\ phase = "loop"
  /\ monq = << >> /\ queue # << >>
  /\ c \in Selectable
  /\ sock[c] = "open"
  /\ ~MustGrow(c)
  /\ queue' = Shift(queue)
  /\ IF Head(queue) \in NoResponseOps
     THEN Answer({Head(queue)}) /\ phase' = "calling" /\ UNCHANGED workItems
     ELSE /\ workItems' = [workItems EXCEPT ![c] = @ \cup {Head(queue)}]
          /\ UNCHANGED <<calls, phase>>
  /\ UNCHANGED <<state, started, lists, connecting, attempts, sock, monq, serializing,
                 written, timers, retry, timeouts, forced>>

(* A callback called from the loop returns. *)
LoopResume ==
  /\ phase \in {"calling", "leaving"}
  /\ phase' = IF phase = "calling" THEN "loop" ELSE "idle"
  /\ UNCHANGED <<state, started, lists, connecting, attempts, conns, ops, timers, retry,
                 timeouts, forced>>

(***************************************************************************)
(* The specification                                                       *)
(***************************************************************************)

Init ==
  /\ state = "disconnected"
  /\ started = FALSE
  /\ available = {} /\ inUse = {}
  /\ connecting = 0
  /\ attempts = [k \in Kinds |-> 0]
  /\ sock = [c \in Conns |-> "none"]
  /\ workItems = [c \in Conns |-> {}]
  /\ monq = << >> /\ queue = << >>
  /\ serializing = {} /\ written = {}
  /\ calls = [o \in Ops |-> 0]
  /\ phase = "idle"
  /\ ticks = 0 /\ retryTimers = 0 /\ drainTimer = FALSE
  /\ reconnectId = "null" /\ retriesLeft = ReconnectTries
  /\ timeouts = 0
  /\ forced = FALSE

(* What the client of the pool does. *)
Client ==
  \/ Connect
  \/ \E o \in Ops : Write(o)
  \/ \E force \in BOOLEAN : Destroy(force)

(* Results of connection attempts and timers. *)
Opening ==
  \/ \E c \in Conns : Connected(c) \/ Created(c) \/ Reconnected(c)
  \/ ConnectFailed \/ CreateFailed \/ ReconnectFailed
  \/ AttemptReconnect

(* Events of a connection. *)
Event(c) ==
  \/ SocketDies(c) \/ SocketClosed(c) \/ ConnectionDestroyed(c)
  \/ \E event \in {"close", "timeout", "parseError"} : ConnectionFails(c, event)
  \/ TooManyTimeouts(c)
  \/ \E o \in Ops : Message(c, o)
  \/ LateMessage(c)

(* One iteration of the loop of _execute. *)
Loop ==
  \/ LoopNoConnection \/ LoopQueueEmpty \/ LoopNoMonitoringConnection
  \/ \E c \in Conns : \/ LoopDisconnected(c) \/ LoopGrow(c)
                    \/ LoopSendMonitoring(c) \/ LoopSend(c)
  \/ LoopResume

Scheduled ==
  \/ Tick \/ RetryTimer \/ DrainTimer
  \/ \E o \in Ops : Serialized(o)

Next == Client \/ Opening \/ (\E c \in Conns : Event(c)) \/ Loop \/ Scheduled

Spec == Init /\ [][Next]_vars

(* What Node and the driver's timeouts bring about.  The event loop serves *)
(* timers and sockets in turn, so what waits for a quiet moment gets one:  *)
(* strong fairness.  Nothing is assumed of the client, nor that an attempt *)
(* ever succeeds or an operation gets its response.                        *)

(* An attempt ends by connectionTimeout. *)
AttemptEnds ==
  \/ ConnectFailed \/ CreateFailed \/ ReconnectFailed
  \/ \E c \in Conns : Connected(c) \/ Created(c) \/ Reconnected(c)

(* An operation in flight ends by its response or by socketTimeout, and a  *)
(* socket that broke or was ended is closed.                               *)
ConnectionMovesOn(c) ==
  \/ ConnectionFails(c, "close") \/ SocketClosed(c) \/ ConnectionDestroyed(c)
  \/ /\ workItems[c] # {}
     /\ \/ \E o \in Ops : Message(c, o)
        \/ ConnectionFails(c, "timeout") \/ TooManyTimeouts(c)

Fairness ==
  /\ WF_vars(Loop \/ Tick)
  /\ SF_vars(DrainTimer) /\ SF_vars(RetryTimer) /\ SF_vars(AttemptReconnect)
  /\ SF_vars(AttemptEnds)
  /\ SF_vars(\E o \in Ops : Serialized(o))
  /\ \A c \in Conns : SF_vars(ConnectionMovesOn(c))

FairSpec == Spec /\ Fairness

(***************************************************************************)
(* Properties                                                              *)
(***************************************************************************)

PoolTypeOK ==
  /\ state \in States
  /\ started \in BOOLEAN
  /\ connecting \in Int
  /\ attempts \in [Kinds -> Nat]
  /\ phase \in Phases
  /\ ticks \in Nat
  /\ retryTimers \in 0..MaxTimers
  /\ drainTimer \in BOOLEAN
  /\ reconnectId \in {"null", "armed", "spent"}
  /\ retriesLeft \in Int
  /\ timeouts \in Nat
  /\ forced \in BOOLEAN

ConnsTypeOK ==
  /\ available \in SUBSET Conns
  /\ inUse \in SUBSET Conns
  /\ sock \in [Conns -> SockStates]
  /\ workItems \in [Conns -> SUBSET Ops]

OpsTypeOK ==
  /\ monq \in Seq(MonitoringOps)
  /\ queue \in Seq(Ops \ MonitoringOps)
  /\ serializing \in SUBSET CompressedOps
  /\ written \in SUBSET Ops
  /\ calls \in [Ops -> Nat]

TypeOK == PoolTypeOK /\ ConnsTypeOK /\ OpsTypeOK

(* The callback of an operation is called at most once, and never while    *)
(* the operation can still be answered from somewhere else.                *)
AnsweredOnce ==
  \A o \in Ops : /\ calls[o] <= 1
                 /\ o \in Queued \cup InFlight \cup serializing => calls[o] = 0

(* No operation is in two places: an operation queued twice, or queued and *)
(* in flight, would be sent twice.                                         *)
OnePlace ==
  /\ IsInjective(monq) /\ IsInjective(queue)
  /\ Queued \cap (InFlight \cup serializing) = {}
  /\ InFlight \cap serializing = {}
  /\ \A c, d \in Conns : c # d => workItems[c] \cap workItems[d] = {}

(* A written operation that was not answered still can be: it is queued,   *)
(* being compressed, or in flight on a connection whose end the pool hears *)
(* of.  Only destroy(true) drops operations.                               *)
NoneForgotten ==
  forced \/ \A o \in written : \/ calls[o] = 1
                               \/ o \in Queued \cup serializing
                               \/ \E c \in Conns : /\ o \in workItems[c]
                                                   /\ sock[c] \in {"open", "closing"}

(* A monitoring operation shares its connection with no other: its socket  *)
(* timeout would apply to them (the comment at pool.js:1096).              *)
MonitoringAlone ==
  \A c \in Conns : workItems[c] \cap MonitoringOps # {} =>
                     Cardinality(workItems[c]) = 1 /\ c \notin available

(* destroy() lets the pool go when nothing is queued or in flight, except  *)
(* on a connection the loop removed, which reports its end later, or an    *)
(* operation that was being compressed.                                    *)
DrainedWhenDestroyed ==
  state = "destroyed" /\ ~forced =>
    /\ Queued \subseteq CompressedOps
    /\ \A c \in Conns : workItems[c] # {} => sock[c] = "closing"

(* Where the requests of the pool are. *)
RequestsKept == OnePlace /\ NoneForgotten /\ MonitoringAlone /\ DrainedWhenDestroyed

(* A connection in inUseConnections is there for a monitoring operation in *)
(* flight: otherwise it would never be made available again.               *)
InUseNotLeaked ==
  \A c \in inUse : \/ workItems[c] \cap MonitoringOps # {}
                   \/ sock[c] \in {"finishing", "finished"}

(* Both lists hold connections whose failure was not handled yet, each in  *)
(* one list; a connection that can carry operations is in one of them.     *)
ListsSound ==
  /\ available \cap inUse = {}
  /\ \A c \in Listed : sock[c] \in {"open", "closing", "finishing", "finished"}
  /\ \A c \in Conns : sock[c] = "open" => c \in Listed

(* connectingConnections, which stops the loop of _execute while it is     *)
(* positive, is the number of attempts under way, and there is one         *)
(* reconnect loop at most.                                                 *)
ConnectingCounted ==
  /\ state # "destroyed" =>
       connecting = attempts["connect"] + attempts["create"] + attempts["reconnect"]
  /\ attempts["reconnect"] <= 1
  /\ attempts["reconnect"] = 1 => reconnectId = "spent"

(* "Max server connection pool size", pool.js:34: usable connections and   *)
(* those being opened.                                                     *)
SizeBound ==
  MinSize < Size =>
    Cardinality({c \in Listed : sock[c] = "open"})
      + attempts["connect"] + attempts["create"] + attempts["reconnect"] <= Size

(* Which connections the pool holds, and how many. *)
ConnectionsSound == InUseNotLeaked /\ ListsSound /\ ConnectingCounted /\ SizeBound

(* What destroy() ends stays ended: no connection joins the pool, and no   *)
(* attempt is started.                                                     *)
DestroyedForGood ==
  [][IsDestroyed => /\ IsDestroyed'
                    /\ Listed' \subseteq Listed
                    /\ \A k \in Kinds : attempts'[k] <= attempts[k]]_vars

(* The pool does not retry: an operation that left the queue to be sent,   *)
(* or was answered, is never queued again.                                 *)
NeverRequeued ==
  [][\A o \in written : o \notin Queued \cup serializing => o \notin Queued']_vars

(* What was ended or sent is not begun again. *)
NeverUndone == DestroyedForGood /\ NeverRequeued

(* An operation in flight is answered, whatever becomes of its connection, *)
(* unless the pool is destroyed with force.                                *)
InFlightAnswered ==
  \A o \in Ops : o \in InFlight ~> calls[o] = 1 \/ forced

(* destroy() comes to its end once nothing but monitoring operations is    *)
(* queued: they are flushed, two rounds or more when there are several.    *)
DestroyFinishes ==
  state = "destroying" /\ queue = << >> /\ serializing = {} ~> state = "destroyed"

(* A pool that lost its connections gets one back or is destroyed for want *)
(* of tries: the reconnect loop does not die.                              *)
RecoversOrGivesUp ==
  state = "disconnected" /\ started /\ Listed = {} ~> Listed # {} \/ IsDestroyed
=============================================================================
