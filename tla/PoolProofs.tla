----------------------------- MODULE PoolProofs -----------------------------
(* Theorems about Pool, for every set of connections and operations and    *)
(* every size of the pool.                                                 *)
EXTENDS Pool, FiniteSetTheorems, TLAPS

(* What flushMonitoringOperations leaves is a queue of the same kind. *)
LEMMA KeptType ==
  ASSUME NEW S, NEW q \in Seq(S)
  PROVE  Kept(q) \in Seq(S)
<1>1. Len(q) \in Nat /\ DOMAIN q = 1..Len(q) /\ \A k \in 1..Len(q) : q[k] \in S
  OBVIOUS
<1> DEFINE n == Len(q) \div 2
<1>2. n \in Nat /\ 2 * n <= Len(q)
  BY <1>1
<1>3. \A k \in 1..n : 2 * k \in 1..Len(q)
  BY <1>1, <1>2
<1>4. Kept(q) \in [1..n -> S]
  BY <1>1, <1>3 DEF Kept
<1> QED
  BY <1>2, <1>4

LEMMA ShiftType ==
  ASSUME NEW S, NEW q \in Seq(S), q # << >>
  PROVE  Shift(q) \in Seq(S) /\ Head(q) \in S
BY DEF Shift

LEMMA AnswerType ==
  ASSUME OpsTypeOK, NEW S, Answer(S)
  PROVE  calls' \in [Ops -> Nat]
BY DEF OpsTypeOK, Answer

LEMMA FlushType ==
  ASSUME OpsTypeOK, FlushMonitoringOperations
  PROVE  monq' \in Seq(MonitoringOps) /\ calls' \in [Ops -> Nat]
<1>1. monq' \in Seq(MonitoringOps)
  BY KeptType DEF FlushMonitoringOperations, OpsTypeOK
<1>2. calls' \in [Ops -> Nat]
  BY AnswerType DEF FlushMonitoringOperations
<1> QED
  BY <1>1, <1>2

LEMMA EnqueueType ==
  ASSUME TypeOK, NEW o \in Ops, Enqueue(o)
  PROVE  /\ monq' \in Seq(MonitoringOps)
         /\ queue' \in Seq(Ops \ MonitoringOps)
         /\ ticks' \in Nat
<1> USE DEF TypeOK, OpsTypeOK
<1>1. ASSUME o \in MonitoringOps
      PROVE  monq' \in Seq(MonitoringOps) /\ queue' \in Seq(Ops \ MonitoringOps)
  <2>1. <<o>> \o monq \in Seq(MonitoringOps)
    BY <1>1
  <2> QED
    BY <1>1, <2>1 DEF Enqueue
<1>2. ASSUME o \notin MonitoringOps
      PROVE  monq' \in Seq(MonitoringOps) /\ queue' \in Seq(Ops \ MonitoringOps)
  <2>1. Append(queue, o) \in Seq(Ops \ MonitoringOps)
    BY <1>2
  <2> QED
    BY <1>2, <2>1 DEF Enqueue
<1>3. ticks' \in Nat
  BY DEF Enqueue, ScheduleExecute, PoolTypeOK
<1> QED
  BY <1>1, <1>2, <1>3

LEMMA CheckStatusType ==
  ASSUME TypeOK, NEW n \in Int, CheckStatus(n)
  PROVE  /\ state' \in States /\ connecting' \in Int /\ phase' \in Phases
         /\ drainTimer' \in BOOLEAN
         /\ ConnsTypeOK'
         /\ monq' \in Seq(MonitoringOps) /\ calls' \in [Ops -> Nat]
         /\ queue' = queue
<1>1. monq' \in Seq(MonitoringOps) /\ calls' \in [Ops -> Nat]
  BY FlushType DEF CheckStatus, TypeOK
<1>2. /\ state' \in States /\ connecting' \in Int /\ phase' \in Phases
      /\ drainTimer' \in BOOLEAN
  <2>1. phase \in Phases
    BY DEF TypeOK, PoolTypeOK
  <2>2. phase' \in Phases
    BY <2>1 DEF CheckStatus, CallExecute, Phases
  <2>3. state' \in States
    BY DEF CheckStatus, States
  <2>4. connecting' \in Int
    BY DEF CheckStatus
  <2>5. drainTimer' \in BOOLEAN
    BY DEF CheckStatus
  <2> QED
    BY <2>2, <2>3, <2>4, <2>5
<1>3. available' = available /\ inUse' = inUse /\ workItems' = workItems
  BY DEF CheckStatus, lists
<1>4. sock' \in [Conns -> SockStates]
  BY DEF CheckStatus, TypeOK, ConnsTypeOK, SockStates
<1>5. ConnsTypeOK'
  BY <1>3, <1>4 DEF TypeOK, ConnsTypeOK
<1> QED
  BY <1>1, <1>2, <1>5 DEF CheckStatus

LEMMA ForceDestroyType ==
  ASSUME TypeOK, NEW failed \in SUBSET Conns, ForceDestroy(failed)
  PROVE  /\ state' \in States /\ connecting' \in Int /\ forced' \in BOOLEAN
         /\ ConnsTypeOK'
         /\ monq' \in Seq(MonitoringOps) /\ queue' \in Seq(Ops \ MonitoringOps)
         /\ calls' \in [Ops -> Nat]
<1>1. calls' \in [Ops -> Nat]
  BY AnswerType DEF ForceDestroy, TypeOK
<1>2. ConnsTypeOK'
  BY DEF ForceDestroy, TypeOK, ConnsTypeOK, SockStates
<1> QED
  BY <1>1, <1>2 DEF ForceDestroy, States

LEMMA TypeInit == Init => TypeOK
<1> SUFFICES ASSUME Init PROVE TypeOK
  OBVIOUS
<1>1. PoolTypeOK
  <2>1. attempts \in [Kinds -> Nat]
    BY DEF Init
  <2>2. MaxTimers \in Nat /\ ReconnectTries \in Nat
    BY PoolAssumption
  <2>3. retryTimers \in 0..MaxTimers /\ retriesLeft \in Int
    BY <2>2 DEF Init
  <2>4. state \in States /\ phase \in Phases
    BY DEF Init, States, Phases
  <2>5. ticks \in Nat /\ timeouts \in Nat /\ connecting \in Int
    BY DEF Init
  <2>6. /\ started \in BOOLEAN /\ drainTimer \in BOOLEAN /\ forced \in BOOLEAN
        /\ reconnectId \in {"null", "armed", "spent"}
    BY DEF Init
  <2> QED
    BY <2>1, <2>3, <2>4, <2>5, <2>6 DEF PoolTypeOK
<1>2. ConnsTypeOK
  BY DEF Init, ConnsTypeOK, SockStates
<1>3. OpsTypeOK
  BY DEF Init, OpsTypeOK
<1> QED
  BY <1>1, <1>2, <1>3 DEF TypeOK

(* Each step preserves the types; one step per action. *)
LEMMA TypeStep == TypeOK /\ [Next]_vars => TypeOK'
<1> SUFFICES ASSUME TypeOK, [Next]_vars PROVE TypeOK'
  OBVIOUS
<1> USE DEF TypeOK, lists, conns, ops, timers, retry
<1>1. CASE UNCHANGED vars
  <2>1. PoolTypeOK'
    BY <1>1 DEF vars, PoolTypeOK, States, Phases, Kinds
  <2>2. ConnsTypeOK'
    BY <1>1 DEF vars, ConnsTypeOK, SockStates
  <2>3. OpsTypeOK'
    BY <1>1 DEF vars, OpsTypeOK
  <2> QED
    BY <2>1, <2>2, <2>3
<1>2. CASE Connect
  <2>1. PoolTypeOK'
    BY <1>2 DEF Connect, StateTransition, LegalTransitions, PoolTypeOK, States, Phases, Kinds
  <2>2. ConnsTypeOK'
    BY <1>2 DEF Connect, StateTransition, LegalTransitions, ConnsTypeOK, SockStates
  <2>3. OpsTypeOK'
    BY <1>2 DEF Connect, StateTransition, LegalTransitions, OpsTypeOK
  <2> QED
    BY <2>1, <2>2, <2>3
<1>3. ASSUME NEW o \in Ops, Write(o) PROVE TypeOK'
  <2>1. PoolTypeOK'
    BY <1>3, EnqueueType, AnswerType, PoolAssumption DEF Write, PoolTypeOK, States, Phases, Kinds
  <2>2. ConnsTypeOK'
    BY <1>3, EnqueueType, AnswerType, PoolAssumption DEF Write, ConnsTypeOK, SockStates
  <2>3. OpsTypeOK'
    BY <1>3, EnqueueType, AnswerType, PoolAssumption DEF Write, OpsTypeOK
  <2> QED
    BY <2>1, <2>2, <2>3
<1>4. ASSUME NEW force \in BOOLEAN, Destroy(force) PROVE TypeOK'
  <2>1. PoolTypeOK'
    BY <1>4, CheckStatusType, ForceDestroyType DEF Destroy, PoolTypeOK, States, Phases, Kinds
  <2>2. ConnsTypeOK'
    BY <1>4, CheckStatusType, ForceDestroyType DEF Destroy, PoolTypeOK
  <2>3. OpsTypeOK'
    BY <1>4, CheckStatusType, ForceDestroyType DEF Destroy, OpsTypeOK, PoolTypeOK
  <2> QED
    BY <2>1, <2>2, <2>3
<1>5. ASSUME NEW c \in Conns, Connected(c) PROVE TypeOK'
  <2>1. PoolTypeOK'
    BY <1>5, PoolAssumption DEF Connected, AttemptDone, StateTransition, LegalTransitions, PoolTypeOK, States, Phases, Kinds
  <2>2. ConnsTypeOK'
    BY <1>5, PoolAssumption DEF Connected, AttemptDone, StateTransition, LegalTransitions, ConnsTypeOK, SockStates
  <2>3. OpsTypeOK'
    BY <1>5, PoolAssumption DEF Connected, AttemptDone, StateTransition, LegalTransitions, OpsTypeOK
  <2> QED
    BY <2>1, <2>2, <2>3
<1>6. CASE ConnectFailed
  <2>1. PoolTypeOK'
    BY <1>6 DEF ConnectFailed, AttemptDone, PoolTypeOK, States, Phases, Kinds
  <2>2. ConnsTypeOK'
    BY <1>6 DEF ConnectFailed, AttemptDone, ConnsTypeOK, SockStates
  <2>3. OpsTypeOK'
    BY <1>6 DEF ConnectFailed, AttemptDone, OpsTypeOK
  <2> QED
    BY <2>1, <2>2, <2>3
<1>7. ASSUME NEW c \in Conns, Created(c) PROVE TypeOK'
  <2>1. PoolTypeOK'
    BY <1>7 DEF Created, AttemptDone, CallExecute, PoolTypeOK, States, Phases, Kinds
  <2>2. ConnsTypeOK'
    BY <1>7 DEF Created, AttemptDone, CallExecute, ConnsTypeOK, SockStates
  <2>3. OpsTypeOK'
    BY <1>7 DEF Created, AttemptDone, CallExecute, OpsTypeOK
  <2> QED
    BY <2>1, <2>2, <2>3
<1>8. CASE CreateFailed
  <2>1. PoolTypeOK'
    BY <1>8 DEF CreateFailed, AttemptDone, ArmReconnect, PoolTypeOK, States, Phases, Kinds
  <2>2. ConnsTypeOK'
    BY <1>8 DEF CreateFailed, AttemptDone, ArmReconnect, ConnsTypeOK, SockStates
  <2>3. OpsTypeOK'
    BY <1>8 DEF CreateFailed, AttemptDone, ArmReconnect, OpsTypeOK
  <2> QED
    BY <2>1, <2>2, <2>3
<1>9. CASE AttemptReconnect
  <2>1. PoolTypeOK'
    BY <1>9 DEF AttemptReconnect, ReconnectOver, PoolTypeOK, States, Phases, Kinds
  <2>2. ConnsTypeOK'
    BY <1>9 DEF AttemptReconnect, ReconnectOver, ConnsTypeOK, SockStates
  <2>3. OpsTypeOK'
    BY <1>9 DEF AttemptReconnect, ReconnectOver, OpsTypeOK
  <2> QED
    BY <2>1, <2>2, <2>3
<1>10. ASSUME NEW c \in Conns, Reconnected(c) PROVE TypeOK'
  <2>1. PoolTypeOK'
    BY <1>10, PoolAssumption DEF Reconnected, AttemptDone, CallExecute, ReconnectOver, PoolTypeOK, States, Phases, Kinds
  <2>2. ConnsTypeOK'
    BY <1>10, PoolAssumption DEF Reconnected, AttemptDone, CallExecute, ReconnectOver, ConnsTypeOK, SockStates
  <2>3. OpsTypeOK'
    BY <1>10, PoolAssumption DEF Reconnected, AttemptDone, CallExecute, ReconnectOver, OpsTypeOK
  <2> QED
    BY <2>1, <2>2, <2>3
<1>11. CASE ReconnectFailed
  <2>1. PoolTypeOK'
    BY <1>11, CheckStatusType DEF ReconnectFailed, PoolTypeOK, States, Phases, Kinds
  <2>2. ConnsTypeOK'
    <3>1. CASE retriesLeft - 1 <= 0 /\ ~IsDestroyed
      BY <1>11, <3>1, CheckStatusType DEF ReconnectFailed, PoolTypeOK
    <3>2. CASE ~(retriesLeft - 1 <= 0 /\ ~IsDestroyed)
      BY <1>11, <3>2 DEF ReconnectFailed, ConnsTypeOK
    <3> QED
      BY <3>1, <3>2
  <2>3. OpsTypeOK'
    BY <1>11, CheckStatusType DEF ReconnectFailed, OpsTypeOK, PoolTypeOK
  <2> QED
    BY <2>1, <2>2, <2>3
<1>12. ASSUME NEW c \in Conns, SocketDies(c) PROVE TypeOK'
  <2>1. PoolTypeOK'
    BY <1>12 DEF SocketDies, PoolTypeOK, States, Phases, Kinds
  <2>2. ConnsTypeOK'
    BY <1>12 DEF SocketDies, ConnsTypeOK, SockStates
  <2>3. OpsTypeOK'
    BY <1>12 DEF SocketDies, OpsTypeOK
  <2> QED
    BY <2>1, <2>2, <2>3
<1>13. ASSUME NEW c \in Conns, SocketClosed(c) PROVE TypeOK'
  <2>1. PoolTypeOK'
    BY <1>13 DEF SocketClosed, PoolTypeOK, States, Phases, Kinds
  <2>2. ConnsTypeOK'
    BY <1>13 DEF SocketClosed, ConnsTypeOK, SockStates
  <2>3. OpsTypeOK'
    BY <1>13 DEF SocketClosed, OpsTypeOK
  <2> QED
    BY <2>1, <2>2, <2>3
<1>14. ASSUME NEW c \in Conns, ConnectionDestroyed(c) PROVE TypeOK'
  <2>1. PoolTypeOK'
    BY <1>14 DEF ConnectionDestroyed, StateTransition, LegalTransitions, PoolTypeOK, States, Phases, Kinds
  <2>2. ConnsTypeOK'
    BY <1>14 DEF ConnectionDestroyed, StateTransition, LegalTransitions, ConnsTypeOK, SockStates
  <2>3. OpsTypeOK'
    BY <1>14 DEF ConnectionDestroyed, StateTransition, LegalTransitions, OpsTypeOK
  <2> QED
    BY <2>1, <2>2, <2>3
<1>15. ASSUME NEW c \in Conns, NEW event \in {"close", "timeout", "parseError"},
             ConnectionFails(c, event)
      PROVE TypeOK'
  <2>1. PoolTypeOK'
    BY <1>15, AnswerType DEF ConnectionFails, RemoveConnection, FlushWorkItems, ArmReconnect,
         CreateConnection, StateTransition, LegalTransitions, PoolTypeOK, States, Phases, Kinds
  <2>2. ConnsTypeOK'
    BY <1>15, AnswerType DEF ConnectionFails, RemoveConnection, FlushWorkItems, ArmReconnect,
         CreateConnection, StateTransition, LegalTransitions, ConnsTypeOK, SockStates
  <2>3. OpsTypeOK'
    BY <1>15, AnswerType DEF ConnectionFails, RemoveConnection, FlushWorkItems, ArmReconnect,
         CreateConnection, StateTransition, LegalTransitions, OpsTypeOK
  <2> QED
    BY <2>1, <2>2, <2>3
<1>16. ASSUME NEW c \in Conns, TooManyTimeouts(c) PROVE TypeOK'
  <2>1. PoolTypeOK'
    BY <1>16, ForceDestroyType, AnswerType DEF TooManyTimeouts, RemoveConnection, FlushWorkItems, PoolTypeOK, States, Phases, Kinds
  <2>2. ConnsTypeOK'
    BY <1>16, ForceDestroyType, AnswerType DEF TooManyTimeouts, RemoveConnection, FlushWorkItems, ConnsTypeOK, SockStates
  <2>3. OpsTypeOK'
    BY <1>16, ForceDestroyType, AnswerType DEF TooManyTimeouts, RemoveConnection, FlushWorkItems, OpsTypeOK
  <2> QED
    BY <2>1, <2>2, <2>3
<1>17. ASSUME NEW c \in Conns, NEW o \in Ops, Message(c, o) PROVE TypeOK'
  <2>1. PoolTypeOK'
    BY <1>17, AnswerType DEF Message, ReleaseConnection, ScheduleExecute, PoolTypeOK, States, Phases, Kinds
  <2>2. ConnsTypeOK'
    BY <1>17, AnswerType DEF Message, ReleaseConnection, ScheduleExecute, ConnsTypeOK, SockStates
  <2>3. OpsTypeOK'
    BY <1>17, AnswerType DEF Message, ReleaseConnection, ScheduleExecute, OpsTypeOK
  <2> QED
    BY <2>1, <2>2, <2>3
<1>18. ASSUME NEW c \in Conns, LateMessage(c) PROVE TypeOK'
  <2>1. PoolTypeOK'
    BY <1>18 DEF LateMessage, ScheduleExecute, PoolTypeOK, States, Phases, Kinds
  <2>2. ConnsTypeOK'
    BY <1>18 DEF LateMessage, ScheduleExecute, ConnsTypeOK, SockStates
  <2>3. OpsTypeOK'
    BY <1>18 DEF LateMessage, ScheduleExecute, OpsTypeOK
  <2> QED
    BY <2>1, <2>2, <2>3
<1>19. CASE Tick
  <2>1. PoolTypeOK'
    BY <1>19 DEF Tick, CallExecute, PoolTypeOK, States, Phases, Kinds
  <2>2. ConnsTypeOK'
    BY <1>19 DEF Tick, CallExecute, ConnsTypeOK, SockStates
  <2>3. OpsTypeOK'
    BY <1>19 DEF Tick, CallExecute, OpsTypeOK
  <2> QED
    BY <2>1, <2>2, <2>3
<1>20. CASE RetryTimer
  <2>1. PoolTypeOK'
    BY <1>20, PoolAssumption DEF RetryTimer, CallExecute, PoolTypeOK, States, Phases, Kinds
  <2>2. ConnsTypeOK'
    BY <1>20, PoolAssumption DEF RetryTimer, CallExecute, ConnsTypeOK, SockStates
  <2>3. OpsTypeOK'
    BY <1>20, PoolAssumption DEF RetryTimer, CallExecute, OpsTypeOK
  <2> QED
    BY <2>1, <2>2, <2>3
<1>21. CASE DrainTimer
  <2>1. PoolTypeOK'
    BY <1>21, CheckStatusType DEF DrainTimer, PoolTypeOK, States, Phases, Kinds
  <2>2. ConnsTypeOK'
    BY <1>21, CheckStatusType DEF DrainTimer, PoolTypeOK
  <2>3. OpsTypeOK'
    BY <1>21, CheckStatusType DEF DrainTimer, OpsTypeOK, PoolTypeOK
  <2> QED
    BY <2>1, <2>2, <2>3
<1>22. ASSUME NEW o \in Ops, Serialized(o) PROVE TypeOK'
  <2>1. PoolTypeOK'
    BY <1>22, EnqueueType DEF Serialized, PoolTypeOK, States, Phases, Kinds
  <2>2. ConnsTypeOK'
    BY <1>22, EnqueueType DEF Serialized, ConnsTypeOK, SockStates
  <2>3. OpsTypeOK'
    BY <1>22, EnqueueType DEF Serialized, OpsTypeOK
  <2> QED
    BY <2>1, <2>2, <2>3
<1>23. CASE LoopNoConnection
  <2>1. PoolTypeOK'
    BY <1>23, FlushType DEF LoopNoConnection, FlushAndBreak, PoolTypeOK, States, Phases, Kinds
  <2>2. ConnsTypeOK'
    BY <1>23, FlushType DEF LoopNoConnection, FlushAndBreak, ConnsTypeOK, SockStates
  <2>3. OpsTypeOK'
    BY <1>23, FlushType DEF LoopNoConnection, FlushAndBreak, OpsTypeOK
  <2> QED
    BY <2>1, <2>2, <2>3
<1>24. CASE LoopQueueEmpty
  <2>1. PoolTypeOK'
    BY <1>24 DEF LoopQueueEmpty, PoolTypeOK, States, Phases, Kinds
  <2>2. ConnsTypeOK'
    BY <1>24 DEF LoopQueueEmpty, ConnsTypeOK, SockStates
  <2>3. OpsTypeOK'
    BY <1>24 DEF LoopQueueEmpty, OpsTypeOK
  <2> QED
    BY <2>1, <2>2, <2>3
<1>25. CASE LoopNoMonitoringConnection
  <2>1. PoolTypeOK'
    BY <1>25, PoolAssumption DEF LoopNoMonitoringConnection, CreateConnection, PoolTypeOK, States, Phases, Kinds
  <2>2. ConnsTypeOK'
    BY <1>25, PoolAssumption DEF LoopNoMonitoringConnection, CreateConnection, ConnsTypeOK, SockStates
  <2>3. OpsTypeOK'
    BY <1>25, PoolAssumption DEF LoopNoMonitoringConnection, CreateConnection, OpsTypeOK
  <2> QED
    BY <2>1, <2>2, <2>3
<1>26. ASSUME NEW c \in Conns, LoopDisconnected(c) PROVE TypeOK'
  <2>1. PoolTypeOK'
    BY <1>26, FlushType DEF LoopDisconnected, FlushAndBreak, PoolTypeOK, States, Phases, Kinds
  <2>2. ConnsTypeOK'
    BY <1>26, FlushType DEF LoopDisconnected, FlushAndBreak, ConnsTypeOK, SockStates
  <2>3. OpsTypeOK'
    BY <1>26, FlushType DEF LoopDisconnected, FlushAndBreak, OpsTypeOK
  <2> QED
    BY <2>1, <2>2, <2>3
<1>27. ASSUME NEW c \in Conns, LoopGrow(c) PROVE TypeOK'
  <2>1. PoolTypeOK'
    BY <1>27 DEF LoopGrow, CreateConnection, PoolTypeOK, States, Phases, Kinds
  <2>2. ConnsTypeOK'
    BY <1>27 DEF LoopGrow, CreateConnection, ConnsTypeOK, SockStates
  <2>3. OpsTypeOK'
    BY <1>27 DEF LoopGrow, CreateConnection, OpsTypeOK
  <2> QED
    BY <2>1, <2>2, <2>3
<1>28. ASSUME NEW c \in Conns, LoopSendMonitoring(c) PROVE TypeOK'
  <2>1. PoolTypeOK'
    BY <1>28, ShiftType, PoolAssumption DEF LoopSendMonitoring, Idle, PoolTypeOK, States, Phases, Kinds
  <2>2. ConnsTypeOK'
    BY <1>28, ShiftType, PoolAssumption DEF LoopSendMonitoring, Idle, ConnsTypeOK, SockStates, OpsTypeOK
  <2>3. OpsTypeOK'
    BY <1>28, ShiftType, PoolAssumption DEF LoopSendMonitoring, Idle, OpsTypeOK
  <2> QED
    BY <2>1, <2>2, <2>3
<1>29. ASSUME NEW c \in Conns, LoopSend(c) PROVE TypeOK'
  <2>1. PoolTypeOK'
    BY <1>29, ShiftType, AnswerType, PoolAssumption DEF LoopSend, PoolTypeOK, States, Phases, Kinds
  <2>2. ConnsTypeOK'
    <3>1. Head(queue) \in Ops
      BY <1>29 DEF LoopSend, OpsTypeOK
    <3>2. workItems' = workItems \/ workItems' = [workItems EXCEPT ![c] = @ \cup {Head(queue)}]
      BY <1>29 DEF LoopSend
    <3> QED
      BY <1>29, <3>1, <3>2 DEF LoopSend, ConnsTypeOK
  <2>3. OpsTypeOK'
    BY <1>29, ShiftType, AnswerType, PoolAssumption DEF LoopSend, OpsTypeOK
  <2> QED
    BY <2>1, <2>2, <2>3
<1>30. CASE LoopResume
  <2>1. PoolTypeOK'
    BY <1>30 DEF LoopResume, PoolTypeOK, States, Phases, Kinds
  <2>2. ConnsTypeOK'
    BY <1>30 DEF LoopResume, ConnsTypeOK, SockStates
  <2>3. OpsTypeOK'
    BY <1>30 DEF LoopResume, OpsTypeOK
  <2> QED
    BY <2>1, <2>2, <2>3
<1> QED
    BY <1>1, <1>2, <1>3, <1>4, <1>5, <1>6, <1>7, <1>8, <1>9, <1>10, <1>11, <1>12,
     <1>13, <1>14, <1>15, <1>16, <1>17, <1>18, <1>19, <1>20, <1>21, <1>22, <1>23, <1>24,
     <1>25, <1>26, <1>27, <1>28, <1>29, <1>30
     DEF Next, Client, Opening, Event, Loop, Scheduled

(* The variables keep their types: TypeOK of every run. *)
THEOREM TypeCorrect == Spec => []TypeOK
<1>1. Init => TypeOK
  BY TypeInit
<1>2. TypeOK /\ [Next]_vars => TypeOK'
  BY TypeStep
<1> QED
  BY <1>1, <1>2, PTL DEF Spec

(***************************************************************************)
(* Every operation is in one place and answered at most once               *)
(***************************************************************************)

Pending == Queued \cup serializing \cup InFlight

(* What is pending was written, and nothing is answered before that.       *)
Submitted == Pending \subseteq written /\ \A o \in Ops \ written : calls[o] = 0

(* AnsweredOnce is not inductive alone: that an answered operation is not  *)
(* answered again rests on its being in no second place, and that one is   *)
(* not written again on its being known as written.                        *)
OpsInv == TypeOK /\ AnsweredOnce /\ OnePlace /\ Submitted

(* The queue operations, on a queue without repetitions. *)
LEMMA KeptRange ==
  ASSUME NEW S, NEW q \in Seq(S), IsInjective(q)
  PROVE  /\ IsInjective(Kept(q))
         /\ Range(Kept(q)) \subseteq Range(q)
         /\ Flushed(q) \subseteq Range(q)
         /\ Range(Kept(q)) \cap Flushed(q) = {}
<1>1. Len(q) \in Nat /\ DOMAIN q = 1..Len(q)
  OBVIOUS
<1> DEFINE n == Len(q) \div 2
<1>2. n \in Nat /\ 2 * n <= Len(q)
  BY <1>1
<1>3. /\ DOMAIN Kept(q) = 1..n
      /\ \A k \in 1..n : Kept(q)[k] = q[2 * k] /\ 2 * k \in DOMAIN q
  BY <1>1, <1>2 DEF Kept
<1>4. IsInjective(Kept(q))
  BY <1>1, <1>3 DEF IsInjective
<1>5. Range(Kept(q)) \subseteq Range(q)
  BY <1>3 DEF Range
<1>6. Flushed(q) \subseteq Range(q)
  BY DEF Flushed, Range
<1>7. ASSUME NEW x \in Range(Kept(q)), x \in Flushed(q) PROVE FALSE
  <2>1. PICK k \in 1..n : x = q[2 * k] /\ 2 * k \in DOMAIN q
    BY <1>3, <1>7 DEF Range
  <2>2. PICK j \in DOMAIN q : x = q[j] /\ j % 2 = 1
    BY <1>7 DEF Flushed
  <2>3. j = 2 * k
    BY <2>1, <2>2 DEF IsInjective
  <2> QED
    BY <1>1, <1>2, <2>1, <2>2, <2>3
<1> QED
  BY <1>4, <1>5, <1>6, <1>7

LEMMA ShiftRange ==
  ASSUME NEW S, NEW q \in Seq(S), q # << >>, IsInjective(q)
  PROVE  /\ IsInjective(Shift(q))
         /\ Head(q) \in Range(q)
         /\ Range(Shift(q)) = Range(q) \ {Head(q)}
<1>1. /\ Len(q) \in Nat \ {0} /\ DOMAIN q = 1..Len(q) /\ Head(q) = q[1]
      /\ DOMAIN Shift(q) = 1..(Len(q) - 1)
      /\ \A k \in 1..(Len(q) - 1) : Shift(q)[k] = q[k + 1]
  BY DEF Shift
<1>2. IsInjective(Shift(q))
  BY <1>1 DEF IsInjective
<1>3. Head(q) \in Range(q)
  BY <1>1 DEF Range
<1>4. Range(Shift(q)) \subseteq Range(q) \ {Head(q)}
  BY <1>1 DEF Range, IsInjective
<1>5. ASSUME NEW x \in Range(q), x # Head(q) PROVE x \in Range(Shift(q))
  <2>1. PICK k \in 1..Len(q) : x = q[k]
    BY <1>1, <1>5 DEF Range
  <2>2. k - 1 \in 1..(Len(q) - 1) /\ Shift(q)[k - 1] = x
    BY <1>1, <1>5, <2>1
  <2> QED
    BY <1>1, <2>2 DEF Range
<1> QED
  BY <1>2, <1>3, <1>4, <1>5

LEMMA AppendRange ==
  ASSUME NEW S, NEW q \in Seq(S), NEW o \in S, o \notin Range(q), IsInjective(q),
         NEW a, a = Append(q, o)
  PROVE  IsInjective(a) /\ Range(a) = Range(q) \cup {o}
<1>1. Len(q) \in Nat /\ DOMAIN q = 1..Len(q) /\ \A k \in 1..Len(q) : q[k] # o
  BY DEF Range
<1>2. /\ DOMAIN a = 1..(Len(q) + 1) /\ a[Len(q) + 1] = o
      /\ \A k \in 1..Len(q) : a[k] = q[k]
  BY <1>1
<1>3. IsInjective(a)
  BY <1>1, <1>2 DEF IsInjective
<1>4. Range(a) \subseteq Range(q) \cup {o}
  BY <1>1, <1>2 DEF Range
<1>5. Range(q) \subseteq Range(a) /\ o \in Range(a)
  BY <1>1, <1>2 DEF Range
<1> QED
  BY <1>3, <1>4, <1>5

LEMMA PrependRange ==
  ASSUME monq \in Seq(MonitoringOps), NEW o \in MonitoringOps, o \notin Range(monq),
         IsInjective(monq), monq' = <<o>> \o monq
  PROVE  IsInjective(monq') /\ Range(monq') = Range(monq) \cup {o}
<1> DEFINE q == monq
           p == monq'
<1>0. q \in Seq(MonitoringOps) /\ o \notin Range(q) /\ IsInjective(q) /\ p = <<o>> \o q
  OBVIOUS
<1> HIDE DEF q, p
<1>1. Len(q) \in Nat /\ DOMAIN q = 1..Len(q) /\ \A k \in 1..Len(q) : q[k] # o
  BY <1>0 DEF Range
<1>2. /\ DOMAIN p = 1..(Len(q) + 1) /\ p[1] = o
      /\ \A k \in 2..(Len(q) + 1) : p[k] = q[k - 1]
  BY <1>0, <1>1
<1>3. IsInjective(p)
  <2>1. IsInjective(q)
    BY <1>0
  <2>2. SUFFICES ASSUME NEW i \in DOMAIN p, NEW k \in DOMAIN p, p[i] = p[k] PROVE i = k
    BY DEF IsInjective
  <2>3. \A m \in 2..(Len(q) + 1) : m - 1 \in 1..Len(q) /\ p[m] = q[m - 1] /\ p[m] # o
    BY <1>1, <1>2
  <2>4. CASE i = 1 \/ k = 1
    BY <1>1, <1>2, <2>2, <2>3, <2>4
  <2>5. CASE i # 1 /\ k # 1
    <3>1. i \in 2..(Len(q) + 1) /\ k \in 2..(Len(q) + 1)
      BY <1>1, <1>2, <2>5
    <3>2. i - 1 \in DOMAIN q /\ k - 1 \in DOMAIN q /\ q[i - 1] = q[k - 1]
      BY <1>1, <2>2, <2>3, <3>1
    <3>3. i - 1 = k - 1
      BY <2>1, <3>2 DEF IsInjective
    <3> QED
      BY <1>1, <3>1, <3>3
  <2> QED
    BY <2>4, <2>5
<1>4. ASSUME NEW x \in Range(p) PROVE x \in Range(q) \cup {o}
  <2>1. PICK k \in 1..(Len(q) + 1) : x = p[k]
    BY <1>2, <1>4 DEF Range
  <2>2. CASE k = 1
    BY <1>2, <2>1, <2>2
  <2>3. CASE k # 1
    <3>1. k \in 2..(Len(q) + 1) /\ k - 1 \in DOMAIN q
      BY <1>1, <2>3
    <3>2. x = q[k - 1]
      BY <1>2, <2>1, <3>1
    <3> QED
      BY <3>1, <3>2 DEF Range
  <2> QED
    BY <2>2, <2>3
<1>5. ASSUME NEW x \in Range(q) PROVE x \in Range(p)
  <2>1. PICK k \in 1..Len(q) : x = q[k]
    BY <1>1 DEF Range
  <2>2. k + 1 \in 2..(Len(q) + 1) /\ (k + 1) - 1 = k
    BY <1>1
  <2>3. p[k + 1] = x /\ k + 1 \in DOMAIN p
    BY <1>1, <1>2, <2>1, <2>2
  <2> QED
    BY <2>3 DEF Range
<1>6. o \in Range(p)
  <2>1. 1 \in DOMAIN p /\ p[1] = o
    BY <1>1, <1>2
  <2> QED
    BY <2>1 DEF Range
<1> QED
  BY <1>3, <1>4, <1>5, <1>6 DEF q, p

LEMMA RangesApart ==
  ASSUME OpsTypeOK
  PROVE  Range(monq) \subseteq MonitoringOps /\ Range(queue) \subseteq Ops \ MonitoringOps
BY DEF OpsTypeOK, Range

LEMMA NoAnswer ==
  ASSUME OpsTypeOK, calls' = calls
  PROVE  Answer({})
BY DEF OpsTypeOK, Answer

(* What an action has to do to keep the invariant: answer only operations  *)
(* that are pending, or new, and leave what it answers nowhere.            *)
LEMMA Effect ==
  ASSUME OpsInv, TypeOK', OnePlace',
         NEW N \in SUBSET (Ops \ written), written' = written \cup N,
         NEW A \in SUBSET (Pending \cup N), Answer(A),
         Pending' \subseteq (Pending \cup N) \ A
  PROVE  OpsInv'
<1> USE DEF OpsInv
<1>1. \A o \in Ops : calls'[o] = calls[o] + (IF o \in A THEN 1 ELSE 0)
  BY DEF Answer
<1>2. \A o \in Ops : calls[o] \in Nat /\ calls[o] <= 1
  BY DEF TypeOK, OpsTypeOK, AnsweredOnce
<1>3. \A o \in Ops : o \in Pending \cup N => calls[o] = 0
  BY DEF AnsweredOnce, Submitted, Pending
<1>4. \A o \in Ops : calls'[o] <= 1
  BY <1>1, <1>2, <1>3
<1>5. \A o \in Ops : o \in Pending' => calls'[o] = 0
  BY <1>1, <1>3
<1>6. AnsweredOnce'
  BY <1>4, <1>5 DEF AnsweredOnce, Pending
<1>7. Submitted'
  <2>1. Pending' \subseteq written'
    BY DEF Submitted
  <2>2. ASSUME NEW o \in Ops \ written' PROVE calls'[o] = 0
    <3>1. o \notin A /\ calls[o] = 0
      BY DEF Submitted
    <3> QED
      BY <1>1, <3>1
  <2> QED
    BY <2>1, <2>2 DEF Submitted
<1> QED
  BY <1>6, <1>7

LEMMA EffectOnPending ==
  ASSUME OpsInv, TypeOK', OnePlace', written' = written,
         NEW A, A \subseteq Pending, Answer(A), Pending' \subseteq Pending \ A
  PROVE  OpsInv'
<1> DEFINE N == {}
<1>1. N \in SUBSET (Ops \ written) /\ written' = written \cup N
  OBVIOUS
<1>2. A \in SUBSET (Pending \cup N) /\ Pending' \subseteq (Pending \cup N) \ A
  OBVIOUS
<1> HIDE DEF N
<1> QED
  BY <1>1, <1>2, Effect

(* Actions that touch neither the queue nor the operations in flight. *)
LEMMA FrameOps ==
  ASSUME OpsInv, TypeOK', UNCHANGED <<workItems, ops>>
  PROVE  OpsInv'
<1>1. OnePlace' /\ Pending' = Pending
  BY DEF OpsInv, OnePlace, Pending, Queued, InFlight, ops
<1>2. Answer({}) /\ written' = written
  BY NoAnswer DEF OpsInv, TypeOK, ops
<1> QED
  BY <1>1, <1>2, EffectOnPending

(* Monitoring operations are flushed from the queue. *)
LEMMA FlushOps ==
  ASSUME OpsInv, TypeOK', FlushMonitoringOperations,
         UNCHANGED <<queue, workItems, serializing, written>>
  PROVE  OpsInv'
<1> DEFINE A == Flushed(monq)
<1>1. /\ IsInjective(monq') /\ Range(monq') \subseteq Range(monq)
      /\ A \subseteq Range(monq) /\ Range(monq') \cap A = {}
  BY KeptRange DEF OpsInv, TypeOK, OpsTypeOK, OnePlace, FlushMonitoringOperations
<1>2. Range(queue) \cap A = {}
  BY <1>1, RangesApart DEF OpsInv, TypeOK
<1>3. InFlight' = InFlight /\ Range(queue') = Range(queue) /\ IsInjective(queue')
  BY DEF InFlight, OpsInv, OnePlace
<1>4. Queued' \subseteq Queued \ A /\ A \subseteq Queued
  BY <1>1, <1>2, <1>3 DEF Queued
<1>5. OnePlace'
  BY <1>1, <1>3, <1>4 DEF OpsInv, OnePlace
<1>6. Pending' \subseteq Pending \ A /\ A \subseteq Pending
  BY <1>3, <1>4 DEF Pending, OpsInv, OnePlace
<1>7. Answer(A)
  BY DEF FlushMonitoringOperations
<1> QED
  BY <1>5, <1>6, <1>7, EffectOnPending

(* The operations of the set S, in flight on c, are answered and gone. *)
LEMMA AnswerInFlight ==
  ASSUME OpsInv, TypeOK', NEW c \in Conns, NEW S \in SUBSET workItems[c],
         workItems' = [workItems EXCEPT ![c] = @ \ S], Answer(S),
         UNCHANGED <<monq, queue, serializing, written>>
  PROVE  OpsInv'
<1>1. workItems \in [Conns -> SUBSET Ops]
  BY DEF OpsInv, TypeOK, ConnsTypeOK
<1>2. /\ workItems'[c] = workItems[c] \ S
      /\ \A d \in Conns \ {c} : workItems'[d] = workItems[d] /\ workItems[d] \cap S = {}
  BY <1>1 DEF OpsInv, OnePlace
<1>3. InFlight' \subseteq InFlight \ S /\ S \subseteq InFlight
  BY <1>2 DEF InFlight
<1>4. Queued' = Queued
  BY DEF Queued
<1>5. OnePlace'
  BY <1>2, <1>3, <1>4 DEF OpsInv, OnePlace
<1>6. Pending' \subseteq Pending \ S /\ S \subseteq Pending
  BY <1>3, <1>4 DEF Pending, OpsInv, OnePlace
<1> QED
  BY <1>5, <1>6, EffectOnPending

LEMMA EnqueueRange ==
  ASSUME OpsInv, NEW o \in Ops, o \notin Queued, Enqueue(o)
  PROVE  IsInjective(monq') /\ IsInjective(queue') /\ Queued' = Queued \cup {o}
<1> USE DEF OpsInv, TypeOK, OpsTypeOK, OnePlace
<1>1. CASE o \in MonitoringOps
  <2>1. IsInjective(monq') /\ Range(monq') = Range(monq) \cup {o}
    <3>1. monq \in Seq(MonitoringOps) /\ o \notin Range(monq) /\ IsInjective(monq)
      BY DEF Queued
    <3>2. monq' = <<o>> \o monq
      BY <1>1 DEF Enqueue
    <3> QED
      BY ONLY <1>1, <3>1, <3>2, PrependRange
  <2>2. queue' = queue
    BY <1>1 DEF Enqueue
  <2> QED
    BY <2>1, <2>2 DEF Queued
<1>2. CASE o \notin MonitoringOps
  <2>1. IsInjective(queue') /\ Range(queue') = Range(queue) \cup {o}
    <3>1. queue \in Seq(Ops) /\ o \notin Range(queue) /\ IsInjective(queue)
      BY DEF Queued
    <3>2. queue' = Append(queue, o)
      BY <1>2 DEF Enqueue
    <3> QED
      BY ONLY <3>1, <3>2, AppendRange
  <2>2. monq' = monq
    BY <1>2 DEF Enqueue
  <2> QED
    BY <2>1, <2>2 DEF Queued
<1> QED
  BY <1>1, <1>2

(* A new operation, or one that was compressed, enters the queue. *)
LEMMA EnqueueOps ==
  ASSUME OpsInv, TypeOK', NEW o \in Ops, o \notin Queued \cup InFlight, Enqueue(o),
         UNCHANGED <<workItems, calls>>,
         serializing' = serializing \ {o}, written' = written \cup {o},
         o \in written => o \in serializing
  PROVE  OpsInv'
<1>1. InFlight' = InFlight
  BY DEF InFlight
<1>2. /\ IsInjective(monq') /\ IsInjective(queue')
      /\ Queued' = Queued \cup {o}
  BY EnqueueRange
<1>3. OnePlace'
  BY <1>1, <1>2 DEF OpsInv, OnePlace
<1>4. Answer({})
  BY NoAnswer DEF OpsInv, TypeOK
<1>5. Pending' = Pending \cup {o}
  BY <1>1, <1>2 DEF Pending
<1>6. CASE o \in written
  <2>1. Pending' = Pending /\ written' = written
    BY <1>5, <1>6 DEF Pending
  <2> QED
    BY <1>3, <1>4, <2>1, EffectOnPending
<1>7. CASE o \notin written
  <2> DEFINE N == {o}
             A == {}
  <2>1. N \in SUBSET (Ops \ written) /\ written' = written \cup N
    BY <1>7
  <2>2. A \in SUBSET (Pending \cup N) /\ Pending' \subseteq (Pending \cup N) \ A
    BY <1>5
  <2>3. Answer(A)
    BY <1>4
  <2> HIDE DEF N, A
  <2> QED
    BY <1>3, <2>1, <2>2, <2>3, Effect
<1> QED
  BY <1>6, <1>7

(* destroy(true), where the connections in "failed" have just failed. *)
LEMMA ForceDestroyOps ==
  ASSUME OpsInv, TypeOK', NEW failed \in SUBSET Conns, ForceDestroy(failed),
         UNCHANGED <<serializing, written>>
  PROVE  OpsInv'
<1> DEFINE A == Queued \cup UNION {workItems[c] : c \in failed}
<1>1. workItems \in [Conns -> SUBSET Ops]
  BY DEF OpsInv, TypeOK, ConnsTypeOK
<1>2. Range(monq') = {} /\ Range(queue') = {} /\ IsInjective(monq') /\ IsInjective(queue')
  BY DEF ForceDestroy, Range, IsInjective
<1>3. Queued' = {}
  BY <1>2 DEF Queued
<1>4. \A c \in Conns : workItems'[c] \subseteq workItems[c] \ A
  <2>1. ASSUME NEW c \in Conns, NEW o \in workItems'[c] PROVE o \in workItems[c] /\ o \notin A
    <3>1. c \notin Listed \cup failed /\ o \in workItems[c]
      BY <1>1, <2>1 DEF ForceDestroy
    <3>2. o \notin Queued
      BY <3>1 DEF OpsInv, OnePlace, InFlight
    <3>3. ASSUME NEW d \in failed PROVE o \notin workItems[d]
      BY <3>1, <3>3 DEF OpsInv, OnePlace
    <3> QED
      BY <3>1, <3>2, <3>3
  <2> QED
    BY <2>1
<1>5. InFlight' \subseteq InFlight \ A /\ A \subseteq Queued \cup InFlight
  BY <1>4 DEF InFlight
<1>6. OnePlace'
  BY <1>2, <1>3, <1>4, <1>5 DEF OpsInv, OnePlace
<1>7. Pending' \subseteq Pending \ A /\ A \subseteq Pending
  BY <1>3, <1>5 DEF Pending, OpsInv, OnePlace
<1>8. Answer(A)
  BY DEF ForceDestroy
<1> HIDE DEF A
<1> QED
  BY <1>6, <1>7, <1>8, EffectOnPending

(* The first operation of a queue goes in flight on c. *)
LEMMA SendOps ==
  ASSUME OpsInv, TypeOK', NEW c \in Conns, NEW o \in Queued,
         IsInjective(monq'), IsInjective(queue'), Queued' = Queued \ {o},
         workItems' = [workItems EXCEPT ![c] = @ \cup {o}],
         UNCHANGED <<serializing, written, calls>>
  PROVE  OpsInv'
<1>1. workItems \in [Conns -> SUBSET Ops]
  BY DEF OpsInv, TypeOK, ConnsTypeOK
<1>2. /\ workItems'[c] = workItems[c] \cup {o}
      /\ \A d \in Conns \ {c} : workItems'[d] = workItems[d]
  BY <1>1
<1>3. InFlight' = InFlight \cup {o}
  BY <1>2 DEF InFlight
<1>4. \A d \in Conns : o \notin workItems[d]
  BY DEF OpsInv, OnePlace, InFlight
<1>5. OnePlace'
  BY <1>2, <1>3, <1>4 DEF OpsInv, OnePlace
<1>6. Pending' = Pending
  BY <1>3 DEF Pending
<1>7. Answer({})
  BY NoAnswer DEF OpsInv, TypeOK
<1> QED
  BY <1>5, <1>6, <1>7, EffectOnPending

(* The invariant is kept by every step. *)
LEMMA OpsInit == Init => OpsInv
<1> SUFFICES ASSUME Init PROVE OpsInv
  OBVIOUS
<1>1. Range(monq) = {} /\ Range(queue) = {} /\ IsInjective(monq) /\ IsInjective(queue)
  BY DEF Init, Range, IsInjective
<1>2. InFlight = {} /\ Queued = {} /\ serializing = {}
  BY <1>1 DEF Init, InFlight, Queued
<1>3. OnePlace
  BY <1>1, <1>2 DEF Init, OnePlace
<1>4. AnsweredOnce /\ Submitted
  BY <1>2 DEF Init, AnsweredOnce, Submitted, Pending
<1> QED
  BY <1>3, <1>4, TypeInit DEF OpsInv

LEMMA OpsStep == OpsInv /\ [Next]_vars => OpsInv'
<1> SUFFICES ASSUME OpsInv, [Next]_vars PROVE OpsInv'
  OBVIOUS
<1>0. TypeOK /\ TypeOK'
  BY TypeStep DEF OpsInv
<1>a. ASSUME UNCHANGED <<workItems, ops>> PROVE OpsInv'
  BY <1>0, <1>a, FrameOps
<1> USE DEF conns, ops
<1>1. CASE UNCHANGED vars
  BY <1>1, <1>a DEF vars
<1>2. CASE Connect
  BY <1>2, <1>a DEF Connect
<1>3. ASSUME NEW o \in Ops, Write(o) PROVE OpsInv'
  <2>1. o \notin Pending /\ o \in Ops \ written /\ written' = written \cup {o}
    BY <1>3 DEF Write, OpsInv, Submitted
  <2>2. CASE IsDestroyed
    <3> DEFINE N == {o}
    <3>1. Answer(N)
      BY <1>3, <2>2 DEF Write
    <3>2. UNCHANGED <<monq, queue, serializing, workItems>>
      BY <1>3, <2>2 DEF Write
    <3>3. OnePlace' /\ Pending' = Pending
      BY <3>2 DEF OpsInv, OnePlace, Pending, Queued, InFlight
    <3>4. N \in SUBSET (Ops \ written) /\ N \in SUBSET (Pending \cup N)
          /\ written' = written \cup N /\ Pending' \subseteq (Pending \cup N) \ N
      BY <2>1, <3>3
    <3> HIDE DEF N
    <3> QED
      BY <1>0, <3>1, <3>3, <3>4, Effect
  <2>3. CASE ~IsDestroyed /\ o \in CompressedOps
    <3> DEFINE N == {o}
               A == {}
    <3>1. UNCHANGED <<monq, queue, workItems, calls>> /\ serializing' = serializing \cup {o}
      BY <1>3, <2>3 DEF Write
    <3>2. Queued' = Queued /\ InFlight' = InFlight
      BY <3>1 DEF Queued, InFlight
    <3>3. Pending' = Pending \cup N
      BY <3>1, <3>2 DEF Pending
    <3>4. OnePlace'
      BY <2>1, <3>1, <3>2 DEF OpsInv, OnePlace, Pending
    <3>5. Answer(A)
      BY <3>1, NoAnswer DEF OpsInv, TypeOK
    <3>6. N \in SUBSET (Ops \ written) /\ written' = written \cup N
          /\ A \in SUBSET (Pending \cup N) /\ Pending' \subseteq (Pending \cup N) \ A
      BY <2>1, <3>3
    <3> HIDE DEF N, A
    <3> QED
      BY <1>0, <3>4, <3>5, <3>6, Effect
  <2>4. CASE ~IsDestroyed /\ o \notin CompressedOps
    <3>1. Enqueue(o) /\ UNCHANGED <<workItems, calls, serializing>>
      BY <1>3, <2>4 DEF Write
    <3>2. serializing' = serializing \ {o} /\ o \notin Queued \cup InFlight
      BY <2>1, <3>1 DEF Pending
    <3> QED
      BY <1>0, <2>1, <3>1, <3>2, EnqueueOps
  <2> QED
    BY <2>2, <2>3, <2>4
<1>b. ASSUME NEW n, CheckStatus(n), UNCHANGED <<serializing, written>> PROVE OpsInv'
  BY <1>0, <1>b, FlushOps DEF CheckStatus
<1>4. ASSUME NEW force \in BOOLEAN, Destroy(force) PROVE OpsInv'
  <2>1. CASE force
    <3>1. {} \in SUBSET Conns /\ ForceDestroy({}) /\ UNCHANGED <<serializing, written>>
      BY <1>4, <2>1 DEF Destroy
    <3> QED
      BY <1>0, <3>1, ForceDestroyOps
  <2>2. CASE ~force
    BY <1>4, <1>b, <2>2 DEF Destroy
  <2> QED
    BY <2>1, <2>2
<1>5. ASSUME NEW c \in Conns, Connected(c) \/ Created(c) \/ Reconnected(c) PROVE OpsInv'
  BY <1>5, <1>a DEF Connected, Created, Reconnected
<1>6. CASE ConnectFailed \/ CreateFailed \/ AttemptReconnect
  BY <1>6, <1>a DEF ConnectFailed, CreateFailed, AttemptReconnect
<1>7. CASE ReconnectFailed
  <2>1. CASE retriesLeft - 1 <= 0 /\ ~IsDestroyed
    BY <1>7, <2>1, <1>b DEF ReconnectFailed
  <2>2. CASE ~(retriesLeft - 1 <= 0 /\ ~IsDestroyed)
    BY <1>7, <2>2, <1>a DEF ReconnectFailed
  <2> QED
    BY <2>1, <2>2
<1>8. ASSUME NEW c \in Conns,
             SocketDies(c) \/ SocketClosed(c) \/ ConnectionDestroyed(c) \/ LateMessage(c)
      PROVE  OpsInv'
  BY <1>8, <1>a DEF SocketDies, SocketClosed, ConnectionDestroyed, LateMessage
<1>c. ASSUME NEW c \in Conns, FlushWorkItems(c), UNCHANGED <<monq, serializing, written>>
      PROVE  OpsInv'
  <2> DEFINE S == workItems[c]
  <2>1. workItems' = [workItems EXCEPT ![c] = @ \ S] /\ Answer(S) /\ S \in SUBSET workItems[c]
    BY <1>c DEF FlushWorkItems
  <2>2. UNCHANGED <<monq, queue, serializing, written>>
    BY <1>c DEF FlushWorkItems
  <2> HIDE DEF S
  <2> QED
    BY <1>0, <2>1, <2>2, AnswerInFlight
<1>9. ASSUME NEW c \in Conns, NEW event \in {"close", "timeout", "parseError"},
             ConnectionFails(c, event)
      PROVE  OpsInv'
  BY <1>9, <1>c DEF ConnectionFails
<1>10. ASSUME NEW c \in Conns, TooManyTimeouts(c) PROVE OpsInv'
  <2>1. CASE IsDestroyed
    BY <1>10, <1>c, <2>1 DEF TooManyTimeouts
  <2>2. CASE ~IsDestroyed
    <3>1. {c} \in SUBSET Conns /\ ForceDestroy({c}) /\ UNCHANGED <<serializing, written>>
      BY <1>10, <2>2 DEF TooManyTimeouts
    <3> QED
      BY <1>0, <3>1, ForceDestroyOps
  <2> QED
    BY <2>1, <2>2
<1>11. ASSUME NEW c \in Conns, NEW o \in Ops, Message(c, o) PROVE OpsInv'
  <2> DEFINE S == {o}
  <2>1. workItems' = [workItems EXCEPT ![c] = @ \ S] /\ Answer(S) /\ S \in SUBSET workItems[c]
    BY <1>11 DEF Message
  <2>2. UNCHANGED <<monq, queue, serializing, written>>
    BY <1>11 DEF Message
  <2> HIDE DEF S
  <2> QED
    BY <1>0, <2>1, <2>2, AnswerInFlight
<1>12. CASE Tick \/ RetryTimer
  BY <1>12, <1>a DEF Tick, RetryTimer
<1>13. CASE DrainTimer
  BY <1>13, <1>b DEF DrainTimer
<1>14. ASSUME NEW o \in Ops, Serialized(o) PROVE OpsInv'
  <2>1. o \notin Queued \cup InFlight /\ o \in written /\ written' = written \cup {o}
    BY <1>14 DEF Serialized, OpsInv, OnePlace, Submitted, Pending
  <2>2. /\ Enqueue(o) /\ UNCHANGED <<workItems, calls>> /\ o \in serializing
        /\ serializing' = serializing \ {o}
    BY <1>14 DEF Serialized
  <2> QED
    BY <1>0, <2>1, <2>2, EnqueueOps
<1>15. CASE LoopNoConnection
  BY <1>0, <1>15, FlushOps DEF LoopNoConnection, FlushAndBreak
<1>16. CASE LoopQueueEmpty \/ LoopNoMonitoringConnection \/ LoopResume
  BY <1>16, <1>a DEF LoopQueueEmpty, LoopNoMonitoringConnection, LoopResume
<1>17. ASSUME NEW c \in Conns, LoopDisconnected(c) PROVE OpsInv'
  BY <1>0, <1>17, FlushOps DEF LoopDisconnected, FlushAndBreak
<1>18. ASSUME NEW c \in Conns, LoopGrow(c) PROVE OpsInv'
  BY <1>18, <1>a DEF LoopGrow
<1>19. ASSUME NEW c \in Conns, LoopSendMonitoring(c) PROVE OpsInv'
  <2> DEFINE o == Head(monq)
  <2>1. /\ monq' = Shift(monq) /\ monq # << >>
        /\ workItems' = [workItems EXCEPT ![c] = @ \cup {o}]
        /\ UNCHANGED <<queue, serializing, written, calls>>
    BY <1>19 DEF LoopSendMonitoring
  <2>2. IsInjective(monq') /\ o \in Range(monq) /\ Range(monq') = Range(monq) \ {o}
    BY <1>0, <2>1, ShiftRange DEF TypeOK, OpsTypeOK, OpsInv, OnePlace
  <2>3. o \in Queued /\ Queued' = Queued \ {o} /\ IsInjective(queue')
    BY <1>0, <2>1, <2>2, RangesApart DEF TypeOK, Queued, OpsInv, OnePlace
  <2> HIDE DEF o
  <2> QED
    BY <1>0, <2>1, <2>2, <2>3, SendOps
<1>20. ASSUME NEW c \in Conns, LoopSend(c) PROVE OpsInv'
  <2> DEFINE o == Head(queue)
  <2>1. /\ queue' = Shift(queue) /\ queue # << >>
        /\ UNCHANGED <<monq, serializing, written>>
    BY <1>20 DEF LoopSend
  <2>2. IsInjective(queue') /\ o \in Range(queue) /\ Range(queue') = Range(queue) \ {o}
    BY <1>0, <2>1, ShiftRange DEF TypeOK, OpsTypeOK, OpsInv, OnePlace
  <2>3. o \in Queued /\ Queued' = Queued \ {o} /\ IsInjective(monq')
    BY <1>0, <2>1, <2>2, RangesApart DEF TypeOK, Queued, OpsInv, OnePlace
  <2>4. CASE o \notin NoResponseOps
    <3>1. workItems' = [workItems EXCEPT ![c] = @ \cup {o}] /\ UNCHANGED calls
      BY <1>20, <2>4 DEF LoopSend
    <3> HIDE DEF o
    <3> QED
      BY <1>0, <2>1, <2>2, <2>3, <3>1, SendOps
  <2>5. CASE o \in NoResponseOps
    <3> DEFINE A == {o}
    <3>1. Answer(A) /\ workItems' = workItems
      BY <1>20, <2>5 DEF LoopSend
    <3>2. InFlight' = InFlight
      BY <3>1 DEF InFlight
    <3>3. OnePlace'
      BY <2>1, <2>2, <2>3, <3>1, <3>2 DEF OpsInv, OnePlace
    <3>4. Pending' \subseteq Pending \ A /\ A \subseteq Pending
      BY <2>1, <2>3, <3>2 DEF Pending, OpsInv, OnePlace
    <3> HIDE DEF A
    <3> QED
      BY <1>0, <2>1, <3>1, <3>3, <3>4, EffectOnPending
  <2> QED
    BY <2>4, <2>5
<1> QED
  BY <1>1, <1>2, <1>3, <1>4, <1>5, <1>6, <1>7, <1>8, <1>9, <1>10, <1>11, <1>12, <1>13,
     <1>14, <1>15, <1>16, <1>17, <1>18, <1>19, <1>20
     DEF Next, Client, Opening, Event, Loop, Scheduled

(* For every pool, each operation is in one place at most and its callback *)
(* is called at most once, however its response, the failure of its        *)
(* connection, a flush and the pool's destruction come together.           *)
THEOREM AnsweredAtMostOnce == Spec => [](AnsweredOnce /\ OnePlace)
<1>1. Init => OpsInv
  BY OpsInit
<1>2. OpsInv /\ [Next]_vars => OpsInv'
  BY OpsStep
<1>3. OpsInv => AnsweredOnce /\ OnePlace
  BY DEF OpsInv
<1> QED
  BY <1>1, <1>2, <1>3, PTL DEF Spec

(***************************************************************************)
(* The lists of connections and the count of attempts                      *)
(***************************************************************************)

Attempts == attempts["connect"] + attempts["create"] + attempts["reconnect"]

(* Sockets were ended by checkStatus, the last one will close the pool. *)
Ending == \E c \in Conns : sock[c] \in {"finishing", "finished"}

(* checkStatus either waits for its timer or has ended every connection of *)
(* the pool, never both; a destroyed pool holds none.                      *)
Draining ==
  /\ drainTimer => state = "destroying"
  /\ Ending => /\ state = "destroying" /\ ~drainTimer
               /\ \A c \in Listed : sock[c] \in {"finishing", "finished"}
  /\ state = "destroyed" => Listed = {}

ConnsInv == TypeOK /\ InUseNotLeaked /\ ListsSound /\ ConnectingCounted /\ Draining

LEMMA AttemptsType ==
  ASSUME TypeOK
  PROVE  /\ attempts["connect"] \in Nat /\ attempts["create"] \in Nat
         /\ attempts["reconnect"] \in Nat /\ Attempts \in Nat
BY DEF TypeOK, PoolTypeOK, Kinds, Attempts

(* An attempt that is over is counted once less.                           *)
LEMMA AttemptDoneCount ==
  ASSUME ConnsInv, NEW kind \in Kinds, AttemptDone(kind)
  PROVE  /\ attempts'[kind] = attempts[kind] - 1
         /\ \A k \in Kinds \ {kind} : attempts'[k] = attempts[k]
         /\ connecting' = connecting - 1
         /\ Attempts' = Attempts - 1
         /\ attempts[kind] > 0
<1>1. attempts \in [Kinds -> Nat]
  BY DEF ConnsInv, TypeOK, PoolTypeOK
<1>2. /\ attempts'[kind] = attempts[kind] - 1
      /\ \A k \in Kinds \ {kind} : attempts'[k] = attempts[k]
      /\ connecting' = connecting - 1 /\ attempts[kind] > 0
  BY <1>1 DEF AttemptDone
<1>3. Attempts' = Attempts - 1
  BY <1>1, <1>2 DEF Attempts, Kinds
<1> QED
  BY <1>2, <1>3

LEMMA CreateConnectionCount ==
  ASSUME TypeOK, NEW n, CreateConnection(n)
  PROVE  IF IsDestroyed
         THEN attempts' = attempts /\ connecting' = n
         ELSE /\ attempts'["create"] = attempts["create"] + 1
              /\ attempts'["connect"] = attempts["connect"]
              /\ attempts'["reconnect"] = attempts["reconnect"]
              /\ connecting' = n + 1
BY DEF CreateConnection, TypeOK, PoolTypeOK, Kinds

(* checkStatus, called with an attempt the less or as they are. *)
LEMMA CheckStatusConns ==
  ASSUME ConnsInv, TypeOK', NEW n \in Int, CheckStatus(n),
         state # "destroyed", ~Ending,
         n = Attempts', attempts'["reconnect"] <= 1,
         attempts'["reconnect"] = 1 => reconnectId' = "spent"
  PROVE  ConnsInv'
<1> USE DEF lists
<1>1. UNCHANGED <<available, inUse, workItems>> /\ Listed' = Listed
  BY DEF CheckStatus, Listed
<1>2. \/ sock' = sock /\ drainTimer' = TRUE /\ state' = "destroying" /\ connecting' = n
      \/ /\ sock' = [c \in Conns |-> IF c \in Listed THEN "finishing" ELSE sock[c]]
         /\ drainTimer' = FALSE
         /\ \/ state' = "destroying" /\ connecting' = n
            \/ state' = "destroyed" /\ Listed = {}
  BY DEF CheckStatus
<1>3. sock \in [Conns -> SockStates] /\ Listed \subseteq Conns
  BY DEF ConnsInv, TypeOK, ConnsTypeOK, Listed
<1>4. InUseNotLeaked'
  BY <1>1, <1>2, <1>3 DEF ConnsInv, InUseNotLeaked, Listed
<1>5. ListsSound'
  BY <1>1, <1>2, <1>3 DEF ConnsInv, ListsSound
<1>6. ConnectingCounted'
  BY <1>2 DEF ConnectingCounted, Attempts
<1>7. Draining'
  BY <1>1, <1>2, <1>3 DEF ConnsInv, Draining, Ending
<1> QED
  BY <1>4, <1>5, <1>6, <1>7 DEF ConnsInv

(* destroy(true) leaves the pool without connections. *)
LEMMA ForceDestroyConns ==
  ASSUME ConnsInv, TypeOK', NEW failed \in SUBSET Conns, ForceDestroy(failed),
         ~IsDestroyed, UNCHANGED <<attempts, reconnectId, drainTimer>>
  PROVE  ConnsInv'
<1>1. available' = {} /\ inUse' = {} /\ Listed' = {} /\ state' = "destroyed"
  BY DEF ForceDestroy, Listed
<1>2. \A c \in Conns : sock'[c] = IF c \in failed THEN "ending"
                                  ELSE IF c \in Listed THEN "none" ELSE sock[c]
  BY DEF ForceDestroy
<1>3. ~Ending /\ ~drainTimer
  BY DEF ConnsInv, Draining, IsDestroyed
<1>4. \A c \in Conns : sock'[c] \notin {"open", "finishing", "finished"}
  BY <1>2, <1>3 DEF ConnsInv, ListsSound, Ending
<1>5. InUseNotLeaked' /\ ListsSound' /\ Draining'
  BY <1>1, <1>3, <1>4 DEF InUseNotLeaked, ListsSound, Draining, Ending
<1>6. ConnectingCounted'
  BY <1>1 DEF ConnsInv, ConnectingCounted
<1> QED
  BY <1>5, <1>6 DEF ConnsInv

(* A new connection joins the pool, or is dropped when it is destroyed. *)
LEMMA JoinConns ==
  ASSUME ConnsInv, TypeOK', NEW c \in Conns, sock[c] = "none", ~IsDestroyed,
         available' = available \cup {c}, sock' = [sock EXCEPT ![c] = "open"],
         UNCHANGED <<inUse, workItems, drainTimer>>,
         state' \notin {"destroying", "destroyed"}, ConnectingCounted'
  PROVE  ConnsInv'
<1>1. sock \in [Conns -> SockStates] /\ Listed \subseteq Conns
  BY DEF ConnsInv, TypeOK, ConnsTypeOK, Listed
<1>2. c \notin Listed /\ Listed' = Listed \cup {c}
  BY DEF ConnsInv, ListsSound, Listed
<1>3. sock'[c] = "open" /\ \A d \in Conns \ {c} : sock'[d] = sock[d]
  BY <1>1
<1>4. InUseNotLeaked'
  BY <1>1, <1>2, <1>3 DEF ConnsInv, InUseNotLeaked, Listed
<1>5. ListsSound'
  BY <1>1, <1>2, <1>3 DEF ConnsInv, ListsSound, Listed
<1>6. ~Ending /\ ~drainTimer
  BY DEF ConnsInv, Draining, IsDestroyed
<1>7. Draining'
  BY <1>1, <1>3, <1>6 DEF Draining, Ending
<1> QED
  BY <1>4, <1>5, <1>7 DEF ConnsInv

(* A connection fails: it leaves both lists. *)
LEMMA FailConns ==
  ASSUME ConnsInv, TypeOK', NEW c \in Conns, NEW s \in {"none", "ending"},
         sock[c] \in {"open", "closing"},
         sock' = [sock EXCEPT ![c] = s], RemoveConnection(c), FlushWorkItems(c),
         UNCHANGED drainTimer,
         state' = state \/ (~IsDestroyed /\ state' \notin {"destroying", "destroyed"}),
         ConnectingCounted'
  PROVE  ConnsInv'
<1>1. sock \in [Conns -> SockStates] /\ Listed \subseteq Conns
      /\ workItems \in [Conns -> SUBSET Ops]
  BY DEF ConnsInv, TypeOK, ConnsTypeOK, Listed
<1>2. /\ available' = available \ {c} /\ inUse' = inUse \ {c} /\ Listed' = Listed \ {c}
      /\ \A d \in Conns \ {c} : sock'[d] = sock[d] /\ workItems'[d] = workItems[d]
      /\ sock'[c] = s
  BY <1>1 DEF RemoveConnection, FlushWorkItems, Listed
<1>3. InUseNotLeaked' /\ ListsSound'
  BY <1>1, <1>2 DEF ConnsInv, InUseNotLeaked, ListsSound, Listed
<1>4. Ending' => Ending
  BY <1>2 DEF Ending
<1>5. Draining'
  BY <1>1, <1>2, <1>4 DEF ConnsInv, Draining, IsDestroyed
<1> QED
  BY <1>3, <1>5 DEF ConnsInv

(* Actions that change no connection and leave the attempts as counted. *)
LEMMA FrameConns ==
  ASSUME ConnsInv, TypeOK', UNCHANGED <<state, lists, sock, workItems, drainTimer>>,
         ConnectingCounted'
  PROVE  ConnsInv'
<1>1. Listed' = Listed /\ Ending' = Ending
  BY DEF lists, Listed, Ending
<1>2. InUseNotLeaked' /\ ListsSound' /\ Draining'
  BY <1>1 DEF lists, ConnsInv, InUseNotLeaked, ListsSound, Draining
<1> QED
  BY <1>2 DEF ConnsInv

LEMMA FrameCount ==
  ASSUME ConnsInv, UNCHANGED <<connecting, attempts, reconnectId>>,
         state' = "destroyed" \/ state # "destroyed"
  PROVE  ConnectingCounted'
BY DEF ConnsInv, ConnectingCounted

LEMMA ConnsInit == Init => ConnsInv
<1> SUFFICES ASSUME Init PROVE ConnsInv
  OBVIOUS
<1>1. InUseNotLeaked /\ ListsSound /\ Draining
  BY DEF Init, InUseNotLeaked, ListsSound, Draining, Ending, Listed
<1>2. ConnectingCounted
  BY DEF Init, ConnectingCounted, Kinds
<1> QED
  BY <1>1, <1>2, TypeInit DEF ConnsInv

LEMMA ConnsStep == ConnsInv /\ [Next]_vars => ConnsInv'
<1> SUFFICES ASSUME ConnsInv, [Next]_vars PROVE ConnsInv'
  OBVIOUS
<1>0. TypeOK /\ TypeOK'
  BY TypeStep DEF ConnsInv
<1>i. ~IsDestroyed => state # "destroyed" /\ ~Ending /\ ~drainTimer
  BY DEF ConnsInv, Draining, IsDestroyed
<1>n. /\ connecting \in Int /\ Attempts \in Nat
      /\ state # "destroyed" => connecting = Attempts
      /\ attempts["reconnect"] \in 0..1
      /\ attempts["reconnect"] = 1 => reconnectId = "spent"
  BY <1>0, AttemptsType DEF ConnsInv, ConnectingCounted, Attempts, TypeOK, PoolTypeOK, Kinds
<1>f. ASSUME UNCHANGED <<state, lists, sock, workItems, drainTimer, connecting,
                         attempts, reconnectId>>
      PROVE  ConnsInv'
  BY <1>0, <1>f, FrameConns, FrameCount
<1> USE DEF lists, conns, timers, retry
<1>1. CASE UNCHANGED vars
  BY <1>1, <1>f DEF vars
<1>2. CASE Connect
  <2>1. state = "disconnected" /\ state' = "connecting" /\ ~IsDestroyed
    BY <1>2 DEF Connect, StateTransition, LegalTransitions, IsDestroyed
  <2>2. UNCHANGED <<available, inUse, sock, workItems, drainTimer, reconnectId>>
    BY <1>2 DEF Connect
  <2>3. ConnectingCounted'
    BY <1>2, <1>0, <1>n, <2>1, <2>2
       DEF Connect, ConnectingCounted, Attempts, TypeOK, PoolTypeOK, Kinds
  <2>4. Listed' = Listed /\ Ending' = Ending
    BY <2>2 DEF Listed, Ending
  <2>5. InUseNotLeaked' /\ ListsSound' /\ Draining'
    BY <2>1, <2>2, <2>4, <1>i DEF ConnsInv, InUseNotLeaked, ListsSound, Draining
  <2> QED
    BY <1>0, <2>3, <2>5 DEF ConnsInv
<1>3. ASSUME NEW o \in Ops, Write(o) PROVE ConnsInv'
  BY <1>3, <1>f DEF Write
<1>4. ASSUME NEW force \in BOOLEAN, Destroy(force) PROVE ConnsInv'
  <2>1. CASE force
    <3>1. ForceDestroy({}) /\ ~IsDestroyed /\ UNCHANGED <<attempts, reconnectId, drainTimer>>
      BY <1>4, <2>1 DEF Destroy
    <3> QED
      BY <3>1, <1>0, ForceDestroyConns
  <2>2. CASE ~force
    <3>1. CheckStatus(connecting) /\ attempts' = attempts /\ ~IsDestroyed
          /\ (reconnectId = "spent" => reconnectId' = "spent")
      BY <1>4, <2>2 DEF Destroy
    <3>2. connecting = Attempts'
      BY <1>i, <1>n, <3>1 DEF Attempts
    <3> QED
      BY <3>1, <3>2, <1>0, <1>i, <1>n, CheckStatusConns
  <2> QED
    BY <2>1, <2>2
<1>5. ASSUME NEW c \in Conns, Connected(c) PROVE ConnsInv'
  <2>1. CASE IsDestroyed
    <3>1. AttemptDone("connect")
          /\ UNCHANGED <<state, lists, sock, workItems, drainTimer, reconnectId>>
      BY <1>5, <2>1 DEF Connected
    <3>2. ConnectingCounted'
      BY <3>1, <1>n, AttemptDoneCount DEF Kinds, ConnectingCounted, Attempts
    <3> QED
      BY <3>1, <3>2, <1>0, FrameConns
  <2>2. CASE ~IsDestroyed
    <3> DEFINE growth == IF InTopology THEN 0 ELSE MinSize
    <3>1. growth \in Nat
      BY PoolAssumption
    <3>2. /\ connecting' = connecting - 1 + growth
          /\ attempts' = [attempts EXCEPT !["connect"] = @ - 1, !["create"] = @ + growth]
          /\ StateTransition("connected")
          /\ available' = available \cup {c} /\ sock' = [sock EXCEPT ![c] = "open"]
          /\ sock[c] = "none" /\ attempts["connect"] > 0
          /\ UNCHANGED <<inUse, workItems, drainTimer, reconnectId>>
      BY <1>5, <2>2 DEF Connected
    <3>3. state' \notin {"destroying", "destroyed"}
      BY <3>2, <2>2, <1>0 DEF StateTransition, LegalTransitions, IsDestroyed
    <3> HIDE DEF growth
    <3>4. ConnectingCounted'
      BY <3>1, <3>2, <1>0, <1>i, <1>n, <2>2
         DEF ConnectingCounted, Attempts, TypeOK, PoolTypeOK, Kinds
    <3> QED
      BY <3>2, <3>3, <3>4, <2>2, <1>0, JoinConns
  <2> QED
    BY <2>1, <2>2
<1>6. ASSUME NEW kind \in Kinds, AttemptDone(kind),
             UNCHANGED <<state, lists, sock, workItems, drainTimer>>,
             attempts["reconnect"] = 1 => kind = "reconnect" \/ reconnectId' = reconnectId
      PROVE  ConnsInv'
  <2>1. ConnectingCounted'
    BY <1>6, <1>n, AttemptDoneCount DEF Kinds, ConnectingCounted, Attempts
  <2> QED
    BY <1>6, <2>1, <1>0, FrameConns
<1>7. CASE ConnectFailed
  BY <1>7, <1>6 DEF ConnectFailed, Kinds
<1>8. ASSUME NEW c \in Conns, Created(c) PROVE ConnsInv'
  <2>1. CASE IsDestroyed
    BY <1>8, <2>1, <1>6 DEF Created, Kinds
  <2>2. CASE ~IsDestroyed
    <3>1. AttemptDone("create") /\ UNCHANGED <<state, inUse, workItems, drainTimer, reconnectId>>
      BY <1>8 DEF Created
    <3>2. ConnectingCounted'
      BY <3>1, <1>n, AttemptDoneCount DEF Kinds, ConnectingCounted, Attempts
    <3> QED
      BY <1>8, <2>2, <3>1, <3>2, <1>0, JoinConns DEF Created, IsDestroyed
  <2> QED
    BY <2>1, <2>2
<1>9. CASE CreateFailed
  BY <1>9, <1>6, <1>n DEF CreateFailed, ArmReconnect, Kinds
<1>10. CASE AttemptReconnect
  <2>1. UNCHANGED <<state, lists, sock, workItems, drainTimer>> /\ reconnectId = "armed"
    BY <1>10 DEF AttemptReconnect
  <2>2. attempts["reconnect"] = 0
    BY <2>1, <1>n
  <2>3. ConnectingCounted'
    BY <1>10, <2>2, <1>0, <1>i, <1>n DEF AttemptReconnect, ReconnectOver, ConnectingCounted,
       Attempts, TypeOK, PoolTypeOK, Kinds
  <2> QED
    BY <2>1, <2>3, <1>0, FrameConns
<1>11. ASSUME NEW c \in Conns, Reconnected(c) PROVE ConnsInv'
  <2>1. CASE IsDestroyed
    BY <1>11, <2>1, <1>6 DEF Reconnected, Kinds
  <2>2. CASE ~IsDestroyed
    <3>1. AttemptDone("reconnect") /\ UNCHANGED <<state, inUse, workItems, drainTimer>>
      BY <1>11 DEF Reconnected
    <3>2. ConnectingCounted'
      BY <3>1, <1>n, AttemptDoneCount DEF Kinds, ConnectingCounted, Attempts
    <3> QED
      BY <1>11, <2>2, <3>1, <3>2, <1>0, JoinConns DEF Reconnected, IsDestroyed
  <2> QED
    BY <2>1, <2>2
<1>12. CASE ReconnectFailed
  <2>1. /\ attempts["reconnect"] = 1 /\ attempts'["reconnect"] = 0
        /\ Attempts' = Attempts - 1
    BY <1>12, <1>0, <1>n DEF ReconnectFailed, Attempts, TypeOK, PoolTypeOK, Kinds
  <2>2. CASE retriesLeft - 1 <= 0 /\ ~IsDestroyed
    <3>1. CheckStatus(connecting - 1) /\ connecting - 1 = Attempts' /\ connecting - 1 \in Int
      BY <1>12, <2>1, <2>2, <1>i, <1>n DEF ReconnectFailed
    <3> QED
      BY <2>1, <2>2, <3>1, <1>0, <1>i, CheckStatusConns
  <2>3. CASE ~(retriesLeft - 1 <= 0 /\ ~IsDestroyed)
    <3>1. UNCHANGED <<state, lists, sock, workItems, drainTimer>> /\ connecting' = connecting - 1
      BY <1>12, <2>3 DEF ReconnectFailed
    <3>2. ConnectingCounted'
      BY <2>1, <3>1, <1>n DEF ConnectingCounted, Attempts
    <3> QED
      BY <3>1, <3>2, <1>0, FrameConns
  <2> QED
    BY <2>2, <2>3
<1>13. ASSUME NEW c \in Conns, SocketDies(c) \/ SocketClosed(c) PROVE ConnsInv'
  <2>1. /\ UNCHANGED <<state, lists, workItems, drainTimer, connecting, attempts, reconnectId>>
        /\ \/ sock[c] = "open" /\ sock' = [sock EXCEPT ![c] = "closing"]
           \/ sock[c] = "ending" /\ sock' = [sock EXCEPT ![c] = "none"]
    BY <1>13 DEF SocketDies, SocketClosed
  <2>2. sock \in [Conns -> SockStates] /\ Listed' = Listed /\ Listed \subseteq Conns
    BY <1>0, <2>1 DEF TypeOK, ConnsTypeOK, Listed
  <2>3. ConnectingCounted'
    BY <2>1, FrameCount
  <2>4. InUseNotLeaked' /\ ListsSound'
    BY <2>1, <2>2 DEF ConnsInv, InUseNotLeaked, ListsSound, Listed
  <2>5. Draining'
    BY <2>1, <2>2 DEF ConnsInv, ListsSound, Draining, Ending
  <2> QED
    BY <2>3, <2>4, <2>5, <1>0 DEF ConnsInv
<1>14. ASSUME NEW c \in Conns, ConnectionDestroyed(c) PROVE ConnsInv'
  <2>1. UNCHANGED <<workItems, drainTimer, attempts, reconnectId>> /\ sock[c] = "finishing"
    BY <1>14 DEF ConnectionDestroyed
  <2>2. sock \in [Conns -> SockStates] /\ Listed \subseteq Conns /\ inUse \subseteq Conns
    BY <1>0 DEF TypeOK, ConnsTypeOK, Listed
  <2>3. /\ state = "destroying" /\ ~drainTimer
        /\ \A d \in Listed : sock[d] \in {"finishing", "finished"}
        /\ \A d \in Conns : sock[d] # "open"
    BY <2>1 DEF ConnsInv, Draining, Ending, ListsSound
  <2>4. CASE \E d \in Conns \ {c} : sock[d] = "finishing"
    <3>1. sock' = [sock EXCEPT ![c] = "finished"] /\ UNCHANGED <<state, lists, connecting>>
      BY <1>14, <2>4 DEF ConnectionDestroyed
    <3>2. InUseNotLeaked' /\ ListsSound'
      BY <2>1, <2>2, <3>1 DEF ConnsInv, InUseNotLeaked, ListsSound, Listed
    <3>3. Draining'
      BY <2>1, <2>2, <2>3, <3>1 DEF Draining, Listed
    <3>4. ConnectingCounted'
      BY <2>1, <3>1, FrameCount
    <3> QED
      BY <3>2, <3>3, <3>4, <1>0 DEF ConnsInv
  <2>5. CASE ~\E d \in Conns \ {c} : sock[d] = "finishing"
    <3>1. /\ sock' = [d \in Conns |-> IF sock[d] \in {"finishing", "finished"}
                                     THEN "none" ELSE sock[d]]
          /\ StateTransition("destroyed") /\ available' = {} /\ inUse' = {}
      BY <1>14, <2>5 DEF ConnectionDestroyed
    <3>2. state' = "destroyed" /\ Listed' = {}
      BY <2>3, <3>1 DEF StateTransition, LegalTransitions, Listed
    <3>3. \A d \in Conns : sock'[d] \notin {"open", "finishing", "finished"}
      BY <2>3, <3>1
    <3>4. InUseNotLeaked' /\ ListsSound' /\ Draining'
      BY <2>1, <2>3, <3>1, <3>2, <3>3 DEF InUseNotLeaked, ListsSound, Draining, Ending
    <3>5. ConnectingCounted'
      BY <2>1, <3>2, <1>n DEF ConnectingCounted
    <3> QED
      BY <3>4, <3>5, <1>0 DEF ConnsInv
  <2> QED
    BY <2>4, <2>5
<1>15. ASSUME NEW c \in Conns, NEW event \in {"close", "timeout", "parseError"},
              ConnectionFails(c, event)
       PROVE  ConnsInv'
  <2> DEFINE s == IF event = "close" THEN "none" ELSE "ending"
  <2>1. /\ sock[c] \in {"open", "closing"} /\ s \in {"none", "ending"}
        /\ sock' = [sock EXCEPT ![c] = s] /\ RemoveConnection(c) /\ FlushWorkItems(c)
        /\ UNCHANGED drainTimer
    BY <1>15 DEF ConnectionFails, Emits
  <2>2. state' = state \/ (~IsDestroyed /\ state' \notin {"destroying", "destroyed"})
    BY <1>15, <1>0 DEF ConnectionFails, StateTransition, LegalTransitions, IsDestroyed
  <2>3. \/ CreateConnection(connecting)
        \/ UNCHANGED <<connecting, attempts>>
    BY <1>15 DEF ConnectionFails
  <2>4. reconnectId' = reconnectId \/ reconnectId = "null"
    BY <1>15 DEF ConnectionFails, ArmReconnect
  <2>5. ConnectingCounted'
    <3>1. CASE UNCHANGED <<connecting, attempts>>
      BY <3>1, <2>2, <2>4, <1>n, <1>i DEF ConnectingCounted, Attempts
    <3>2. CASE CreateConnection(connecting)
      BY <3>2, <2>2, <2>4, <1>0, <1>n, <1>i, AttemptsType, CreateConnectionCount DEF ConnectingCounted, Attempts
    <3> QED
      BY <2>3, <3>1, <3>2
  <2> HIDE DEF s
  <2> QED
    BY <2>1, <2>2, <2>5, <1>0, FailConns
<1>16. ASSUME NEW c \in Conns, TooManyTimeouts(c) PROVE ConnsInv'
  <2>1. CASE IsDestroyed
    <3>1. /\ sock[c] \in {"open", "closing"}
          /\ sock' = [sock EXCEPT ![c] = "ending"] /\ RemoveConnection(c) /\ FlushWorkItems(c)
          /\ UNCHANGED <<state, connecting, attempts, drainTimer, reconnectId>>
      BY <1>16, <2>1 DEF TooManyTimeouts, Emits
    <3>2. ConnectingCounted'
      BY <3>1, FrameCount
    <3> QED
      BY <3>1, <3>2, <1>0, FailConns
  <2>2. CASE ~IsDestroyed
    <3>1. {c} \in SUBSET Conns /\ ForceDestroy({c})
          /\ UNCHANGED <<attempts, reconnectId, drainTimer>>
      BY <1>16, <2>2 DEF TooManyTimeouts
    <3> QED
      BY <2>2, <3>1, <1>0, ForceDestroyConns
  <2> QED
    BY <2>1, <2>2
<1>17. ASSUME NEW c \in Conns, NEW o \in Ops, Message(c, o) PROVE ConnsInv'
  <2>1. /\ workItems' = [workItems EXCEPT ![c] = @ \ {o}] /\ ReleaseConnection(c, o)
        /\ UNCHANGED <<state, sock, drainTimer, connecting, attempts, reconnectId>>
        /\ sock[c] = "open"
    BY <1>17 DEF Message
  <2>2. workItems \in [Conns -> SUBSET Ops] /\ available \subseteq Conns /\ inUse \subseteq Conns
    BY <1>0 DEF TypeOK, ConnsTypeOK
  <2>3. Listed' = Listed
    BY <2>1 DEF ReleaseConnection, Listed
  <2>4. InUseNotLeaked'
    BY <2>1, <2>2 DEF ReleaseConnection, ConnsInv, InUseNotLeaked
  <2>5. ListsSound'
    BY <2>1, <2>3 DEF ReleaseConnection, ConnsInv, ListsSound
  <2>6. Draining' /\ ConnectingCounted'
    BY <2>1, <2>3, FrameCount DEF ConnsInv, Draining, Ending
  <2> QED
    BY <2>4, <2>5, <2>6, <1>0 DEF ConnsInv
<1>18. ASSUME NEW c \in Conns, LateMessage(c) PROVE ConnsInv'
  BY <1>18, <1>f DEF LateMessage
<1>19. CASE Tick \/ RetryTimer
  BY <1>19, <1>f DEF Tick, RetryTimer
<1>20. CASE DrainTimer
  <2>1. CheckStatus(connecting) /\ UNCHANGED <<attempts, reconnectId>> /\ drainTimer
    BY <1>20 DEF DrainTimer
  <2>2. state # "destroyed" /\ ~Ending
    BY <2>1 DEF ConnsInv, Draining
  <2>3. connecting = Attempts'
    BY <1>n, <2>1, <2>2 DEF Attempts
  <2> QED
    BY <2>1, <2>2, <2>3, <1>0, <1>n, CheckStatusConns
<1>21. ASSUME NEW o \in Ops, Serialized(o) PROVE ConnsInv'
  BY <1>21, <1>f DEF Serialized
<1>22. CASE LoopNoConnection \/ LoopQueueEmpty \/ LoopResume
  BY <1>22, <1>f DEF LoopNoConnection, LoopQueueEmpty, LoopResume
<1>23. ASSUME CreateConnection(connecting), UNCHANGED <<state, lists, sock, workItems,
              drainTimer, reconnectId>>
       PROVE  ConnsInv'
  <2>1. ConnectingCounted'
    BY <1>23, <1>0, <1>n, <1>i, AttemptsType, CreateConnectionCount DEF ConnectingCounted, Attempts
  <2> QED
    BY <1>23, <2>1, <1>0, FrameConns
<1>24. CASE LoopNoMonitoringConnection
  BY <1>24, <1>f, <1>23 DEF LoopNoMonitoringConnection
<1>25. ASSUME NEW c \in Conns, LoopGrow(c) PROVE ConnsInv'
  BY <1>25, <1>23 DEF LoopGrow
<1>26. ASSUME NEW c \in Conns, LoopDisconnected(c) PROVE ConnsInv'
  <2>1. /\ available' = available \ {c} /\ sock[c] # "open"
        /\ UNCHANGED <<state, inUse, sock, workItems, drainTimer, connecting, attempts, reconnectId>>
    BY <1>26 DEF LoopDisconnected
  <2>2. InUseNotLeaked' /\ ListsSound'
    BY <2>1 DEF ConnsInv, InUseNotLeaked, ListsSound, Listed
  <2>3. Draining' /\ ConnectingCounted'
    BY <2>1, FrameCount DEF ConnsInv, Draining, Ending, Listed
  <2> QED
    BY <2>2, <2>3, <1>0 DEF ConnsInv
<1>27. ASSUME NEW c \in Conns, LoopSendMonitoring(c) PROVE ConnsInv'
  <2>1. /\ available' = available \ {c} /\ inUse' = inUse \cup {c} /\ c \in available
        /\ workItems' = [workItems EXCEPT ![c] = @ \cup {Head(monq)}] /\ monq # << >>
        /\ UNCHANGED <<state, sock, drainTimer, connecting, attempts, reconnectId>>
    BY <1>27 DEF LoopSendMonitoring, Idle
  <2>2. Head(monq) \in MonitoringOps /\ workItems \in [Conns -> SUBSET Ops] /\ inUse \subseteq Conns
    BY <1>0, <2>1 DEF TypeOK, OpsTypeOK, ConnsTypeOK
  <2>3. Listed' = Listed
    BY <2>1 DEF Listed
  <2>4. InUseNotLeaked'
    BY <2>1, <2>2 DEF ConnsInv, InUseNotLeaked
  <2>5. ListsSound'
    BY <2>1, <2>3 DEF ConnsInv, ListsSound
  <2>6. Draining' /\ ConnectingCounted'
    BY <2>1, <2>3, FrameCount DEF ConnsInv, Draining, Ending
  <2> QED
    BY <2>4, <2>5, <2>6, <1>0 DEF ConnsInv
<1>28. ASSUME NEW c \in Conns, LoopSend(c) PROVE ConnsInv'
  <2>1. /\ UNCHANGED <<state, lists, sock, drainTimer, connecting, attempts, reconnectId>>
        /\ \/ UNCHANGED workItems
           \/ workItems' = [workItems EXCEPT ![c] = @ \cup {Head(queue)}]
    BY <1>28 DEF LoopSend
  <2>2. workItems \in [Conns -> SUBSET Ops] /\ inUse \subseteq Conns
    BY <1>0 DEF TypeOK, ConnsTypeOK
  <2>3. InUseNotLeaked' /\ ListsSound'
    BY <2>1, <2>2 DEF ConnsInv, InUseNotLeaked, ListsSound, Listed
  <2>4. Draining' /\ ConnectingCounted'
    BY <2>1, FrameCount DEF ConnsInv, Draining, Ending, Listed
  <2> QED
    BY <2>3, <2>4, <1>0 DEF ConnsInv
<1> QED
  BY <1>1, <1>2, <1>3, <1>4, <1>5, <1>7, <1>8, <1>9, <1>10, <1>11, <1>12, <1>13, <1>14,
     <1>15, <1>16, <1>17, <1>18, <1>19, <1>20, <1>21, <1>22, <1>24, <1>25, <1>26, <1>27, <1>28
     DEF Next, Client, Opening, Event, Loop, Scheduled

(***************************************************************************)
(* The size of the pool                                                    *)
(***************************************************************************)

OpenConns == {c \in Conns : sock[c] = "open"}

(* connect() was not called, or its own attempt is under way. *)
Unused == ~started \/ attempts["connect"] > 0

(* Until the first connection joins, that attempt is the only one; later   *)
(* there is one of _execute at a time, made when no other is under way, or *)
(* those for minSize, and one of the reconnect loop.                       *)
Growth ==
  /\ attempts["connect"] <= (IF started THEN 1 ELSE 0)
  /\ Unused => /\ attempts["create"] = 0 /\ attempts["reconnect"] = 0
               /\ reconnectId = "null" /\ \A c \in Conns : sock[c] = "none"
  /\ phase = "calling" => started
  /\ phase \in {"loop", "calling"} => Attempts = 0
  /\ attempts["create"] <= MinSize \/ (attempts["create"] = 1 /\ Size >= 2)

SizeInv == ConnsInv /\ Growth /\ SizeBound

LEMMA OpenListed ==
  ASSUME ConnsInv
  PROVE  {c \in Listed : sock[c] = "open"} = OpenConns
BY DEF ConnsInv, TypeOK, ConnsTypeOK, ListsSound, Listed, OpenConns

SizeBoundOpen == MinSize < Size => Cardinality(OpenConns) + Attempts <= Size

LEMMA SizeBoundIsOpen == ConnsInv => (SizeBound <=> SizeBoundOpen)
<1> SUFFICES ASSUME ConnsInv PROVE SizeBound <=> SizeBoundOpen
  OBVIOUS
<1>1. Cardinality(OpenConns) \in Nat
  BY PoolAssumption, FS_Subset, FS_CardinalityType DEF OpenConns
<1>2. /\ attempts["connect"] \in Nat /\ attempts["create"] \in Nat
      /\ attempts["reconnect"] \in Nat
  BY AttemptsType DEF ConnsInv
<1>3. Cardinality({c \in Listed : sock[c] = "open"}) = Cardinality(OpenConns)
  BY OpenListed
<1>4. Cardinality(OpenConns) + attempts["connect"] + attempts["create"] + attempts["reconnect"]
        = Cardinality(OpenConns) + Attempts
  BY <1>1, <1>2 DEF Attempts
<1> QED
  BY <1>3, <1>4, Zenon DEF SizeBound, SizeBoundOpen

LEMMA SizeBoundIsOpenNext == ConnsInv' => (SizeBound' <=> SizeBoundOpen')
BY SizeBoundIsOpen, PTL

LEMMA OpenCount ==
  ASSUME ConnsInv
  PROVE  /\ IsFiniteSet(OpenConns) /\ Cardinality(OpenConns) \in Nat
         /\ Cardinality(available) \in Nat /\ Cardinality(inUse) \in Nat
         /\ Cardinality(OpenConns) <= Cardinality(available) + Cardinality(inUse)
         /\ available # {} => Cardinality(available) >= 1
<1>1. available \subseteq Conns /\ inUse \subseteq Conns /\ IsFiniteSet(Conns)
  BY PoolAssumption DEF ConnsInv, TypeOK, ConnsTypeOK
<1>2. IsFiniteSet(available) /\ IsFiniteSet(inUse)
  BY <1>1, FS_Subset
<1>3. Cardinality(available) \in Nat /\ Cardinality(inUse) \in Nat
  BY <1>2, FS_CardinalityType
<1>4. /\ IsFiniteSet(Listed)
      /\ Cardinality(Listed)
           = Cardinality(available) + Cardinality(inUse) - Cardinality(available \cap inUse)
  BY <1>2, FS_Union DEF Listed
<1>5. Cardinality(available \cap inUse) = 0
  BY FS_EmptySet DEF ConnsInv, ListsSound
<1>6. OpenConns \subseteq Listed
  BY OpenListed
<1>7. IsFiniteSet(OpenConns) /\ Cardinality(OpenConns) <= Cardinality(Listed)
  BY <1>4, <1>6, FS_Subset
<1>8. Cardinality(OpenConns) \in Nat
  BY <1>7, FS_CardinalityType
<1>9. available # {} => Cardinality(available) >= 1
  BY <1>2, <1>3, FS_EmptySet
<1> QED
  BY <1>3, <1>4, <1>5, <1>7, <1>8, <1>9

OpenCounted ==
  /\ Cardinality(OpenConns) <= Cardinality(available) + Cardinality(inUse)
  /\ Cardinality(OpenConns) \in Nat
  /\ Cardinality(available) \in Nat /\ Cardinality(inUse) \in Nat

LEMMA OpenCountNext == ConnsInv' => OpenCounted'
<1>1. ConnsInv => OpenCounted
  BY OpenCount DEF OpenCounted
<1> QED
  BY <1>1, PTL

(* No more connections, no more attempts: the bound still holds. *)
LEMMA BoundKept ==
  ASSUME SizeInv, ConnsInv', OpenConns' \subseteq OpenConns, Attempts' <= Attempts
  PROVE  SizeBound'
<1>1. Cardinality(OpenConns') <= Cardinality(OpenConns)
  BY OpenCount, FS_Subset DEF SizeInv
<1>2. Cardinality(OpenConns) \in Nat /\ Cardinality(OpenConns') \in Nat
  BY OpenCount, FS_Subset, FS_CardinalityType DEF SizeInv
<1>3. Attempts \in Nat /\ Attempts' \in Nat
  BY AttemptsType DEF SizeInv, ConnsInv, TypeOK, PoolTypeOK, Attempts, Kinds
<1>4. SizeBoundOpen'
  BY <1>1, <1>2, <1>3, PoolAssumption, SizeBoundIsOpen DEF SizeBoundOpen, SizeInv
<1> QED
  BY <1>4, SizeBoundIsOpenNext

(* _execute starts its loop only with no attempt under way. *)
LEMMA CalledExecute ==
  ASSUME ConnsInv, NEW s, NEW n, CallExecute(s, n)
  PROVE  phase' = phase \/ (phase' = "loop" /\ s # "destroyed" /\ n <= 0)
BY DEF CallExecute

(* Actions that change no attempt. *)
LEMMA FrameSize ==
  ASSUME SizeInv, ConnsInv', UNCHANGED <<started, attempts>>,
         \A c \in Conns : sock'[c] # sock[c] => sock[c] # "none" /\ sock'[c] # "open",
         Unused => reconnectId' = reconnectId,
         \/ phase' \in {phase, "idle", "leaving"}
         \/ phase' = "loop" /\ Attempts = 0
         \/ phase' = "calling" /\ phase = "loop" /\ started
  PROVE  SizeInv'
<1>1. Attempts' = Attempts /\ Unused' = Unused
  BY DEF Attempts, Unused
<1>2. OpenConns' \subseteq OpenConns
  BY DEF OpenConns
<1>3. SizeBound'
  BY <1>1, <1>2, BoundKept, AttemptsType DEF SizeInv, ConnsInv
<1>4. Growth'
  BY <1>1 DEF SizeInv, Growth
<1> QED
  BY <1>3, <1>4 DEF SizeInv

(* Attempts that end; the first connection is on its way no more. *)
LEMMA EndSize ==
  ASSUME SizeInv, ConnsInv', ~Unused, UNCHANGED started, phase = "idle",
         NEW kind \in {"create", "reconnect"},
         attempts'[kind] = attempts[kind] - 1,
         \A k \in Kinds \ {kind} : attempts'[k] = attempts[k],
         attempts[kind] > 0,
         \/ sock' = sock
         \/ \A c \in Conns : sock[c] = "open" \/ sock'[c] # "open"
         \/ \E c \in Conns : sock[c] = "none" /\ sock' = [sock EXCEPT ![c] = "open"],
         phase' = phase \/ (phase' = "loop" /\ Attempts' = 0)
  PROVE  SizeInv'
<1>1. /\ attempts["connect"] \in Nat /\ attempts["create"] \in Nat
      /\ attempts["reconnect"] \in Nat /\ Attempts \in Nat
  BY AttemptsType DEF SizeInv, ConnsInv
<1>2. attempts'["connect"] = attempts["connect"] /\ Attempts' = Attempts - 1
  BY <1>1 DEF Kinds, Attempts
<1>3. ~Unused' /\ started'
  BY <1>2 DEF Unused
<1>4. attempts'["create"] \in {attempts["create"], attempts["create"] - 1}
  BY <1>1 DEF Kinds
<1>5. attempts'["create"] <= MinSize \/ (attempts'["create"] = 1 /\ Size >= 2)
  BY <1>1, <1>4, PoolAssumption DEF SizeInv, Growth
<1>6. Growth'
  BY <1>1, <1>2, <1>3, <1>5 DEF Growth, SizeInv, Unused
<1>7. \/ OpenConns' \subseteq OpenConns
      \/ \E c \in Conns : OpenConns' = OpenConns \cup {c}
  <2>1. CASE sock' = sock \/ \A c \in Conns : sock[c] = "open" \/ sock'[c] # "open"
    BY <2>1 DEF OpenConns
  <2>2. ASSUME NEW c \in Conns, sock' = [sock EXCEPT ![c] = "open"]
        PROVE  OpenConns' = OpenConns \cup {c}
    BY <2>2 DEF OpenConns, SizeInv, ConnsInv, TypeOK, ConnsTypeOK
  <2> QED
    BY <2>1, <2>2
<1>8. SizeBound'
  <2>1. CASE OpenConns' \subseteq OpenConns
    BY <1>1, <1>2, <2>1, BoundKept
  <2>2. ASSUME NEW c \in Conns, OpenConns' = OpenConns \cup {c} PROVE SizeBound'
    <3>1. /\ Cardinality(OpenConns') <= Cardinality(OpenConns) + 1
          /\ Cardinality(OpenConns') \in Nat /\ Cardinality(OpenConns) \in Nat
      <4>1. /\ Cardinality(OpenConns') \in {Cardinality(OpenConns), Cardinality(OpenConns) + 1}
            /\ Cardinality(OpenConns) \in Nat
        BY <2>2, OpenCount, FS_AddElement DEF SizeInv
      <4> QED
        BY <4>1
    <3>2. SizeBoundOpen'
      BY <3>1, <1>1, <1>2, PoolAssumption, SizeBoundIsOpen DEF SizeInv, SizeBoundOpen
    <3> QED
      BY <3>2, SizeBoundIsOpenNext
  <2> QED
    BY <1>7, <2>1, <2>2
<1> QED
  BY <1>6, <1>8 DEF SizeInv

(* _execute opens one connection more. *)
LEMMA GrowSize ==
  ASSUME SizeInv, ConnsInv', CreateConnection(connecting), phase = "loop", phase' = "idle",
         TotalConnectionCount < Size, NEW c \in available, sock[c] = "open",
         UNCHANGED <<started, sock, reconnectId>>
  PROVE  SizeInv'
<1>1. CASE IsDestroyed
  BY <1>1, FrameSize, CreateConnectionCount DEF SizeInv, ConnsInv
<1>2. CASE ~IsDestroyed
  <2>1. connecting = Attempts /\ Attempts = 0
    BY <1>2 DEF SizeInv, ConnsInv, ConnectingCounted, Attempts, Growth, IsDestroyed
  <2>2. /\ attempts["connect"] = 0 /\ attempts["create"] = 0 /\ attempts["reconnect"] = 0
    BY <2>1, AttemptsType DEF SizeInv, ConnsInv, Attempts
  <2>3. /\ attempts'["create"] = 1 /\ attempts'["connect"] = 0 /\ attempts'["reconnect"] = 0
        /\ Attempts' = 1
    BY <1>2, <2>2, CreateConnectionCount DEF SizeInv, ConnsInv, Attempts
  <2>4. started /\ ~Unused /\ ~Unused'
    BY <2>2, <2>3 DEF SizeInv, ConnsInv, TypeOK, ConnsTypeOK, Growth, Unused
  <2>5. OpenConns' = OpenConns
    BY DEF OpenConns
  <2>6. /\ Cardinality(OpenConns) + 1 <= Size /\ Size >= 2
        /\ Cardinality(OpenConns) \in Nat
    BY <2>1, OpenCount, PoolAssumption DEF SizeInv, TotalConnectionCount
  <2>7. SizeBoundOpen'
    BY <2>3, <2>5, <2>6 DEF SizeBoundOpen
  <2>8. Growth'
    BY <2>3, <2>4, <2>6 DEF Growth
  <2> QED
    BY <2>7, <2>8, SizeBoundIsOpenNext DEF SizeInv
<1> QED
  BY <1>1, <1>2

LEMMA SizeInit == Init => SizeInv
<1> SUFFICES ASSUME Init PROVE SizeInv
  OBVIOUS
<1>1. ConnsInv
  BY ConnsInit
<1>2. OpenConns = {} /\ Attempts = 0
  BY DEF Init, OpenConns, Attempts, Kinds
<1>3. Growth
  BY <1>2, PoolAssumption DEF Init, Growth, Kinds
<1>4. SizeBoundOpen
  BY <1>2, FS_EmptySet, PoolAssumption DEF SizeBoundOpen
<1> QED
  BY <1>1, <1>3, <1>4, SizeBoundIsOpen DEF SizeInv

LEMMA SizeStep == SizeInv /\ [Next]_vars => SizeInv'
<1> SUFFICES ASSUME SizeInv, [Next]_vars PROVE SizeInv'
  OBVIOUS
<1>0. ConnsInv /\ ConnsInv' /\ TypeOK /\ TypeOK'
  BY ConnsStep, TypeStep DEF SizeInv, ConnsInv
<1>n. /\ attempts["connect"] \in Nat /\ attempts["create"] \in Nat
      /\ attempts["reconnect"] \in Nat /\ Attempts \in Nat
      /\ connecting \in Int /\ (state # "destroyed" => connecting = Attempts)
      /\ attempts \in [Kinds -> Nat] /\ sock \in [Conns -> SockStates]
  BY <1>0, AttemptsType DEF ConnsInv, ConnectingCounted, Attempts, TypeOK, PoolTypeOK, ConnsTypeOK
<1>u. Unused => /\ Listed = {} /\ OpenConns = {}
                /\ \A c \in Conns : sock[c] = "none"
  BY <1>0 DEF SizeInv, Growth, ConnsInv, ListsSound, TypeOK, ConnsTypeOK, Listed, OpenConns
<1>f. ASSUME UNCHANGED <<started, attempts, sock, reconnectId>>,
             phase' \in {phase, "idle", "leaving"} \/ (phase' = "loop" /\ Attempts = 0)
      PROVE  SizeInv'
  BY <1>0, <1>f, FrameSize
<1> USE DEF lists, conns, timers, retry
<1>1. CASE UNCHANGED vars
  BY <1>1, <1>f DEF vars
<1>2. CASE Connect
  <2>1. /\ ~started /\ started' = TRUE /\ attempts["connect"] = 0 /\ phase # "loop"
        /\ attempts' = [attempts EXCEPT !["connect"] = @ + 1]
        /\ UNCHANGED <<sock, reconnectId, phase>> /\ Unused
    BY <1>2, <1>n DEF Connect, ClientRuns, SizeInv, Growth, Unused
  <2>2. /\ attempts'["connect"] = 1 /\ attempts'["create"] = 0 /\ attempts'["reconnect"] = 0
        /\ Attempts' = 1
    BY <1>n, <2>1 DEF Kinds, Attempts, SizeInv, Growth
  <2>3. Growth'
    BY <2>1, <2>2, PoolAssumption DEF SizeInv, Growth
  <2>4. OpenConns' = {}
    BY <1>u, <2>1 DEF OpenConns
  <2>5. SizeBoundOpen'
    BY <2>2, <2>4, FS_EmptySet, PoolAssumption DEF SizeBoundOpen
  <2> QED
    BY <2>3, <2>5, <1>0, SizeBoundIsOpenNext DEF SizeInv
<1>3. ASSUME NEW o \in Ops, Write(o) PROVE SizeInv'
  BY <1>3, <1>f DEF Write
<1>c. ASSUME NEW n, CheckStatus(n), state # "destroyed" => n = Attempts,
             UNCHANGED <<started, attempts>>, state # "destroyed",
             Unused => reconnectId' = reconnectId
      PROVE  SizeInv'
  <2>1. \A c \in Conns : sock'[c] # sock[c] => c \in Listed /\ sock'[c] = "finishing"
    BY <1>c, <1>n DEF CheckStatus
  <2>2. phase' = phase \/ (phase' = "loop" /\ n <= 0)
    BY <1>c, <1>0, CalledExecute DEF CheckStatus
  <2>3. \A c \in Listed : sock[c] # "none"
    BY <1>0 DEF ConnsInv, ListsSound
  <2> QED
    BY <1>c, <1>0, <1>n, <2>1, <2>2, <2>3, FrameSize
<1>d. ASSUME NEW failed, ForceDestroy(failed), UNCHANGED <<started, attempts, reconnectId, phase>>,
             \A c \in failed : sock[c] # "none"
      PROVE  SizeInv'
  <2>1. \A c \in Conns : sock'[c] # sock[c] => c \in Listed \cup failed /\ sock'[c] # "open"
    BY <1>d, <1>n DEF ForceDestroy
  <2>2. \A c \in Listed : sock[c] # "none"
    BY <1>0 DEF ConnsInv, ListsSound
  <2> QED
    BY <1>d, <1>0, <2>1, <2>2, FrameSize
<1>4. ASSUME NEW force \in BOOLEAN, Destroy(force) PROVE SizeInv'
  <2>1. CASE force
    BY <1>4, <1>d, <2>1 DEF Destroy
  <2>2. CASE ~force
    <3>1. reconnectId' = IF reconnectId = "armed" THEN "spent" ELSE reconnectId
      BY <1>4, <2>2 DEF Destroy
    <3>2. Unused => reconnectId' = reconnectId
      BY <3>1 DEF SizeInv, Growth
    <3> QED
      BY <1>4, <1>c, <1>n, <2>2, <3>2 DEF Destroy, IsDestroyed
  <2> QED
    BY <2>1, <2>2
<1>5. ASSUME NEW c \in Conns, Connected(c) PROVE SizeInv'
  <2>1. /\ attempts["connect"] = 1 /\ started /\ Unused
        /\ attempts["create"] = 0 /\ attempts["reconnect"] = 0
        /\ phase = "idle" /\ UNCHANGED <<phase, started, reconnectId>>
    BY <1>5, <1>n DEF Connected, Quiet, SizeInv, Growth, Unused
  <2>2. CASE IsDestroyed
    <3>1. /\ attempts'["connect"] = 0 /\ attempts'["create"] = 0 /\ attempts'["reconnect"] = 0
          /\ sock' = sock
      BY <1>5, <1>n, <2>1, <2>2 DEF Connected, AttemptDone, Kinds
    <3>2. Growth'
      BY <2>1, <3>1, PoolAssumption DEF Growth, Unused, Attempts
    <3>3. OpenConns' \subseteq OpenConns /\ Attempts' <= Attempts
      BY <1>n, <2>1, <3>1 DEF OpenConns, Attempts
    <3> QED
      BY <1>0, <3>2, <3>3, BoundKept DEF SizeInv
  <2>3. CASE ~IsDestroyed
    <3> DEFINE growth == IF InTopology THEN 0 ELSE MinSize
    <3>1. growth \in 0..MinSize
      BY PoolAssumption
    <3>2. /\ attempts' = [attempts EXCEPT !["connect"] = @ - 1, !["create"] = @ + growth]
          /\ sock' = [sock EXCEPT ![c] = "open"]
      BY <1>5, <2>3 DEF Connected
    <3> HIDE DEF growth
    <3>3. /\ attempts'["connect"] = 0 /\ attempts'["create"] = growth
          /\ attempts'["reconnect"] = 0 /\ Attempts' = growth
      BY <1>n, <2>1, <3>1, <3>2, PoolAssumption DEF Kinds, Attempts
    <3>4. Growth'
      BY <2>1, <3>1, <3>3, PoolAssumption DEF Growth, Unused
    <3>5. OpenConns' = {c}
      BY <1>n, <1>u, <2>1, <3>2 DEF OpenConns
    <3>6. SizeBoundOpen'
      BY <3>1, <3>3, <3>5, FS_Singleton, PoolAssumption DEF SizeBoundOpen
    <3> QED
      BY <1>0, <3>4, <3>6, SizeBoundIsOpenNext DEF SizeInv
  <2> QED
    BY <2>2, <2>3
<1>6. CASE ConnectFailed
  <2>1. /\ attempts["connect"] = 1 /\ started /\ Unused
        /\ attempts["create"] = 0 /\ attempts["reconnect"] = 0
        /\ phase = "idle" /\ UNCHANGED <<phase, started, sock>>
    BY <1>6, <1>n DEF ConnectFailed, AttemptDone, Quiet, SizeInv, Growth, Unused
  <2>2. attempts'["connect"] = 0 /\ attempts'["create"] = 0 /\ attempts'["reconnect"] = 0
    BY <1>6, <1>n, <2>1 DEF ConnectFailed, AttemptDone, Kinds
  <2>3. Growth'
    BY <2>1, <2>2, PoolAssumption DEF Growth, Unused, Attempts
  <2>4. OpenConns' \subseteq OpenConns /\ Attempts' <= Attempts
    BY <1>n, <2>1, <2>2 DEF OpenConns, Attempts
  <2> QED
    BY <1>0, <2>3, <2>4, BoundKept DEF SizeInv
<1>7. ASSUME NEW kind \in {"create", "reconnect"}, AttemptDone(kind), UNCHANGED started, Quiet,
             \/ sock' = sock
             \/ \E c \in Conns : sock[c] = "none" /\ sock' = [sock EXCEPT ![c] = "open"],
             phase' = phase \/ (CallExecute(state, connecting - 1) /\ ~IsDestroyed)
      PROVE  SizeInv'
  <2>1. /\ attempts[kind] > 0 /\ attempts'[kind] = attempts[kind] - 1
        /\ \A k \in Kinds \ {kind} : attempts'[k] = attempts[k]
        /\ Attempts' = Attempts - 1
    BY <1>0, <1>7, AttemptDoneCount DEF Kinds
  <2>2. ~Unused
    BY <2>1, <1>n DEF SizeInv, Growth
  <2>3. phase' = phase \/ (phase' = "loop" /\ Attempts' = 0)
    <3>1. CASE phase' = phase
      BY <3>1
    <3>2. CASE CallExecute(state, connecting - 1) /\ ~IsDestroyed
      <4>1. phase' = phase \/ (phase' = "loop" /\ connecting - 1 <= 0)
        BY <1>0, <3>2, CalledExecute
      <4>2. Attempts' \in Nat
        BY <1>0 DEF Attempts, TypeOK, PoolTypeOK, Kinds
      <4> QED
        BY <4>1, <4>2, <3>2, <2>1, <1>n DEF IsDestroyed
    <3> QED
      BY <1>7, <3>1, <3>2
  <2> QED
    BY <1>0, <1>7, <2>1, <2>2, <2>3, EndSize DEF Quiet
<1>8. ASSUME NEW c \in Conns, Created(c) \/ Reconnected(c) PROVE SizeInv'
  BY <1>8, <1>7 DEF Created, Reconnected
<1>9. CASE CreateFailed
  BY <1>9, <1>7 DEF CreateFailed
<1>10. CASE AttemptReconnect
  <2>1. CASE attempts' = attempts
    <3>1. ~Unused /\ UNCHANGED <<started, sock, phase>>
      BY <1>10 DEF AttemptReconnect, SizeInv, Growth
    <3> QED
      BY <2>1, <3>1, <1>0, FrameSize
  <2>2. CASE attempts' # attempts
    <3>1. /\ reconnectId = "armed" /\ ~IsDestroyed /\ ~IsConnected
          /\ attempts' = [attempts EXCEPT !["reconnect"] = @ + 1]
          /\ UNCHANGED <<started, sock, phase>> /\ phase = "idle"
      BY <1>10, <2>2 DEF AttemptReconnect, Quiet
    <3>2. /\ ~Unused /\ attempts["connect"] = 0 /\ started
      BY <3>1, <1>n DEF SizeInv, Growth, Unused
    <3>3. attempts["reconnect"] = 0
      BY <3>1, <1>0, <1>n DEF ConnsInv, ConnectingCounted
    <3>4. /\ attempts'["connect"] = 0 /\ attempts'["create"] = attempts["create"]
          /\ attempts'["reconnect"] = 1 /\ Attempts' = attempts["create"] + 1
      BY <3>1, <3>2, <3>3, <1>n DEF Kinds, Attempts
    <3>5. OpenConns' = {}
      BY <3>1, <1>0 DEF OpenConns, IsConnected, ConnsInv, ListsSound
    <3>6. Growth'
      BY <3>1, <3>2, <3>4 DEF SizeInv, Growth, Unused
    <3>7. SizeBoundOpen'
      BY <3>4, <3>5, <1>n, FS_EmptySet, PoolAssumption DEF SizeBoundOpen, SizeInv, Growth
    <3> QED
      BY <3>6, <3>7, <1>0, SizeBoundIsOpenNext DEF SizeInv
  <2> QED
    BY <2>1, <2>2
<1>11. CASE ReconnectFailed
  <2>1. /\ attempts["reconnect"] > 0 /\ attempts'["reconnect"] = attempts["reconnect"] - 1
        /\ \A k \in Kinds \ {"reconnect"} : attempts'[k] = attempts[k]
        /\ Attempts' = Attempts - 1 /\ UNCHANGED started /\ Quiet
    BY <1>11, <1>n DEF ReconnectFailed, Kinds, Attempts
  <2>2. ~Unused
    BY <2>1, <1>n DEF SizeInv, Growth
  <2>3. /\ \A c \in Conns : sock[c] = "open" \/ sock'[c] # "open"
        /\ phase' = phase \/ (phase' = "loop" /\ Attempts' = 0)
    <3>1. CASE retriesLeft - 1 <= 0 /\ ~IsDestroyed
      <4>1. CheckStatus(connecting - 1) /\ connecting - 1 = Attempts'
        BY <1>11, <1>n, <2>1, <3>1 DEF ReconnectFailed, IsDestroyed
      <4>2. phase' = phase \/ (phase' = "loop" /\ connecting - 1 <= 0)
        BY <4>1, <1>0, CalledExecute DEF CheckStatus
      <4>3. Attempts' \in Nat
        BY <1>n, <2>1 DEF Attempts, Kinds
      <4>4. \A c \in Conns : sock[c] = "open" \/ sock'[c] # "open"
        BY <4>1, <1>n DEF CheckStatus
      <4> QED
        BY <4>1, <4>2, <4>3, <4>4
    <3>2. CASE ~(retriesLeft - 1 <= 0 /\ ~IsDestroyed)
      BY <1>11, <3>2 DEF ReconnectFailed
    <3> QED
      BY <3>1, <3>2
  <2> QED
    BY <1>0, <2>1, <2>2, <2>3, EndSize DEF Quiet, Kinds
<1>12. ASSUME NEW c \in Conns, SocketDies(c) \/ SocketClosed(c) PROVE SizeInv'
  BY <1>12, <1>0, <1>n, FrameSize DEF SocketDies, SocketClosed
<1>13. ASSUME NEW c \in Conns, ConnectionDestroyed(c) PROVE SizeInv'
  BY <1>13, <1>0, <1>n, FrameSize DEF ConnectionDestroyed
<1>14. ASSUME NEW c \in Conns, NEW event \in {"close", "timeout", "parseError"},
              ConnectionFails(c, event)
       PROVE  SizeInv'
  <2>1. /\ sock[c] # "none" /\ UNCHANGED <<started, phase>> /\ phase = "idle"
        /\ \A d \in Conns : sock'[d] # sock[d] => sock[d] # "none" /\ sock'[d] # "open"
    BY <1>14, <1>n DEF ConnectionFails, Emits, Quiet
  <2>2. ~Unused
    BY <2>1, <1>u
  <2>3. CASE attempts' = attempts
    BY <1>0, <2>1, <2>2, <2>3, FrameSize
  <2>4. CASE attempts' # attempts
    <3>1. /\ Cardinality(available') + Cardinality(inUse') + connecting < MinSize
          /\ CreateConnection(connecting) /\ ~IsDestroyed
      BY <1>14, <2>4 DEF ConnectionFails, CreateConnection
    <3>2. /\ attempts'["create"] = attempts["create"] + 1
          /\ attempts'["connect"] = attempts["connect"]
          /\ attempts'["reconnect"] = attempts["reconnect"]
          /\ Attempts' = Attempts + 1
      BY <3>1, <1>0, <1>n, CreateConnectionCount DEF Attempts
    <3>3. connecting = Attempts /\ attempts["create"] <= Attempts
      BY <3>1, <1>n DEF IsDestroyed, Attempts
    <3>4. /\ Cardinality(OpenConns') <= Cardinality(available') + Cardinality(inUse')
          /\ Cardinality(OpenConns') \in Nat
          /\ Cardinality(available') \in Nat /\ Cardinality(inUse') \in Nat
      BY <1>0, OpenCountNext DEF OpenCounted
    <3>5. attempts'["create"] <= MinSize
      BY <3>1, <3>2, <3>3, <3>4, <1>n, PoolAssumption
    <3>6. Growth'
      BY <2>1, <2>2, <3>2, <3>5 DEF SizeInv, Growth, Unused
    <3>7. SizeBoundOpen'
      BY <3>1, <3>2, <3>3, <3>4, <1>n, PoolAssumption DEF SizeBoundOpen
    <3> QED
      BY <3>6, <3>7, <1>0, SizeBoundIsOpenNext DEF SizeInv
  <2> QED
    BY <2>3, <2>4
<1>15. ASSUME NEW c \in Conns, TooManyTimeouts(c) PROVE SizeInv'
  <2>1. sock[c] # "none" /\ UNCHANGED <<started, phase, attempts, reconnectId>>
    BY <1>15 DEF TooManyTimeouts, Emits
  <2>2. CASE IsDestroyed
    BY <1>15, <2>1, <2>2, <1>0, <1>n, FrameSize DEF TooManyTimeouts
  <2>3. CASE ~IsDestroyed
    BY <1>15, <2>1, <2>3, <1>d DEF TooManyTimeouts
  <2> QED
    BY <2>2, <2>3
<1>16. ASSUME NEW c \in Conns, LateMessage(c) \/ (\E o \in Ops : Message(c, o)) PROVE SizeInv'
  BY <1>16, <1>f DEF LateMessage, Message
<1>17. CASE Tick \/ RetryTimer
  <2>1. CallExecute(state, connecting) /\ UNCHANGED <<started, attempts, sock, reconnectId>>
    BY <1>17 DEF Tick, RetryTimer
  <2>2. phase' = phase \/ (phase' = "loop" /\ state # "destroyed" /\ connecting <= 0)
    BY <2>1, <1>0, CalledExecute
  <2> QED
    BY <2>1, <2>2, <1>n, <1>f
<1>18. CASE DrainTimer
  <2>1. drainTimer /\ state # "destroyed"
    BY <1>18, <1>0 DEF DrainTimer, ConnsInv, Draining
  <2> QED
    BY <1>18, <2>1, <1>n, <1>c DEF DrainTimer
<1>19. ASSUME NEW o \in Ops, Serialized(o) PROVE SizeInv'
  BY <1>19, <1>f DEF Serialized
<1>20. CASE LoopNoConnection \/ LoopQueueEmpty
  BY <1>20, <1>f DEF LoopNoConnection, LoopQueueEmpty, FlushAndBreak
<1>21. CASE LoopResume
  <2>1. phase = "calling" => Attempts = 0
    BY DEF SizeInv, Growth
  <2> QED
    BY <1>21, <2>1, <1>f DEF LoopResume
<1>22. ASSUME NEW c \in Conns, LoopDisconnected(c) PROVE SizeInv'
  BY <1>22, <1>f DEF LoopDisconnected, FlushAndBreak
<1>23. CASE LoopNoMonitoringConnection
  <2>1. PICK c \in available : sock[c] = "open"
    BY <1>23 DEF LoopNoMonitoringConnection, Selectable, Idle
  <2> QED
    BY <1>23, <2>1, <1>0, <1>f, GrowSize DEF LoopNoMonitoringConnection
<1>24. ASSUME NEW c \in Conns, LoopGrow(c) PROVE SizeInv'
  BY <1>24, <1>0, GrowSize DEF LoopGrow, Selectable, Idle, MustGrow
<1>25. ASSUME NEW c \in Conns, LoopSendMonitoring(c) PROVE SizeInv'
  BY <1>25, <1>f DEF LoopSendMonitoring
<1>26. ASSUME NEW c \in Conns, LoopSend(c) PROVE SizeInv'
  <2>1. started /\ phase = "loop" /\ UNCHANGED <<started, attempts, sock, reconnectId>>
        /\ phase' \in {phase, "calling"}
    BY <1>26, <1>u DEF LoopSend, Unused
  <2> QED
    BY <2>1, <1>0, FrameSize
<1> QED
  BY <1>1, <1>2, <1>3, <1>4, <1>5, <1>6, <1>8, <1>9, <1>10, <1>11, <1>12, <1>13, <1>14,
     <1>15, <1>16, <1>17, <1>18, <1>19, <1>20, <1>21, <1>22, <1>23, <1>24, <1>25, <1>26
     DEF Next, Client, Opening, Event, Loop, Scheduled

(* For every pool: a connection in use works for a monitoring operation,   *)
(* the lists hold the live connections and no others, connectingConnec-    *)
(* tions counts the attempts, and the pool keeps its size.                 *)
THEOREM ConnectionsCorrect == Spec => []ConnectionsSound
<1>1. Init => SizeInv
  BY SizeInit
<1>2. SizeInv /\ [Next]_vars => SizeInv'
  BY SizeStep
<1>3. SizeInv => ConnectionsSound
  BY DEF SizeInv, ConnsInv, ConnectionsSound
<1> QED
  BY <1>1, <1>2, <1>3, PTL DEF Spec

(***************************************************************************)
(* Where the requests are                                                  *)
(***************************************************************************)

(* Operations are in flight only on connections whose end will be heard of. *)
WorkOnLive == \A c \in Conns : workItems[c] # {} => sock[c] \in {"open", "closing"}

(* What was written and not answered is still pending. *)
NoneLost == forced \/ \A o \in written : calls[o] = 1 \/ o \in Pending

Alone ==
  \A c \in Conns : workItems[c] \cap MonitoringOps # {} =>
                     (\E o \in Ops : workItems[c] = {o}) /\ c \notin available

(* Nothing is queued when the last sockets are ended; later only an        *)
(* operation that was being compressed can be.                             *)
LateQueue == state = "destroyed" \/ Ending => Queued \subseteq CompressedOps

RequestsInv == OpsInv /\ ConnsInv /\ WorkOnLive /\ NoneLost /\ Alone /\ LateQueue

LEMMA RequestsAreKept == RequestsInv => RequestsKept
<1> SUFFICES ASSUME RequestsInv PROVE RequestsKept
  OBVIOUS
<1> USE DEF RequestsInv
<1>1. OnePlace
  BY DEF OpsInv
<1>2. NoneForgotten
  BY DEF NoneLost, WorkOnLive, NoneForgotten, Pending, InFlight
<1>3. MonitoringAlone
  BY FS_Singleton DEF Alone, MonitoringAlone
<1>4. DrainedWhenDestroyed
  BY DEF DrainedWhenDestroyed, LateQueue, WorkOnLive, ConnsInv, Draining, ListsSound
<1> QED
  BY <1>1, <1>2, <1>3, <1>4 DEF RequestsKept

(* What flushMonitoringOperations does not keep, it answers. *)
LEMMA KeptOrFlushed ==
  ASSUME NEW S, NEW q \in Seq(S)
  PROVE  Range(q) \subseteq Range(Kept(q)) \cup Flushed(q)
<1> SUFFICES ASSUME NEW j \in DOMAIN q PROVE q[j] \in Range(Kept(q)) \cup Flushed(q)
  BY DEF Range
<1>1. Len(q) \in Nat /\ DOMAIN q = 1..Len(q) /\ j \in Nat
  OBVIOUS
<1>2. CASE j % 2 = 1
  BY <1>2 DEF Flushed
<1>3. CASE j % 2 # 1
  <2> DEFINE k == j \div 2
  <2>1. k \in 1..(Len(q) \div 2) /\ j = 2 * k
    BY <1>1, <1>3
  <2>2. k \in DOMAIN Kept(q) /\ Kept(q)[k] = q[j]
    BY <2>1 DEF Kept
  <2> QED
    BY <2>2 DEF Range
<1> QED
  BY <1>2, <1>3

(* An action loses no request when each that is pending stays pending or   *)
(* is answered.                                                            *)
LEMMA NoneLostEffect ==
  ASSUME RequestsInv, OpsInv', forced' \/ forced' = forced,
         NEW N, written' = written \cup N,
         NEW A, Answer(A),
         Pending \cup N \subseteq Pending' \cup A
  PROVE  NoneLost'
<1>1. CASE forced'
  BY <1>1 DEF NoneLost
<1>2. CASE ~forced'
  <2> SUFFICES ASSUME NEW o \in written' PROVE calls'[o] = 1 \/ o \in Pending'
    BY DEF NoneLost
  <2>1. o \in Ops /\ calls[o] \in Nat /\ calls'[o] \in Nat
    BY DEF RequestsInv, OpsInv, TypeOK, OpsTypeOK
  <2>2. calls'[o] <= 1 /\ calls'[o] = calls[o] + (IF o \in A THEN 1 ELSE 0)
    BY <2>1 DEF OpsInv, AnsweredOnce, Answer
  <2>3. calls[o] = 1 \/ o \in Pending \cup N
    BY <1>2 DEF RequestsInv, NoneLost
  <2> QED
    BY <2>1, <2>2, <2>3
<1> QED
  BY <1>1, <1>2

LEMMA NoneLostFrame ==
  ASSUME RequestsInv, OpsInv', forced' = forced, UNCHANGED <<workItems, ops>>
  PROVE  NoneLost'
BY DEF RequestsInv, NoneLost, Pending, Queued, InFlight, ops

LEMMA FlushLosesNone ==
  ASSUME RequestsInv, OpsInv', forced' = forced, FlushMonitoringOperations,
         UNCHANGED <<queue, workItems, serializing, written>>
  PROVE  NoneLost' /\ Queued' \subseteq Queued
<1> DEFINE A == Flushed(monq)
           N == {}
<1>1. Range(monq) \subseteq Range(monq') \cup A /\ Answer(A)
  BY KeptOrFlushed DEF RequestsInv, OpsInv, TypeOK, OpsTypeOK, FlushMonitoringOperations
<1>2. Pending \cup N \subseteq Pending' \cup A /\ written' = written \cup N
  BY <1>1 DEF Pending, Queued, InFlight
<1> HIDE DEF A, N
<1>3. NoneLost'
  BY <1>1, <1>2, NoneLostEffect
<1>4. Range(monq') \subseteq Range(monq)
  BY KeptRange DEF RequestsInv, OpsInv, OnePlace, TypeOK, OpsTypeOK, FlushMonitoringOperations
<1> QED
  BY <1>3, <1>4 DEF Queued

(* Some of the operations in flight on c are answered. *)
LEMMA AnsweringLosesNone ==
  ASSUME RequestsInv, OpsInv', forced' \/ forced' = forced,
         NEW c \in Conns, NEW S, Answer(S),
         workItems' = [workItems EXCEPT ![c] = @ \ S],
         UNCHANGED <<monq, queue, serializing, written>>
  PROVE  NoneLost'
<1> DEFINE N == {}
<1>1. Pending \cup N \subseteq Pending' \cup S /\ written' = written \cup N
  BY DEF Pending, Queued, InFlight, RequestsInv, OpsInv, TypeOK, ConnsTypeOK
<1> HIDE DEF N
<1> QED
  BY <1>1, NoneLostEffect

LEMMA EnqueueLosesNone ==
  ASSUME RequestsInv, OpsInv', forced' = forced, NEW o \in Ops, o \notin Queued, Enqueue(o),
         UNCHANGED <<workItems, calls>>,
         serializing' = serializing \ {o}, written' = written \cup {o}
  PROVE  NoneLost'
<1> DEFINE N == {o}
           A == {}
<1>1. Queued' = Queued \cup {o}
  BY EnqueueRange DEF RequestsInv
<1>2. Pending \cup N \subseteq Pending' \cup A /\ written' = written \cup N
  BY <1>1 DEF Pending, InFlight
<1>3. Answer(A)
  BY NoAnswer DEF RequestsInv, OpsInv, TypeOK
<1> HIDE DEF N, A
<1> QED
  BY <1>2, <1>3, NoneLostEffect

(* Actions that leave the requests alone. *)
LEMMA FrameRequests ==
  ASSUME RequestsInv, OpsInv', ConnsInv', forced' = forced, UNCHANGED <<workItems, ops>>,
         \A c \in available' : c \in available \/ workItems[c] = {},
         \A c \in Conns : workItems[c] # {} => sock'[c] \in {"open", "closing"},
         state' = "destroyed" \/ Ending' => state = "destroyed" \/ Ending
  PROVE  RequestsInv'
<1>1. NoneLost'
  BY NoneLostFrame
<1>2. WorkOnLive' /\ Alone'
  BY DEF RequestsInv, WorkOnLive, Alone
<1>3. LateQueue'
  BY DEF RequestsInv, LateQueue, Queued, ops
<1> QED
  BY <1>1, <1>2, <1>3 DEF RequestsInv

(* checkStatus ends the connections only when nothing is queued or runs. *)
LEMMA CheckStatusRequests ==
  ASSUME RequestsInv, OpsInv', ConnsInv', forced' = forced, NEW n, CheckStatus(n),
         UNCHANGED <<serializing, written>>, state # "destroyed", ~Ending
  PROVE  RequestsInv'
<1>1. NoneLost' /\ Queued' \subseteq Queued
  BY FlushLosesNone DEF CheckStatus
<1>2. workItems' = workItems /\ available' = available
  BY DEF CheckStatus, lists
<1>3. \/ sock' = sock /\ state' # "destroyed"
      \/ /\ sock' = [c \in Conns |-> IF c \in Listed THEN "finishing" ELSE sock[c]]
         /\ ~OperationsInFlight /\ monq' = << >> /\ queue' = << >>
  BY DEF CheckStatus, FlushMonitoringOperations
<1>4. WorkOnLive' /\ Alone'
  BY <1>2, <1>3 DEF RequestsInv, WorkOnLive, Alone, OperationsInFlight
<1>5. LateQueue'
  <2>1. CASE sock' = sock /\ state' # "destroyed"
    BY <2>1 DEF LateQueue, Ending
  <2>2. CASE monq' = << >> /\ queue' = << >>
    <3>1. Queued' = {}
      BY <2>2 DEF Queued, Range
    <3> QED
      BY <3>1 DEF LateQueue
  <2> QED
    BY <1>3, <2>1, <2>2
<1> QED
  BY <1>1, <1>4, <1>5 DEF RequestsInv

LEMMA ForceDestroyRequests ==
  ASSUME RequestsInv, OpsInv', ConnsInv', NEW failed \in SUBSET Conns, ForceDestroy(failed)
  PROVE  RequestsInv'
<1>1. /\ forced' = TRUE /\ available' = {}
      /\ monq' = << >> /\ queue' = << >>
      /\ \A c \in Conns : /\ workItems'[c] = IF c \in Listed \cup failed THEN {} ELSE workItems[c]
                          /\ c \notin Listed \cup failed => sock'[c] = sock[c]
  BY DEF ForceDestroy
<1>2. NoneLost'
  BY <1>1 DEF NoneLost
<1>3. WorkOnLive' /\ Alone'
  BY <1>1 DEF RequestsInv, WorkOnLive, Alone
<1>4. Queued' = {}
  BY <1>1 DEF Queued, Range
<1> QED
  BY <1>2, <1>3, <1>4 DEF RequestsInv, LateQueue

(* A connection fails, its operations get the error. *)
LEMMA FailRequests ==
  ASSUME RequestsInv, OpsInv', ConnsInv', forced' = forced, NEW c \in Conns, NEW s,
         s \notin {"finishing", "finished"},
         sock' = [sock EXCEPT ![c] = s], RemoveConnection(c), FlushWorkItems(c),
         UNCHANGED <<monq, serializing, written>>,
         state' = "destroyed" => state = "destroyed"
  PROVE  RequestsInv'
<1>1. /\ sock \in [Conns -> SockStates] /\ workItems \in [Conns -> SUBSET Ops]
  BY DEF RequestsInv, OpsInv, TypeOK, ConnsTypeOK
<1> DEFINE S == workItems[c]
<1>2. /\ workItems' = [workItems EXCEPT ![c] = @ \ S] /\ Answer(S)
      /\ UNCHANGED <<monq, queue, serializing, written>>
  BY DEF FlushWorkItems
<1>3. NoneLost'
  <2> HIDE DEF S
  <2> QED
    BY <1>2, AnsweringLosesNone
<1>4. /\ workItems'[c] = {} /\ available' \subseteq available
      /\ \A d \in Conns \ {c} : workItems'[d] = workItems[d] /\ sock'[d] = sock[d]
  BY <1>1, <1>2 DEF RemoveConnection
<1>5. WorkOnLive' /\ Alone'
  BY <1>4 DEF RequestsInv, WorkOnLive, Alone
<1>6. Ending' => Ending
  BY <1>1, <1>4 DEF Ending
<1>7. LateQueue'
  BY <1>2, <1>6 DEF RequestsInv, LateQueue, Queued
<1> QED
  BY <1>3, <1>5, <1>7 DEF RequestsInv

(* An operation goes in flight on c, whose socket is open. *)
LEMMA SendRequests ==
  ASSUME RequestsInv, OpsInv', ConnsInv', forced' = forced, NEW c \in Conns, NEW o \in Ops,
         Queued' = Queued \ {o}, sock[c] = "open",
         workItems' = [workItems EXCEPT ![c] = @ \cup {o}],
         UNCHANGED <<state, sock, serializing, written, calls>>,
         available' \subseteq available,
         IF o \in MonitoringOps
         THEN workItems[c] = {} /\ c \notin available'
         ELSE workItems[c] \cap MonitoringOps = {}
  PROVE  RequestsInv'
<1>1. workItems \in [Conns -> SUBSET Ops]
  BY DEF RequestsInv, OpsInv, TypeOK, ConnsTypeOK
<1>2. /\ workItems'[c] = workItems[c] \cup {o}
      /\ \A d \in Conns \ {c} : workItems'[d] = workItems[d]
  BY <1>1
<1> DEFINE N == {}
           A == {}
<1>3. NoneLost'
  <2>1. Pending \cup N \subseteq Pending' \cup A /\ written' = written \cup N
    BY <1>2 DEF Pending, InFlight
  <2>2. Answer(A)
    BY NoAnswer DEF RequestsInv, OpsInv, TypeOK
  <2> HIDE DEF N, A
  <2> QED
    BY <2>1, <2>2, NoneLostEffect
<1>4. WorkOnLive'
  BY <1>2 DEF RequestsInv, WorkOnLive
<1>5. Alone'
  BY <1>2 DEF RequestsInv, Alone
<1>6. LateQueue'
  BY DEF RequestsInv, LateQueue, Ending
<1> QED
  BY <1>3, <1>4, <1>5, <1>6 DEF RequestsInv

LEMMA RequestsInit == Init => RequestsInv
<1> SUFFICES ASSUME Init PROVE RequestsInv
  OBVIOUS
<1>1. OpsInv /\ ConnsInv
  BY OpsInit, ConnsInit
<1>2. WorkOnLive /\ NoneLost /\ Alone
  BY DEF Init, WorkOnLive, NoneLost, Alone
<1>3. LateQueue
  BY DEF Init, LateQueue, Ending
<1> QED
  BY <1>1, <1>2, <1>3 DEF RequestsInv

LEMMA RequestsStep == RequestsInv /\ [Next]_vars => RequestsInv'
<1> SUFFICES ASSUME RequestsInv, [Next]_vars PROVE RequestsInv'
  OBVIOUS
<1>0. OpsInv' /\ ConnsInv' /\ TypeOK /\ TypeOK'
  BY OpsStep, ConnsStep DEF RequestsInv, OpsInv
<1>i. ~IsDestroyed => state # "destroyed" /\ ~Ending
  BY DEF RequestsInv, ConnsInv, Draining, IsDestroyed
<1>s. sock \in [Conns -> SockStates] /\ workItems \in [Conns -> SUBSET Ops]
  BY <1>0 DEF TypeOK, ConnsTypeOK
<1>f. ASSUME UNCHANGED <<state, available, sock, workItems, ops, forced>> PROVE RequestsInv'
  <2>1. Ending' = Ending /\ \A c \in Conns : workItems[c] # {} => sock'[c] \in {"open", "closing"}
    BY <1>f DEF Ending, RequestsInv, WorkOnLive
  <2> QED
    BY <1>0, <1>f, <2>1, FrameRequests
<1> USE DEF lists, conns, ops, timers, retry
<1>1. CASE UNCHANGED vars
  BY <1>1, <1>f DEF vars
<1>2. ASSUME NEW c \in Conns,
             UNCHANGED <<workItems, ops, forced>>,
             \/ UNCHANGED <<available, sock>>
             \/ sock[c] = "none" /\ available' = available \cup {c}
                /\ sock' = [sock EXCEPT ![c] = "open"],
             state' = "destroyed" => state = "destroyed"
      PROVE  RequestsInv'
  <2>1. sock[c] = "none" => workItems[c] = {}
    BY DEF RequestsInv, WorkOnLive
  <2>2. /\ \A d \in available' : d \in available \/ workItems[d] = {}
        /\ \A d \in Conns : workItems[d] # {} => sock'[d] \in {"open", "closing"}
    BY <1>2, <1>s, <2>1 DEF RequestsInv, WorkOnLive
  <2>3. Ending' => Ending
    BY <1>2, <1>s DEF Ending
  <2> QED
    BY <1>0, <1>2, <2>2, <2>3, FrameRequests
<1>3. ASSUME NEW c \in Conns, Connected(c) PROVE RequestsInv'
  <2>1. state' = "destroyed" => state = "destroyed"
    BY <1>3 DEF Connected, StateTransition
  <2> QED
    BY <1>3, <1>2, <2>1 DEF Connected
<1>4. ASSUME NEW c \in Conns, Created(c) \/ Reconnected(c) PROVE RequestsInv'
  BY <1>4, <1>2 DEF Created, Reconnected
<1>5. CASE Connect
  <2>1. state' = "destroyed" => state = "destroyed"
    BY <1>5 DEF Connect, StateTransition
  <2>2. /\ UNCHANGED <<available, sock, workItems, ops, forced>> /\ Ending' = Ending
        /\ \A c \in Conns : workItems[c] # {} => sock'[c] \in {"open", "closing"}
    BY <1>5 DEF Connect, Ending, RequestsInv, WorkOnLive
  <2> QED
    BY <1>0, <2>1, <2>2, FrameRequests
<1>6. CASE ConnectFailed \/ CreateFailed \/ AttemptReconnect
  BY <1>6, <1>f DEF ConnectFailed, CreateFailed, AttemptReconnect
<1>7. ASSUME NEW o \in Ops, Write(o) PROVE RequestsInv'
  <2>1. /\ o \notin Pending /\ written' = written \cup {o}
        /\ UNCHANGED <<state, available, sock, workItems, forced>>
    BY <1>7 DEF Write, RequestsInv, OpsInv, Submitted
  <2>2. WorkOnLive' /\ Alone' /\ Ending' = Ending
    BY <2>1 DEF RequestsInv, WorkOnLive, Alone, Ending
  <2>3. CASE IsDestroyed
    <3> DEFINE N == {o}
    <3>1. Answer(N) /\ UNCHANGED <<monq, queue, serializing>>
      BY <1>7, <2>3 DEF Write
    <3>2. Queued' = Queued /\ Pending \cup N \subseteq Pending' \cup N /\ written' = written \cup N
      BY <2>1, <3>1 DEF Queued, Pending, InFlight
    <3> HIDE DEF N
    <3>3. NoneLost'
      BY <1>0, <2>1, <3>1, <3>2, NoneLostEffect
    <3> QED
      BY <1>0, <2>1, <2>2, <3>2, <3>3 DEF RequestsInv, LateQueue
  <2>4. CASE ~IsDestroyed
    <3>1. LateQueue'
      BY <1>i, <2>1, <2>2, <2>4 DEF LateQueue
    <3>2. CASE o \in CompressedOps
      <4> DEFINE N == {o}
                 A == {}
      <4>1. UNCHANGED <<monq, queue, calls>> /\ serializing' = serializing \cup {o}
        BY <1>7, <2>4, <3>2 DEF Write
      <4>2. Pending \cup N \subseteq Pending' \cup A /\ written' = written \cup N
        BY <2>1, <4>1 DEF Queued, Pending, InFlight
      <4>3. Answer(A)
        BY <4>1, <1>0, NoAnswer DEF TypeOK
      <4> HIDE DEF N, A
      <4>4. NoneLost'
        BY <1>0, <2>1, <4>2, <4>3, NoneLostEffect
      <4> QED
        BY <1>0, <2>2, <3>1, <4>4 DEF RequestsInv
    <3>3. CASE o \notin CompressedOps
      <4>1. Enqueue(o) /\ UNCHANGED <<workItems, calls, serializing>>
        BY <1>7, <2>4, <3>3 DEF Write
      <4>2. o \notin Queued /\ serializing' = serializing \ {o}
        BY <2>1, <4>1 DEF Pending
      <4>3. NoneLost'
        BY <1>0, <2>1, <4>1, <4>2, EnqueueLosesNone
      <4> QED
        BY <1>0, <2>2, <3>1, <4>3 DEF RequestsInv
    <3> QED
      BY <3>2, <3>3
  <2> QED
    BY <2>3, <2>4
<1>8. ASSUME NEW force \in BOOLEAN, Destroy(force) PROVE RequestsInv'
  <2>1. CASE force
    <3>1. {} \in SUBSET Conns /\ ForceDestroy({})
      BY <1>8, <2>1 DEF Destroy
    <3> QED
      BY <1>0, <3>1, ForceDestroyRequests
  <2>2. CASE ~force
    BY <1>8, <2>2, <1>0, <1>i, CheckStatusRequests DEF Destroy
  <2> QED
    BY <2>1, <2>2
<1>9. CASE ReconnectFailed
  <2>1. CASE retriesLeft - 1 <= 0 /\ ~IsDestroyed
    BY <1>9, <2>1, <1>0, <1>i, CheckStatusRequests DEF ReconnectFailed
  <2>2. CASE ~(retriesLeft - 1 <= 0 /\ ~IsDestroyed)
    BY <1>9, <2>2, <1>f DEF ReconnectFailed
  <2> QED
    BY <2>1, <2>2
<1>10. ASSUME NEW c \in Conns, SocketDies(c) \/ SocketClosed(c) PROVE RequestsInv'
  <2>1. /\ UNCHANGED <<state, available, workItems, ops, forced>>
        /\ \/ sock[c] = "open" /\ sock' = [sock EXCEPT ![c] = "closing"]
           \/ sock[c] = "ending" /\ sock' = [sock EXCEPT ![c] = "none"]
    BY <1>10 DEF SocketDies, SocketClosed
  <2>2. \A d \in Conns : workItems[d] # {} => sock'[d] \in {"open", "closing"}
    BY <2>1, <1>s DEF RequestsInv, WorkOnLive
  <2>3. Ending' => Ending
    BY <2>1, <1>s DEF Ending
  <2> QED
    BY <1>0, <2>1, <2>2, <2>3, FrameRequests
<1>11. ASSUME NEW c \in Conns, ConnectionDestroyed(c) PROVE RequestsInv'
  <2>1. /\ UNCHANGED <<workItems, ops, forced>> /\ available' \subseteq available
        /\ \A d \in Conns : sock'[d] = sock[d] \/ sock[d] \in {"finishing", "finished"}
    BY <1>11, <1>s DEF ConnectionDestroyed
  <2>2. \A d \in Conns : workItems[d] # {} => sock'[d] \in {"open", "closing"}
    BY <2>1 DEF RequestsInv, WorkOnLive
  <2>3. Ending
    BY <1>11 DEF ConnectionDestroyed, Ending
  <2> QED
    BY <1>0, <2>1, <2>2, <2>3, FrameRequests
<1>12. ASSUME NEW c \in Conns, NEW event \in {"close", "timeout", "parseError"},
              ConnectionFails(c, event)
       PROVE  RequestsInv'
  <2> DEFINE s == IF event = "close" THEN "none" ELSE "ending"
  <2>1. /\ sock' = [sock EXCEPT ![c] = s] /\ RemoveConnection(c) /\ FlushWorkItems(c)
        /\ s \notin {"finishing", "finished"}
        /\ UNCHANGED <<monq, serializing, written>> /\ forced' = forced
    BY <1>12 DEF ConnectionFails
  <2>2. state' = "destroyed" => state = "destroyed"
    BY <1>12 DEF ConnectionFails, StateTransition
  <2> HIDE DEF s
  <2> QED
    BY <1>0, <2>1, <2>2, FailRequests
<1>13. ASSUME NEW c \in Conns, TooManyTimeouts(c) PROVE RequestsInv'
  <2>1. CASE IsDestroyed
    <3> DEFINE s == "ending"
    <3>1. /\ sock' = [sock EXCEPT ![c] = s] /\ RemoveConnection(c) /\ FlushWorkItems(c)
          /\ s \notin {"finishing", "finished"}
          /\ UNCHANGED <<monq, serializing, written, state>> /\ forced' = forced
      BY <1>13, <2>1 DEF TooManyTimeouts
    <3> HIDE DEF s
    <3> QED
      BY <1>0, <3>1, FailRequests
  <2>2. CASE ~IsDestroyed
    <3>1. {c} \in SUBSET Conns /\ ForceDestroy({c})
      BY <1>13, <2>2 DEF TooManyTimeouts
    <3> QED
      BY <1>0, <3>1, ForceDestroyRequests
  <2> QED
    BY <2>1, <2>2
<1>14. ASSUME NEW c \in Conns, NEW o \in Ops, Message(c, o) PROVE RequestsInv'
  <2> DEFINE S == {o}
  <2>1. /\ workItems' = [workItems EXCEPT ![c] = @ \ S] /\ Answer(S)
        /\ UNCHANGED <<state, sock, monq, queue, serializing, written>> /\ forced' = forced
        /\ o \in workItems[c] /\ ReleaseConnection(c, o)
    BY <1>14 DEF Message
  <2>2. /\ workItems'[c] = workItems[c] \ {o}
        /\ \A d \in Conns \ {c} : workItems'[d] = workItems[d]
    BY <1>s, <2>1
  <2>3. NoneLost'
    <3> HIDE DEF S
    <3> QED
      BY <1>0, <2>1, AnsweringLosesNone
  <2>4. WorkOnLive' /\ LateQueue'
    BY <2>1, <2>2 DEF RequestsInv, WorkOnLive, LateQueue, Ending, Queued
  <2>5. Alone'
    <3>1. CASE o \in MonitoringOps
      <4>1. workItems[c] = {o}
        BY <2>1, <3>1 DEF RequestsInv, Alone
      <4>2. available' \subseteq available \cup {c} /\ workItems'[c] = {}
        BY <2>1, <2>2, <4>1 DEF ReleaseConnection
      <4> QED
        BY <2>2, <4>2 DEF RequestsInv, Alone
    <3>2. CASE o \notin MonitoringOps
      <4>1. available' = available /\ workItems[c] \cap MonitoringOps = {}
        BY <2>1, <3>2 DEF RequestsInv, Alone, ReleaseConnection
      <4> QED
        BY <2>2, <4>1 DEF RequestsInv, Alone
    <3> QED
      BY <3>1, <3>2
  <2> QED
    BY <1>0, <2>3, <2>4, <2>5 DEF RequestsInv
<1>15. ASSUME NEW c \in Conns, LateMessage(c) PROVE RequestsInv'
  BY <1>15, <1>f DEF LateMessage
<1>16. CASE Tick \/ RetryTimer
  BY <1>16, <1>f DEF Tick, RetryTimer
<1>17. CASE DrainTimer
  <2>1. CheckStatus(connecting) /\ UNCHANGED <<serializing, written>> /\ forced' = forced
        /\ drainTimer
    BY <1>17 DEF DrainTimer
  <2>2. state # "destroyed" /\ ~Ending
    BY <2>1 DEF RequestsInv, ConnsInv, Draining
  <2> QED
    BY <1>0, <2>1, <2>2, CheckStatusRequests
<1>18. ASSUME NEW o \in Ops, Serialized(o) PROVE RequestsInv'
  <2>1. /\ o \in serializing /\ serializing' = serializing \ {o} /\ Enqueue(o)
        /\ UNCHANGED <<state, available, sock, workItems, written, calls>> /\ forced' = forced
    BY <1>18 DEF Serialized
  <2>2. o \notin Queued /\ o \in written /\ o \in CompressedOps
    BY <2>1, <1>0 DEF RequestsInv, OpsInv, OnePlace, Submitted, Pending, TypeOK, OpsTypeOK
  <2>3. NoneLost'
    BY <1>0, <2>1, <2>2, EnqueueLosesNone
  <2>4. Queued' = Queued \cup {o}
    BY <2>1, <2>2, EnqueueRange DEF RequestsInv
  <2>5. WorkOnLive' /\ Alone' /\ LateQueue'
    BY <2>1, <2>2, <2>4 DEF RequestsInv, WorkOnLive, Alone, LateQueue, Ending
  <2> QED
    BY <1>0, <2>3, <2>5 DEF RequestsInv
<1>19. ASSUME FlushMonitoringOperations, available' \subseteq available, forced' = forced,
              UNCHANGED <<state, sock, workItems, queue, serializing, written>>
       PROVE  RequestsInv'
  <2>1. NoneLost' /\ Queued' \subseteq Queued
    BY <1>0, <1>19, FlushLosesNone
  <2>2. WorkOnLive' /\ Alone' /\ LateQueue'
    BY <1>19, <2>1 DEF RequestsInv, WorkOnLive, Alone, LateQueue, Ending
  <2> QED
    BY <1>0, <2>1, <2>2 DEF RequestsInv
<1>20. CASE LoopNoConnection
  BY <1>20, <1>19 DEF LoopNoConnection, FlushAndBreak
<1>21. CASE LoopQueueEmpty \/ LoopNoMonitoringConnection \/ LoopResume
  BY <1>21, <1>f DEF LoopQueueEmpty, LoopNoMonitoringConnection, LoopResume
<1>22. ASSUME NEW c \in Conns, LoopDisconnected(c) PROVE RequestsInv'
  BY <1>22, <1>19 DEF LoopDisconnected, FlushAndBreak
<1>23. ASSUME NEW c \in Conns, LoopGrow(c) PROVE RequestsInv'
  BY <1>23, <1>f DEF LoopGrow
<1>24. ASSUME NEW c \in Conns, LoopSendMonitoring(c) PROVE RequestsInv'
  <2> DEFINE o == Head(monq)
  <2>1. /\ monq' = Shift(monq) /\ monq # << >> /\ workItems[c] = {} /\ sock[c] = "open"
        /\ workItems' = [workItems EXCEPT ![c] = @ \cup {o}] /\ available' = available \ {c}
        /\ UNCHANGED <<queue, state, sock, serializing, written, calls>> /\ forced' = forced
    BY <1>24 DEF LoopSendMonitoring, Idle
  <2>2. o \in Range(monq) /\ Range(monq') = Range(monq) \ {o} /\ o \in MonitoringOps /\ o \in Ops
    BY <1>0, <2>1, ShiftRange, PoolAssumption
       DEF TypeOK, OpsTypeOK, RequestsInv, OpsInv, OnePlace
  <2>3. Queued' = Queued \ {o}
    BY <1>0, <2>1, <2>2, RangesApart DEF TypeOK, Queued
  <2> HIDE DEF o
  <2> QED
    BY <1>0, <2>1, <2>2, <2>3, SendRequests
<1>25. ASSUME NEW c \in Conns, LoopSend(c) PROVE RequestsInv'
  <2> DEFINE o == Head(queue)
  <2>1. /\ queue' = Shift(queue) /\ queue # << >> /\ c \in available /\ sock[c] = "open"
        /\ UNCHANGED <<monq, state, available, sock, serializing, written>> /\ forced' = forced
    BY <1>25 DEF LoopSend, Selectable, Idle
  <2>2. o \in Range(queue) /\ Range(queue') = Range(queue) \ {o} /\ o \in Ops \ MonitoringOps
    BY <1>0, <2>1, ShiftRange DEF TypeOK, OpsTypeOK, RequestsInv, OpsInv, OnePlace
  <2>3. Queued' = Queued \ {o}
    BY <1>0, <2>1, <2>2, RangesApart DEF TypeOK, Queued
  <2>4. CASE o \notin NoResponseOps
    <3>1. /\ workItems' = [workItems EXCEPT ![c] = @ \cup {o}] /\ UNCHANGED calls
          /\ workItems[c] \cap MonitoringOps = {}
      BY <1>25, <2>1, <2>4 DEF LoopSend, RequestsInv, Alone
    <3> HIDE DEF o
    <3> QED
      BY <1>0, <2>1, <2>2, <2>3, <3>1, SendRequests
  <2>5. CASE o \in NoResponseOps
    <3> DEFINE A == {o}
               N == {}
    <3>1. Answer(A) /\ workItems' = workItems
      BY <1>25, <2>5 DEF LoopSend
    <3>2. Pending \cup N \subseteq Pending' \cup A /\ written' = written \cup N
      BY <2>1, <2>3, <3>1 DEF Pending, InFlight
    <3>3. NoneLost'
      <4> HIDE DEF A, N
      <4> QED
        BY <1>0, <2>1, <3>1, <3>2, NoneLostEffect
    <3>4. WorkOnLive' /\ Alone' /\ LateQueue'
      BY <2>1, <2>3, <3>1 DEF RequestsInv, WorkOnLive, Alone, LateQueue, Ending
    <3> QED
      BY <1>0, <3>3, <3>4 DEF RequestsInv
  <2> QED
    BY <2>4, <2>5
<1> QED
  BY <1>1, <1>3, <1>4, <1>5, <1>6, <1>7, <1>8, <1>9, <1>10, <1>11, <1>12, <1>13, <1>14,
     <1>15, <1>16, <1>17, <1>18, <1>20, <1>21, <1>22, <1>23, <1>24, <1>25
     DEF Next, Client, Opening, Event, Loop, Scheduled

(* For every pool: no operation is queued twice or lost, a monitoring      *)
(* operation has its connection to itself, and destroy() waits for what is *)
(* queued and in flight.                                                   *)
THEOREM RequestsCorrect == Spec => []RequestsKept
<1>1. Init => RequestsInv
  BY RequestsInit
<1>2. RequestsInv /\ [Next]_vars => RequestsInv'
  BY RequestsStep
<1>3. RequestsInv => RequestsKept
  BY RequestsAreKept
<1> QED
  BY <1>1, <1>2, <1>3, PTL DEF Spec

(***************************************************************************)
(* What a step may never undo                                              *)
(***************************************************************************)

StaysDestroyed ==
  IsDestroyed => /\ IsDestroyed'
                 /\ Listed' \subseteq Listed
                 /\ \A k \in Kinds : attempts'[k] <= attempts[k]

NotRequeued == \A o \in written : o \notin Queued \cup serializing => o \notin Queued'

LEMMA DestroyedStep == TypeOK /\ [Next]_vars => StaysDestroyed
<1> SUFFICES ASSUME TypeOK, IsDestroyed, [Next]_vars PROVE StaysDestroyed
  BY DEF StaysDestroyed
<1>k. attempts \in [Kinds -> Nat]
  BY DEF TypeOK, PoolTypeOK
<1>s. state \in {"destroying", "destroyed"}
  BY DEF IsDestroyed
<1>f. ASSUME state' \in {"destroying", "destroyed"}, Listed' \subseteq Listed, attempts' = attempts
      PROVE  StaysDestroyed
  BY <1>f, <1>k DEF StaysDestroyed, IsDestroyed
<1> USE DEF lists, conns, ops, timers, retry
<1>1. CASE UNCHANGED vars
  BY <1>1, <1>s, <1>f DEF vars, Listed
<1>2. CASE Connect
  BY <1>2, <1>s DEF Connect
<1>3. ASSUME NEW o \in Ops, Write(o) \/ Serialized(o) PROVE StaysDestroyed
  BY <1>3, <1>s, <1>f DEF Write, Serialized, Listed
<1>4. ASSUME NEW force \in BOOLEAN, Destroy(force) PROVE StaysDestroyed
  BY <1>4 DEF Destroy
<1>5. ASSUME NEW kind \in Kinds, AttemptDone(kind), UNCHANGED <<state, lists>>
      PROVE  StaysDestroyed
  <2>1. \A k \in Kinds : attempts'[k] <= attempts[k]
    BY <1>5, <1>k DEF AttemptDone
  <2> QED
    BY <1>5, <2>1 DEF StaysDestroyed, IsDestroyed, Listed
<1>6. ASSUME NEW c \in Conns, Connected(c) \/ Created(c) \/ Reconnected(c) PROVE StaysDestroyed
  BY <1>6, <1>5 DEF Connected, Created, Reconnected, Kinds
<1>7. CASE ConnectFailed \/ CreateFailed
  BY <1>7, <1>5 DEF ConnectFailed, CreateFailed, Kinds
<1>8. CASE AttemptReconnect
  BY <1>8, <1>s, <1>f DEF AttemptReconnect, Listed
<1>9. CASE ReconnectFailed
  <2>1. UNCHANGED <<state, lists>> /\ \A k \in Kinds : attempts'[k] <= attempts[k]
    BY <1>9, <1>k DEF ReconnectFailed
  <2> QED
    BY <2>1 DEF StaysDestroyed, IsDestroyed, Listed
<1>10. ASSUME NEW c \in Conns, SocketDies(c) \/ SocketClosed(c) \/ LateMessage(c)
       PROVE  StaysDestroyed
  BY <1>10, <1>s, <1>f DEF SocketDies, SocketClosed, LateMessage, Listed
<1>11. ASSUME NEW c \in Conns, ConnectionDestroyed(c) PROVE StaysDestroyed
  BY <1>11, <1>s, <1>f DEF ConnectionDestroyed, StateTransition, Listed
<1>12. ASSUME NEW c \in Conns, NEW event \in {"close", "timeout", "parseError"},
              ConnectionFails(c, event)
       PROVE  StaysDestroyed
  BY <1>12, <1>s, <1>f DEF ConnectionFails, CreateConnection, RemoveConnection, Listed
<1>13. ASSUME NEW c \in Conns, TooManyTimeouts(c) PROVE StaysDestroyed
  BY <1>13, <1>s, <1>f DEF TooManyTimeouts, RemoveConnection, Listed
<1>14. ASSUME NEW c \in Conns, NEW o \in Ops, Message(c, o) PROVE StaysDestroyed
  BY <1>14, <1>s, <1>f DEF Message, ReleaseConnection, Listed
<1>15. CASE Tick \/ RetryTimer
  BY <1>15, <1>s, <1>f DEF Tick, RetryTimer, Listed
<1>16. CASE DrainTimer
  BY <1>16, <1>f DEF DrainTimer, CheckStatus, Listed
<1>17. CASE LoopNoConnection \/ LoopQueueEmpty \/ LoopResume
  BY <1>17, <1>s, <1>f DEF LoopNoConnection, LoopQueueEmpty, LoopResume, Listed
<1>18. CASE LoopNoMonitoringConnection
  BY <1>18, <1>s, <1>f DEF LoopNoMonitoringConnection, CreateConnection, Listed
<1>19. ASSUME NEW c \in Conns, LoopGrow(c) PROVE StaysDestroyed
  BY <1>19, <1>s, <1>f DEF LoopGrow, CreateConnection, Listed
<1>20. ASSUME NEW c \in Conns, LoopDisconnected(c) PROVE StaysDestroyed
  BY <1>20, <1>s, <1>f DEF LoopDisconnected, Listed
<1>21. ASSUME NEW c \in Conns, LoopSendMonitoring(c) PROVE StaysDestroyed
  BY <1>21, <1>s, <1>f DEF LoopSendMonitoring, Idle, Listed
<1>22. ASSUME NEW c \in Conns, LoopSend(c) PROVE StaysDestroyed
  BY <1>22, <1>s, <1>f DEF LoopSend, Listed
<1> QED
  BY <1>1, <1>2, <1>3, <1>4, <1>6, <1>7, <1>8, <1>9, <1>10, <1>11, <1>12, <1>13, <1>14,
     <1>15, <1>16, <1>17, <1>18, <1>19, <1>20, <1>21, <1>22
     DEF Next, Client, Opening, Event, Loop, Scheduled

LEMMA RequeueStep == OpsInv /\ [Next]_vars => NotRequeued
<1> SUFFICES ASSUME OpsInv, [Next]_vars PROVE NotRequeued
  OBVIOUS
<1>t. OpsTypeOK /\ IsInjective(monq) /\ IsInjective(queue)
  BY DEF OpsInv, TypeOK, OnePlace
<1>f. ASSUME Queued' \subseteq Queued PROVE NotRequeued
  BY <1>f DEF NotRequeued
<1>u. ASSUME UNCHANGED <<monq, queue>> PROVE NotRequeued
  BY <1>u, <1>f DEF Queued
<1>m. ASSUME FlushMonitoringOperations, UNCHANGED queue PROVE NotRequeued
  <2>1. Range(monq') \subseteq Range(monq)
    BY <1>m, <1>t, KeptRange DEF OpsTypeOK, FlushMonitoringOperations
  <2> QED
    BY <1>m, <1>f, <2>1 DEF Queued
<1>e. ASSUME NEW S, ForceDestroy(S) PROVE NotRequeued
  BY <1>e, <1>f DEF ForceDestroy, Queued, Range
<1> USE DEF lists, conns, ops, timers, retry
<1>1. CASE UNCHANGED vars
  BY <1>1, <1>u DEF vars
<1>2. CASE Connect
  BY <1>2, <1>u DEF Connect
<1>3. ASSUME NEW o \in Ops, Enqueue(o), o \notin Queued, o \in serializing \/ o \notin written
      PROVE  NotRequeued
  <2>1. Queued' = Queued \cup {o}
    BY <1>3, EnqueueRange
  <2> QED
    BY <1>3, <2>1 DEF NotRequeued
<1>4. ASSUME NEW o \in Ops, Write(o) PROVE NotRequeued
  <2>1. o \notin written /\ o \notin Queued
    BY <1>4 DEF Write, OpsInv, Submitted, Pending
  <2> QED
    BY <1>4, <1>3, <1>u, <2>1 DEF Write
<1>5. ASSUME NEW o \in Ops, Serialized(o) PROVE NotRequeued
  BY <1>5, <1>3 DEF Serialized, OpsInv, OnePlace
<1>6. ASSUME NEW force \in BOOLEAN, Destroy(force) PROVE NotRequeued
  BY <1>6, <1>e, <1>m DEF Destroy, CheckStatus
<1>7. ASSUME NEW c \in Conns, Connected(c) \/ Created(c) \/ Reconnected(c) PROVE NotRequeued
  BY <1>7, <1>u DEF Connected, Created, Reconnected
<1>8. CASE ConnectFailed \/ CreateFailed \/ AttemptReconnect
  BY <1>8, <1>u DEF ConnectFailed, CreateFailed, AttemptReconnect
<1>9. CASE ReconnectFailed
  BY <1>9, <1>u, <1>m DEF ReconnectFailed, CheckStatus
<1>10. ASSUME NEW c \in Conns,
              SocketDies(c) \/ SocketClosed(c) \/ ConnectionDestroyed(c) \/ LateMessage(c)
       PROVE  NotRequeued
  BY <1>10, <1>u DEF SocketDies, SocketClosed, ConnectionDestroyed, LateMessage
<1>11. ASSUME NEW c \in Conns, NEW event \in {"close", "timeout", "parseError"},
              ConnectionFails(c, event)
       PROVE  NotRequeued
  BY <1>11, <1>u DEF ConnectionFails, FlushWorkItems
<1>12. ASSUME NEW c \in Conns, TooManyTimeouts(c) PROVE NotRequeued
  BY <1>12, <1>u, <1>e DEF TooManyTimeouts, FlushWorkItems
<1>13. ASSUME NEW c \in Conns, NEW o \in Ops, Message(c, o) PROVE NotRequeued
  BY <1>13, <1>u DEF Message
<1>14. CASE Tick \/ RetryTimer
  BY <1>14, <1>u DEF Tick, RetryTimer
<1>15. CASE DrainTimer
  BY <1>15, <1>m DEF DrainTimer, CheckStatus
<1>16. CASE LoopNoConnection
  BY <1>16, <1>m DEF LoopNoConnection, FlushAndBreak
<1>17. CASE LoopQueueEmpty \/ LoopNoMonitoringConnection \/ LoopResume
  BY <1>17, <1>u DEF LoopQueueEmpty, LoopNoMonitoringConnection, LoopResume
<1>18. ASSUME NEW c \in Conns, LoopDisconnected(c) PROVE NotRequeued
  BY <1>18, <1>m DEF LoopDisconnected, FlushAndBreak
<1>19. ASSUME NEW c \in Conns, LoopGrow(c) PROVE NotRequeued
  BY <1>19, <1>u DEF LoopGrow
<1>20. ASSUME NEW c \in Conns, LoopSendMonitoring(c) PROVE NotRequeued
  <2>1. Range(monq') \subseteq Range(monq) /\ queue' = queue
    BY <1>20, <1>t, ShiftRange DEF LoopSendMonitoring, OpsTypeOK
  <2> QED
    BY <2>1, <1>f DEF Queued
<1>21. ASSUME NEW c \in Conns, LoopSend(c) PROVE NotRequeued
  <2>1. Range(queue') \subseteq Range(queue) /\ monq' = monq
    BY <1>21, <1>t, ShiftRange DEF LoopSend, OpsTypeOK
  <2> QED
    BY <2>1, <1>f DEF Queued
<1> QED
  BY <1>1, <1>2, <1>4, <1>5, <1>6, <1>7, <1>8, <1>9, <1>10, <1>11, <1>12, <1>13, <1>14,
     <1>15, <1>16, <1>17, <1>18, <1>19, <1>20, <1>21
     DEF Next, Client, Opening, Event, Loop, Scheduled

(* No step revives a destroyed pool, adds a connection to it or starts an  *)
(* attempt for it; none puts an operation that was sent or answered back   *)
(* into the queue.                                                         *)
THEOREM NothingUndone == Spec => NeverUndone
<1>1. Init => OpsInv
  BY OpsInit
<1>2. OpsInv /\ [Next]_vars => OpsInv'
  BY OpsStep
<1>3. OpsInv /\ [Next]_vars => [StaysDestroyed]_vars /\ [NotRequeued]_vars
  BY DestroyedStep, RequeueStep DEF OpsInv
<1>4. Spec => [][StaysDestroyed]_vars /\ [][NotRequeued]_vars
  BY <1>1, <1>2, <1>3, PTL DEF Spec
<1> QED
  BY <1>4 DEF NeverUndone, DestroyedForGood, NeverRequeued, StaysDestroyed, NotRequeued
=============================================================================
