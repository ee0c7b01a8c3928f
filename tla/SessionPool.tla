----------------------------- MODULE SessionPool ------------------------------
(***************************************************************************)
(* The pool of server sessions, ServerSessionPool in lib/sessions.js, and  *)
(* the ageing of the sessions in it and out of it.                         *)
(*                                                                         *)
(* Time is counted in half minutes, the finest unit hasTimedOut tells      *)
(* apart: it rounds to minutes.  A session is as old as its last use.      *)
(***************************************************************************)
EXTENDS Integers, Sequences, Functions

CONSTANTS
  Clients,         \* client sessions
  ServerSessions,  \* server sessions that can be made
  Timeouts,        \* values of logicalSessionTimeoutMinutes, 0 for null
  Passes,          \* lengths of time that can pass at once
  MaxAge,          \* bound on the age of a session
  None             \* no server session

ASSUME SessionPoolAssumption ==
  /\ None \notin ServerSessions
  /\ {"unborn", "pooled", "gone"} \cap Clients = {}
  /\ Timeouts \subseteq Nat
  /\ Passes \subseteq Nat
  /\ MaxAge \in Nat

VARIABLES
  sessions,   \* ServerSessionPool.sessions
  holder,     \* the serverSession of each client session
  born,       \* server sessions that were made
  age,        \* time since lastUse, of those held or pooled
  timeout     \* logicalSessionTimeoutMinutes of the topology

vars == <<sessions, holder, born, age, timeout>>

Held == {holder[c] : c \in Clients} \ {None}

(* Mutant: the minute that a session may take to reach the server is       *)
(* forgotten.                                                              *)
MutantTimedOutLate(l) == ((age[l] % 120) + 1) \div 2 > timeout

(* hasTimedOut: milliseconds modulo a day, modulo an hour, in minutes. *)
IdleMinutes(l) == ((age[l] % 120) + 1) \div 2
HasTimedOut(l) == IdleMinutes(l) > timeout - 1

(* The pool becomes p; the age of a session that leaves is forgotten. *)
Become(p, held) ==
  /\ sessions' = p
  /\ age' = [l \in ServerSessions |-> IF l \in Range(p) \cup held THEN age[l] ELSE 0]

(* Mutant: the session that is handed out stays in the pool. *)
MutantNotShifted(k) == SubSeq(sessions, k, Len(sessions))

(* What is left of the pool when its first k sessions were shifted off. *)
Shifted(k) == SubSeq(sessions, k + 1, Len(sessions))

(* acquire: the first session that has not timed out, or a new one. *)
Acquire(c) ==
  /\ holder[c] = None
  /\ \/ \E k \in DOMAIN sessions :
          /\ ~HasTimedOut(sessions[k])
          /\ \A j \in 1..(k - 1) : HasTimedOut(sessions[j])
          /\ holder' = [holder EXCEPT ![c] = sessions[k]]
          /\ Become(Shifted(k), Held \cup {sessions[k]})
          /\ UNCHANGED born
     \/ /\ \A k \in DOMAIN sessions : HasTimedOut(sessions[k])
        /\ \E l \in ServerSessions \ born :
             /\ holder' = [holder EXCEPT ![c] = l]
             /\ born' = born \cup {l}
             /\ Become(<< >>, Held)
  /\ UNCHANGED timeout

(* release: the sessions that timed out leave from the end; the released   *)
(* one joins at the front unless it timed out.                             *)
Release(c) ==
  /\ holder[c] # None
  /\ \E k \in 0..Len(sessions) :
       /\ k > 0 => ~HasTimedOut(sessions[k])
       /\ \A j \in (k + 1)..Len(sessions) : HasTimedOut(sessions[j])
       /\ Become((IF HasTimedOut(holder[c]) THEN << >> ELSE <<holder[c]>>)
                   \o SubSeq(sessions, 1, k), Held \ {holder[c]})
  /\ holder' = [holder EXCEPT ![c] = None]
  /\ UNCHANGED <<born, timeout>>

(* applySession: a command is sent with the session. *)
Use(c) ==
  /\ holder[c] # None
  /\ age' = [age EXCEPT ![holder[c]] = 0]
  /\ UNCHANGED <<sessions, holder, born, timeout>>

(* endAllPooledSessions, called by close() after it ended every session. *)
EndAllPooledSessions ==
  /\ Held = {}
  /\ Become(<< >>, {})
  /\ UNCHANGED <<holder, born, timeout>>

(* Time passes. *)
Pass(d) ==
  /\ \A l \in Held \cup Range(sessions) : age[l] + d <= MaxAge
  /\ age' = [l \in ServerSessions |->
              IF l \in Held \cup Range(sessions) THEN age[l] + d ELSE age[l]]
  /\ UNCHANGED <<sessions, holder, born, timeout>>

(* The topology learns another timeout, or none when it has no servers. *)
TimeoutChanges(t) ==
  /\ timeout' = t
  /\ UNCHANGED <<sessions, holder, born, age>>

Init ==
  /\ sessions = << >>
  /\ holder = [c \in Clients |-> None]
  /\ born = {}
  /\ age = [l \in ServerSessions |-> 0]
  /\ timeout \in Timeouts

Next ==
  \/ \E c \in Clients : Acquire(c) \/ Release(c) \/ Use(c)
  \/ EndAllPooledSessions
  \/ \E d \in Passes : Pass(d)
  \/ \E t \in Timeouts : TimeoutChanges(t)

Spec == Init /\ [][Next]_vars

(***************************************************************************)
(* Properties                                                              *)
(***************************************************************************)

TypeOK ==
  /\ sessions \in Seq(ServerSessions)
  /\ holder \in [Clients -> ServerSessions \cup {None}]
  /\ born \in SUBSET ServerSessions
  /\ age \in [ServerSessions -> 0..MaxAge]
  /\ timeout \in Timeouts

(* A server session is in one place: pooled once, or held by one client    *)
(* session.  Two holders would take each other's transaction numbers.      *)
OnePlace ==
  /\ IsInjective(sessions)
  /\ \A c, d \in Clients : c # d /\ holder[c] # None => holder[c] # holder[d]
  /\ Held \cap Range(sessions) = {}
  /\ Held \cup Range(sessions) \subseteq born

PoolOK == TypeOK /\ OnePlace

(* A pooled session last used within the hour is handed out only if the    *)
(* server, which drops sessions unused for timeout minutes, has it for     *)
(* half a minute more at least.                                            *)
AcquiredWithinTheHour ==
  [][\A l \in Range(sessions) \cap Held' :
       age[l] < 120 => age[l] + 1 < 2 * timeout]_vars

(* Server sessions go where the abstract pool lets them. *)
Place ==
  [l \in ServerSessions |->
    IF \E c \in Clients : holder[c] = l THEN CHOOSE c \in Clients : holder[c] = l
    ELSE IF l \in Range(sessions) THEN "pooled"
    ELSE IF l \in born THEN "gone" ELSE "unborn"]

Lease == INSTANCE SessionLease WITH place <- Place

LeaseSpec == Lease!Spec
=============================================================================
