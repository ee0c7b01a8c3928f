----------------------------- MODULE SessionLease -----------------------------
(***************************************************************************)
(* What the pool of server sessions promises to client sessions            *)
(* (ServerSessionPool, lib/sessions.js:540-608): a server session is held  *)
(* by one client session at a time, a new one is made only when the pool   *)
(* has none to give, and one that was dropped never comes back.            *)
(***************************************************************************)
CONSTANTS
  Clients,         \* client sessions, none named as the places below
  ServerSessions   \* server sessions that can ever be made

VARIABLE place     \* where each server session is: with a client session,
                   \* pooled, not made yet, or gone for good

Pooled == {l \in ServerSessions : place[l] = "pooled"}

(* The session l moves to p and those in dropped are gone. *)
Move(l, p, dropped) ==
  place' = [m \in ServerSessions |-> IF m = l THEN p
                                    ELSE IF m \in dropped THEN "gone" ELSE place[m]]

Init == place = [l \in ServerSessions |-> "unborn"]

Acquire(c, l) ==
  /\ \A m \in ServerSessions : place[m] # c
  /\ \/ place[l] = "pooled" /\ \E dropped \in SUBSET Pooled : Move(l, c, dropped)
     \/ place[l] = "unborn" /\ Move(l, c, Pooled)

Release(c, l) ==
  /\ place[l] = c
  /\ \E p \in {"pooled", "gone"}, dropped \in SUBSET Pooled : Move(l, p, dropped)

EndAllPooledSessions ==
  place' = [l \in ServerSessions |-> IF l \in Pooled THEN "gone" ELSE place[l]]

Next ==
  \/ \E c \in Clients, l \in ServerSessions : Acquire(c, l) \/ Release(c, l)
  \/ EndAllPooledSessions

Spec == Init /\ [][Next]_place
===============================================================================
