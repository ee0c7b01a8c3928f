-------------------------- MODULE SessionPoolProofs ---------------------------
(***************************************************************************)
(* Proofs about SessionPool, for every set of client sessions, of server   *)
(* sessions, of timeouts and of lengths of time: the invariant PoolOK, the *)
(* age of the sessions handed out, and that the pool implements            *)
(* SessionLease.                                                           *)
(***************************************************************************)
EXTENDS SessionPool, TLAPS

(***************************************************************************)
(* Sequences without repetitions                                           *)
(***************************************************************************)

(* What is left of a pool when its first k sessions leave has none of them *)
(* (acquire).                                                              *)
LEMMA SuffixRange ==
  ASSUME NEW S, NEW q \in Seq(S), IsInjective(q), NEW k \in DOMAIN q
  PROVE  LET r == SubSeq(q, k + 1, Len(q)) IN
         /\ r \in Seq(S) /\ IsInjective(r)
         /\ Range(r) \subseteq Range(q) \ {q[k]}
<1> DEFINE r == SubSeq(q, k + 1, Len(q))
<1>1. /\ Len(q) \in Nat /\ DOMAIN q = 1..Len(q) /\ k \in 1..Len(q)
      /\ r \in Seq(S) /\ DOMAIN r = 1..(Len(q) - k)
      /\ \A i \in 1..(Len(q) - k) : r[i] = q[k + i]
  OBVIOUS
<1> HIDE DEF r
<1>2. \A i \in DOMAIN r : k + i \in DOMAIN q /\ k + i # k /\ r[i] = q[k + i]
  BY <1>1
<1>3. IsInjective(r)
  <2>1. SUFFICES ASSUME NEW i \in DOMAIN r, NEW j \in DOMAIN r, r[i] = r[j]
                 PROVE  i = j
    BY DEF IsInjective
  <2>2. k + i = k + j
    BY <1>2, <2>1 DEF IsInjective
  <2> QED BY <1>1, <2>2
<1>4. Range(r) \subseteq Range(q) \ {q[k]}
  BY <1>2 DEF Range, IsInjective
<1> QED BY <1>1, <1>3, <1>4 DEF r

(* A pool whose last sessions leave (release). *)
LEMMA PrefixRange ==
  ASSUME NEW S, NEW q \in Seq(S), IsInjective(q), NEW k \in 0..Len(q)
  PROVE  LET r == SubSeq(q, 1, k) IN
         /\ r \in Seq(S) /\ IsInjective(r) /\ Range(r) \subseteq Range(q)
<1> DEFINE r == SubSeq(q, 1, k)
<1>1. /\ r \in Seq(S) /\ Len(r) = k
      /\ \A i \in 1..Len(r) : r[i] = q[i] /\ i \in DOMAIN q
  OBVIOUS
<1> QED BY <1>1 DEF IsInjective, Range

(* A pool that is joined at the front by a session it did not have. *)
LEMMA ConsRange ==
  ASSUME NEW S, NEW q \in Seq(S), IsInjective(q), NEW l \in S, l \notin Range(q)
  PROVE  LET r == <<l>> \o q IN
         r \in Seq(S) /\ IsInjective(r) /\ Range(r) = Range(q) \cup {l}
<1> DEFINE r == <<l>> \o q
<1>1. /\ Len(q) \in Nat /\ DOMAIN q = 1..Len(q)
      /\ r \in Seq(S) /\ DOMAIN r = 1..(Len(q) + 1) /\ r[1] = l
      /\ \A i \in 2..(Len(q) + 1) : r[i] = q[i - 1]
  OBVIOUS
<1> HIDE DEF r
<1>2. \A i \in DOMAIN q : q[i] # l
  BY DEF Range
<1>3. IsInjective(r)
  <2>1. SUFFICES ASSUME NEW i \in DOMAIN r, NEW j \in DOMAIN r, r[i] = r[j]
                 PROVE  i = j
    BY DEF IsInjective
  <2>2. CASE i = 1 \/ j = 1
    BY <1>1, <1>2, <2>1, <2>2
  <2>3. CASE i # 1 /\ j # 1
    <3>1. i - 1 \in DOMAIN q /\ j - 1 \in DOMAIN q /\ q[i - 1] = q[j - 1]
      BY <1>1, <2>1, <2>3
    <3>2. i - 1 = j - 1
      BY <3>1 DEF IsInjective
    <3> QED BY <1>1, <3>2
  <2> QED BY <2>2, <2>3
<1>4. Range(r) \subseteq Range(q) \cup {l}
  BY <1>1 DEF Range
<1>5. ASSUME NEW i \in DOMAIN q PROVE q[i] \in Range(r)
  <2>1. i + 1 \in DOMAIN r /\ r[i + 1] = q[i]
    BY <1>1
  <2> QED BY <2>1 DEF Range
<1>6. l \in Range(r)
  BY <1>1 DEF Range
<1>7. Range(q) \subseteq Range(r)
  BY <1>5 DEF Range
<1> QED BY <1>1, <1>3, <1>4, <1>6, <1>7 DEF r

(***************************************************************************)
(* The invariant                                                           *)
(***************************************************************************)

LEMMA PoolInit == Init => PoolOK
  BY SessionPoolAssumption DEF Init, PoolOK, TypeOK, OnePlace, Held, Range, IsInjective

(* Ages stay in range when the pool changes. *)
LEMMA BecomeAge ==
  ASSUME TypeOK, NEW p, NEW held, Become(p, held)
  PROVE  sessions' = p /\ age' \in [ServerSessions -> 0..MaxAge]
  BY SessionPoolAssumption DEF TypeOK, Become

LEMMA AcquireStep ==
  ASSUME PoolOK, NEW c \in Clients, Acquire(c)
  PROVE  PoolOK'
<1> USE DEF PoolOK
<1>1. CASE \E k \in DOMAIN sessions :
             /\ holder' = [holder EXCEPT ![c] = sessions[k]]
             /\ Become(Shifted(k), Held \cup {sessions[k]})
             /\ UNCHANGED <<born, timeout>>
  <2>1. PICK k \in DOMAIN sessions :
             /\ holder' = [holder EXCEPT ![c] = sessions[k]]
             /\ Become(Shifted(k), Held \cup {sessions[k]})
             /\ UNCHANGED <<born, timeout>>
    BY <1>1
  <2>2. /\ sessions' \in Seq(ServerSessions) /\ IsInjective(sessions')
        /\ Range(sessions') \subseteq Range(sessions) \ {sessions[k]}
        /\ age' \in [ServerSessions -> 0..MaxAge]
    <3>1. /\ sessions' = SubSeq(sessions, k + 1, Len(sessions))
          /\ age' \in [ServerSessions -> 0..MaxAge]
      BY <2>1, BecomeAge DEF Shifted
    <3>2. sessions \in Seq(ServerSessions) /\ IsInjective(sessions)
      BY DEF TypeOK, OnePlace
    <3> QED BY <3>1, <3>2, SuffixRange
  <2>3. sessions[k] \in ServerSessions /\ sessions[k] \in Range(sessions)
    BY <2>1 DEF TypeOK, Range
  <2>4. TypeOK'
    BY <2>1, <2>2, <2>3 DEF TypeOK
  <2>5. Held' \subseteq Held \cup {sessions[k]}
    BY <2>1 DEF Held, TypeOK
  <2>6. OnePlace'
    BY <2>1, <2>2, <2>3, <2>5, SessionPoolAssumption DEF OnePlace, Held, TypeOK
  <2> QED BY <2>4, <2>6
<1>2. CASE \E l \in ServerSessions \ born :
             /\ holder' = [holder EXCEPT ![c] = l]
             /\ born' = born \cup {l}
             /\ Become(<< >>, Held)
             /\ UNCHANGED timeout
  <2>1. PICK l \in ServerSessions \ born :
             /\ holder' = [holder EXCEPT ![c] = l]
             /\ born' = born \cup {l}
             /\ Become(<< >>, Held)
             /\ UNCHANGED timeout
    BY <1>2
  <2>2. sessions' = << >> /\ age' \in [ServerSessions -> 0..MaxAge]
    BY <2>1, BecomeAge
  <2>3. Range(sessions') = {} /\ IsInjective(sessions')
    BY <2>2 DEF Range, IsInjective
  <2>4. TypeOK'
    BY <2>1, <2>2 DEF TypeOK
  <2>5. Held' \subseteq Held \cup {l}
    BY <2>1 DEF Held, TypeOK
  <2>6. OnePlace'
    BY <2>1, <2>3, <2>5, SessionPoolAssumption DEF OnePlace, Held, TypeOK
  <2> QED BY <2>4, <2>6
<1> QED BY <1>1, <1>2 DEF Acquire

LEMMA ReleaseStep ==
  ASSUME PoolOK, NEW c \in Clients, Release(c)
  PROVE  /\ PoolOK'
         /\ Range(sessions') \subseteq Range(sessions) \cup {holder[c]}
<1> USE DEF PoolOK
<1> DEFINE Front == IF HasTimedOut(holder[c]) THEN << >> ELSE <<holder[c]>>
<1>1. PICK k \in 0..Len(sessions) :
        Become(Front \o SubSeq(sessions, 1, k), Held \ {holder[c]})
  BY DEF Release
<1>2. holder[c] \in ServerSessions /\ holder[c] \in Held
      /\ holder' = [holder EXCEPT ![c] = None] /\ UNCHANGED <<born, timeout>>
  BY DEF Release, TypeOK, Held
<1>3. PICK q \in Seq(ServerSessions) :
        /\ IsInjective(q) /\ Range(q) \subseteq Range(sessions)
        /\ Become(Front \o q, Held \ {holder[c]})
  BY <1>1, PrefixRange DEF TypeOK, OnePlace
<1>4. holder[c] \notin Range(q)
  BY <1>2, <1>3 DEF OnePlace
<1>5. /\ sessions' \in Seq(ServerSessions) /\ IsInjective(sessions')
      /\ Range(sessions') \subseteq Range(sessions) \cup {holder[c]}
      /\ age' \in [ServerSessions -> 0..MaxAge]
  <2>1. sessions' = Front \o q /\ age' \in [ServerSessions -> 0..MaxAge]
    BY <1>3, SessionPoolAssumption DEF Become, TypeOK
  <2>2. CASE HasTimedOut(holder[c])
    <3>1. sessions' = q
      BY <2>1, <2>2, <1>3
    <3> QED BY <3>1, <2>1, <1>3
  <2>3. CASE ~HasTimedOut(holder[c])
    <3>1. sessions' = <<holder[c]>> \o q
      BY <2>1, <2>3
    <3>2. /\ sessions' \in Seq(ServerSessions) /\ IsInjective(sessions')
          /\ Range(sessions') = Range(q) \cup {holder[c]}
      BY <3>1, <1>2, <1>3, <1>4, ConsRange
    <3> QED BY <3>2, <2>1, <1>3
  <2> QED BY <2>2, <2>3
<1>6. TypeOK'
  BY <1>2, <1>5 DEF TypeOK
<1>7. Held' = Held \ {holder[c]}
  BY <1>2 DEF Held, TypeOK, OnePlace
<1>8. OnePlace'
  BY <1>2, <1>5, <1>7 DEF OnePlace, TypeOK
<1> QED BY <1>5, <1>6, <1>8

LEMMA PoolStep == PoolOK /\ [Next]_vars => PoolOK'
<1> SUFFICES ASSUME PoolOK, [Next]_vars PROVE PoolOK'
  OBVIOUS
<1> USE DEF PoolOK
<1>1. ASSUME NEW c \in Clients, Acquire(c) PROVE PoolOK'
  BY <1>1, AcquireStep
<1>2. ASSUME NEW c \in Clients, Release(c) PROVE PoolOK'
  BY <1>2, ReleaseStep
<1>3. ASSUME NEW c \in Clients, Use(c) PROVE PoolOK'
  BY <1>3, SessionPoolAssumption DEF Use, TypeOK, OnePlace, Held
<1>4. CASE EndAllPooledSessions
  <2>1. sessions' = << >> /\ age' \in [ServerSessions -> 0..MaxAge]
    BY <1>4, BecomeAge DEF EndAllPooledSessions
  <2>2. Range(sessions') = {} /\ IsInjective(sessions')
    BY <2>1 DEF Range, IsInjective
  <2> QED BY <1>4, <2>1, <2>2 DEF EndAllPooledSessions, TypeOK, OnePlace, Held
<1>5. ASSUME NEW d \in Passes, Pass(d) PROVE PoolOK'
  <2>1. \A l \in ServerSessions : age'[l] \in 0..MaxAge
    BY <1>5, SessionPoolAssumption DEF Pass, TypeOK
  <2>2. age' \in [ServerSessions -> 0..MaxAge]
    BY <1>5, <2>1 DEF Pass
  <2> QED BY <1>5, <2>2 DEF Pass, TypeOK, OnePlace, Held
<1>6. ASSUME NEW t \in Timeouts, TimeoutChanges(t) PROVE PoolOK'
  BY <1>6 DEF TimeoutChanges, TypeOK, OnePlace, Held
<1>7. CASE UNCHANGED vars
  BY <1>7 DEF vars, TypeOK, OnePlace, Held
<1> QED BY <1>1, <1>2, <1>3, <1>4, <1>5, <1>6, <1>7 DEF Next

(* No server session is held twice, or pooled while it is held             *)
(* (ServerSessionPool.acquire and release).                                *)
THEOREM PoolCorrect == Spec => []PoolOK
<1>1. Init => PoolOK
  BY PoolInit
<1>2. PoolOK /\ [Next]_vars => PoolOK'
  BY PoolStep
<1> QED BY <1>1, <1>2, PTL DEF Spec

(***************************************************************************)
(* The age of what is handed out                                           *)
(***************************************************************************)

(* Within the hour no minutes are lost by hasTimedOut. *)
LEMMA NotTimedOutIs ==
  ASSUME TypeOK, NEW l \in ServerSessions, age[l] < 120, ~HasTimedOut(l)
  PROVE  age[l] + 1 < 2 * timeout
<1> DEFINE a == age[l]
<1>1. a \in Nat /\ timeout \in Nat /\ a < 120
  BY SessionPoolAssumption DEF TypeOK
<1>2. ~(((a % 120) + 1) \div 2 > timeout - 1)
  BY DEF HasTimedOut, IdleMinutes
<1> HIDE DEF a
<1>3. a % 120 = a
  BY <1>1
<1>4. (a + 1) \div 2 <= timeout - 1
  BY <1>1, <1>2, <1>3
<1>5. a + 1 < 2 * timeout
  BY <1>1, <1>4
<1> QED
  BY <1>5 DEF a

(* What leaves the pool for a client session had not timed out (acquire).  *)
LEMMA TakenIs ==
  ASSUME PoolOK, NEW c \in Clients, Acquire(c), NEW l \in Range(sessions) \cap Held'
  PROVE  l \in ServerSessions /\ ~HasTimedOut(l)
<1>1. /\ l \in ServerSessions /\ l \in born /\ l \notin Held
      /\ holder \in [Clients -> ServerSessions \cup {None}]
  BY DEF PoolOK, TypeOK, OnePlace, Range
<1>2. PICK d \in Clients : holder'[d] = l /\ l # None
  BY DEF Held
<1>3. holder[d] # l
  BY <1>1, <1>2 DEF Held
<1>4. CASE \E k \in DOMAIN sessions :
             ~HasTimedOut(sessions[k]) /\ holder' = [holder EXCEPT ![c] = sessions[k]]
  BY <1>1, <1>2, <1>3, <1>4
<1>5. CASE \E m \in ServerSessions \ born : holder' = [holder EXCEPT ![c] = m]
  BY <1>1, <1>2, <1>3, <1>5
<1> QED
  BY <1>1, <1>4, <1>5 DEF Acquire

LEMMA StepAcquires ==
  ASSUME PoolOK, [Next]_vars, NEW l \in Range(sessions) \cap Held', age[l] < 120
  PROVE  age[l] + 1 < 2 * timeout
<1>1. l \notin Held
  BY DEF PoolOK, OnePlace
<1>2. holder \in [Clients -> ServerSessions \cup {None}] /\ TypeOK
  BY DEF PoolOK, TypeOK
<1>3. ASSUME holder' = holder PROVE FALSE
  BY <1>1, <1>3 DEF Held
<1>4. ASSUME NEW c \in Clients, Acquire(c) PROVE age[l] + 1 < 2 * timeout
  BY <1>2, <1>4, TakenIs, NotTimedOutIs
<1>5. ASSUME NEW c \in Clients, Release(c) PROVE FALSE
  <2>1. holder' = [holder EXCEPT ![c] = None]
    BY <1>5 DEF Release
  <2> QED
    BY <1>1, <1>2, <2>1 DEF Held
<1> QED
  BY <1>3, <1>4, <1>5 DEF Next, vars, Use, EndAllPooledSessions, Pass, TimeoutChanges

(* For any timeouts and lengths of time, a pooled session last used within *)
(* the hour is handed out only while the server has it for half a minute   *)
(* more at least (ServerSessionPool.acquire, hasTimedOut).                 *)
THEOREM AcquiredInTime == Spec => AcquiredWithinTheHour
<1>1. PoolOK /\ [Next]_vars =>
        [\A l \in Range(sessions) \cap Held' :
           age[l] < 120 => age[l] + 1 < 2 * timeout]_vars
  BY StepAcquires
<1> QED
  BY <1>1, PoolCorrect, PTL DEF Spec, AcquiredWithinTheHour

(***************************************************************************)
(* The pool implements SessionLease                                        *)
(***************************************************************************)

(* Where a server session is that nobody holds. *)
FreePlace(l, q, b) ==
  IF l \in Range(q) THEN "pooled" ELSE IF l \in b THEN "gone" ELSE "unborn"

(* Place, for any holders, pool and set of server sessions made. *)
PlaceIn(h, q, b) ==
  [l \in ServerSessions |->
    IF \E c \in Clients : h[c] = l THEN CHOOSE c \in Clients : h[c] = l
    ELSE FreePlace(l, q, b)]

LEMMA PlaceIs == Place = PlaceIn(holder, sessions, born)
  BY DEF Place, PlaceIn, FreePlace

(* A session that a client session holds is with it, another one is free   *)
(* (what acquire and release exchange).                                    *)
LEMMA PlaceInIs ==
  ASSUME NEW h, NEW q, NEW b, NEW l \in ServerSessions,
         \A c, d \in Clients : c # d /\ h[c] # None => h[c] # h[d]
  PROVE  /\ \A c \in Clients : h[c] = l => PlaceIn(h, q, b)[l] = c
         /\ (\A c \in Clients : h[c] # l) => PlaceIn(h, q, b)[l] = FreePlace(l, q, b)
<1>1. l # None
  BY SessionPoolAssumption
<1>2. ASSUME NEW c \in Clients, h[c] = l PROVE PlaceIn(h, q, b)[l] = c
  <2>1. \A d \in Clients : h[d] = l => d = c
    BY <1>1, <1>2
  <2> QED BY <1>2, <2>1 DEF PlaceIn
<1>3. ASSUME \A c \in Clients : h[c] # l PROVE PlaceIn(h, q, b)[l] = FreePlace(l, q, b)
  BY <1>3 DEF PlaceIn
<1> QED BY <1>2, <1>3

LEMMA Places ==
  ASSUME PoolOK, PoolOK', NEW l \in ServerSessions
  PROVE  /\ \A c \in Clients : holder[c] = l => Place[l] = c
         /\ \A c \in Clients : holder'[c] = l => Place'[l] = c
         /\ l \notin Held => Place[l] = FreePlace(l, sessions, born)
         /\ l \notin Held' => Place'[l] = FreePlace(l, sessions', born')
<1>1. Place' = PlaceIn(holder', sessions', born')
  BY DEF Place, PlaceIn, FreePlace
<1>2. /\ \A c, d \in Clients : c # d /\ holder[c] # None => holder[c] # holder[d]
      /\ \A c, d \in Clients : c # d /\ holder'[c] # None => holder'[c] # holder'[d]
  BY DEF PoolOK, OnePlace
<1>3. l # None
  BY SessionPoolAssumption
<1>4. l \notin Held => \A c \in Clients : holder[c] # l
  BY <1>3 DEF Held
<1>5. l \notin Held' => \A c \in Clients : holder'[c] # l
  BY <1>3 DEF Held
<1>6. /\ \A c \in Clients : holder[c] = l => Place[l] = c
      /\ l \notin Held => Place[l] = FreePlace(l, sessions, born)
  BY <1>2, <1>4, PlaceIs, PlaceInIs
<1>7. /\ \A c \in Clients : holder'[c] = l => Place'[l] = c
      /\ l \notin Held' => Place'[l] = FreePlace(l, sessions', born')
  BY <1>1, <1>2, <1>5, PlaceInIs
<1> QED BY <1>6, <1>7

(* A server session other than the one that moves stays where it is or, if *)
(* it was pooled, may go (the stale ones acquire and release drop).        *)
LEMMA OthersStay ==
  ASSUME PoolOK, PoolOK', NEW l \in ServerSessions, NEW m \in ServerSessions, m # l,
         \A c \in Clients : holder[c] = m <=> holder'[c] = m,
         Range(sessions') \subseteq Range(sessions) \cup {l},
         m \in born <=> m \in born'
  PROVE  Place'[m] = IF Place[m] = "pooled" /\ m \notin Range(sessions')
                     THEN "gone" ELSE Place[m]
<1>1. CASE m \in Held
  <2>1. PICK c \in Clients : holder[c] = m
    BY <1>1 DEF Held
  <2>2. Place[m] = c /\ Place'[m] = c
    BY <2>1, Places
  <2> QED BY <2>2, SessionPoolAssumption
<1>2. CASE m \notin Held
  <2>1. m \notin Held'
    BY <1>2 DEF Held
  <2>2. Place[m] = FreePlace(m, sessions, born) /\ Place'[m] = FreePlace(m, sessions', born')
    BY <1>2, <2>1, Places
  <2>3. m \in Range(sessions') => m \in Range(sessions)
    OBVIOUS
  <2>4. m \in Range(sessions) => m \in born
    BY DEF PoolOK, OnePlace
  <2> QED BY <2>2, <2>3, <2>4 DEF FreePlace
<1> QED BY <1>1, <1>2

LEMMA PlaceDomain ==
  /\ Place = [m \in ServerSessions |-> Place[m]]
  /\ Place' = [m \in ServerSessions |-> Place'[m]]
  BY DEF Place

(* Then the step is a move of the abstract pool. *)
LEMMA MoveIs ==
  ASSUME PoolOK, PoolOK', NEW l \in ServerSessions, NEW p, Place'[l] = p,
         \A c \in Clients : \A m \in ServerSessions \ {l} :
           holder[c] = m <=> holder'[c] = m,
         Range(sessions') \subseteq Range(sessions) \cup {l},
         \A m \in ServerSessions \ {l} : m \in born <=> m \in born'
  PROVE  \E dropped \in SUBSET Lease!Pooled :
           /\ dropped = {m \in Lease!Pooled : m # l /\ m \notin Range(sessions')}
           /\ Lease!Move(l, p, dropped)
<1> DEFINE dropped == {m \in Lease!Pooled : m # l /\ m \notin Range(sessions')}
<1>1. \A m \in ServerSessions \ {l} :
        Place'[m] = IF m \in dropped THEN "gone" ELSE Place[m]
  <2>1. SUFFICES ASSUME NEW m \in ServerSessions \ {l}
                 PROVE  Place'[m] = IF m \in dropped THEN "gone" ELSE Place[m]
    OBVIOUS
  <2>2. Place'[m] = IF Place[m] = "pooled" /\ m \notin Range(sessions')
                    THEN "gone" ELSE Place[m]
    BY <2>1, OthersStay
  <2>3. m \in dropped <=> Place[m] = "pooled" /\ m \notin Range(sessions')
    BY <2>1 DEF Lease!Pooled
  <2> QED BY <2>2, <2>3
<1>2. Lease!Move(l, p, dropped)
  BY <1>1, PlaceDomain DEF Lease!Move
<1> QED BY <1>2

(* A client session without a server session is in no place.               *)
LEMMA NowhereIs ==
  ASSUME PoolOK, NEW c \in Clients, holder[c] = None, NEW m \in ServerSessions
  PROVE  Place[m] # c
<1>1. CASE m \in Held
  <2>1. PICK d \in Clients : holder[d] = m
    BY <1>1 DEF Held
  <2>2. Place[m] = (CHOOSE d2 \in Clients : holder[d2] = m)
    BY <2>1 DEF Place
  <2>3. holder[CHOOSE d2 \in Clients : holder[d2] = m] = m
    BY <2>1
  <2> QED BY <2>2, <2>3, SessionPoolAssumption
<1>2. CASE m \notin Held
  <2>1. \A d \in Clients : holder[d] # m
    BY <1>2, SessionPoolAssumption DEF Held
  <2>2. Place[m] \in {"unborn", "pooled", "gone"}
    BY <2>1 DEF Place
  <2> QED BY <2>2, SessionPoolAssumption
<1> QED BY <1>1, <1>2

(* acquire is an Acquire of the abstract pool. *)
LEMMA AcquireImplements ==
  ASSUME PoolOK, PoolOK', NEW c \in Clients, Acquire(c)
  PROVE  \E l \in ServerSessions : Lease!Acquire(c, l)
<1>1. \A m \in ServerSessions : Place[m] # c
  BY NowhereIs DEF Acquire
<1>2. CASE \E k \in DOMAIN sessions :
             /\ holder' = [holder EXCEPT ![c] = sessions[k]]
             /\ Become(Shifted(k), Held \cup {sessions[k]})
             /\ UNCHANGED born
  <2>1. PICK k \in DOMAIN sessions :
             /\ holder' = [holder EXCEPT ![c] = sessions[k]]
             /\ Become(Shifted(k), Held \cup {sessions[k]})
             /\ UNCHANGED born
    BY <1>2
  <2>2. PICK l \in ServerSessions : l = sessions[k] /\ l \in Range(sessions)
    BY <2>1 DEF PoolOK, TypeOK, Range
  <2>3. Range(sessions') \subseteq Range(sessions)
    <3>1. sessions \in Seq(ServerSessions) /\ IsInjective(sessions)
      BY DEF PoolOK, TypeOK, OnePlace
    <3>2. sessions' = SubSeq(sessions, k + 1, Len(sessions))
      BY <2>1 DEF Become, Shifted
    <3> QED BY <3>1, <3>2, SuffixRange
  <2>4. holder'[c] = l /\ holder[c] = None
        /\ holder' = [holder EXCEPT ![c] = l] /\ holder \in [Clients -> ServerSessions \cup {None}]
    BY <2>1, <2>2 DEF Acquire, PoolOK, TypeOK
  <2>5. Place'[l] = c /\ Place[l] = "pooled"
    <3>1. l \notin Held
      BY <2>2 DEF PoolOK, OnePlace
    <3> QED BY <3>1, <2>2, <2>4, Places DEF FreePlace
  <2>6. \A d \in Clients : \A m \in ServerSessions \ {l} : holder[d] = m <=> holder'[d] = m
    BY <2>4, SessionPoolAssumption
  <2>7. \E dropped \in SUBSET Lease!Pooled : Lease!Move(l, c, dropped)
    BY <2>1, <2>3, <2>5, <2>6, MoveIs
  <2> QED BY <1>1, <2>5, <2>7 DEF Lease!Acquire
<1>3. CASE \E l \in ServerSessions \ born :
             /\ holder' = [holder EXCEPT ![c] = l]
             /\ born' = born \cup {l}
             /\ Become(<< >>, Held)
  <2>1. PICK l \in ServerSessions \ born :
             /\ holder' = [holder EXCEPT ![c] = l]
             /\ born' = born \cup {l}
             /\ Become(<< >>, Held)
    BY <1>3
  <2>2. Range(sessions') = {}
    BY <2>1 DEF Become, Range
  <2>3. holder'[c] = l /\ holder[c] = None
        /\ holder' = [holder EXCEPT ![c] = l] /\ holder \in [Clients -> ServerSessions \cup {None}]
    BY <2>1 DEF Acquire, PoolOK, TypeOK
  <2>4. Place'[l] = c /\ Place[l] = "unborn"
    <3>1. l \notin Held /\ l \notin Range(sessions)
      BY <2>1 DEF PoolOK, OnePlace
    <3> QED BY <3>1, <2>1, <2>3, Places DEF FreePlace
  <2>5. \A d \in Clients : \A m \in ServerSessions \ {l} : holder[d] = m <=> holder'[d] = m
    BY <2>3, SessionPoolAssumption
  <2>6. \E dropped \in SUBSET Lease!Pooled :
           /\ dropped = {m \in Lease!Pooled : m # l /\ m \notin Range(sessions')}
           /\ Lease!Move(l, c, dropped)
    BY <2>1, <2>2, <2>4, <2>5, MoveIs
  <2>7. {m \in Lease!Pooled : m # l /\ m \notin Range(sessions')} = Lease!Pooled
    BY <2>2, <2>4 DEF Lease!Pooled
  <2> QED BY <1>1, <2>4, <2>6, <2>7 DEF Lease!Acquire
<1> QED BY <1>2, <1>3 DEF Acquire

(* release is a Release of the abstract pool. *)
LEMMA ReleaseImplements ==
  ASSUME PoolOK, PoolOK', NEW c \in Clients, Release(c)
  PROVE  \E l \in ServerSessions : Lease!Release(c, l)
<1>1. PICK l \in ServerSessions : l = holder[c]
  BY DEF Release, PoolOK, TypeOK
<1>2. Range(sessions') \subseteq Range(sessions) \cup {l}
  BY <1>1, ReleaseStep
<1>3. holder' = [holder EXCEPT ![c] = None] /\ UNCHANGED born
      /\ holder \in [Clients -> ServerSessions \cup {None}]
  BY DEF Release, PoolOK, TypeOK
<1>4. l \notin Held' /\ l \in born
  BY <1>1, <1>3, SessionPoolAssumption DEF Held, PoolOK, OnePlace
<1>5. Place[l] = c /\ Place'[l] \in {"pooled", "gone"}
  BY <1>1, <1>3, <1>4, Places DEF FreePlace
<1>6. \A d \in Clients : \A m \in ServerSessions \ {l} : holder[d] = m <=> holder'[d] = m
  BY <1>1, <1>3, SessionPoolAssumption
<1>7. \E dropped \in SUBSET Lease!Pooled : Lease!Move(l, Place'[l], dropped)
  BY <1>2, <1>3, <1>6, MoveIs
<1> QED BY <1>5, <1>7 DEF Lease!Release

(* So is endAllPooledSessions, when no session is held. *)
LEMMA EndAllImplements ==
  ASSUME PoolOK, PoolOK', EndAllPooledSessions
  PROVE  Lease!EndAllPooledSessions
<1>1. Held = {} /\ Held' = {} /\ sessions' = << >> /\ born' = born
  BY DEF EndAllPooledSessions, Become, Held
<1>2. Range(sessions') = {}
  BY <1>1 DEF Range
<1>3. ASSUME NEW l \in ServerSessions
      PROVE  Place'[l] = IF l \in Lease!Pooled THEN "gone" ELSE Place[l]
  <2>1. Place[l] = FreePlace(l, sessions, born) /\ Place'[l] = FreePlace(l, sessions', born')
    BY <1>1, Places
  <2>2. l \in Range(sessions) => l \in born
    BY DEF PoolOK, OnePlace
  <2> QED BY <1>1, <1>2, <2>1, <2>2 DEF Lease!Pooled, FreePlace
<1> QED BY <1>3, PlaceDomain DEF Lease!EndAllPooledSessions

(* What changes neither holders nor pool moves nothing. *)
LEMMA PlaceStays ==
  ASSUME UNCHANGED <<sessions, holder, born>>
  PROVE  UNCHANGED Place
  BY DEF Place

LEMMA StepImplements ==
  ASSUME PoolOK, PoolOK', [Next]_vars
  PROVE  [Lease!Next]_Place
<1>1. ASSUME NEW c \in Clients, Acquire(c) PROVE Lease!Next
  BY <1>1, AcquireImplements DEF Lease!Next
<1>2. ASSUME NEW c \in Clients, Release(c) PROVE Lease!Next
  BY <1>2, ReleaseImplements DEF Lease!Next
<1>3. CASE EndAllPooledSessions
  BY <1>3, EndAllImplements DEF Lease!Next
<1>4. ASSUME NEW c \in Clients, Use(c) PROVE UNCHANGED Place
  BY <1>4, PlaceStays DEF Use
<1>5. ASSUME NEW d \in Passes, Pass(d) PROVE UNCHANGED Place
  BY <1>5, PlaceStays DEF Pass
<1>6. ASSUME NEW t \in Timeouts, TimeoutChanges(t) PROVE UNCHANGED Place
  BY <1>6, PlaceStays DEF TimeoutChanges
<1>7. CASE UNCHANGED vars
  BY <1>7, PlaceStays DEF vars
<1> QED BY <1>1, <1>2, <1>3, <1>4, <1>5, <1>6, <1>7 DEF Next

LEMMA InitImplements == Init => Lease!Init
<1> SUFFICES ASSUME Init PROVE Lease!Init
  OBVIOUS
<1>1. \A c \in Clients : holder[c] = None
  BY DEF Init
<1>2. Range(sessions) = {} /\ born = {}
  BY DEF Init, Range
<1> QED BY <1>1, <1>2, SessionPoolAssumption DEF Lease!Init, Place

(* Every behaviour of the pool of server sessions is one of the abstract   *)
(* pool: a server session goes from one client session to another only     *)
(* through the pool, and never comes back once it was dropped.             *)
THEOREM LeaseImplemented == Spec => LeaseSpec
<1>1. Init => Lease!Init
  BY InitImplements
<1>2. PoolOK /\ PoolOK' /\ [Next]_vars => [Lease!Next]_Place
  BY StepImplements
<1> QED BY <1>1, <1>2, PoolCorrect, PTL DEF Spec, LeaseSpec, Lease!Spec
===============================================================================
