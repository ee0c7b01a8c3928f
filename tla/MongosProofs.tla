---------------------------- MODULE MongosProofs ----------------------------
(* Theorems about Mongos, for every set of hosts, every seed list and       *)
(* every bound.                                                             *)
EXTENDS Mongos, FiniteSetTheorems, WellFoundedInduction, TLAPS

(***************************************************************************)
(* Finite sets of servers                                                  *)
(***************************************************************************)

LEMMA ServersFinite == IsFiniteSet(Server)
<1>1. IsFiniteSet(1..Copies)
  BY MongosAssumption, FS_Interval
<1> QED
  BY <1>1, MongosAssumption, FS_Product DEF Server

LEMMA Counted0 ==
  ASSUME NEW S \in SUBSET Server
  PROVE  IsFiniteSet(S) /\ Cardinality(S) \in Nat
<1>1. IsFiniteSet(S)
  BY ServersFinite, FS_Subset
<1> QED
  BY <1>1, FS_CardinalityType

LEMMA OneLess ==
  ASSUME NEW S \in SUBSET Server, NEW s \in S
  PROVE  Cardinality(S \ {s}) = Cardinality(S) - 1 /\ Cardinality(S) >= 1
<1>1. Cardinality(S \ {s}) = Cardinality(S) - 1
  BY Counted0, FS_RemoveElement
<1>2. Cardinality(S \ {s}) \in Nat /\ Cardinality(S) \in Nat
  BY Counted0
<1> QED
  BY <1>1, <1>2

LEMMA OneMore ==
  ASSUME NEW S \in SUBSET Server, NEW s \in Server, s \notin S
  PROVE  Cardinality(S \cup {s}) = Cardinality(S) + 1
BY Counted0, FS_AddElement

LEMMA NotMore ==
  ASSUME NEW S \in SUBSET Server, NEW T \in SUBSET S
  PROVE  Cardinality(T) <= Cardinality(S)
BY Counted0, FS_Subset

LEMMA NatIn ==
  ASSUME NEW S, 0 \in S, \A n \in Nat : n \in S => n + 1 \in S
  PROVE  \A n \in Nat : n \in S
<1> SUFFICES ASSUME \E n \in Nat : n \notin S PROVE FALSE
  OBVIOUS
<1>1. PICK n \in Nat \ S : \A m \in Nat \ S : ~(<<m, n>> \in OpToRel(<, Nat))
  BY NatLessThanWellFounded, WFMin
<1>2. \A m \in Nat \ S : ~(m < n)
  BY <1>1, Zenon DEF OpToRel
<1>3. n - 1 \in Nat /\ n - 1 + 1 = n
  OBVIOUS
<1> QED
  BY <1>2, <1>3

(***************************************************************************)
(* What the loop that splices leaves                                       *)
(***************************************************************************)

(* What is left after the i-th entry, *)
After(list, h, before, i) ==
  IF Name(list[i]) = h /\ ~before.skip THEN [before EXCEPT !.skip = TRUE]
  ELSE [list |-> Append(before.list, list[i]), skip |-> FALSE]

(* and f after each of the first n. *)
IsKept(f, list, h, n) ==
  f = [i \in 0..n |-> IF i = 0 THEN [list |-> <<>>, skip |-> FALSE]
                      ELSE After(list, h, f[i - 1], i)]

LEMMA KeptExists ==
  ASSUME NEW list, NEW h, NEW n \in Nat
  PROVE  \E f : IsKept(f, list, h, n)
<1> DEFINE none == [list |-> <<>>, skip |-> FALSE]
           Goes(f, m) == f = [i \in 0..m |-> IF i = 0 THEN none
                                             ELSE After(list, h, f[i - 1], i)]
           Done(m) == \E f : Goes(f, m)
<1>0. ASSUME NEW f, NEW m, Goes(f, m) PROVE IsKept(f, list, h, m)
  BY <1>0, Zenon DEF IsKept
<1> HIDE DEF none
<1>1. Done(0)
  <2> DEFINE f == [i \in 0..0 |-> none]
  <2>1. f = [i \in 0..0 |-> IF i = 0 THEN none ELSE After(list, h, f[i - 1], i)]
    OBVIOUS
  <2> QED
    BY <2>1
<1>2. ASSUME NEW m \in Nat, Done(m) PROVE Done(m + 1)
  <2>1. PICK f : Goes(f, m)
    BY <1>2
  <2> DEFINE g == [i \in 0..(m + 1) |-> IF i = m + 1 THEN After(list, h, f[m], m + 1) ELSE f[i]]
  <2>2. \A i \in 0..m : f[i] = IF i = 0 THEN none ELSE After(list, h, f[i - 1], i)
    BY <2>1, Zenon
  <2>3. \A i \in 0..(m + 1) : g[i] = IF i = 0 THEN none ELSE After(list, h, g[i - 1], i)
    <3> TAKE i \in 0..(m + 1)
    <3>1. CASE i = 0
      BY <3>1, <2>2
    <3>2. CASE i = m + 1
      <4>1. i - 1 = m /\ m \in 0..(m + 1) /\ m # m + 1 /\ i # 0
        BY <3>2
      <4>2. g[m] = f[m] /\ g[i] = After(list, h, f[m], m + 1)
        BY <3>2, <4>1
      <4> QED
        BY <3>2, <4>1, <4>2
    <3>3. CASE i # 0 /\ i # m + 1
      <4>1. i \in 0..m /\ i - 1 \in 0..(m + 1) /\ i - 1 # m + 1
        BY <3>3
      <4> QED
        BY <3>3, <4>1, <2>2
    <3> QED
      BY <3>1, <3>2, <3>3
  <2>4. g = [i \in 0..(m + 1) |-> g[i]]
    OBVIOUS
  <2> HIDE DEF g
  <2>5. Goes(g, m + 1)
    BY <2>3, <2>4
  <2> QED
    BY <2>5
<1> HIDE DEF Done
<1> DEFINE done == {m \in Nat : Done(m)}
<1>3. \A m \in Nat : m \in done
  <2>1. 0 \in done /\ \A m \in Nat : m \in done => m + 1 \in done
    BY <1>1, <1>2
  <2> HIDE DEF done
  <2> QED
    BY <2>1, NatIn
<1>4. \E f : Goes(f, n)
  BY <1>3 DEF Done
<1> QED
  BY <1>0, <1>4

(* Entries of another name stay. *)
LEMMA SplicedIs ==
  ASSUME NEW list \in Seq(Server), NEW h
  PROVE  /\ Spliced(list, h) \in Seq(Server)
         /\ ToSet(Spliced(list, h)) \subseteq ToSet(list)
         /\ \A s \in ToSet(list) : Name(s) # h => s \in ToSet(Spliced(list, h))
<1> DEFINE N == Len(list)
           f == CHOOSE f : IsKept(f, list, h, N)
<1>1. N \in Nat /\ \A i \in 1..N : list[i] \in Server
  OBVIOUS
<1>2. IsKept(f, list, h, N)
  BY <1>1, KeptExists, Zenon
<1>3. Spliced(list, h) = f[N].list
  BY Zenon DEF Spliced, IsKept, After
<1> HIDE DEF f
<1>4. /\ f[0] = [list |-> <<>>, skip |-> FALSE]
      /\ \A i \in 1..N : f[i] = After(list, h, f[i - 1], i)
  <2>1. \A i \in 0..N : f[i] = IF i = 0 THEN [list |-> <<>>, skip |-> FALSE]
                               ELSE After(list, h, f[i - 1], i)
    BY <1>2, Zenon DEF IsKept
  <2>2. 0 \in 0..N /\ \A i \in 1..N : i \in 0..N /\ i # 0
    BY <1>1
  <2> QED
    BY <2>1, <2>2
<1> DEFINE Fine(i) == /\ f[i] \in [list : Seq(Server), skip : BOOLEAN]
                      /\ \A k \in 1..Len(f[i].list) : \E j \in 1..i : f[i].list[k] = list[j]
                      /\ \A j \in 1..i : Name(list[j]) # h =>
                           \E k \in 1..Len(f[i].list) : f[i].list[k] = list[j]
           fine == {i \in Nat : i <= N => Fine(i)}
<1>5. Fine(0)
  BY <1>4
<1>6. ASSUME NEW i \in Nat, i + 1 <= N, Fine(i) PROVE Fine(i + 1)
  <2> DEFINE e == f[i]
             x == list[i + 1]
             d == f[i + 1]
  <2>1. /\ i + 1 \in 1..N /\ i + 1 - 1 = i
        /\ \A j \in 1..(i + 1) : j \in 1..i \/ j = i + 1
        /\ \A j \in 1..i : j \in 1..(i + 1)
    BY <1>1, <1>6
  <2>2. /\ x \in Server
        /\ d = IF Name(x) = h /\ ~e.skip THEN [e EXCEPT !.skip = TRUE]
               ELSE [list |-> Append(e.list, x), skip |-> FALSE]
    <3>1. f[i + 1] = After(list, h, f[i], i + 1)
      BY <1>4, <2>1
    <3>2. x \in Server
      BY <1>1, <2>1
    <3> QED
      BY <3>1, <3>2, Zenon DEF After
  <2>3. /\ e \in [list : Seq(Server), skip : BOOLEAN]
        /\ \A k \in 1..Len(e.list) : \E j \in 1..i : e.list[k] = list[j]
        /\ \A j \in 1..i : Name(list[j]) # h => \E k \in 1..Len(e.list) : e.list[k] = list[j]
    BY <1>6
  <2>4. x = list[i + 1]
    OBVIOUS
  <2> HIDE DEF e, d, x, f
  <2>5. CASE Name(x) = h /\ ~e.skip
    <3>1. d \in [list : Seq(Server), skip : BOOLEAN] /\ d.list = e.list
      BY <2>2, <2>3, <2>5
    <3>2. \A k \in 1..Len(d.list) : \E j \in 1..(i + 1) : d.list[k] = list[j]
      BY <2>1, <2>3, <3>1
    <3>3. \A j \in 1..(i + 1) : Name(list[j]) # h => \E k \in 1..Len(d.list) : d.list[k] = list[j]
      BY <2>1, <2>3, <2>4, <2>5, <3>1
    <3> QED
      BY <3>1, <3>2, <3>3 DEF d
  <2>6. CASE ~(Name(x) = h /\ ~e.skip)
    <3>1. d = [list |-> Append(e.list, x), skip |-> FALSE]
      BY <2>2, <2>6
    <3> DEFINE l == e.list
               a == Append(l, x)
    <3>2. l \in Seq(Server) /\ d.list = a
      BY <2>3, <3>1
    <3>3. /\ a \in Seq(Server) /\ Len(a) = Len(l) + 1 /\ a[Len(l) + 1] = x /\ Len(l) \in Nat
          /\ \A k \in 1..Len(l) : a[k] = l[k]
      BY <2>2, <3>2
    <3>4. d \in [list : Seq(Server), skip : BOOLEAN]
      BY <3>1, <3>3
    <3> HIDE DEF a
    <3>5. \A k \in 1..Len(a) : \E j \in 1..(i + 1) : a[k] = list[j]
      <4> TAKE k \in 1..Len(a)
      <4>1. CASE k = Len(l) + 1
        <5>1. a[k] = list[i + 1] /\ i + 1 \in 1..(i + 1)
          BY <2>4, <3>3, <4>1
        <5> QED
          BY <5>1
      <4>2. CASE k # Len(l) + 1
        <5>1. k \in 1..Len(l) /\ a[k] = l[k]
          BY <3>3, <4>2
        <5> QED
          BY <2>1, <2>3, <5>1
      <4> QED
        BY <4>1, <4>2
    <3>6. \A j \in 1..(i + 1) : Name(list[j]) # h => \E k \in 1..Len(a) : a[k] = list[j]
      <4> TAKE j \in 1..(i + 1)
      <4>1. CASE j = i + 1
        <5>1. Len(l) + 1 \in 1..Len(a) /\ a[Len(l) + 1] = list[j]
          BY <2>4, <3>3, <4>1
        <5> QED
          BY <5>1
      <4>2. CASE j \in 1..i
        <5>1. SUFFICES ASSUME Name(list[j]) # h PROVE \E k \in 1..Len(a) : a[k] = list[j]
          OBVIOUS
        <5>2. PICK k \in 1..Len(l) : l[k] = list[j]
          BY <2>3, <4>2, <5>1
        <5>3. k \in 1..Len(a) /\ a[k] = list[j]
          BY <3>3, <5>2
        <5> QED
          BY <5>3
      <4> QED
        BY <2>1, <4>1, <4>2
    <3> QED
      BY <3>2, <3>4, <3>5, <3>6 DEF d
  <2> QED
    BY <2>5, <2>6
<1> HIDE DEF Fine
<1>7. \A i \in Nat : i \in fine
  <2>1. 0 \in fine
    BY <1>5
  <2>2. ASSUME NEW i \in Nat, i \in fine PROVE i + 1 \in fine
    BY <1>1, <1>6, <2>2
  <2> HIDE DEF fine
  <2> QED
    BY <2>1, <2>2, NatIn
<1>8. Fine(N)
  BY <1>1, <1>7
<1> DEFINE r == f[N].list
<1>9. /\ r \in Seq(Server)
      /\ \A k \in 1..Len(r) : \E j \in 1..N : r[k] = list[j]
      /\ \A j \in 1..N : Name(list[j]) # h => \E k \in 1..Len(r) : r[k] = list[j]
  BY <1>8 DEF Fine
<1> HIDE DEF r
<1>10. ToSet(r) = {r[k] : k \in 1..Len(r)} /\ ToSet(list) = {list[j] : j \in 1..N}
  BY <1>9 DEF ToSet
<1>11. Spliced(list, h) = r
  BY <1>3 DEF r
<1> HIDE DEF N
<1>12. ToSet(r) \subseteq ToSet(list)
  <2>1. ASSUME NEW k \in 1..Len(r) PROVE r[k] \in ToSet(list)
    BY <1>9, <1>10
  <2> QED
    BY <1>10, <2>1
<1>13. ASSUME NEW s \in ToSet(list), Name(s) # h PROVE s \in ToSet(r)
  <2>1. PICK j \in 1..N : s = list[j]
    BY <1>10
  <2>2. PICK k \in 1..Len(r) : r[k] = list[j]
    BY <1>9, <1>13, <2>1
  <2> QED
    BY <1>10, <2>1, <2>2
<1> QED
  BY <1>9, <1>11, <1>12, <1>13

(***************************************************************************)
(* The invariant of a topology t, of which H are the hosts that no list    *)
(* may lose                                                                *)
(***************************************************************************)

(* Live, and also before connect *)
Working(t) == t.state # "destroyed" /\ t.destroying = {}

(* What a monitor waits for: the proxies it has yet to replace, and the    *)
(* new objects that connect.                                               *)
Waits(t, n) == {s \in Server : <<n, s>> \in t.renewals}

Dials(t, n) == {s \in Server : t.on[s] = "reconnect" /\ t.by[s] = n}

Total(t, n) == Cardinality(Waits(t, n)) + Cardinality(Dials(t, n))

(* An object that connects for the first time is in no other list, ping or *)
(* renewal.                                                                *)
Pending(t, s) == s \in t.seeds \/ t.on[s] \in {"initial", "reconnect"}

FreeFits(t, s) == t.pool[s] = "free" => s \notin Referred(t) /\ t.on[s] = "none"

DialFits(t, s) ==
  t.on[s] = "reconnect" =>
    t.pool[s] = "dialing" /\ t.by[s] \in Loops /\ t.loops[t.by[s]].at = "renewing"

LoopFits(t, n) ==
  /\ \A s \in Server : <<n, s>> \in t.pings => t.loops[n].at = "pinging"
  /\ \A s \in Server : <<n, s>> \in t.renewals => t.loops[n].at = "renewing"
  /\ t.haTimeout = n => t.loops[n].at = "timer"
  /\ t.loops[n].at = "renewing" => t.loops[n].count >= Total(t, n)

Alone(t) == \A s, q \in t.connected : Name(s) = Name(q) => s = q

(* Before connect there is nothing. *)
Untouched(t) ==
  /\ t.connecting = <<>> /\ t.connected = {} /\ t.disconnected = {}
  /\ \A s \in Server : t.pool[s] = "free" /\ t.on[s] = "none"
  /\ t.seeds = {} /\ t.pings = {} /\ t.renewals = {} /\ t.destroying = {}
  /\ \A n \in Loops : t.loops[n].at = "off"

(* What also holds of a topology that is being destroyed, *)
Sound(t) ==
  /\ \A s \in Server : FreeFits(t, s) /\ DialFits(t, s)
  /\ \A n \in Loops : LoopFits(t, n)
  /\ Alone(t)
  /\ t.state = "disconnected" => Untouched(t)

(* and what only holds of one that works. *)
Counts(t, n) == t.loops[n].at = "renewing" => t.loops[n].count = Total(t, n)

Settled(t, s) ==
  /\ s \in t.connected =>
       /\ t.pool[s] = "open" /\ t.on[s] = "stable" /\ s \notin t.disconnected
       /\ \A n \in Loops : <<n, s>> \notin t.renewals
  /\ s \in t.seeds => t.pool[s] = "new" /\ t.on[s] = "none"
  /\ Pending(t, s) =>
       /\ s \notin t.disconnected
       /\ \A n \in Loops : <<n, s>> \notin t.pings /\ <<n, s>> \notin t.renewals

Lists(t) == ToSet(t.connecting) \cup t.connected \cup t.disconnected

Listed(t, H) == \A h \in H : \E s \in Lists(t) : Name(s) = h

Whole(t, H) ==
  /\ \A n \in Loops : Counts(t, n)
  /\ \A s \in Server : Settled(t, s)
  /\ t.state # "disconnected" => Listed(t, H)

Good(t, H) == t \in Proxies /\ Sound(t) /\ (Working(t) => Whole(t, H))

(* Nothing is left of a monitor. *)
Through(t, n) ==
  /\ \A s \in Server : <<n, s>> \notin t.pings /\ <<n, s>> \notin t.renewals
  /\ Dials(t, n) = {} /\ t.haTimeout # n

LEMMA TotalNat ==
  ASSUME NEW t, NEW n
  PROVE  /\ Cardinality(Waits(t, n)) \in Nat /\ Cardinality(Dials(t, n)) \in Nat
         /\ Total(t, n) \in Nat
<1>1. Waits(t, n) \in SUBSET Server /\ Dials(t, n) \in SUBSET Server
  BY DEF Waits, Dials
<1>2. Cardinality(Waits(t, n)) \in Nat /\ Cardinality(Dials(t, n)) \in Nat
  BY <1>1, Counted0
<1> QED
  BY <1>2 DEF Total

(* A monitor that waits for nothing is through. *)
LEMMA NothingLeft ==
  ASSUME NEW t, NEW H, Good(t, H), NEW n \in Loops,
         t.loops[n].at = "renewing", t.loops[n].count = 0
  PROVE  Through(t, n)
<1> DEFINE w == Waits(t, n)
           d == Dials(t, n)
<1>1. LoopFits(t, n)
  BY DEF Good, Sound
<1>2. 0 >= Total(t, n)
  BY <1>1 DEF LoopFits
<1>3. w \in SUBSET Server /\ d \in SUBSET Server
  BY DEF Waits, Dials
<1>4. Cardinality(w) \in Nat /\ Cardinality(d) \in Nat /\ 0 >= Cardinality(w) + Cardinality(d)
  BY <1>2, TotalNat DEF Total
<1> HIDE DEF w, d
<1>5. Cardinality(w) = 0 /\ Cardinality(d) = 0
  BY <1>4
<1>6. w = {} /\ d = {}
  <2>1. IsFiniteSet(w) /\ IsFiniteSet(d)
    BY <1>3, Counted0
  <2> QED
    BY <1>5, <2>1, FS_EmptySet
<1>7. \A s \in Server : <<n, s>> \notin t.pings /\ <<n, s>> \notin t.renewals
  BY <1>1, <1>6 DEF LoopFits, w, Waits
<1>8. t.haTimeout # n
  BY <1>1 DEF LoopFits
<1> QED
  BY <1>6, <1>7, <1>8 DEF Through, d

(* So is one that neither pings nor renews nor waits for its timer. *)
LEMMA OffThrough ==
  ASSUME NEW t, NEW H, Good(t, H), NEW n \in Loops,
         t.loops[n].at \notin {"renewing"},
         t.loops[n].at # "pinging" \/ \A s \in Server : <<n, s>> \notin t.pings,
         t.loops[n].at # "timer" \/ t.haTimeout # n
  PROVE  Through(t, n)
<1>1. LoopFits(t, n) /\ \A s \in Server : DialFits(t, s)
  BY DEF Good, Sound
<1>2. \A s \in Server : <<n, s>> \notin t.pings /\ <<n, s>> \notin t.renewals
  BY <1>1 DEF LoopFits
<1>3. t.haTimeout # n
  BY <1>1 DEF LoopFits
<1>4. Dials(t, n) = {}
  BY <1>1 DEF DialFits, Dials
<1> QED
  BY <1>2, <1>3, <1>4 DEF Through

(* The parts of a topology *)
LEMMA Parts ==
  ASSUME NEW t \in Proxies
  PROVE  /\ t.connecting \in Seq(Server) /\ ToSet(t.connecting) \subseteq Server
         /\ t.connected \subseteq Server /\ t.disconnected \subseteq Server
         /\ t.pool \in [Server -> Pools] /\ t.on \in [Server -> Handlers]
         /\ t.by \in [Server -> Loops \cup {0}]
         /\ t.doomed \subseteq Server /\ t.seeds \subseteq Server
         /\ t.loops \in [Loops -> [at : {"off", "timer", "pinging", "renewing"},
                                   first : BOOLEAN, idle : BOOLEAN, count : Nat]]
         /\ t.haTimeout \in Loops \cup {0}
         /\ t.pings \subseteq Loops \X Server /\ t.renewals \subseteq Loops \X Server
         /\ t.connects \in Nat /\ t.destroying \subseteq Server
         /\ t.state \in {"disconnected", "connecting", "connected", "destroyed"}
<1>1. t.connecting \in Seq(Server)
  BY DEF Proxies
<1>2. ToSet(t.connecting) \subseteq Server
  BY <1>1 DEF ToSet
<1> QED
  BY <1>1, <1>2 DEF Proxies

(* Equal waiting and dialing servers are equal in number. *)
LEMMA SameTotal ==
  ASSUME NEW t, NEW u, NEW n, u.renewals = t.renewals,
         \A s \in Server : (u.on[s] = "reconnect" /\ u.by[s] = n) <=>
                           (t.on[s] = "reconnect" /\ t.by[s] = n)
  PROVE  Total(u, n) = Total(t, n)
<1>1. Waits(u, n) = Waits(t, n)
  BY DEF Waits
<1>2. Dials(u, n) = Dials(t, n)
  BY DEF Dials
<1> QED
  BY <1>1, <1>2 DEF Total

LEMMA NoMoreTotal ==
  ASSUME NEW t, NEW u, NEW n, u.renewals \subseteq t.renewals,
         \A s \in Server : (u.on[s] = "reconnect" /\ u.by[s] = n) =>
                           (t.on[s] = "reconnect" /\ t.by[s] = n)
  PROVE  Total(u, n) <= Total(t, n)
<1> DEFINE w == Waits(t, n)
           x == Waits(u, n)
           d == Dials(t, n)
           e == Dials(u, n)
<1>1. x \subseteq w /\ w \subseteq Server
  BY DEF Waits
<1>2. e \subseteq d /\ d \subseteq Server
  BY DEF Dials
<1>3. /\ Cardinality(x) \in Nat /\ Cardinality(w) \in Nat
      /\ Cardinality(e) \in Nat /\ Cardinality(d) \in Nat
  BY TotalNat
<1>4. Total(t, n) = Cardinality(w) + Cardinality(d) /\ Total(u, n) = Cardinality(x) + Cardinality(e)
  BY DEF Total
<1> HIDE DEF w, x, d, e
<1>5. Cardinality(x) <= Cardinality(w) /\ Cardinality(e) <= Cardinality(d)
  BY <1>1, <1>2, NotMore
<1> QED
  BY <1>3, <1>4, <1>5

(***************************************************************************)
(* What the operators keep                                                 *)
(***************************************************************************)

LEMMA SweptKeeps ==
  ASSUME NEW H, NEW t, Good(t, H)
  PROVE  Good(Swept(t), H)
<1> DEFINE gone == {s \in Server \ Referred(t) : t.pool[s] \in {"closed", "destroyed", "new"}}
           P == [s \in Server |-> IF s \in gone THEN "free" ELSE t.pool[s]]
           O == [s \in Server |-> IF s \in gone THEN "none" ELSE t.on[s]]
           B == [s \in Server |-> IF t.on[s] = "reconnect" THEN t.by[s] ELSE 0]
           D == t.doomed \ gone
           u == [t EXCEPT !.pool = P, !.on = O, !.by = B, !.doomed = D]
<1>0. t \in Proxies /\ Sound(t) /\ (Working(t) => Whole(t, H))
  BY DEF Good
<1>1. Swept(t) = u
  BY Zenon DEF Swept
<1>2. /\ t.pool \in [Server -> Pools] /\ t.on \in [Server -> Handlers]
      /\ t.by \in [Server -> Loops \cup {0}] /\ t.doomed \subseteq Server
  BY <1>0, Parts
<1>3. P \in [Server -> Pools] /\ O \in [Server -> Handlers] /\ B \in [Server -> Loops \cup {0}]
      /\ D \subseteq Server
  BY <1>2 DEF Pools, Handlers
<1>4. ASSUME NEW s \in Server
      PROVE  /\ s \in gone => s \notin Referred(t) /\ t.on[s] # "reconnect" /\ t.pool[s] \in {"closed", "destroyed", "new"}
             /\ P[s] = IF s \in gone THEN "free" ELSE t.pool[s]
             /\ O[s] = IF s \in gone THEN "none" ELSE t.on[s]
             /\ t.on[s] = "reconnect" => B[s] = t.by[s]
  BY <1>0 DEF Sound, DialFits
<1> HIDE DEF P, O, B, D, gone
<1>5. u \in Proxies
  BY <1>0, <1>3 DEF Proxies
<1>6. /\ u.connecting = t.connecting /\ u.connected = t.connected
      /\ u.disconnected = t.disconnected /\ u.seeds = t.seeds /\ u.pings = t.pings
      /\ u.renewals = t.renewals /\ u.loops = t.loops /\ u.haTimeout = t.haTimeout
      /\ u.state = t.state /\ u.destroying = t.destroying
      /\ u.pool = P /\ u.on = O /\ u.by = B
  BY <1>0 DEF Proxies
<1> HIDE DEF u
<1>7. Referred(u) = Referred(t) /\ Lists(u) = Lists(t) /\ Working(u) = Working(t)
  BY <1>6, Zenon DEF Referred, Lists, Working
<1>8. \A n \in Loops : Total(u, n) = Total(t, n)
  BY <1>4, <1>6, SameTotal
<1>9. Sound(u)
  <2>1. ASSUME NEW s \in Server PROVE FreeFits(u, s) /\ DialFits(u, s)
    BY <1>0, <1>4, <1>6, <1>7 DEF Sound, FreeFits, DialFits
  <2>2. ASSUME NEW n \in Loops PROVE LoopFits(u, n)
    BY <1>0, <1>6, <1>8 DEF Sound, LoopFits
  <2>3. Alone(u)
    BY <1>0, <1>6 DEF Sound, Alone
  <2>4. u.state = "disconnected" => Untouched(u)
    BY <1>0, <1>4, <1>6 DEF Sound, Untouched
  <2> QED
    BY <2>1, <2>2, <2>3, <2>4 DEF Sound
<1>10. ASSUME Working(u) PROVE Whole(u, H)
  <2>0. Whole(t, H)
    BY <1>0, <1>7, <1>10
  <2>1. ASSUME NEW n \in Loops PROVE Counts(u, n)
    BY <2>0, <1>6, <1>8 DEF Whole, Counts
  <2>2. ASSUME NEW s \in Server PROVE Settled(u, s)
    <3>1. Settled(t, s)
      BY <2>0 DEF Whole
    <3>2. s \in t.connected \cup t.seeds => s \notin gone
      BY <1>4 DEF Referred
    <3> QED
      BY <3>1, <3>2, <1>4, <1>6 DEF Settled, Pending
  <2>3. u.state # "disconnected" => Listed(u, H)
    BY <2>0, <1>6, <1>7 DEF Whole, Listed
  <2> QED
    BY <2>1, <2>2, <2>3 DEF Whole
<1> QED
  BY <1>1, <1>5, <1>9, <1>10 DEF Good

(* What a handler leaves. *)
LEMMA BecomesKeeps ==
  ASSUME NEW H, NEW t, Good(t, H), Becomes(t)
  PROVE  Good(self', H)
<1>1. self' = Swept(t)
  BY Zenon DEF Becomes
<1> QED
  BY <1>1, SweptKeeps, Zenon

(* Monitors that are through stop, wait for their timer, or renew all that *)
(* is disconnected.                                                        *)
Goes(t, u, n) ==
  /\ Through(t, n)
  /\ \/ u.loops[n].at = "off" /\ u.haTimeout # n /\ Waits(u, n) = {}
     \/ u.loops[n].at = "timer" /\ Waits(u, n) = {}
     \/ /\ u.loops[n].at = "renewing" /\ u.haTimeout # n /\ Waits(u, n) = t.disconnected
        /\ u.loops[n].count = Cardinality(t.disconnected)

Stays(t, u, n) ==
  /\ u.loops[n].at = t.loops[n].at /\ u.loops[n].count = t.loops[n].count
  /\ Waits(u, n) = Waits(t, n) /\ (u.haTimeout = n => t.haTimeout = n)

SameServers(t, u) ==
  /\ u.connecting = t.connecting /\ u.connected = t.connected
  /\ u.disconnected = t.disconnected /\ u.seeds = t.seeds
  /\ u.pool = t.pool /\ u.on = t.on /\ u.by = t.by
  /\ u.pings = t.pings /\ u.destroying = t.destroying

LEMMA LoopsKeep ==
  ASSUME NEW H, NEW t, NEW u \in Proxies, Good(t, H), SameServers(t, u),
         t.state # "disconnected", u.state # "disconnected",
         u.state = "destroyed" <=> t.state = "destroyed",
         \A n \in Loops : Goes(t, u, n) \/ Stays(t, u, n)
  PROVE  Good(u, H)
<1>0. t \in Proxies /\ Sound(t) /\ (Working(t) => Whole(t, H))
  BY DEF Good
<1>1. /\ t.pings \subseteq Loops \X Server /\ t.renewals \subseteq Loops \X Server
      /\ u.renewals \subseteq Loops \X Server /\ t.disconnected \subseteq Server
  BY <1>0, Parts
<1>2. \A n \in Loops, s \in Server :
        <<n, s>> \in u.renewals => <<n, s>> \in t.renewals \/ s \in t.disconnected
  BY DEF Goes, Stays, Waits
<1>3. ASSUME NEW s \in Server PROVE s \in Referred(u) => s \in Referred(t)
  <2>1. ASSUME NEW p \in u.renewals PROVE p[2] \in t.disconnected \/ \E q \in t.renewals : q[2] = p[2]
    <3>1. PICK n \in Loops, q \in Server : p = <<n, q>>
      BY <1>1
    <3>2. <<n, q>> \in t.renewals \/ q \in t.disconnected
      BY <1>2, <3>1
    <3> QED
      BY <3>1, <3>2
  <2> QED
    BY <2>1 DEF Referred, SameServers
<1>4. Working(u) <=> Working(t)
  BY DEF Working, SameServers
<1>5. \A n \in Loops : Dials(u, n) = Dials(t, n)
  BY DEF Dials, SameServers
<1>6. ASSUME NEW n \in Loops, Goes(t, u, n), u.loops[n].at = "renewing"
      PROVE  u.loops[n].count = Total(u, n)
  <2>1. Dials(u, n) = {} /\ Waits(u, n) = t.disconnected /\ u.loops[n].count = Cardinality(t.disconnected)
    BY <1>5, <1>6 DEF Goes, Through
  <2>2. Cardinality(t.disconnected) \in Nat /\ Cardinality({}) = 0
    BY <1>1, Counted0, FS_EmptySet
  <2> QED
    BY <2>1, <2>2 DEF Total
<1>7. ASSUME NEW n \in Loops, Stays(t, u, n)
      PROVE  Total(u, n) = Total(t, n)
  BY <1>5, <1>7 DEF Stays, Total
<1>8. ASSUME NEW s \in Server PROVE FreeFits(u, s) /\ DialFits(u, s)
  <2>1. FreeFits(t, s) /\ DialFits(t, s)
    BY <1>0 DEF Sound
  <2>2. FreeFits(u, s)
    BY <1>3, <2>1 DEF FreeFits, SameServers
  <2>3. ASSUME t.on[s] = "reconnect"
        PROVE  u.loops[t.by[s]].at = "renewing"
    <3>1. t.by[s] \in Loops /\ t.loops[t.by[s]].at = "renewing" /\ s \in Dials(t, t.by[s])
      BY <2>1, <2>3 DEF DialFits, Dials
    <3>2. Stays(t, u, t.by[s])
      BY <3>1 DEF Goes, Through
    <3> QED
      BY <3>1, <3>2 DEF Stays
  <2>4. DialFits(u, s)
    BY <2>1, <2>3 DEF DialFits, SameServers
  <2> QED
    BY <2>2, <2>4
<1>9. ASSUME NEW n \in Loops PROVE LoopFits(u, n)
  <2>1. LoopFits(t, n)
    BY <1>0 DEF Sound
  <2>2. CASE Stays(t, u, n)
    <3>1. \A s \in Server : <<n, s>> \in u.renewals <=> <<n, s>> \in t.renewals
      BY <2>2 DEF Stays, Waits
    <3> QED
      BY <1>7, <2>1, <2>2, <3>1 DEF LoopFits, Stays, SameServers
  <2>3. CASE Goes(t, u, n)
    <3>1. \A s \in Server : <<n, s>> \notin u.pings
      BY <2>3 DEF Goes, Through, SameServers
    <3>2. \A s \in Server : <<n, s>> \in u.renewals => u.loops[n].at = "renewing"
      BY <2>3 DEF Goes, Waits
    <3>3. u.loops[n].at = "renewing" => u.loops[n].count >= Total(u, n)
      <4>1. u.loops[n].at = "renewing" => u.loops[n].count = Total(u, n)
        BY <1>6, <2>3
      <4>2. Total(u, n) \in Nat
        BY TotalNat
      <4> QED
        BY <4>1, <4>2
    <3>4. u.haTimeout = n => u.loops[n].at = "timer"
      BY <2>3 DEF Goes
    <3> QED
      BY <3>1, <3>2, <3>3, <3>4 DEF LoopFits
  <2> QED
    BY <2>2, <2>3
<1>10. Sound(u)
  BY <1>0, <1>8, <1>9 DEF Sound, Alone, SameServers
<1>11. ASSUME Working(u) PROVE Whole(u, H)
  <2>0. Whole(t, H)
    BY <1>0, <1>4, <1>11
  <2>1. ASSUME NEW n \in Loops PROVE Counts(u, n)
    <3>1. Counts(t, n)
      BY <2>0 DEF Whole
    <3>2. CASE Stays(t, u, n)
      BY <1>7, <3>1, <3>2 DEF Counts, Stays
    <3>3. CASE Goes(t, u, n)
      BY <1>6, <3>3 DEF Counts
    <3> QED
      BY <3>2, <3>3
  <2>2. ASSUME NEW s \in Server PROVE Settled(u, s)
    <3>1. Settled(t, s)
      BY <2>0 DEF Whole
    <3> QED
      BY <1>2, <3>1 DEF Settled, Pending, SameServers
  <2>3. Listed(u, H)
    BY <2>0 DEF Whole, Listed, Lists, SameServers
  <2> QED
    BY <2>1, <2>2, <2>3 DEF Whole
<1> QED
  BY <1>10, <1>11 DEF Good

LEMMA SilencedKeeps ==
  ASSUME NEW H, NEW t, Good(t, H), t.state # "disconnected",
         NEW ns, \A n \in ns : n \in Loops => Through(t, n)
  PROVE  Good(Silenced(t, ns), H)
<1> DEFINE L == [n \in Loops |-> IF n \in ns THEN Idle ELSE t.loops[n]]
           u == [t EXCEPT !.loops = L]
<1>1. Silenced(t, ns) = u
  BY Zenon DEF Silenced
<1>2. t \in Proxies /\ t.loops \in [Loops -> [at : {"off", "timer", "pinging", "renewing"},
                                            first : BOOLEAN, idle : BOOLEAN, count : Nat]]
  BY Parts DEF Good
<1>3. L \in [Loops -> [at : {"off", "timer", "pinging", "renewing"},
                       first : BOOLEAN, idle : BOOLEAN, count : Nat]]
  BY <1>2 DEF Idle
<1>4. \A n \in Loops : L[n] = IF n \in ns THEN Idle ELSE t.loops[n]
  OBVIOUS
<1> HIDE DEF L
<1>5. u \in Proxies
  BY <1>2, <1>3 DEF Proxies
<1>6. u.loops = L /\ u.renewals = t.renewals /\ u.haTimeout = t.haTimeout
      /\ u.state = t.state /\ SameServers(t, u)
  BY <1>2 DEF Proxies, SameServers
<1> HIDE DEF u
<1>7. ASSUME NEW n \in Loops PROVE Goes(t, u, n) \/ Stays(t, u, n)
  <2>1. Waits(u, n) = Waits(t, n)
    BY <1>6 DEF Waits
  <2>2. CASE n \in ns
    <3>1. Through(t, n) /\ Waits(t, n) = {}
      BY <2>2 DEF Through, Waits
    <3>2. u.loops[n].at = "off" /\ u.haTimeout # n
      BY <1>4, <1>6, <2>2, <3>1 DEF Idle, Through
    <3> QED
      BY <2>1, <3>1, <3>2 DEF Goes
  <2>3. CASE n \notin ns
    BY <1>4, <1>6, <2>1, <2>3 DEF Stays
  <2> QED
    BY <2>2, <2>3
<1> QED
  BY <1>1, <1>5, <1>6, <1>7, LoopsKeep

LEMMA StartKeeps ==
  ASSUME NEW H, NEW t, Good(t, H), t.state # "disconnected",
         NEW n \in Loops, Through(t, n), NEW first \in BOOLEAN
  PROVE  Good(StartMonitor(t, n, first), H)
<1> DEFINE l == [Idle EXCEPT !.at = "timer", !.first = first]
           L == [t.loops EXCEPT ![n] = l]
           u == [t EXCEPT !.loops = L, !.haTimeout = n]
<1>1. StartMonitor(t, n, first) = u
  BY DEF StartMonitor
<1>2. t \in Proxies /\ t.loops \in [Loops -> [at : {"off", "timer", "pinging", "renewing"},
                                            first : BOOLEAN, idle : BOOLEAN, count : Nat]]
  BY Parts DEF Good
<1>3. l \in [at : {"off", "timer", "pinging", "renewing"}, first : BOOLEAN, idle : BOOLEAN, count : Nat]
      /\ l.at = "timer"
  BY DEF Idle
<1> HIDE DEF l
<1>4. L \in [Loops -> [at : {"off", "timer", "pinging", "renewing"},
                       first : BOOLEAN, idle : BOOLEAN, count : Nat]]
      /\ L[n] = l /\ \A m \in Loops : m # n => L[m] = t.loops[m]
  BY <1>2, <1>3
<1> HIDE DEF L
<1>5. u \in Proxies
  BY <1>2, <1>4 DEF Proxies
<1>6. u.loops = L /\ u.renewals = t.renewals /\ u.haTimeout = n
      /\ u.state = t.state /\ SameServers(t, u)
  BY <1>2 DEF Proxies, SameServers
<1> HIDE DEF u
<1>7. ASSUME NEW m \in Loops PROVE Goes(t, u, m) \/ Stays(t, u, m)
  <2>1. Waits(u, m) = Waits(t, m)
    BY <1>6 DEF Waits
  <2>2. CASE m = n
    <3>1. Through(t, m) /\ Waits(t, m) = {}
      BY <2>2 DEF Through, Waits
    <3> QED
      BY <1>3, <1>4, <1>6, <2>1, <2>2, <3>1 DEF Goes
  <2>3. CASE m # n
    BY <1>4, <1>6, <2>1, <2>3 DEF Stays
  <2> QED
    BY <2>2, <2>3
<1> QED
  BY <1>1, <1>5, <1>6, <1>7, LoopsKeep

LEMMA RenewingKeeps ==
  ASSUME NEW H, NEW t, Good(t, H), t.state # "disconnected",
         NEW ns \in SUBSET Loops, \A n \in ns : Through(t, n)
  PROVE  Good(Renewing(t, ns), H)
<1> DEFINE c == Cardinality(t.disconnected)
           L == [n \in Loops |-> IF n \in ns THEN [t.loops[n] EXCEPT !.at = "renewing", !.count = c]
                                 ELSE t.loops[n]]
           R == t.renewals \cup (ns \X t.disconnected)
           u == [t EXCEPT !.loops = L, !.renewals = R]
<1>1. Renewing(t, ns) = u
  BY Zenon DEF Renewing
<1>2. /\ t \in Proxies /\ t.disconnected \subseteq Server /\ t.renewals \subseteq Loops \X Server
      /\ t.loops \in [Loops -> [at : {"off", "timer", "pinging", "renewing"},
                                first : BOOLEAN, idle : BOOLEAN, count : Nat]]
  BY Parts DEF Good
<1>3. c \in Nat /\ c = Cardinality(t.disconnected)
  BY <1>2, Counted0
<1> HIDE DEF c
<1>4. L \in [Loops -> [at : {"off", "timer", "pinging", "renewing"},
                       first : BOOLEAN, idle : BOOLEAN, count : Nat]]
      /\ \A n \in Loops : IF n \in ns THEN L[n].at = "renewing" /\ L[n].count = c
                          ELSE L[n] = t.loops[n]
  BY <1>2, <1>3
<1>5. R \subseteq Loops \X Server
      /\ \A n \in Loops, s \in Server : <<n, s>> \in R <=>
                            <<n, s>> \in t.renewals \/ (n \in ns /\ s \in t.disconnected)
  BY <1>2
<1> HIDE DEF L, R
<1>6. u \in Proxies
  BY <1>2, <1>4, <1>5 DEF Proxies
<1>7. u.loops = L /\ u.renewals = R /\ u.haTimeout = t.haTimeout
      /\ u.state = t.state /\ SameServers(t, u)
  BY <1>2 DEF Proxies, SameServers
<1> HIDE DEF u
<1>8. ASSUME NEW n \in Loops PROVE Goes(t, u, n) \/ Stays(t, u, n)
  <2>1. CASE n \in ns
    <3>1. Through(t, n)
      BY <2>1
    <3>2. Waits(u, n) = t.disconnected
      BY <1>2, <1>5, <1>7, <2>1, <3>1 DEF Waits, Through
    <3>3. u.loops[n].at = "renewing" /\ u.loops[n].count = Cardinality(t.disconnected)
      BY <1>3, <1>4, <1>7, <2>1
    <3>4. u.haTimeout # n
      BY <1>7, <3>1 DEF Through
    <3> QED
      BY <3>1, <3>2, <3>3, <3>4 DEF Goes
  <2>2. CASE n \notin ns
    <3>1. Waits(u, n) = Waits(t, n)
      BY <1>5, <1>7, <2>2 DEF Waits
    <3> QED
      BY <1>4, <1>7, <2>2, <3>1 DEF Stays
  <2> QED
    BY <2>1, <2>2
<1> QED
  BY <1>1, <1>6, <1>7, <1>8, LoopsKeep

(* Connect is emitted, the first monitor tells that none was connected, or *)
(* the topology comes up.                                                  *)
LEMMA ToldKeeps ==
  ASSUME NEW H, NEW t, Good(t, H), t.state # "disconnected",
         NEW u \in Proxies, SameServers(t, u), u.haTimeout = t.haTimeout, u.renewals = t.renewals,
         u.state # "disconnected", u.state = "destroyed" <=> t.state = "destroyed",
         \A n \in Loops : u.loops[n].at = t.loops[n].at /\ u.loops[n].count = t.loops[n].count
  PROVE  Good(u, H) /\ \A n \in Loops : Through(t, n) => Through(u, n)
<1>1. \A n \in Loops : Stays(t, u, n)
  BY DEF Stays, Waits
<1>2. Good(u, H)
  BY <1>1, LoopsKeep
<1>3. \A n \in Loops : Through(t, n) => Through(u, n)
  BY DEF Through, Dials, SameServers
<1> QED
  BY <1>2, <1>3

LEMMA RenewedKeeps ==
  ASSUME NEW H, NEW t, Good(t, H), t.state # "disconnected", NEW n \in Loops, Through(t, n)
  PROVE  Good(Renewed(t, n), H)
<1> DEFINE k == IF t.loops[n].idle /\ t.loops[n].first /\ t.state = "connecting"
                THEN t.connects + 1 ELSE t.connects
           told == [t EXCEPT !.connects = k]
<1>1. Renewed(t, n) = IF Gone(t) THEN Silenced(t, {n}) ELSE StartMonitor(told, n, FALSE)
  BY Zenon DEF Renewed
<1>2. t \in Proxies /\ t.connects \in Nat
  BY Parts DEF Good
<1>3. k \in Nat
  BY <1>2
<1> HIDE DEF k
<1>4. /\ told \in Proxies /\ SameServers(t, told) /\ told.haTimeout = t.haTimeout
      /\ told.renewals = t.renewals /\ told.state = t.state /\ told.loops = t.loops
  BY <1>2, <1>3 DEF Proxies, SameServers
<1> HIDE DEF told
<1>5. Good(told, H) /\ Through(told, n)
  BY <1>4, ToldKeeps
<1>6. Good(StartMonitor(told, n, FALSE), H)
  BY <1>4, <1>5, StartKeeps
<1>7. Good(Silenced(t, {n}), H)
  BY SilencedKeeps
<1> QED
  BY <1>1, <1>6, <1>7

LEMMA RenewKeeps ==
  ASSUME NEW H, NEW t, Good(t, H), t.state # "disconnected", NEW n \in Loops, Through(t, n)
  PROVE  Good(Renew(t, n), H)
<1>1. Good(Renewed(t, n), H)
  BY RenewedKeeps
<1>2. Good(Renewing(t, {n}), H)
  BY RenewingKeeps
<1> QED
  BY <1>1, <1>2 DEF Renew

LEMMA FinishedKeeps ==
  ASSUME NEW H, NEW t, Good(t, H), t.state # "disconnected",
         NEW n \in Loops, t.loops[n].at = "renewing"
  PROVE  Good(Finished(t, n), H)
<1>1. ASSUME t.loops[n].count = 0 PROVE Good(Renewed(t, n), H)
  BY <1>1, NothingLeft, RenewedKeeps
<1> QED
  BY <1>1 DEF Finished

LEMMA InitialDoneKeeps ==
  ASSUME NEW H, NEW t, Good(t, H), t.state # "disconnected",
         \E n \in Loops : t.loops[n].at = "off"
  PROVE  Good(InitialDone(t), H)
<1>1. ASSUME NEW u, Good(u, H), u.state # "disconnected", \E n \in Loops : u.loops[n].at = "off"
      PROVE  Good(NewMonitor(u), H)
  <2> DEFINE off == {k \in Loops : u.loops[k].at = "off"}
             n == Min(off)
  <2>1. n \in off
    <3>1. off # {} /\ off \subseteq Nat
      BY <1>1 DEF Loops
    <3>2. \E k \in off : \A j \in off : k <= j
      <4>1. PICK k \in off : \A j \in off : ~(<<j, k>> \in OpToRel(<, Nat))
        BY <3>1, NatLessThanWellFounded, WFMin
      <4>2. \A j \in off : ~(j < k)
        BY <3>1, <4>1, Zenon DEF OpToRel
      <4> QED
        BY <3>1, <4>2
    <3> QED
      BY <3>2, Zenon DEF Min
  <2>2. NewMonitor(u) = StartMonitor(u, n, TRUE)
    BY Zenon DEF NewMonitor
  <2> HIDE DEF n
  <2>3. n \in Loops /\ u.loops[n].at = "off"
    BY <2>1
  <2>4. Through(u, n)
    BY <1>1, <2>3, OffThrough
  <2> QED
    BY <1>1, <2>2, <2>3, <2>4, StartKeeps
<1> DEFINE k == t.connects + 1
           up == [t EXCEPT !.state = "connected", !.connects = k]
<1>2. ASSUME t.state = "connecting" PROVE Good(NewMonitor(up), H)
  <2>1. t \in Proxies /\ k \in Nat
    BY Parts DEF Good
  <2> HIDE DEF k
  <2>2. /\ up \in Proxies /\ SameServers(t, up) /\ up.haTimeout = t.haTimeout
        /\ up.renewals = t.renewals /\ up.state = "connected" /\ up.loops = t.loops
    BY <2>1 DEF Proxies, SameServers
  <2> HIDE DEF up
  <2>3. Good(up, H)
    BY <1>2, <2>2, ToldKeeps
  <2> QED
    BY <1>1, <2>2, <2>3
<1>3. InitialDone(t) = IF t.connecting # <<>> THEN t
                       ELSE IF t.connected # {} /\ t.state = "connecting" THEN NewMonitor(up)
                       ELSE IF t.disconnected = {} THEN t ELSE NewMonitor(t)
  BY Zenon DEF InitialDone
<1> HIDE DEF up
<1>4. Good(NewMonitor(t), H)
  BY <1>1
<1> QED
  BY <1>2, <1>3, <1>4

(* The lists and the server objects change, and a monitor waits for so     *)
(* many servers less as its count goes down.                               *)
SameMonitors(t, u) ==
  /\ u.state = t.state /\ u.haTimeout = t.haTimeout /\ u.seeds = t.seeds /\ u.by = t.by
  /\ u.pings \subseteq t.pings /\ u.renewals = t.renewals
  /\ \A n \in Loops : u.loops[n].at = t.loops[n].at

Fits(t, u, s) ==
  /\ u.pool[s] = "free" =>
       t.pool[s] = "free" /\ u.on[s] = "none" /\ (s \in Lists(u) => s \in Lists(t))
  /\ u.on[s] = "reconnect" => t.on[s] = "reconnect" /\ u.pool[s] = t.pool[s]

Follows(t, u) ==
  /\ \A n \in Loops : t.loops[n].count - u.loops[n].count <= Total(t, n) - Total(u, n)
  /\ Working(u) =>
       \A n \in Loops : t.loops[n].count - u.loops[n].count = Total(t, n) - Total(u, n)

LEMMA ServersKeep ==
  ASSUME NEW H, NEW t, NEW u \in Proxies, Good(t, H), SameMonitors(t, u),
         t.state # "disconnected", Working(u) => Working(t),
         \A s \in Server : Fits(t, u, s),
         Follows(t, u), Alone(u),
         Working(u) => (\A s \in Server : Settled(u, s)) /\ Listed(u, H)
  PROVE  Good(u, H)
<1>0. t \in Proxies /\ Sound(t) /\ (Working(t) => Whole(t, H))
  BY DEF Good
<1>1. ASSUME NEW s \in Server PROVE FreeFits(u, s) /\ DialFits(u, s)
  <2>1. FreeFits(t, s) /\ DialFits(t, s)
    BY <1>0 DEF Sound
  <2>2. s \in Referred(u) => s \in Referred(t) \/ (s \in Lists(u) /\ s \notin Lists(t))
    BY DEF Referred, Lists, SameMonitors
  <2>3. FreeFits(u, s)
    BY <2>1, <2>2 DEF FreeFits, Fits
  <2>4. DialFits(u, s)
    BY <2>1 DEF DialFits, Fits, SameMonitors
  <2> QED
    BY <2>3, <2>4
<1>2. \A n \in Loops : t.loops[n].count \in Nat /\ u.loops[n].count \in Nat
                        /\ Total(t, n) \in Nat /\ Total(u, n) \in Nat
  BY <1>0, Parts, TotalNat
<1>3. ASSUME NEW n \in Loops PROVE LoopFits(u, n)
  <2>1. LoopFits(t, n)
    BY <1>0 DEF Sound
  <2>2. u.loops[n].at = "renewing" => u.loops[n].count >= Total(u, n)
    <3> DEFINE a == t.loops[n].count
               b == u.loops[n].count
               c == Total(t, n)
               d == Total(u, n)
    <3>1. a \in Nat /\ b \in Nat /\ c \in Nat /\ d \in Nat /\ a - b <= c - d
      BY <1>2 DEF Follows
    <3>2. u.loops[n].at = "renewing" => a >= c
      BY <2>1 DEF LoopFits, SameMonitors
    <3> HIDE DEF a, b, c, d
    <3>3. a >= c => b >= d
      BY <3>1
    <3>4. u.loops[n].at = "renewing" => b >= d
      BY <3>2, <3>3
    <3> QED
      BY <3>4 DEF b, d
  <2> QED
    BY <2>1, <2>2 DEF LoopFits, SameMonitors
<1>4. Sound(u)
  BY <1>1, <1>3 DEF Sound, SameMonitors
<1>5. ASSUME Working(u) PROVE Whole(u, H)
  <2>0. Whole(t, H)
    BY <1>0, <1>5
  <2>1. ASSUME NEW n \in Loops PROVE Counts(u, n)
    <3> DEFINE a == t.loops[n].count
               b == u.loops[n].count
               c == Total(t, n)
               d == Total(u, n)
    <3>1. a \in Nat /\ b \in Nat /\ c \in Nat /\ d \in Nat /\ a - b = c - d
      BY <1>2, <1>5 DEF Follows
    <3>2. u.loops[n].at = "renewing" => a = c
      BY <2>0 DEF Whole, Counts, SameMonitors
    <3> HIDE DEF a, b, c, d
    <3>3. a = c => b = d
      BY <3>1
    <3>4. u.loops[n].at = "renewing" => b = d
      BY <3>2, <3>3
    <3> QED
      BY <3>4 DEF b, d, Counts
  <2> QED
    BY <1>5, <2>1 DEF Whole
<1> QED
  BY <1>4, <1>5 DEF Good

(* Where no server starts or ends a reconnect the counts stay. *)
LEMMA SameCounts ==
  ASSUME NEW H, NEW t, NEW u \in Proxies, Good(t, H), SameMonitors(t, u), u.loops = t.loops,
         \A s \in Server : u.on[s] = "reconnect" => t.on[s] = "reconnect",
         Working(u) => \A s \in Server : t.on[s] = "reconnect" => u.on[s] = "reconnect"
  PROVE  Follows(t, u)
<1>1. \A n \in Loops : t.loops[n].count \in Nat /\ Total(t, n) \in Nat /\ Total(u, n) \in Nat
  BY Parts, TotalNat DEF Good
<1>2. \A n \in Loops : Total(u, n) <= Total(t, n)
  BY NoMoreTotal DEF SameMonitors
<1>3. ASSUME Working(u) PROVE \A n \in Loops : Total(u, n) = Total(t, n)
  BY <1>3, SameTotal DEF SameMonitors
<1> QED
  BY <1>1, <1>2, <1>3 DEF Follows

(* Pings are over. *)
LEMMA FewerKeeps ==
  ASSUME NEW H, NEW t, Good(t, H), t.state # "disconnected", NEW ps
  PROVE  Good([t EXCEPT !.pings = @ \ ps], H)
<1> DEFINE P == t.pings \ ps
           u == [t EXCEPT !.pings = P]
<1>1. t \in Proxies /\ P \subseteq t.pings /\ t.pings \subseteq Loops \X Server
  BY Parts DEF Good
<1> HIDE DEF P
<1>2. u \in Proxies
  BY <1>1 DEF Proxies
<1>3. /\ u.connecting = t.connecting /\ u.connected = t.connected /\ u.disconnected = t.disconnected
      /\ u.pool = t.pool /\ u.on = t.on /\ u.loops = t.loops /\ u.destroying = t.destroying
      /\ u.renewals = t.renewals /\ u.pings = P /\ u.seeds = t.seeds
      /\ SameMonitors(t, u)
  BY <1>1 DEF Proxies, SameMonitors
<1> HIDE DEF u
<1>4. Lists(u) = Lists(t) /\ Working(u) = Working(t)
  BY <1>3, Zenon DEF Lists, Working, SameMonitors
<1>5. \A s \in Server : Fits(t, u, s)
  BY <1>3, <1>4 DEF Fits, Good, Sound, FreeFits
<1>6. Alone(u)
  BY <1>3 DEF Alone, Good, Sound
<1>7. ASSUME Working(u) PROVE (\A s \in Server : Settled(u, s)) /\ Listed(u, H)
  <2>1. Whole(t, H)
    BY <1>4, <1>7 DEF Good
  <2>2. Listed(u, H)
    BY <1>4, <2>1 DEF Whole, Listed
  <2>3. ASSUME NEW s \in Server PROVE Settled(u, s)
    <3>1. Settled(t, s)
      BY <2>1 DEF Whole
    <3> QED
      BY <1>1, <1>3, <3>1 DEF Settled, Pending
  <2> QED
    BY <2>2, <2>3
<1>8. Follows(t, u)
  BY <1>2, <1>3, SameCounts
<1>9. Good(u, H)
  BY <1>2, <1>3, <1>4, <1>5, <1>6, <1>7, <1>8, ServersKeep
<1> QED
  BY <1>9 DEF u, P

(* A server loses its connection, or pings on it fail. *)
Leaves(t, u, s) ==
  /\ u.connecting = t.connecting /\ u.connected = Unlist(t.connected, Name(s))
  /\ u.disconnected = Unlist(t.disconnected, Name(s)) \cup {s}
  /\ u.on = t.on /\ u.loops = t.loops /\ u.destroying = t.destroying
  /\ \A q \in Server : q # s => u.pool[q] = t.pool[q]
  /\ u.pool[s] # "free" /\ (t.on[s] = "reconnect" => u.pool[s] = t.pool[s])

LEMMA LeavesKeep ==
  ASSUME NEW H, NEW t, NEW u \in Proxies, Good(t, H), t.state # "disconnected",
         NEW s \in Server, SameMonitors(t, u), Leaves(t, u, s),
         Working(t) => ~Pending(t, s)
  PROVE  Good(u, H)
<1>0. t \in Proxies /\ Sound(t) /\ (Working(t) => Whole(t, H))
  BY DEF Good
<1>1. Working(u) <=> Working(t)
  BY DEF Working, SameMonitors, Leaves
<1>2. /\ \A q \in t.connected : Name(q) = Name(s) \/ q \in u.connected
      /\ \A q \in u.connected : q \in t.connected /\ Name(q) # Name(s)
      /\ \A q \in t.disconnected : Name(q) = Name(s) \/ q \in u.disconnected
      /\ \A q \in u.disconnected : q = s \/ q \in t.disconnected
      /\ s \in u.disconnected
  BY DEF Leaves, Unlist, Named
<1>3. ASSUME NEW q \in Server PROVE Fits(t, u, q)
  <2>1. FreeFits(t, q)
    BY <1>0 DEF Sound
  <2>2. CASE q = s
    BY <2>1, <2>2 DEF Fits, Leaves
  <2>3. CASE q # s
    <3>1. q \in Lists(u) => q \in Lists(t)
      BY <1>2, <2>3 DEF Lists, Leaves
    <3> QED
      BY <2>1, <2>3, <3>1 DEF Fits, Leaves, FreeFits
  <2> QED
    BY <2>2, <2>3
<1>4. Alone(u)
  BY <1>0, <1>2 DEF Alone, Sound
<1>5. ASSUME Working(u) PROVE (\A q \in Server : Settled(u, q)) /\ Listed(u, H)
  <2>1. Whole(t, H) /\ ~Pending(t, s)
    BY <1>0, <1>1, <1>5
  <2>2. ASSUME NEW h \in H PROVE \E q \in Lists(u) : Name(q) = h
    <3>1. PICK q \in Lists(t) : Name(q) = h
      BY <2>1 DEF Whole, Listed
    <3>2. CASE Name(s) = h
      BY <1>2, <3>2 DEF Lists
    <3>3. CASE Name(s) # h
      <4>1. q \in Lists(u)
        BY <1>2, <3>1, <3>3 DEF Lists, Leaves
      <4> QED
        BY <3>1, <4>1
    <3> QED
      BY <3>2, <3>3
  <2>3. ASSUME NEW q \in Server PROVE Settled(u, q)
    <3>1. Settled(t, q)
      BY <2>1 DEF Whole
    <3>2. u.on = t.on /\ u.seeds = t.seeds /\ u.renewals = t.renewals /\ u.pings \subseteq t.pings
      BY DEF SameMonitors, Leaves
    <3>3. CASE q = s
      BY <1>2, <2>1, <3>2, <3>3 DEF Settled, Pending
    <3>4. CASE q # s
      <4>1. u.pool[q] = t.pool[q]
        BY <3>4 DEF Leaves
      <4> QED
        BY <1>2, <3>1, <3>2, <3>4, <4>1 DEF Settled, Pending
    <3> QED
      BY <3>3, <3>4
  <2> QED
    BY <2>2, <2>3 DEF Listed
<1>6. Follows(t, u)
  BY SameCounts DEF Leaves
<1> QED
  BY <1>1, <1>3, <1>4, <1>5, <1>6, ServersKeep

LEMMA DestroysIs ==
  ASSUME NEW t \in Proxies, NEW gone \in SUBSET Server, NEW u, u = DestroyServers(t, gone)
  PROVE  /\ u \in Proxies /\ SameMonitors(t, u) /\ u.loops = t.loops
         /\ u.connecting = t.connecting /\ u.connected = t.connected
         /\ u.disconnected = t.disconnected /\ u.destroying = t.destroying
         /\ u.pings = t.pings /\ u.connects = t.connects
         /\ \A s \in Server :
              /\ s \notin gone => u.pool[s] = t.pool[s] /\ u.on[s] = t.on[s]
              /\ s \in gone => u.on[s] = "none"
              /\ u.pool[s] = "free" => t.pool[s] = "free"
              /\ u.pool[s] \in {t.pool[s], "draining", "destroyed"}
<1> DEFINE P == [s \in Server |-> IF s \notin gone \ t.doomed THEN t.pool[s]
                                  ELSE IF t.pool[s] \in {"open", "dialing", "draining"} THEN "draining"
                                  ELSE "destroyed"]
           D == t.doomed \cup {s \in gone : t.pool[s] = "new"}
           O == [s \in Server |-> IF s \in gone THEN "none" ELSE t.on[s]]
<1>1. u = [t EXCEPT !.pool = P, !.doomed = D, !.on = O]
  BY Zenon DEF DestroyServers
<1>2. t.pool \in [Server -> Pools] /\ t.on \in [Server -> Handlers] /\ t.doomed \subseteq Server
  BY Parts
<1>3. P \in [Server -> Pools] /\ O \in [Server -> Handlers] /\ D \subseteq Server
  BY <1>2 DEF Pools, Handlers
<1>4. \A s \in Server :
        /\ s \notin gone => P[s] = t.pool[s] /\ O[s] = t.on[s]
        /\ s \in gone => O[s] = "none"
        /\ P[s] = "free" => t.pool[s] = "free"
        /\ P[s] \in {t.pool[s], "draining", "destroyed"}
  OBVIOUS
<1> HIDE DEF P, O, D
<1>5. u \in Proxies
  <2>1. [t EXCEPT !.pool = P, !.doomed = D, !.on = O] \in Proxies
    BY <1>3 DEF Proxies
  <2> QED
    BY <1>1, <2>1
<1>6. u.pool = P /\ u.on = O
  BY <1>1 DEF Proxies
<1>7. /\ u.connecting = t.connecting /\ u.connected = t.connected
      /\ u.disconnected = t.disconnected /\ u.destroying = t.destroying
      /\ u.pings = t.pings /\ u.connects = t.connects
      /\ SameMonitors(t, u) /\ u.loops = t.loops
  BY <1>1 DEF Proxies, SameMonitors
<1> QED
  BY <1>4, <1>5, <1>6, <1>7

(* Servers of a topology that does not work any more are destroyed. *)
LEMMA DestroysKeep ==
  ASSUME NEW H, NEW t, Good(t, H), ~Working(t), NEW gone \in SUBSET Server
  PROVE  Good(DestroyServers(t, gone), H)
<1> DEFINE u == DestroyServers(t, gone)
<1>0. t \in Proxies /\ Sound(t)
  BY DEF Good
<1> HIDE DEF u
<1>1. /\ u \in Proxies /\ SameMonitors(t, u) /\ u.loops = t.loops
      /\ u.connecting = t.connecting /\ u.connected = t.connected
      /\ u.disconnected = t.disconnected /\ u.destroying = t.destroying
      /\ \A s \in Server :
           /\ s \notin gone => u.pool[s] = t.pool[s] /\ u.on[s] = t.on[s]
           /\ s \in gone => u.on[s] = "none"
           /\ u.pool[s] = "free" => t.pool[s] = "free"
  BY <1>0, DestroysIs DEF u
<1>2. ~Working(u) /\ Lists(u) = Lists(t)
  <2>1. ~Working(u)
    BY <1>1 DEF Working, SameMonitors
  <2>2. Lists(u) = Lists(t)
    BY <1>1, Zenon DEF Lists
  <2> QED
    BY <2>1, <2>2
<1>3. t.state # "disconnected"
  BY <1>0 DEF Working, Sound, Untouched
<1>4. \A s \in Server : Fits(t, u, s)
  BY <1>0, <1>1, <1>2 DEF Fits, Sound, FreeFits
<1>5. Alone(u)
  BY <1>0, <1>1 DEF Sound, Alone
<1>6. Follows(t, u)
  BY <1>1, <1>2, SameCounts
<1> QED
  BY <1>1, <1>2, <1>3, <1>4, <1>5, <1>6, ServersKeep DEF u

LEMMA Dialed ==
  ASSUME NEW H, NEW t, Good(t, H), NEW s \in Server, t.on[s] = "reconnect"
  PROVE  /\ t.by[s] \in Loops /\ t.loops[t.by[s]].at = "renewing" /\ t.pool[s] = "dialing"
         /\ t.loops[t.by[s]].count - 1 \in Nat
<1> DEFINE n == t.by[s]
           c == t.loops[n].count
           w == Waits(t, n)
           d == Dials(t, n)
<1>1. n \in Loops /\ t.loops[n].at = "renewing" /\ t.pool[s] = "dialing"
  BY DEF Good, Sound, DialFits
<1>2. c \in Nat
  BY <1>1, Parts DEF Good
<1>3. c >= Cardinality(w) + Cardinality(d)
  BY <1>1 DEF Good, Sound, LoopFits, Total
<1>4. Cardinality(w) \in Nat /\ Cardinality(d) \in Nat
  BY TotalNat
<1>5. d \in SUBSET Server /\ s \in d
  BY DEF Dials
<1> HIDE DEF c, w, d
<1>6. Cardinality(d) >= 1
  BY <1>5, OneLess
<1>7. c - 1 \in Nat
  BY <1>2, <1>3, <1>4, <1>6
<1> QED
  BY <1>1, <1>7 DEF c

(* A server that was connecting is connected, or is not. *)
Counting(t, u, s, n) ==
  IF t.on[s] = "reconnect" /\ t.by[s] = n THEN u.loops[n].count = t.loops[n].count - 1
  ELSE u.loops[n].count = t.loops[n].count

Lands(t, u, s) ==
  /\ ToSet(u.connecting) \subseteq ToSet(t.connecting)
  /\ \A q \in ToSet(t.connecting) : Name(q) # Name(s) => q \in ToSet(u.connecting)
  /\ u.destroying = t.destroying
  /\ \A q \in Server : q # s => u.pool[q] = t.pool[q] /\ u.on[q] = t.on[q]
  /\ \/ /\ u.connected = Unlist(t.connected, Name(s)) \cup {s}
        /\ u.disconnected = t.disconnected
        /\ u.pool[s] = "open" /\ u.on[s] = "stable"
     \/ /\ u.connected = t.connected
        /\ u.disconnected = Unlist(t.disconnected, Name(s)) \cup {s}
        /\ u.pool[s] # "free" /\ u.on[s] = "none"
  /\ \A n \in Loops : Counting(t, u, s, n)

LEMMA LandsKeep ==
  ASSUME NEW H, NEW t, NEW u \in Proxies, Good(t, H), t.state # "disconnected",
         NEW s \in Server, SameMonitors(t, u), Lands(t, u, s),
         t.on[s] \in {"initial", "reconnect"}
  PROVE  Good(u, H)
<1>0. t \in Proxies /\ Sound(t) /\ (Working(t) => Whole(t, H))
  BY DEF Good
<1>1. Working(u) <=> Working(t)
  BY DEF Working, SameMonitors, Lands
<1>2. /\ \A q \in t.connected : Name(q) = Name(s) \/ q \in u.connected
      /\ \A q \in u.connected : q = s \/ (q \in t.connected /\ Name(q) # Name(s)) \/ u.connected = t.connected
      /\ \A q \in t.disconnected : Name(q) = Name(s) \/ q \in u.disconnected
      /\ \A q \in u.disconnected : q = s \/ q \in t.disconnected
      /\ s \in u.connected \cup u.disconnected
  BY DEF Lands, Unlist, Named
<1>3. ASSUME NEW q \in Server PROVE Fits(t, u, q)
  <2>1. FreeFits(t, q)
    BY <1>0 DEF Sound
  <2>2. CASE q = s
    BY <2>1, <2>2 DEF Fits, Lands
  <2>3. CASE q # s
    <3>1. q \in Lists(u) => q \in Lists(t)
      BY <1>2, <2>3 DEF Lists, Lands
    <3> QED
      BY <2>1, <2>3, <3>1 DEF Fits, Lands, FreeFits
  <2> QED
    BY <2>2, <2>3
<1>4. Alone(u)
  <2>1. CASE u.connected = t.connected
    BY <1>0, <2>1 DEF Alone, Sound
  <2>2. CASE u.connected # t.connected
    BY <1>0, <1>2, <2>2 DEF Alone, Sound
  <2> QED
    BY <2>1, <2>2
<1>5. ASSUME Working(u) PROVE (\A q \in Server : Settled(u, q)) /\ Listed(u, H)
  <2>1. Whole(t, H) /\ Settled(t, s)
    BY <1>0, <1>1, <1>5 DEF Whole
  <2>2. ASSUME NEW h \in H PROVE \E q \in Lists(u) : Name(q) = h
    <3>1. PICK q \in Lists(t) : Name(q) = h
      BY <2>1 DEF Whole, Listed
    <3>2. CASE Name(s) = h
      BY <1>2, <3>2 DEF Lists
    <3>3. CASE Name(s) # h
      <4>1. q \in Lists(u)
        BY <1>2, <3>1, <3>3 DEF Lists, Lands
      <4> QED
        BY <3>1, <4>1
    <3> QED
      BY <3>2, <3>3
  <2>3. /\ s \notin t.connected /\ s \notin t.disconnected /\ s \notin t.seeds
        /\ \A n \in Loops : <<n, s>> \notin t.renewals
    BY <2>1 DEF Settled, Pending
  <2>4. u.seeds = t.seeds /\ u.renewals = t.renewals /\ u.pings \subseteq t.pings
    BY DEF SameMonitors
  <2>5. ASSUME NEW q \in Server PROVE Settled(u, q)
    <3>1. CASE q = s
      <4>1. ~Pending(u, s)
        BY <2>3, <2>4 DEF Pending, Lands
      <4>2. s \in u.connected => u.pool[s] = "open" /\ u.on[s] = "stable" /\ s \notin u.disconnected
        BY <2>3 DEF Lands
      <4> QED
        BY <2>3, <2>4, <3>1, <4>1, <4>2 DEF Settled
    <3>2. CASE q # s
      <4>1. Settled(t, q)
        BY <2>1 DEF Whole
      <4>2. u.pool[q] = t.pool[q] /\ u.on[q] = t.on[q]
        BY <3>2 DEF Lands
      <4>3. (q \in u.connected => q \in t.connected) /\ (q \in u.disconnected => q \in t.disconnected)
        BY <1>2, <3>2
      <4> QED
        BY <2>4, <4>1, <4>2, <4>3 DEF Settled, Pending
    <3> QED
      BY <3>1, <3>2
  <2> QED
    BY <2>2, <2>5 DEF Listed
<1>6. ASSUME NEW n \in Loops
      PROVE  t.loops[n].count - u.loops[n].count = Total(t, n) - Total(u, n)
  <2>1. Waits(u, n) = Waits(t, n)
    BY DEF Waits, SameMonitors
  <2>2. Dials(u, n) = Dials(t, n) \ {s}
    <3>1. u.by = t.by /\ u.on[s] # "reconnect" /\ \A q \in Server : q # s => u.on[q] = t.on[q]
      BY DEF SameMonitors, Lands
    <3> QED
      BY <3>1 DEF Dials
  <2>3. /\ Total(u, n) = Cardinality(Waits(t, n)) + Cardinality(Dials(u, n))
        /\ Total(t, n) = Cardinality(Waits(t, n)) + Cardinality(Dials(t, n))
    BY <2>1 DEF Total
  <2>4. Cardinality(Waits(t, n)) \in Nat /\ Cardinality(Dials(t, n)) \in Nat
        /\ Cardinality(Dials(u, n)) \in Nat /\ t.loops[n].count \in Nat
    BY <1>0, TotalNat, Parts
  <2>5. Dials(t, n) \in SUBSET Server
    BY DEF Dials
  <2>6. CASE t.on[s] = "reconnect" /\ t.by[s] = n
    <3>1. u.loops[n].count = t.loops[n].count - 1
      BY <2>6 DEF Lands, Counting
    <3>2. s \in Dials(t, n)
      BY <2>6 DEF Dials
    <3>3. Cardinality(Dials(u, n)) = Cardinality(Dials(t, n)) - 1
      BY <2>2, <2>5, <3>2, OneLess
    <3> QED
      BY <2>3, <2>4, <3>1, <3>3
  <2>7. CASE ~(t.on[s] = "reconnect" /\ t.by[s] = n)
    <3>1. u.loops[n].count = t.loops[n].count
      BY <2>7 DEF Lands, Counting
    <3>2. Dials(u, n) = Dials(t, n)
      BY <2>2, <2>7 DEF Dials
    <3> QED
      BY <2>3, <2>4, <3>1, <3>2
  <2> QED
    BY <2>6, <2>7
<1>7. Follows(t, u)
  <2>1. \A n \in Loops : Total(t, n) \in Nat /\ Total(u, n) \in Nat
    BY TotalNat
  <2> QED
    BY <1>6, <2>1 DEF Follows
<1> QED
  BY <1>1, <1>3, <1>4, <1>5, <1>7, ServersKeep

(* moveServerFrom(connectingProxies, to, s) *)
Moved(t, u, to, s) ==
  /\ u \in Proxies /\ SameMonitors(t, u) /\ u.loops = t.loops
  /\ u.pool = t.pool /\ u.on = t.on /\ u.destroying = t.destroying
  /\ ToSet(u.connecting) \subseteq ToSet(t.connecting)
  /\ \A q \in ToSet(t.connecting) : Name(q) # Name(s) => q \in ToSet(u.connecting)
  /\ to = "connected" =>
       /\ u.connected = Unlist(t.connected, Name(s)) \cup {s}
       /\ u.disconnected = t.disconnected
  /\ to # "connected" =>
       /\ u.connected = t.connected
       /\ u.disconnected = Unlist(t.disconnected, Name(s)) \cup {s}

LEMMA SettleIs ==
  ASSUME NEW t \in Proxies, NEW s \in Server, NEW to \in {"connected", "disconnected"}
  PROVE  Moved(t, Settle(t, to, s), to, s)
<1> DEFINE C == Spliced(t.connecting, Name(s))
           X == Unlist(t.connected, Name(s)) \cup {s}
           Y == Unlist(t.disconnected, Name(s)) \cup {s}
           w == IF to = "connected" THEN [t EXCEPT !.connecting = C, !.connected = X]
                ELSE [t EXCEPT !.connecting = C, !.disconnected = Y]
<1>1. Settle(t, to, s) = w
  BY DEF Settle
<1>2. t.connecting \in Seq(Server) /\ t.connected \subseteq Server /\ t.disconnected \subseteq Server
  BY Parts
<1>3. /\ C \in Seq(Server) /\ ToSet(C) \subseteq ToSet(t.connecting)
      /\ \A q \in ToSet(t.connecting) : Name(q) # Name(s) => q \in ToSet(C)
  BY <1>2, SplicedIs
<1>4. X \subseteq Server /\ Y \subseteq Server
  BY <1>2 DEF Unlist
<1> HIDE DEF C
<1>5. X = Unlist(t.connected, Name(s)) \cup {s} /\ Y = Unlist(t.disconnected, Name(s)) \cup {s}
  OBVIOUS
<1> HIDE DEF X, Y
<1>6. w \in Proxies
  BY <1>3, <1>4 DEF Proxies
<1>7. /\ SameMonitors(t, w) /\ w.loops = t.loops
      /\ w.pool = t.pool /\ w.on = t.on /\ w.destroying = t.destroying /\ w.connecting = C
      /\ w.connected = (IF to = "connected" THEN X ELSE t.connected)
      /\ w.disconnected = (IF to = "connected" THEN t.disconnected ELSE Y)
  BY DEF Proxies, SameMonitors
<1> HIDE DEF w
<1> QED
  BY <1>1, <1>3, <1>5, <1>6, <1>7 DEF Moved

(* The server has answered or failed, which is counted. *)
Answers(t, u, s) ==
  /\ SameMonitors(t, u) /\ u.connecting = t.connecting /\ u.connected = t.connected
  /\ u.disconnected = t.disconnected /\ u.destroying = t.destroying /\ u.on = t.on
  /\ \A q \in Server : q # s => u.pool[q] = t.pool[q]
  /\ u.pool[s] # "free"
  /\ \A n \in Loops : Counting(t, u, s, n)

LEMMA SameSteps ==
  ASSUME NEW t, NEW u, NEW v, SameMonitors(t, u), SameMonitors(u, v)
  PROVE  SameMonitors(t, v)
BY DEF SameMonitors

LEMMA OpenLands ==
  ASSUME NEW H, NEW t, Good(t, H), t.state # "disconnected",
         NEW s \in Server, t.on[s] \in {"initial", "reconnect"},
         NEW u \in Proxies, Answers(t, u, s), u.pool[s] = "open"
  PROVE  LET v == [Settle(u, "connected", s) EXCEPT !.on[s] = "stable"] IN
         Good(v, H) /\ v.state = t.state /\ \A n \in Loops : v.loops[n].at = t.loops[n].at
<1> DEFINE x == Settle(u, "connected", s)
           O == [x.on EXCEPT ![s] = "stable"]
           v == [x EXCEPT !.on = O]
<1>0. x = Settle(u, "connected", s)
  OBVIOUS
<1> HIDE DEF x
<1>1. /\ x \in Proxies /\ SameMonitors(u, x) /\ x.loops = u.loops
      /\ x.pool = u.pool /\ x.on = u.on /\ x.destroying = u.destroying
      /\ ToSet(x.connecting) \subseteq ToSet(u.connecting)
      /\ \A q \in ToSet(u.connecting) : Name(q) # Name(s) => q \in ToSet(x.connecting)
      /\ x.connected = Unlist(u.connected, Name(s)) \cup {s}
      /\ x.disconnected = u.disconnected
  <2>1. Moved(u, Settle(u, "connected", s), "connected", s)
    BY SettleIs
  <2> QED
    BY <1>0, <2>1 DEF Moved
<1>2. x.on \in [Server -> Handlers]
  BY <1>1, Parts
<1>3. O \in [Server -> Handlers] /\ O[s] = "stable" /\ \A q \in Server : q # s => O[q] = x.on[q]
  BY <1>2 DEF Handlers
<1> HIDE DEF O
<1>4. v \in Proxies
  BY <1>1, <1>3 DEF Proxies
<1>5. /\ v.on = O /\ v.pool = x.pool /\ v.connecting = x.connecting /\ v.connected = x.connected
      /\ v.disconnected = x.disconnected /\ v.destroying = x.destroying /\ v.loops = x.loops
      /\ SameMonitors(x, v)
  BY <1>1 DEF Proxies, SameMonitors
<1> HIDE DEF v
<1>6. SameMonitors(t, v)
  BY <1>1, <1>5, SameSteps DEF Answers
<1>7. \A n \in Loops : Counting(t, v, s, n)
  BY <1>1, <1>5 DEF Answers, Counting
<1>8. Lands(t, v, s)
  BY <1>1, <1>3, <1>5, <1>7 DEF Answers, Lands
<1>9. Good(v, H)
  BY <1>4, <1>6, <1>8, LandsKeep
<1>10. v.state = t.state /\ \A n \in Loops : v.loops[n].at = t.loops[n].at
  BY <1>6 DEF SameMonitors
<1> QED
  BY <1>9, <1>10 DEF v, O, x

LEMMA NoneLands ==
  ASSUME NEW H, NEW t, Good(t, H), t.state # "disconnected",
         NEW s \in Server, t.on[s] \in {"initial", "reconnect"},
         NEW u \in Proxies, Answers(t, u, s)
  PROVE  LET v == [Settle(u, "disconnected", s) EXCEPT !.on[s] = "none"] IN
         Good(v, H) /\ v.state = t.state /\ \A n \in Loops : v.loops[n].at = t.loops[n].at
<1> DEFINE x == Settle(u, "disconnected", s)
           O == [x.on EXCEPT ![s] = "none"]
           v == [x EXCEPT !.on = O]
<1>0. x = Settle(u, "disconnected", s)
  OBVIOUS
<1> HIDE DEF x
<1>1. /\ x \in Proxies /\ SameMonitors(u, x) /\ x.loops = u.loops
      /\ x.pool = u.pool /\ x.on = u.on /\ x.destroying = u.destroying
      /\ ToSet(x.connecting) \subseteq ToSet(u.connecting)
      /\ \A q \in ToSet(u.connecting) : Name(q) # Name(s) => q \in ToSet(x.connecting)
      /\ x.connected = u.connected
      /\ x.disconnected = Unlist(u.disconnected, Name(s)) \cup {s}
  <2>1. Moved(u, Settle(u, "disconnected", s), "disconnected", s)
    BY SettleIs
  <2> QED
    BY <1>0, <2>1 DEF Moved
<1>2. x.on \in [Server -> Handlers]
  BY <1>1, Parts
<1>3. O \in [Server -> Handlers] /\ O[s] = "none" /\ \A q \in Server : q # s => O[q] = x.on[q]
  BY <1>2 DEF Handlers
<1> HIDE DEF O
<1>4. v \in Proxies
  BY <1>1, <1>3 DEF Proxies
<1>5. /\ v.on = O /\ v.pool = x.pool /\ v.connecting = x.connecting /\ v.connected = x.connected
      /\ v.disconnected = x.disconnected /\ v.destroying = x.destroying /\ v.loops = x.loops
      /\ SameMonitors(x, v)
  BY <1>1 DEF Proxies, SameMonitors
<1> HIDE DEF v
<1>6. SameMonitors(t, v)
  BY <1>1, <1>5, SameSteps DEF Answers
<1>7. \A n \in Loops : Counting(t, v, s, n)
  BY <1>1, <1>5 DEF Answers, Counting
<1>8. Lands(t, v, s)
  BY <1>1, <1>3, <1>5, <1>7 DEF Answers, Lands
<1>9. Good(v, H)
  BY <1>4, <1>6, <1>8, LandsKeep
<1>10. v.state = t.state /\ \A n \in Loops : v.loops[n].at = t.loops[n].at
  BY <1>6 DEF SameMonitors
<1> QED
  BY <1>9, <1>10 DEF v, O, x

LEMMA DestroyedLands ==
  ASSUME NEW H, NEW t, Good(t, H), t.state # "disconnected",
         NEW s \in Server, t.on[s] \in {"initial", "reconnect"},
         NEW u \in Proxies, Answers(t, u, s)
  PROVE  LET v == DestroyServer(Settle(u, "disconnected", s), s) IN
         Good(v, H) /\ v.state = t.state /\ \A n \in Loops : v.loops[n].at = t.loops[n].at
<1> DEFINE x == Settle(u, "disconnected", s)
           v == DestroyServers(x, {s})
<1>0. x = Settle(u, "disconnected", s)
  OBVIOUS
<1> HIDE DEF x
<1>1. /\ x \in Proxies /\ SameMonitors(u, x) /\ x.loops = u.loops
      /\ x.pool = u.pool /\ x.on = u.on /\ x.destroying = u.destroying
      /\ ToSet(x.connecting) \subseteq ToSet(u.connecting)
      /\ \A q \in ToSet(u.connecting) : Name(q) # Name(s) => q \in ToSet(x.connecting)
      /\ x.connected = u.connected
      /\ x.disconnected = Unlist(u.disconnected, Name(s)) \cup {s}
  <2>1. Moved(u, Settle(u, "disconnected", s), "disconnected", s)
    BY SettleIs
  <2> QED
    BY <1>0, <2>1 DEF Moved
<1>2. {s} \in SUBSET Server
  OBVIOUS
<1>3. /\ v \in Proxies /\ SameMonitors(x, v) /\ v.loops = x.loops
      /\ v.connecting = x.connecting /\ v.connected = x.connected
      /\ v.disconnected = x.disconnected /\ v.destroying = x.destroying
      /\ \A q \in Server :
           /\ q # s => v.pool[q] = x.pool[q] /\ v.on[q] = x.on[q]
           /\ q = s => v.on[q] = "none"
           /\ v.pool[q] = "free" => x.pool[q] = "free"
  BY <1>1, <1>2, DestroysIs
<1> HIDE DEF v
<1>6. SameMonitors(t, v)
  BY <1>1, <1>3, SameSteps DEF Answers
<1>7. \A n \in Loops : Counting(t, v, s, n)
  BY <1>1, <1>3 DEF Answers, Counting
<1>8. Lands(t, v, s)
  BY <1>1, <1>3, <1>7 DEF Answers, Lands
<1>9. Good(v, H)
  BY <1>3, <1>6, <1>8, LandsKeep
<1>10. v.state = t.state /\ \A n \in Loops : v.loops[n].at = t.loops[n].at
  BY <1>6 DEF SameMonitors
<1> QED
  BY <1>9, <1>10 DEF v, x, DestroyServer

AnswersWith(t, u, s, p) == u \in Proxies /\ Answers(t, u, s) /\ u.pool[s] = p

(* A pool opens or closes, *)
LEMMA PoolAnswers ==
  ASSUME NEW H, NEW t, Good(t, H), NEW s \in Server, NEW p \in Pools \ {"free"},
         t.on[s] # "reconnect", NEW u, u = [t EXCEPT !.pool[s] = p]
  PROVE  AnswersWith(t, u, s, p) /\ u.pings = t.pings /\ u.loops = t.loops
<1> DEFINE P == [t.pool EXCEPT ![s] = p]
<1>1. t \in Proxies /\ t.pool \in [Server -> Pools]
  BY Parts DEF Good
<1>2. P \in [Server -> Pools] /\ P[s] = p /\ \A q \in Server : q # s => P[q] = t.pool[q]
  BY <1>1
<1>3. u = [t EXCEPT !.pool = P]
  OBVIOUS
<1> HIDE DEF P
<1>4. u \in Proxies
  <2>1. [t EXCEPT !.pool = P] \in Proxies
    BY <1>1, <1>2 DEF Proxies
  <2> QED
    BY <1>3, <2>1
<1>5. /\ u.pool = P /\ u.on = t.on /\ u.loops = t.loops /\ u.connecting = t.connecting
      /\ u.connected = t.connected /\ u.disconnected = t.disconnected /\ u.pings = t.pings
      /\ u.destroying = t.destroying /\ SameMonitors(t, u)
  BY <1>1, <1>3 DEF Proxies, SameMonitors
<1>6. \A n \in Loops : Counting(t, u, s, n)
  BY <1>5 DEF Counting
<1>7. Answers(t, u, s)
  BY <1>2, <1>5, <1>6 DEF Answers
<1> QED
  BY <1>2, <1>4, <1>5, <1>7 DEF AnswersWith

(* and a reconnect comes to its end. *)
LEMMA CountedAnswers ==
  ASSUME NEW H, NEW t, Good(t, H), NEW s \in Server, t.on[s] = "reconnect",
         NEW p \in {"open", t.pool[s]}, NEW u,
         u = Counted([t EXCEPT !.pool = [t.pool EXCEPT ![s] = p]], t.by[s])
  PROVE  AnswersWith(t, u, s, p)
<1> DEFINE n == t.by[s]
           c == t.loops[n].count - 1
           P == [t.pool EXCEPT ![s] = p]
           L == [t.loops EXCEPT ![n].count = c]
<1>1. /\ t \in Proxies /\ t.pool \in [Server -> Pools]
      /\ t.loops \in [Loops -> [at : {"off", "timer", "pinging", "renewing"},
                                first : BOOLEAN, idle : BOOLEAN, count : Nat]]
  BY Parts DEF Good
<1>2. n \in Loops /\ t.pool[s] = "dialing" /\ c \in Nat /\ c = t.loops[n].count - 1
  BY Dialed
<1>3. /\ P \in [Server -> Pools] /\ P[s] = p /\ p # "free"
      /\ \A q \in Server : q # s => P[q] = t.pool[q]
  BY <1>1, <1>2 DEF Pools
<1>4. u = [t EXCEPT !.pool = P, !.loops = L]
  BY <1>1, <1>2, <1>3 DEF Counted, Proxies
<1> HIDE DEF c, n
<1>5. /\ L \in [Loops -> [at : {"off", "timer", "pinging", "renewing"},
                          first : BOOLEAN, idle : BOOLEAN, count : Nat]]
      /\ \A m \in Loops : L[m].at = t.loops[m].at
                          /\ L[m].count = IF m = n THEN c ELSE t.loops[m].count
  BY <1>1, <1>2
<1> HIDE DEF P, L
<1>6. u \in Proxies
  <2>1. [t EXCEPT !.pool = P, !.loops = L] \in Proxies
    BY <1>1, <1>3, <1>5 DEF Proxies
  <2> QED
    BY <1>4, <2>1
<1>7. /\ u.pool = P /\ u.on = t.on /\ u.loops = L /\ u.connecting = t.connecting
      /\ u.connected = t.connected /\ u.disconnected = t.disconnected
      /\ u.destroying = t.destroying /\ SameMonitors(t, u)
  <2>1. /\ u.pool = P /\ u.on = t.on /\ u.loops = L /\ u.connecting = t.connecting
        /\ u.connected = t.connected /\ u.disconnected = t.disconnected
        /\ u.destroying = t.destroying /\ u.state = t.state /\ u.haTimeout = t.haTimeout
        /\ u.seeds = t.seeds /\ u.by = t.by /\ u.pings = t.pings /\ u.renewals = t.renewals
    BY <1>1, <1>4 DEF Proxies
  <2> QED
    BY <1>5, <2>1 DEF SameMonitors
<1>8. \A m \in Loops : Counting(t, u, s, m)
  BY <1>2, <1>5, <1>7 DEF Counting, n
<1>9. Answers(t, u, s)
  BY <1>3, <1>7, <1>8 DEF Answers
<1> QED
  BY <1>3, <1>6, <1>7, <1>9 DEF AnswersWith

(* A seed that is not a mongos is no longer listed. *)
LEMMA StrangerKeeps ==
  ASSUME NEW H, NEW t, Good(t, H), t.state # "disconnected",
         NEW s \in Server, t.on[s] = "initial", Name(s) \notin H,
         NEW u \in Proxies, Answers(t, u, s), u.loops = t.loops
  PROVE  LET v == [u EXCEPT !.connecting = Spliced(@, Name(s))] IN
         Good(v, H) /\ v.state = t.state /\ v.loops = t.loops
<1> DEFINE C == Spliced(u.connecting, Name(s))
           v == [u EXCEPT !.connecting = C]
<1>0. t \in Proxies /\ Sound(t) /\ (Working(t) => Whole(t, H))
  BY DEF Good
<1>1. u.connecting = t.connecting /\ u.connecting \in Seq(Server)
  BY Parts DEF Answers
<1>2. /\ C \in Seq(Server) /\ ToSet(C) \subseteq ToSet(t.connecting)
      /\ \A q \in ToSet(t.connecting) : Name(q) # Name(s) => q \in ToSet(C)
  BY <1>1, SplicedIs
<1> HIDE DEF C
<1>3. v \in Proxies
  BY <1>2 DEF Proxies
<1>4. /\ v.connecting = C /\ v.connected = t.connected /\ v.disconnected = t.disconnected
      /\ v.pool = u.pool /\ v.on = t.on /\ v.destroying = t.destroying /\ v.loops = t.loops
      /\ v.seeds = t.seeds /\ v.renewals = t.renewals /\ v.pings \subseteq t.pings /\ v.state = t.state
  BY DEF Proxies, SameMonitors, Answers
<1>5. SameMonitors(t, v)
  BY DEF Proxies, SameMonitors, Answers
<1> HIDE DEF v
<1>6. \A q \in Server : (q # s => v.pool[q] = t.pool[q]) /\ v.pool[s] # "free"
  BY <1>4 DEF Answers
<1>7. \A q \in Server : Fits(t, v, q)
  <2>1. \A q \in Server : q \in Lists(v) => q \in Lists(t)
    BY <1>2, <1>4 DEF Lists
  <2>2. \A q \in Server : FreeFits(t, q)
    BY <1>0 DEF Sound
  <2> QED
    BY <1>4, <1>6, <2>1, <2>2 DEF Fits, FreeFits
<1>8. Alone(v)
  BY <1>0, <1>4 DEF Alone, Sound
<1>9. Working(v) <=> Working(t)
  BY <1>4 DEF Working
<1>10. ASSUME Working(v) PROVE (\A q \in Server : Settled(v, q)) /\ Listed(v, H)
  <2>1. Whole(t, H)
    BY <1>0, <1>9, <1>10
  <2>2. ASSUME NEW h \in H PROVE \E q \in Lists(v) : Name(q) = h
    <3>1. PICK q \in Lists(t) : Name(q) = h
      BY <2>1 DEF Whole, Listed
    <3>2. q \in Lists(v)
      BY <1>2, <1>4, <3>1 DEF Lists
    <3> QED
      BY <3>1, <3>2
  <2>3. ASSUME NEW q \in Server PROVE Settled(v, q)
    <3>1. Settled(t, q)
      BY <2>1 DEF Whole
    <3>2. CASE q = s
      BY <1>4, <3>1, <3>2 DEF Settled, Pending
    <3>3. CASE q # s
      BY <1>4, <1>6, <3>1, <3>3 DEF Settled, Pending
    <3> QED
      BY <3>2, <3>3
  <2> QED
    BY <2>2, <2>3 DEF Listed
<1>11. Follows(t, v)
  BY <1>3, <1>4, <1>5, SameCounts
<1>12. Good(v, H)
  BY <1>3, <1>5, <1>7, <1>8, <1>9, <1>10, <1>11, ServersKeep
<1> QED
  BY <1>4, <1>12 DEF v, C

(***************************************************************************)
(* The steps                                                               *)
(***************************************************************************)

(* A topology with a server that is not free is not before connect. *)
LEMMA Begun ==
  ASSUME NEW H, NEW t, Good(t, H)
  PROVE  /\ \A s \in Server : t.on[s] # "none" \/ t.pool[s] # "free" \/ s \in t.seeds
                                => t.state # "disconnected"
         /\ \A n \in Loops : t.loops[n].at # "off" => t.state # "disconnected"
         /\ \A p \in t.pings \cup t.renewals : t.state # "disconnected"
BY DEF Good, Sound, Untouched

LEMMA SeedConnectedKeeps ==
  ASSUME NEW H, Good(self, H), \A h \in H : h \notin foreign, NEW s \in Server, SeedConnected(s)
  PROVE  Good(self', H)
<1> DEFINE h == Name(s)
           t == [self EXCEPT !.pool[s] = "open"]
           twice == DestroyServer(Settle(t, "disconnected", s), s)
           stranger == [t EXCEPT !.connecting = Spliced(@, h)]
           stable == [Settle(t, "connected", s) EXCEPT !.on[s] = "stable"]
           left == IF Gone(t) THEN twice
                   ELSE IF h \in foreign THEN InitialDone(stranger)
                   ELSE IF Named(t.connected, h) # {} THEN twice ELSE InitialDone(stable)
<1>1. self.on[s] = "initial" /\ (~Gone(self) => Spare) /\ Becomes(left)
  BY Zenon DEF SeedConnected
<1>2. self.state # "disconnected" /\ self.on[s] # "reconnect" /\ self.on[s] \in {"initial", "reconnect"}
  BY <1>1, Begun
<1>3. t \in Proxies /\ Answers(self, t, s) /\ t.pool[s] = "open" /\ t.loops = self.loops
  <2> DEFINE p == "open"
  <2>1. p \in Pools \ {"free"} /\ p = "open"
    BY DEF Pools
  <2>2. t = [self EXCEPT !.pool[s] = p]
    OBVIOUS
  <2> HIDE DEF p, t
  <2>3. AnswersWith(self, t, s, p) /\ t.loops = self.loops
    BY <1>2, <2>1, <2>2, PoolAnswers
  <2> QED
    BY <2>1, <2>3 DEF AnswersWith
<1> HIDE DEF t
<1>4. t.state = self.state
  BY <1>3 DEF Answers, SameMonitors
<1>5. Good(twice, H)
  BY <1>2, <1>3, DestroyedLands
<1>6. ASSUME ~Gone(t), h \in foreign PROVE Good(InitialDone(stranger), H)
  <2>1. Good(stranger, H) /\ stranger.state = self.state /\ stranger.loops = self.loops
    BY <1>1, <1>2, <1>3, <1>6, StrangerKeeps
  <2> HIDE DEF stranger
  <2>2. \E n \in Loops : stranger.loops[n].at = "off"
    BY <1>1, <1>4, <1>6, <2>1 DEF Gone, Spare
  <2> QED
    BY <1>2, <2>1, <2>2, InitialDoneKeeps
<1>7. ASSUME ~Gone(t) PROVE Good(InitialDone(stable), H)
  <2>1. Good(stable, H) /\ stable.state = self.state /\ \A n \in Loops : stable.loops[n].at = self.loops[n].at
    BY <1>2, <1>3, OpenLands
  <2> HIDE DEF stable
  <2>2. \E n \in Loops : stable.loops[n].at = "off"
    BY <1>1, <1>4, <1>7, <2>1 DEF Gone, Spare
  <2> QED
    BY <1>2, <2>1, <2>2, InitialDoneKeeps
<1> HIDE DEF twice, stranger, stable
<1>8. Good(left, H)
  BY <1>5, <1>6, <1>7
<1> QED
  BY <1>1, <1>8, BecomesKeeps

LEMMA SeedFailedKeeps ==
  ASSUME NEW H, Good(self, H), NEW s \in Server, SeedFailed(s)
  PROVE  Good(self', H)
<1> DEFINE u == [self EXCEPT !.pool[s] = "closed"]
           t == Settle(u, "disconnected", s)
           none == [t EXCEPT !.on[s] = "none"]
           left == IF Gone(t) THEN DestroyServer(t, s) ELSE InitialDone(none)
<1>1. self.on[s] = "initial" /\ (~Gone(self) => Spare) /\ Becomes(left)
  BY Zenon DEF SeedFailed
<1>2. self.state # "disconnected" /\ self.on[s] # "reconnect" /\ self.on[s] \in {"initial", "reconnect"}
  BY <1>1, Begun
<1>3. u \in Proxies /\ Answers(self, u, s)
  <2> DEFINE p == "closed"
  <2>1. p \in Pools \ {"free"}
    BY DEF Pools
  <2>2. u = [self EXCEPT !.pool[s] = p]
    OBVIOUS
  <2> HIDE DEF p, u
  <2>3. AnswersWith(self, u, s, p)
    BY <1>2, <2>1, <2>2, PoolAnswers
  <2> QED
    BY <2>3 DEF AnswersWith
<1> HIDE DEF u
<1>4. t.state = self.state
  <2>1. Moved(u, t, "disconnected", s)
    BY <1>3, SettleIs
  <2> QED
    BY <1>3, <2>1 DEF Moved, Answers, SameMonitors
<1>5. Good(DestroyServer(t, s), H)
  BY <1>2, <1>3, DestroyedLands
<1>6. Good(none, H) /\ none.state = self.state /\ \A n \in Loops : none.loops[n].at = self.loops[n].at
  BY <1>2, <1>3, NoneLands
<1> HIDE DEF t, none
<1>7. ASSUME ~Gone(t) PROVE Good(InitialDone(none), H)
  <2>1. \E n \in Loops : none.loops[n].at = "off"
    BY <1>1, <1>4, <1>6, <1>7 DEF Gone, Spare
  <2> QED
    BY <1>2, <1>6, <2>1, InitialDoneKeeps
<1>8. Good(left, H)
  BY <1>5, <1>7
<1> QED
  BY <1>1, <1>8, BecomesKeeps

LEMMA ReconnectedKeeps ==
  ASSUME NEW H, Good(self, H), NEW s \in Server, Reconnected(s)
  PROVE  Good(self', H)
<1> DEFINE n == self.by[s]
           t == Counted([self EXCEPT !.pool[s] = "open"], n)
           late == DestroyServer(Settle(t, "disconnected", s), s)
           stable == [Settle(t, "connected", s) EXCEPT !.on[s] = "stable"]
           left == IF Gone(t) THEN late ELSE Finished(stable, n)
<1>1. self.on[s] = "reconnect" /\ Becomes(left)
  BY Zenon DEF Reconnected
<1>2. self.state # "disconnected" /\ self.on[s] \in {"initial", "reconnect"}
  BY <1>1, Begun
<1>3. n \in Loops /\ self.loops[n].at = "renewing"
  BY <1>1, Dialed
<1>4. t \in Proxies /\ Answers(self, t, s) /\ t.pool[s] = "open"
  <2> DEFINE p == "open"
  <2>1. p \in {"open", self.pool[s]} /\ p = "open"
    OBVIOUS
  <2>2. t = Counted([self EXCEPT !.pool = [self.pool EXCEPT ![s] = p]], self.by[s])
    OBVIOUS
  <2> HIDE DEF p, t
  <2>3. AnswersWith(self, t, s, p)
    BY <1>1, <2>1, <2>2, CountedAnswers
  <2> QED
    BY <2>1, <2>3 DEF AnswersWith
<1> HIDE DEF t, n
<1>5. Good(late, H)
  BY <1>2, <1>4, DestroyedLands
<1>6. Good(stable, H) /\ stable.state = self.state /\ \A m \in Loops : stable.loops[m].at = self.loops[m].at
  BY <1>2, <1>4, OpenLands
<1> HIDE DEF late, stable
<1>7. Good(Finished(stable, n), H)
  BY <1>2, <1>3, <1>6, FinishedKeeps
<1>8. Good(left, H)
  BY <1>5, <1>7
<1> QED
  BY <1>1, <1>8, BecomesKeeps

LEMMA ReconnectFailedKeeps ==
  ASSUME NEW H, Good(self, H), NEW s \in Server, ReconnectFailed(s)
  PROVE  Good(self', H)
<1> DEFINE n == self.by[s]
           u == Counted(self, n)
           t == DestroyServer(Settle(u, "disconnected", s), s)
           left == IF Gone(t) THEN t ELSE Finished(t, n)
<1>1. self.on[s] = "reconnect" /\ Becomes(left)
  BY Zenon DEF ReconnectFailed
<1>2. self.state # "disconnected" /\ self.on[s] \in {"initial", "reconnect"}
  BY <1>1, Begun
<1>3. n \in Loops /\ self.loops[n].at = "renewing"
  BY <1>1, Dialed
<1>4. u \in Proxies /\ Answers(self, u, s)
  <2> DEFINE p == self.pool[s]
  <2>1. p \in {"open", self.pool[s]}
    OBVIOUS
  <2>2. self = [self EXCEPT !.pool = [self.pool EXCEPT ![s] = p]]
    <3>1. self \in Proxies /\ self.pool \in [Server -> Pools]
      BY Parts DEF Good
    <3>2. [self.pool EXCEPT ![s] = p] = self.pool
      BY <3>1
    <3>3. [self EXCEPT !.pool = self.pool] = self
      BY <3>1 DEF Proxies
    <3> QED
      BY <3>2, <3>3, Zenon
  <2>3. u = Counted([self EXCEPT !.pool = [self.pool EXCEPT ![s] = p]], self.by[s])
    BY <2>2, Zenon
  <2> HIDE DEF p, u
  <2>4. AnswersWith(self, u, s, p)
    BY <1>1, <2>1, <2>3, CountedAnswers
  <2> QED
    BY <2>4 DEF AnswersWith
<1> HIDE DEF u, n
<1>5. Good(t, H) /\ t.state = self.state /\ \A m \in Loops : t.loops[m].at = self.loops[m].at
  BY <1>2, <1>4, DestroyedLands
<1> HIDE DEF t
<1>6. Good(Finished(t, n), H)
  BY <1>2, <1>3, <1>5, FinishedKeeps
<1>7. Good(left, H)
  BY <1>5, <1>6
<1> QED
  BY <1>1, <1>7, BecomesKeeps

LEMMA PingingKeeps ==
  ASSUME NEW H, NEW t, Good(t, H), t.state # "disconnected", NEW n \in Loops, Through(t, n)
  PROVE  Good([t EXCEPT !.loops[n].at = "pinging", !.pings = @ \cup ({n} \X t.connected)], H)
<1> DEFINE L == [t.loops EXCEPT ![n].at = "pinging"]
           P == t.pings \cup ({n} \X t.connected)
           u == [t EXCEPT !.loops = L, !.pings = P]
<1>0. t \in Proxies /\ Sound(t) /\ (Working(t) => Whole(t, H))
  BY DEF Good
<1>1. /\ t.pings \subseteq Loops \X Server /\ t.connected \subseteq Server
      /\ t.loops \in [Loops -> [at : {"off", "timer", "pinging", "renewing"},
                                first : BOOLEAN, idle : BOOLEAN, count : Nat]]
  BY <1>0, Parts
<1>2. /\ L \in [Loops -> [at : {"off", "timer", "pinging", "renewing"},
                          first : BOOLEAN, idle : BOOLEAN, count : Nat]]
      /\ L[n].at = "pinging" /\ \A m \in Loops : m # n => L[m] = t.loops[m]
  BY <1>1
<1>3. /\ P \subseteq Loops \X Server
      /\ \A m \in Loops, s \in Server : <<m, s>> \in P <=>
                            <<m, s>> \in t.pings \/ (m = n /\ s \in t.connected)
      /\ \A p \in P : p \in t.pings \/ p[2] \in t.connected
  BY <1>1
<1> HIDE DEF L, P
<1>4. u \in Proxies
  BY <1>0, <1>2, <1>3 DEF Proxies
<1>5. /\ u.loops = L /\ u.pings = P /\ u.connecting = t.connecting /\ u.connected = t.connected
      /\ u.disconnected = t.disconnected /\ u.pool = t.pool /\ u.on = t.on /\ u.by = t.by
      /\ u.seeds = t.seeds /\ u.haTimeout = t.haTimeout /\ u.renewals = t.renewals
      /\ u.state = t.state /\ u.destroying = t.destroying
  BY <1>0 DEF Proxies
<1> HIDE DEF u
<1>6. \A s \in Server : s \in Referred(u) => s \in Referred(t)
  BY <1>3, <1>5 DEF Referred
<1>7. Working(u) <=> Working(t)
  BY <1>5 DEF Working
<1>8. \A m \in Loops : Total(u, m) = Total(t, m)
  BY <1>5, SameTotal
<1>9. Sound(u)
  <2>1. ASSUME NEW s \in Server PROVE FreeFits(u, s) /\ DialFits(u, s)
    <3>1. FreeFits(t, s) /\ DialFits(t, s)
      BY <1>0 DEF Sound
    <3>2. FreeFits(u, s)
      BY <1>5, <1>6, <3>1 DEF FreeFits
    <3>3. t.on[s] = "reconnect" => t.by[s] # n
      BY DEF Through, Dials
    <3>4. DialFits(u, s)
      BY <1>2, <1>5, <3>1, <3>3 DEF DialFits
    <3> QED
      BY <3>2, <3>4
  <2>2. ASSUME NEW m \in Loops PROVE LoopFits(u, m)
    <3>1. LoopFits(t, m)
      BY <1>0 DEF Sound
    <3>2. CASE m = n
      BY <1>2, <1>5, <3>2 DEF LoopFits, Through
    <3>3. CASE m # n
      BY <1>2, <1>3, <1>5, <1>8, <3>1, <3>3 DEF LoopFits
    <3> QED
      BY <3>2, <3>3
  <2>3. Alone(u)
    BY <1>0, <1>5 DEF Sound, Alone
  <2> QED
    BY <1>5, <2>1, <2>2, <2>3 DEF Sound
<1>10. ASSUME Working(u) PROVE Whole(u, H)
  <2>0. Whole(t, H)
    BY <1>0, <1>7, <1>10
  <2>1. ASSUME NEW m \in Loops PROVE Counts(u, m)
    BY <2>0, <1>2, <1>5, <1>8 DEF Whole, Counts
  <2>2. ASSUME NEW s \in Server PROVE Settled(u, s)
    <3>1. Settled(t, s)
      BY <2>0 DEF Whole
    <3>2. Pending(t, s) => s \notin t.connected
      BY <3>1 DEF Settled, Pending
    <3> QED
      BY <1>3, <1>5, <3>1, <3>2 DEF Settled, Pending
  <2>3. Lists(u) = Lists(t)
    BY <1>5, Zenon DEF Lists
  <2>4. u.state # "disconnected" => Listed(u, H)
    BY <2>0, <2>3 DEF Whole, Listed
  <2> QED
    BY <2>1, <2>2, <2>4 DEF Whole
<1>11. Good(u, H)
  BY <1>4, <1>9, <1>10 DEF Good
<1> QED
  BY <1>11 DEF u, L, P

LEMMA MonitorKeeps ==
  ASSUME NEW H, Good(self, H), NEW n \in Loops, Monitor(n)
  PROVE  Good(self', H)
<1> DEFINE k == IF self.haTimeout = n THEN 0 ELSE self.haTimeout
           t == [self EXCEPT !.haTimeout = k]
           idle == [t EXCEPT !.loops[n].idle = TRUE]
           pinging == [t EXCEPT !.loops[n].at = "pinging", !.pings = @ \cup ({n} \X t.connected)]
           left == IF Gone(t) THEN Silenced(t, {n})
                   ELSE IF t.connected # {} THEN pinging ELSE Renew(idle, n)
<1>1. self.loops[n].at = "timer" /\ Becomes(left)
  BY Zenon DEF Monitor
<1>2. self.state # "disconnected"
  BY <1>1, Begun
<1>3. /\ self \in Proxies
      /\ self.loops \in [Loops -> [at : {"off", "timer", "pinging", "renewing"},
                                   first : BOOLEAN, idle : BOOLEAN, count : Nat]]
      /\ self.haTimeout \in Loops \cup {0}
  BY Parts DEF Good
<1>4. k \in Loops \cup {0} /\ k # n /\ \A m \in Loops : k = m => self.haTimeout = m
  BY <1>3 DEF Loops
<1> HIDE DEF k
<1>5. /\ t \in Proxies /\ SameServers(self, t) /\ t.haTimeout = k /\ t.renewals = self.renewals
      /\ t.state = self.state /\ t.loops = self.loops
  BY <1>3, <1>4 DEF Proxies, SameServers
<1> HIDE DEF t
<1>6. \A m \in Loops : Stays(self, t, m)
  BY <1>4, <1>5 DEF Stays, Waits
<1>7. Good(t, H)
  BY <1>2, <1>5, <1>6, LoopsKeep
<1>8. Through(t, n)
  BY <1>1, <1>4, <1>5, <1>7, OffThrough
<1>9. Good(Silenced(t, {n}), H) /\ Good(pinging, H)
  <2>1. t.state # "disconnected"
    BY <1>2, <1>5
  <2>2. Good(Silenced(t, {n}), H)
    BY <1>7, <1>8, <2>1, SilencedKeeps
  <2>3. Good(pinging, H)
    BY <1>7, <1>8, <2>1, PingingKeeps
  <2> QED
    BY <2>2, <2>3
<1>10. Good(Renew(idle, n), H)
  <2> DEFINE L == [t.loops EXCEPT ![n].idle = TRUE]
  <2>1. /\ L \in [Loops -> [at : {"off", "timer", "pinging", "renewing"},
                            first : BOOLEAN, idle : BOOLEAN, count : Nat]]
        /\ \A m \in Loops : L[m].at = t.loops[m].at /\ L[m].count = t.loops[m].count
    BY <1>3, <1>5
  <2>2. idle = [t EXCEPT !.loops = L]
    OBVIOUS
  <2> HIDE DEF L, idle
  <2>3. idle \in Proxies
    <3>1. [t EXCEPT !.loops = L] \in Proxies
      BY <1>5, <2>1 DEF Proxies
    <3> QED
      BY <2>2, <3>1
  <2>4. /\ SameServers(t, idle) /\ idle.haTimeout = t.haTimeout /\ idle.renewals = t.renewals
        /\ idle.state = t.state /\ idle.loops = L
    BY <1>5, <2>2 DEF Proxies, SameServers
  <2>5. Good(idle, H) /\ Through(idle, n)
    BY <1>2, <1>5, <1>7, <1>8, <2>1, <2>3, <2>4, ToldKeeps
  <2> QED
    BY <1>2, <1>5, <2>4, <2>5, RenewKeeps
<1> HIDE DEF idle, pinging
<1>11. Good(left, H)
  BY <1>9, <1>10
<1> QED
  BY <1>1, <1>11, BecomesKeeps

(* Pings are lost with the connection they are on, which may have closed   *)
(* before.                                                                 *)
LEMMA PingsLostKeeps ==
  ASSUME NEW H, NEW t, Good(t, H), NEW s \in Server, t.pool[s] \in {"open", "draining"},
         NEW ns \in SUBSET Loops, \A n \in ns : <<n, s>> \in t.pings, ns # {},
         NEW p \in {t.pool[s], "closed"}, NEW u, u = [t EXCEPT !.pool = [t.pool EXCEPT ![s] = p]]
  PROVE  LET v == PingsLost(u, ns, s) IN
         /\ Good(v, H) /\ v.state = t.state
         /\ ~Gone(t) => v.on = t.on /\ v.seeds = t.seeds /\ v.pool[s] = p /\ Working(v) = Working(t)
<1> DEFINE P == [t.pool EXCEPT ![s] = p]
           Q == t.pings \ (ns \X {s})
           X == Unlist(t.connected, Name(s))
           Y == Unlist(t.disconnected, Name(s)) \cup {s}
           left == Disconnect([u EXCEPT !.pings = @ \ (ns \X {s})], s)
           w == [t EXCEPT !.pool = P, !.pings = Q, !.connected = X, !.disconnected = Y]
           through == {n \in ns : \A q \in left.pings : q[1] # n}
           v == IF Gone(u) THEN Silenced(DestroyServer(left, s), through) ELSE Renewing(left, through)
<1>1. PingsLost(u, ns, s) = v
  BY Zenon DEF PingsLost
<1>2. /\ t \in Proxies /\ t.pool \in [Server -> Pools] /\ t.pings \subseteq Loops \X Server
      /\ t.connected \subseteq Server /\ t.disconnected \subseteq Server
  BY Parts DEF Good
<1>3. /\ P \in [Server -> Pools] /\ P[s] = p /\ p # "free"
      /\ \A q \in Server : q # s => P[q] = t.pool[q]
  BY <1>2 DEF Pools
<1>4. Q \subseteq t.pings /\ \A n \in ns : <<n, s>> \notin Q
  BY <1>2
<1>5. X \subseteq Server /\ Y \subseteq Server
  BY <1>2 DEF Unlist
<1>6. left = w
  BY <1>2 DEF Disconnect, Proxies
<1>7. X = Unlist(t.connected, Name(s)) /\ Y = Unlist(t.disconnected, Name(s)) \cup {s}
  OBVIOUS
<1>8. u.state = t.state
  BY <1>2 DEF Proxies
<1> HIDE DEF P, Q, X, Y, left
<1>9. w \in Proxies
  BY <1>2, <1>3, <1>4, <1>5 DEF Proxies
<1>10. /\ w.pool = P /\ w.pings = Q /\ w.connected = X /\ w.disconnected = Y
       /\ w.connecting = t.connecting /\ w.on = t.on /\ w.loops = t.loops
       /\ w.destroying = t.destroying /\ w.state = t.state /\ w.seeds = t.seeds
       /\ w.haTimeout = t.haTimeout /\ w.by = t.by /\ w.renewals = t.renewals
  BY <1>2 DEF Proxies
<1> HIDE DEF w
<1>11. t.state # "disconnected" /\ t.on[s] # "reconnect"
  BY Begun DEF Good, Sound, DialFits
<1>12. Working(t) => ~Pending(t, s)
  BY DEF Good, Whole, Settled
<1>13. Good(w, H)
  <2>1. SameMonitors(t, w)
    BY <1>4, <1>10 DEF SameMonitors
  <2>2. Leaves(t, w, s)
    BY <1>3, <1>7, <1>10, <1>11 DEF Leaves
  <2> QED
    BY <1>9, <1>11, <1>12, <2>1, <2>2, LeavesKeep
<1>14. \A n \in through : n \in Loops /\ Through(w, n)
  <2> TAKE n \in through
  <2>1. n \in Loops /\ <<n, s>> \in t.pings /\ \A q \in w.pings : q[1] # n
    BY <1>6
  <2>2. t.loops[n].at = "pinging"
    BY <2>1 DEF Good, Sound, LoopFits
  <2>3. \A q \in Server : <<n, q>> \notin w.pings
    BY <2>1
  <2> QED
    BY <1>10, <1>13, <2>1, <2>2, <2>3, OffThrough
<1> HIDE DEF through
<1>15. CASE Gone(u)
  <2> DEFINE d == DestroyServers(w, {s})
             e == Silenced(d, through)
  <2>1. v = e
    BY <1>6, <1>15 DEF DestroyServer
  <2>2. ~Working(w)
    BY <1>8, <1>10, <1>15 DEF Gone, Working
  <2>3. {s} \in SUBSET Server
    OBVIOUS
  <2>4. Good(d, H)
    BY <1>13, <2>2, <2>3, DestroysKeep
  <2>5. /\ SameMonitors(w, d) /\ d.pings = w.pings
        /\ \A q \in Server : d.on[q] = "reconnect" => w.on[q] = "reconnect"
    BY <1>9, <2>3, DestroysIs
  <2> HIDE DEF d
  <2>6. \A n \in through : n \in Loops => Through(d, n)
    <3> TAKE n \in through
    <3>1. Through(w, n)
      BY <1>14
    <3>2. Dials(d, n) = {}
      BY <2>5, <3>1 DEF Through, Dials, SameMonitors
    <3> QED
      BY <2>5, <3>1, <3>2 DEF Through, SameMonitors
  <2>7. d.state = t.state
    BY <1>10, <2>5 DEF SameMonitors
  <2>8. Good(e, H)
    BY <1>11, <2>4, <2>6, <2>7, SilencedKeeps
  <2>9. e.state = d.state
    <3>1. d \in Proxies
      BY <2>4 DEF Good
    <3> QED
      BY <3>1 DEF Silenced, Proxies
  <2>10. Gone(t)
    BY <1>8, <1>15 DEF Gone
  <2> HIDE DEF e
  <2> QED
    BY <1>1, <2>1, <2>7, <2>8, <2>9, <2>10
<1>16. CASE ~Gone(u)
  <2> DEFINE e == Renewing(w, through)
  <2>1. v = e
    BY <1>6, <1>16
  <2>2. through \in SUBSET Loops
    BY <1>14
  <2>3. Good(e, H)
    BY <1>10, <1>11, <1>13, <1>14, <2>2, RenewingKeeps
  <2>4. e.state = w.state /\ e.on = w.on /\ e.seeds = w.seeds /\ e.pool = w.pool /\ e.destroying = w.destroying
    BY <1>9 DEF Renewing, Proxies
  <2> HIDE DEF e
  <2>5. e.state = t.state /\ e.on = t.on /\ e.seeds = t.seeds /\ e.pool[s] = p
    BY <1>3, <1>10, <2>4
  <2>6. Working(e) = Working(t)
    BY <1>10, <2>4 DEF Working
  <2> HIDE DEF v
  <2> QED
    BY <1>1, <2>1, <2>3, <2>5, <2>6
<1> QED
  BY <1>15, <1>16

(* moveServerFrom(connectedProxies, disconnectedProxies, s), of a server   *)
(* whose pool may have closed                                              *)
LEMMA DisconnectKeeps ==
  ASSUME NEW H, NEW t, Good(t, H), t.state # "disconnected", NEW s \in Server,
         t.pool[s] # "free", t.on[s] # "reconnect", Working(t) => ~Pending(t, s),
         NEW p \in {t.pool[s], "closed"}, NEW u, u = [t EXCEPT !.pool = [t.pool EXCEPT ![s] = p]]
  PROVE  LET v == Disconnect(u, s) IN
         Good(v, H) /\ v.state = t.state /\ v.loops = t.loops /\ v.destroying = t.destroying
<1> DEFINE P == [t.pool EXCEPT ![s] = p]
           X == Unlist(t.connected, Name(s))
           Y == Unlist(t.disconnected, Name(s)) \cup {s}
           w == [t EXCEPT !.pool = P, !.connected = X, !.disconnected = Y]
<1>1. /\ t \in Proxies /\ t.pool \in [Server -> Pools]
      /\ t.connected \subseteq Server /\ t.disconnected \subseteq Server
  BY Parts DEF Good
<1>2. /\ P \in [Server -> Pools] /\ P[s] = p /\ p # "free"
      /\ \A q \in Server : q # s => P[q] = t.pool[q]
  BY <1>1 DEF Pools
<1>3. X \subseteq Server /\ Y \subseteq Server
  BY <1>1 DEF Unlist
<1>4. Disconnect(u, s) = w
  BY <1>1 DEF Disconnect, Proxies
<1>5. X = Unlist(t.connected, Name(s)) /\ Y = Unlist(t.disconnected, Name(s)) \cup {s}
  OBVIOUS
<1> HIDE DEF P, X, Y
<1>6. w \in Proxies
  BY <1>1, <1>2, <1>3 DEF Proxies
<1>7. /\ w.pool = P /\ w.pings = t.pings /\ w.connected = X /\ w.disconnected = Y
      /\ w.connecting = t.connecting /\ w.on = t.on /\ w.loops = t.loops
      /\ w.destroying = t.destroying /\ w.state = t.state /\ w.seeds = t.seeds
      /\ w.haTimeout = t.haTimeout /\ w.by = t.by /\ w.renewals = t.renewals
  BY <1>1 DEF Proxies
<1> HIDE DEF w
<1>8. SameMonitors(t, w)
  BY <1>7 DEF SameMonitors
<1>9. Leaves(t, w, s)
  BY <1>2, <1>5, <1>7 DEF Leaves
<1>10. Good(w, H)
  BY <1>6, <1>8, <1>9, LeavesKeep
<1> QED
  BY <1>4, <1>7, <1>10

(* A pool opens, closes or is destroyed, and nothing is told. *)
LEMMA PoolKeeps ==
  ASSUME NEW H, NEW t, Good(t, H), t.state # "disconnected",
         NEW s \in Server, t.on[s] # "reconnect",
         Working(t) => s \notin t.connected /\ s \notin t.seeds,
         NEW p \in Pools \ {"free"}, NEW u, u = [t EXCEPT !.pool[s] = p]
  PROVE  Good(u, H)
<1>0. t \in Proxies /\ Sound(t) /\ (Working(t) => Whole(t, H))
  BY DEF Good
<1>1. AnswersWith(t, u, s, p) /\ u.pings = t.pings /\ u.loops = t.loops
  BY PoolAnswers
<1>2. /\ u \in Proxies /\ SameMonitors(t, u) /\ u.connecting = t.connecting
      /\ u.connected = t.connected /\ u.disconnected = t.disconnected
      /\ u.destroying = t.destroying /\ u.on = t.on /\ u.loops = t.loops
      /\ u.seeds = t.seeds /\ u.renewals = t.renewals /\ u.pings = t.pings /\ u.state = t.state
      /\ \A q \in Server : q # s => u.pool[q] = t.pool[q]
      /\ u.pool[s] # "free"
  BY <1>1 DEF AnswersWith, Answers, SameMonitors
<1>3. Lists(u) = Lists(t)
  BY <1>2, Zenon DEF Lists
<1>4. \A q \in Server : Fits(t, u, q)
  BY <1>0, <1>2, <1>3 DEF Fits, Sound, FreeFits
<1>5. Alone(u)
  BY <1>0, <1>2 DEF Alone, Sound
<1>6. Working(u) <=> Working(t)
  BY <1>2 DEF Working
<1>7. ASSUME Working(u) PROVE (\A q \in Server : Settled(u, q)) /\ Listed(u, H)
  <2>1. Whole(t, H)
    BY <1>0, <1>6, <1>7
  <2>2. ASSUME NEW q \in Server PROVE Settled(u, q)
    <3>1. Settled(t, q)
      BY <2>1 DEF Whole
    <3> QED
      BY <1>2, <1>6, <1>7, <3>1 DEF Settled, Pending
  <2> QED
    BY <1>3, <2>1, <2>2 DEF Whole, Listed
<1>8. Follows(t, u)
  <2>1. SameMonitors(t, u) /\ u.loops = t.loops /\ u.on = t.on /\ u \in Proxies
    BY <1>2
  <2>2. /\ \A q \in Server : u.on[q] = "reconnect" => t.on[q] = "reconnect"
        /\ \A q \in Server : t.on[q] = "reconnect" => u.on[q] = "reconnect"
    BY <2>1, Zenon
  <2> QED
    BY <2>1, <2>2, SameCounts, Zenon
<1> QED
  BY <1>2, <1>4, <1>5, <1>6, <1>7, <1>8, ServersKeep

LEMMA PingedKeeps ==
  ASSUME NEW H, NEW t, Good(t, H), NEW n \in Loops, t.loops[n].at = "pinging"
  PROVE  Good(Pinged(t, n), H)
<1>1. t.state # "disconnected"
  BY Begun
<1>2. ASSUME ~\E p \in t.pings : p[1] = n PROVE Good(Silenced(t, {n}), H) /\ Good(Renew(t, n), H)
  <2>1. \A s \in Server : <<n, s>> \notin t.pings
    BY <1>2
  <2>2. Through(t, n)
    BY <2>1, OffThrough
  <2>3. Good(Silenced(t, {n}), H)
    BY <1>1, <2>2, SilencedKeeps
  <2>4. Good(Renew(t, n), H)
    BY <1>1, <2>2, RenewKeeps
  <2> QED
    BY <2>3, <2>4
<1> QED
  BY <1>2 DEF Pinged

LEMMA SamePool ==
  ASSUME NEW t \in Proxies, NEW s \in Server
  PROVE  t = [t EXCEPT !.pool = [t.pool EXCEPT ![s] = t.pool[s]]]
<1>1. t.pool \in [Server -> Pools]
  BY Parts
<1>2. [t.pool EXCEPT ![s] = t.pool[s]] = t.pool
  BY <1>1
<1>3. [t EXCEPT !.pool = t.pool] = t
  BY DEF Proxies
<1> QED
  BY <1>2, <1>3, Zenon

LEMMA PingAnsweredKeeps ==
  ASSUME NEW H, Good(self, H), NEW n, NEW s, PingAnswered(n, s)
  PROVE  Good(self', H)
<1> DEFINE ps == {<<n, s>>}
           t == [self EXCEPT !.pings = @ \ ps]
           x == Disconnect(t, s)
           u == IF Gone(t) THEN DestroyServer(x, s) ELSE t
           left == Pinged(u, n)
<1>1. <<n, s>> \in self.pings /\ self.pool[s] \in {"open", "draining"} /\ Becomes(left)
  BY Zenon DEF PingAnswered
<1>2. self \in Proxies /\ n \in Loops /\ s \in Server
  BY <1>1, Parts DEF Good
<1>3. self.state # "disconnected" /\ self.loops[n].at = "pinging" /\ self.on[s] # "reconnect"
  BY <1>1, <1>2, Begun DEF Good, Sound, LoopFits, DialFits
<1>4. Good(t, H)
  BY <1>3, FewerKeeps
<1>5. /\ t.pool = self.pool /\ t.on = self.on /\ t.loops = self.loops /\ t.state = self.state
  BY <1>2 DEF Proxies
<1> HIDE DEF t
<1>6. Good(u, H) /\ u.loops[n].at = "pinging"
  <2>1. CASE Gone(t)
    <3>1. ~Working(t)
      BY <2>1 DEF Gone, Working
    <3>2. t \in Proxies /\ t = [t EXCEPT !.pool = [t.pool EXCEPT ![s] = t.pool[s]]]
      BY <1>2, <1>4, SamePool DEF Good
    <3>3. t.state # "disconnected" /\ t.pool[s] # "free" /\ t.on[s] # "reconnect"
      BY <1>1, <1>3, <1>5
    <3>4. Good(x, H) /\ x.state = t.state /\ x.loops = t.loops
      BY <1>2, <1>4, <3>1, <3>2, <3>3, DisconnectKeeps
    <3>5. ~Working(x) /\ {s} \in SUBSET Server
      BY <1>2, <2>1, <3>4 DEF Gone, Working
    <3> HIDE DEF x
    <3> DEFINE d == DestroyServers(x, {s})
    <3>6. Good(d, H)
      BY <3>4, <3>5, DestroysKeep
    <3>7. d.loops = x.loops
      BY <3>4, <3>5, DestroysIs DEF Good
    <3>8. u = d
      BY <2>1 DEF DestroyServer
    <3> HIDE DEF d, u
    <3> QED
      BY <1>3, <1>5, <3>4, <3>6, <3>7, <3>8
  <2>2. CASE ~Gone(t)
    BY <1>3, <1>4, <1>5, <2>2
  <2> QED
    BY <2>1, <2>2
<1> HIDE DEF u
<1>7. Good(left, H)
  BY <1>2, <1>6, PingedKeeps
<1> QED
  BY <1>1, <1>7, BecomesKeeps

LEMMA PingFailedKeeps ==
  ASSUME NEW H, Good(self, H), NEW n, NEW s, PingFailed(n, s)
  PROVE  Good(self', H)
<1> DEFINE left == PingsLost(self, {n}, s)
           p == self.pool[s]
<1>1. <<n, s>> \in self.pings /\ self.pool[s] \in {"open", "draining"} /\ Becomes(left)
  BY Zenon DEF PingFailed
<1>2. self \in Proxies /\ n \in Loops /\ s \in Server
  BY <1>1, Parts DEF Good
<1>3. /\ {n} \in SUBSET Loops /\ {n} # {} /\ \A m \in {n} : <<m, s>> \in self.pings
      /\ p \in {self.pool[s], "closed"}
      /\ self = [self EXCEPT !.pool = [self.pool EXCEPT ![s] = p]]
  BY <1>1, <1>2, SamePool
<1> HIDE DEF p
<1>4. Good(left, H)
  BY <1>1, <1>2, <1>3, PingsLostKeeps
<1> HIDE DEF left
<1> QED
  BY <1>1, <1>4, BecomesKeeps

LEMMA CloseKeeps ==
  ASSUME NEW H, Good(self, H), NEW s \in Server, Close(s)
  PROVE  Good(self', H)
<1> DEFINE pinging == {n \in Loops : <<n, s>> \in self.pings}
           closed == [self EXCEPT !.pool[s] = "closed"]
           lost == PingsLost(closed, pinging, s)
           t == IF pinging = {} THEN closed ELSE lost
           left == IF Gone(t) \/ t.on[s] = "none" THEN t ELSE Disconnect(t, s)
<1>1. self.pool[s] = "open" /\ self.on[s] \in {"stable", "none"} /\ Becomes(left)
  BY Zenon DEF Close
<1>2. self.state # "disconnected" /\ self \in Proxies
  BY <1>1, Begun DEF Good
<1>3. Working(self) => /\ ~Pending(self, s)
                       /\ self.on[s] = "none" => s \notin self.connected
  BY <1>1 DEF Good, Whole, Settled, Pending
<1>4. closed = [self EXCEPT !.pool = [self.pool EXCEPT ![s] = "closed"]]
  OBVIOUS
<1>5. closed.state = self.state /\ closed.on = self.on
  BY <1>2 DEF Proxies
<1>6. pinging \in SUBSET Loops /\ \A n \in pinging : <<n, s>> \in self.pings
  OBVIOUS
<1> DEFINE p == "closed"
<1>7. p = "closed" /\ p \in {self.pool[s], "closed"} /\ p \in Pools \ {"free"}
      /\ closed = [self EXCEPT !.pool = [self.pool EXCEPT ![s] = p]]
      /\ closed = [self EXCEPT !.pool[s] = p]
  BY <1>4 DEF Pools
<1> HIDE DEF p, closed, pinging
<1>8. CASE pinging = {}
  <2>1. CASE Working(self) /\ self.on[s] # "none"
    <3>1. Good(Disconnect(closed, s), H)
      BY <1>1, <1>2, <1>3, <1>7, DisconnectKeeps
    <3>2. left = Disconnect(closed, s)
      BY <1>5, <1>8, <2>1 DEF Gone, Working
    <3> QED
      BY <1>1, <3>1, <3>2, BecomesKeeps
  <2>2. CASE ~Working(self) \/ self.on[s] = "none"
    <3>1. Good(closed, H)
      BY <1>1, <1>2, <1>3, <1>7, <2>2, PoolKeeps DEF Pending
    <3>2. CASE left = closed
      BY <1>1, <3>1, <3>2, BecomesKeeps
    <3>3. CASE left # closed
      <4>1. left = Disconnect(closed, s)
        BY <1>8, <3>3
      <4>2. Good(Disconnect(closed, s), H)
        BY <1>1, <1>2, <1>3, <1>7, DisconnectKeeps
      <4> QED
        BY <1>1, <4>1, <4>2, BecomesKeeps
    <3> QED
      BY <3>2, <3>3
  <2> QED
    BY <2>1, <2>2
<1>9. CASE pinging # {}
  <2>1. /\ Good(lost, H) /\ lost.state = self.state
        /\ ~Gone(self) => /\ lost.on = self.on /\ lost.seeds = self.seeds /\ lost.pool[s] = p
                          /\ Working(lost) = Working(self)
    <3>1. self.pool[s] \in {"open", "draining"}
      BY <1>1
    <3> QED
      BY <1>6, <1>7, <1>9, <3>1, PingsLostKeeps
  <2> HIDE DEF lost
  <2>2. ASSUME ~Gone(self), self.on[s] # "none" PROVE Good(Disconnect(lost, s), H)
    <3> DEFINE q == lost.pool[s]
    <3>1. q \in {lost.pool[s], "closed"} /\ lost = [lost EXCEPT !.pool = [lost.pool EXCEPT ![s] = q]]
      BY <2>1, SamePool DEF Good
    <3>2. lost.pool[s] # "free" /\ lost.on[s] # "reconnect" /\ lost.state # "disconnected"
      BY <1>1, <1>2, <1>7, <2>1, <2>2
    <3>3. Working(lost) => ~Pending(lost, s)
      BY <1>3, <2>1, <2>2 DEF Pending
    <3> HIDE DEF q
    <3> QED
      BY <2>1, <3>1, <3>2, <3>3, DisconnectKeeps
  <2>3. left \in {lost, Disconnect(lost, s)} /\ (left = lost \/ (~Gone(self) /\ self.on[s] # "none"))
    BY <1>9, <2>1 DEF Gone
  <2> HIDE DEF left
  <2>4. Good(left, H)
    BY <2>1, <2>2, <2>3
  <2> QED
    BY <1>1, <2>4, BecomesKeeps DEF left
<1> QED
  BY <1>8, <1>9

LEMMA RenewalOverKeeps ==
  ASSUME NEW H, NEW t, Good(t, H), t.state # "disconnected", ~Working(t), NEW rs
  PROVE  Good([t EXCEPT !.renewals = @ \ rs], H)
<1> DEFINE R == t.renewals \ rs
           u == [t EXCEPT !.renewals = R]
<1>0. t \in Proxies /\ Sound(t)
  BY DEF Good
<1>1. R \subseteq t.renewals /\ t.renewals \subseteq Loops \X Server
  BY <1>0, Parts
<1> HIDE DEF R
<1>2. u \in Proxies
  BY <1>0, <1>1 DEF Proxies
<1>3. /\ u.loops = t.loops /\ u.pings = t.pings /\ u.connecting = t.connecting
      /\ u.connected = t.connected /\ u.disconnected = t.disconnected
      /\ u.pool = t.pool /\ u.on = t.on /\ u.by = t.by
      /\ u.seeds = t.seeds /\ u.haTimeout = t.haTimeout /\ u.renewals = R
      /\ u.state = t.state /\ u.destroying = t.destroying
  BY <1>0 DEF Proxies
<1> HIDE DEF u
<1>4. \A s \in Server : s \in Referred(u) => s \in Referred(t)
  BY <1>1, <1>3 DEF Referred
<1>5. ASSUME NEW n \in Loops PROVE LoopFits(u, n)
  <2>1. LoopFits(t, n)
    BY <1>0 DEF Sound
  <2>2. u.loops[n].at = "renewing" => u.loops[n].count >= Total(u, n)
    <3> DEFINE a == t.loops[n].count
               c == Total(t, n)
               d == Total(u, n)
    <3>1. a \in Nat /\ c \in Nat /\ d \in Nat /\ d <= c
      BY <1>0, <1>1, <1>3, Parts, TotalNat, NoMoreTotal
    <3>2. t.loops[n].at = "renewing" => a >= c
      BY <2>1 DEF LoopFits
    <3> HIDE DEF a, c, d
    <3>3. a >= c => a >= d
      BY <3>1
    <3> QED
      BY <1>3, <3>2, <3>3 DEF a, d
  <2> QED
    BY <1>1, <1>3, <2>1, <2>2 DEF LoopFits
<1>6. ASSUME NEW s \in Server PROVE FreeFits(u, s) /\ DialFits(u, s)
  BY <1>0, <1>3, <1>4 DEF Sound, FreeFits, DialFits
<1>7. Alone(u)
  BY <1>0, <1>3 DEF Sound, Alone
<1>8. Sound(u)
  BY <1>3, <1>5, <1>6, <1>7 DEF Sound
<1>9. ~Working(u)
  BY <1>3 DEF Working
<1>10. Good(u, H)
  BY <1>2, <1>8, <1>9 DEF Good
<1> QED
  BY <1>10 DEF u, R

(* A new object for a host that has a free one *)
LEMMA NewServerIs ==
  ASSUME NEW h \in Host, Fresh(h) # {}
  PROVE  NewServer(h) \in Server /\ Name(NewServer(h)) = h /\ self.pool[NewServer(h)] = "free"
<1>1. Fresh(h) \subseteq Nat
  BY DEF Fresh
<1>2. \E k \in Fresh(h) : \A j \in Fresh(h) : k <= j
  <2>1. PICK k \in Fresh(h) : \A j \in Fresh(h) : ~(<<j, k>> \in OpToRel(<, Nat))
    BY <1>1, NatLessThanWellFounded, WFMin
  <2>2. \A j \in Fresh(h) : ~(j < k)
    BY <1>1, <2>1, Zenon DEF OpToRel
  <2> QED
    BY <1>1, <2>2
<1>3. Min(Fresh(h)) \in Fresh(h)
  BY <1>2, Zenon DEF Min
<1> DEFINE m == Min(Fresh(h))
<1>4. m \in 1..Copies /\ self.pool[<<h, m>>] = "free"
  BY <1>3 DEF Fresh
<1>5. NewServer(h) = <<h, m>>
  BY Zenon DEF NewServer
<1> HIDE DEF m
<1> QED
  BY <1>4, <1>5 DEF Server, Name

LEMMA ReplaceKeeps ==
  ASSUME NEW H, Good(self, H), NEW n, NEW old, Replace(n, old)
  PROVE  Good(self', H)
<1> DEFINE h == Name(old)
           s == NewServer(h)
           R == self.renewals \ {<<n, old>>}
           t == [self EXCEPT !.renewals = R]
           d == DestroyServer(t, old)
           replaced == [d EXCEPT !.disconnected = Unlist(@, h), !.connecting = Append(@, s),
                                 !.pool[s] = "dialing", !.on[s] = "reconnect", !.by[s] = n]
<1>0. self \in Proxies /\ Sound(self) /\ (Working(self) => Whole(self, H))
  BY DEF Good
<1>1. /\ <<n, old>> \in self.renewals
      /\ (Gone(self) /\ Becomes(t)) \/ (~Gone(self) /\ Fresh(h) # {} /\ Becomes(replaced))
  BY Zenon DEF Replace
<1>2. n \in Loops /\ old \in Server /\ h \in Host
  <2>1. n \in Loops /\ old \in Server
    BY <1>0, <1>1, Parts
  <2> QED
    BY <2>1 DEF Server, Name
<1>3. self.state # "disconnected" /\ self.loops[n].at = "renewing"
  BY <1>0, <1>1, <1>2, Begun DEF Sound, LoopFits
<1>4. CASE Gone(self) /\ Becomes(t)
  <2>1. ~Working(self)
    BY <1>4 DEF Gone, Working
  <2>2. Good(t, H)
    BY <1>3, <2>1, RenewalOverKeeps
  <2> QED
    BY <1>4, <2>2, BecomesKeeps
<1>5. CASE Fresh(h) # {} /\ Becomes(replaced)
  <2>1. s \in Server /\ Name(s) = h /\ self.pool[s] = "free"
    BY <1>2, <1>5, NewServerIs
  <2> HIDE DEF s
  <2>2. R \subseteq self.renewals /\ self.renewals \subseteq Loops \X Server
        /\ \A m \in Loops, q \in Server : <<m, q>> \in R <=> (<<m, q>> \in self.renewals /\ <<m, q>> # <<n, old>>)
    BY <1>0, Parts
  <2> HIDE DEF R
  <2>3. t \in Proxies
    BY <1>0, <2>2 DEF Proxies
  <2>4. /\ t.loops = self.loops /\ t.pings = self.pings /\ t.connecting = self.connecting
        /\ t.connected = self.connected /\ t.disconnected = self.disconnected
        /\ t.pool = self.pool /\ t.on = self.on /\ t.by = self.by
        /\ t.seeds = self.seeds /\ t.haTimeout = self.haTimeout /\ t.renewals = R
        /\ t.state = self.state /\ t.destroying = self.destroying
    BY <1>0 DEF Proxies
  <2>5. {old} \in SUBSET Server /\ d = DestroyServers(t, {old})
    BY <1>2 DEF DestroyServer
  <2> HIDE DEF t, d
  <2>6. /\ d \in Proxies /\ SameMonitors(t, d) /\ d.loops = t.loops
        /\ d.connecting = t.connecting /\ d.connected = t.connected
        /\ d.disconnected = t.disconnected /\ d.destroying = t.destroying /\ d.pings = t.pings
        /\ \A q \in Server :
             /\ q # old => d.pool[q] = t.pool[q] /\ d.on[q] = t.on[q]
             /\ q = old => d.on[q] = "none"
             /\ d.pool[q] = "free" => t.pool[q] = "free"
    BY <2>3, <2>5, DestroysIs
  <2>7. /\ d.pool \in [Server -> Pools] /\ d.on \in [Server -> Handlers]
        /\ d.by \in [Server -> Loops \cup {0}] /\ d.connecting \in Seq(Server)
        /\ d.disconnected \subseteq Server
    BY <2>6, Parts
  <2> DEFINE D == Unlist(d.disconnected, h)
             C == Append(d.connecting, s)
             P == [d.pool EXCEPT ![s] = "dialing"]
             O == [d.on EXCEPT ![s] = "reconnect"]
             B == [d.by EXCEPT ![s] = n]
             u == [d EXCEPT !.disconnected = D, !.connecting = C, !.pool = P, !.on = O, !.by = B]
  <2>8. replaced = u
    OBVIOUS
  <2>9. /\ D \subseteq d.disconnected /\ \A q \in d.disconnected : Name(q) = h \/ q \in D
    BY DEF Unlist, Named
  <2>10. C \in Seq(Server) /\ ToSet(C) = ToSet(d.connecting) \cup {s}
    <3> DEFINE c == d.connecting
    <3>1. c \in Seq(Server) /\ C = Append(c, s)
      BY <2>7
    <3> HIDE DEF c, C
    <3>2. /\ C \in Seq(Server) /\ Len(C) = Len(c) + 1 /\ C[Len(c) + 1] = s /\ Len(c) \in Nat
          /\ \A i \in 1..Len(c) : C[i] = c[i]
      BY <2>1, <3>1
    <3>3. ToSet(C) = {C[i] : i \in 1..Len(C)} /\ ToSet(c) = {c[i] : i \in 1..Len(c)}
      BY <3>1, <3>2 DEF ToSet
    <3>4. \A q : q \in ToSet(C) => q \in ToSet(c) \/ q = s
      <4> TAKE q
      <4> HAVE q \in ToSet(C)
      <4>1. PICK i \in 1..Len(C) : q = C[i]
        BY <3>3
      <4>2. i \in 1..Len(c) \/ i = Len(c) + 1
        BY <3>2
      <4> QED
        BY <3>2, <3>3, <4>1, <4>2
    <3>5. s \in ToSet(C)
      BY <3>2, <3>3
    <3>6. \A q : q \in ToSet(c) => q \in ToSet(C)
      <4> TAKE q
      <4> HAVE q \in ToSet(c)
      <4>1. PICK i \in 1..Len(c) : q = c[i]
        BY <3>3
      <4>2. i \in 1..Len(C) /\ q = C[i]
        BY <3>2, <4>1
      <4> QED
        BY <3>3, <4>2
    <3> QED
      BY <3>2, <3>4, <3>5, <3>6 DEF c
  <2>11. /\ P \in [Server -> Pools] /\ P[s] = "dialing" /\ \A q \in Server : q # s => P[q] = d.pool[q]
         /\ O \in [Server -> Handlers] /\ O[s] = "reconnect" /\ \A q \in Server : q # s => O[q] = d.on[q]
         /\ B \in [Server -> Loops \cup {0}] /\ B[s] = n /\ \A q \in Server : q # s => B[q] = d.by[q]
    BY <1>2, <2>1, <2>7 DEF Pools, Handlers
  <2> HIDE DEF D, C, P, O, B
  <2>12. u \in Proxies
    BY <2>6, <2>7, <2>9, <2>10, <2>11 DEF Proxies
  <2>13. /\ u.disconnected = D /\ u.connecting = C /\ u.pool = P /\ u.on = O /\ u.by = B
         /\ u.connected = d.connected /\ u.loops = d.loops /\ u.pings = d.pings
         /\ u.renewals = d.renewals /\ u.haTimeout = d.haTimeout /\ u.seeds = d.seeds
         /\ u.state = d.state /\ u.destroying = d.destroying
    BY <2>6 DEF Proxies
  <2> HIDE DEF u
  (* What has changed since self *)
  <2>14. /\ ToSet(u.connecting) = ToSet(self.connecting) \cup {s}
         /\ u.connected = self.connected /\ u.disconnected \subseteq self.disconnected
         /\ \A q \in self.disconnected : Name(q) = h \/ q \in u.disconnected
         /\ u.loops = self.loops /\ u.pings = self.pings /\ u.renewals = R
         /\ u.haTimeout = self.haTimeout /\ u.seeds = self.seeds
         /\ u.state = self.state /\ u.destroying = self.destroying
    BY <2>4, <2>6, <2>9, <2>10, <2>13 DEF SameMonitors
  <2>15. \A q \in Server :
           /\ q \notin {s, old} => u.pool[q] = self.pool[q] /\ u.on[q] = self.on[q]
           /\ q # s => u.by[q] = self.by[q]
           /\ u.pool[q] = "free" => self.pool[q] = "free" /\ q # s
    BY <2>4, <2>6, <2>11, <2>13 DEF SameMonitors
  <2>16. s \notin Referred(self) /\ self.on[s] = "none"
    BY <1>0, <2>1 DEF Sound, FreeFits
  <2>17. old \in Referred(self) /\ s # old
    BY <1>1, <2>16 DEF Referred
  <2>18. /\ u.pool[s] = "dialing" /\ u.on[s] = "reconnect" /\ u.by[s] = n /\ u.on[old] = "none"
    BY <1>2, <2>6, <2>11, <2>13, <2>17
  <2>19. /\ s \notin ToSet(self.connecting) /\ s \notin self.connected /\ s \notin self.disconnected
         /\ s \notin self.seeds /\ \A m \in Loops : <<m, s>> \notin self.pings /\ <<m, s>> \notin self.renewals
    BY <2>16 DEF Referred
  <2>20. \A q \in Server : q \in Referred(u) => q \in Referred(self) \/ q = s
    BY <2>2, <2>14 DEF Referred
  <2>21. Working(u) <=> Working(self)
    BY <2>14 DEF Working
  <2>22. ASSUME NEW m \in Loops
         PROVE  Total(u, m) <= Total(self, m) /\ (Working(self) => Total(u, m) = Total(self, m))
    <3> DEFINE w == Waits(self, m)
               x == Waits(u, m)
               c == Dials(self, m)
               e == Dials(u, m)
    <3>1. /\ Cardinality(w) \in Nat /\ Cardinality(x) \in Nat
          /\ Cardinality(c) \in Nat /\ Cardinality(e) \in Nat
          /\ Total(self, m) = Cardinality(w) + Cardinality(c)
          /\ Total(u, m) = Cardinality(x) + Cardinality(e)
      BY TotalNat DEF Total
    <3>2. /\ w \in SUBSET Server /\ c \in SUBSET Server /\ e \in SUBSET Server /\ s \notin c
      BY <2>16 DEF Waits, Dials
    <3>3. Working(self) => self.on[old] # "reconnect"
      BY <1>0, <1>1, <1>2 DEF Whole, Settled, Pending
    <3>4. CASE m = n
      <4>1. x = w \ {old} /\ old \in w
        BY <1>1, <1>2, <2>2, <2>14, <3>4 DEF Waits
      <4>2. Cardinality(x) = Cardinality(w) - 1
        BY <3>2, <4>1, OneLess
      <4>3. e \subseteq c \cup {s}
        BY <2>15, <2>18 DEF Dials
      <4>4. Working(self) => e = c \cup {s}
        BY <2>1, <2>15, <2>18, <3>3, <3>4, <4>3 DEF Dials
      <4> HIDE DEF w, x, c, e
      <4>5. Cardinality(c \cup {s}) = Cardinality(c) + 1 /\ c \cup {s} \in SUBSET Server
        BY <2>1, <3>2, OneMore
      <4>6. Cardinality(e) <= Cardinality(c \cup {s})
        BY <4>3, <4>5, NotMore
      <4>7. Cardinality(e) <= Cardinality(c) + 1
        BY <4>5, <4>6
      <4>8. Working(self) => Cardinality(e) = Cardinality(c) + 1
        BY <4>4, <4>5
      <4>9. Total(u, m) <= Total(self, m)
        BY <3>1, <4>2, <4>7
      <4>10. ASSUME Working(self) PROVE Total(u, m) = Total(self, m)
        <5>1. Cardinality(e) = Cardinality(c) + 1
          BY <4>8, <4>10
        <5> QED
          BY <3>1, <4>2, <5>1
      <4> QED
        BY <4>9, <4>10
    <3>5. CASE m # n
      <4>1. x = w
        BY <2>2, <2>14, <3>5 DEF Waits
      <4>2. e \subseteq c
        BY <2>15, <2>18, <3>5 DEF Dials
      <4>3. Working(self) => e = c
        BY <2>15, <2>16, <3>3, <4>2 DEF Dials
      <4> HIDE DEF w, x, c, e
      <4>4. Cardinality(e) <= Cardinality(c)
        BY <3>2, <4>2, NotMore
      <4> QED
        BY <3>1, <4>1, <4>3, <4>4
    <3> QED
      BY <3>4, <3>5
  <2>23. ASSUME NEW q \in Server PROVE FreeFits(u, q) /\ DialFits(u, q)
    <3>1. FreeFits(self, q) /\ DialFits(self, q)
      BY <1>0 DEF Sound
    <3>2. FreeFits(u, q)
      BY <2>15, <2>17, <2>18, <2>20, <3>1 DEF FreeFits
    <3>3. CASE q = s
      BY <1>2, <1>3, <2>14, <2>18, <3>3, <3>2 DEF DialFits
    <3>4. CASE q # s
      BY <2>14, <2>15, <2>18, <3>1, <3>2, <3>4 DEF DialFits
    <3> QED
      BY <3>3, <3>4, <3>2
  <2>24. ASSUME NEW m \in Loops PROVE LoopFits(u, m)
    <3>1. LoopFits(self, m)
      BY <1>0 DEF Sound
    <3>2. self.loops[m].count \in Nat /\ Total(u, m) \in Nat /\ Total(self, m) \in Nat
      BY <1>0, Parts, TotalNat
    <3>3. u.loops[m].at = "renewing" => u.loops[m].count >= Total(u, m)
      BY <2>14, <2>22, <3>1, <3>2 DEF LoopFits
    <3> QED
      BY <2>2, <2>14, <3>1, <3>3 DEF LoopFits
  <2>25. Sound(u)
    <3>1. Alone(u)
      BY <1>0, <2>14 DEF Sound, Alone
    <3> QED
      BY <1>3, <2>14, <2>23, <2>24, <3>1 DEF Sound
  <2>26. ASSUME Working(u) PROVE Whole(u, H)
    <3>0. Whole(self, H)
      BY <1>0, <2>21, <2>26
    <3>1. ASSUME NEW m \in Loops PROVE Counts(u, m)
      BY <2>14, <2>21, <2>22, <2>26, <3>0 DEF Whole, Counts
    <3>2. ASSUME NEW q \in Server PROVE Settled(u, q)
      <4>1. Settled(self, q)
        BY <3>0 DEF Whole
      <4>2. CASE q = s
        BY <2>2, <2>14, <2>19, <4>2 DEF Settled
      <4>3. CASE q = old
        BY <1>1, <1>2, <2>14, <2>18, <4>1, <4>3 DEF Settled, Pending
      <4>4. CASE q \notin {s, old}
        <5>1. u.pool[q] = self.pool[q] /\ u.on[q] = self.on[q]
          BY <2>15, <4>4
        <5> QED
          BY <2>2, <2>14, <4>1, <5>1 DEF Settled, Pending
      <4> QED
        BY <4>2, <4>3, <4>4
    <3>3. ASSUME NEW k \in H PROVE \E q \in Lists(u) : Name(q) = k
      <4>1. PICK q \in Lists(self) : Name(q) = k
        BY <1>3, <3>0 DEF Whole, Listed
      <4>2. CASE k = h
        BY <2>1, <2>14, <4>2 DEF Lists
      <4>3. CASE k # h
        <5>1. q \in Lists(u)
          BY <2>14, <4>1, <4>3 DEF Lists
        <5> QED
          BY <4>1, <5>1
      <4> QED
        BY <4>2, <4>3
    <3> QED
      BY <3>1, <3>2, <3>3 DEF Whole, Listed
  <2>27. Good(u, H)
    BY <2>12, <2>25, <2>26 DEF Good
  <2> QED
    BY <1>5, <2>8, <2>27, BecomesKeeps
<1> QED
  BY <1>1, <1>4, <1>5

LEMMA StartSeedKeeps ==
  ASSUME NEW H, Good(self, H), NEW s \in Server, StartSeed(s)
  PROVE  Good(self', H)
<1> DEFINE S == self.seeds \ {s}
           P == [self.pool EXCEPT ![s] = "dialing"]
           O == [self.on EXCEPT ![s] = "initial"]
           u == [self EXCEPT !.seeds = S, !.pool = P, !.on = O]
<1>0. self \in Proxies /\ Sound(self) /\ (Working(self) => Whole(self, H))
  BY DEF Good
<1>1. s \in self.seeds /\ self' = u
  BY Zenon DEF StartSeed
<1>2. self.state # "disconnected"
  BY <1>1, Begun
<1>3. self.pool \in [Server -> Pools] /\ self.on \in [Server -> Handlers] /\ self.seeds \subseteq Server
  BY <1>0, Parts
<1>4. /\ P \in [Server -> Pools] /\ P[s] = "dialing" /\ \A q \in Server : q # s => P[q] = self.pool[q]
      /\ O \in [Server -> Handlers] /\ O[s] = "initial" /\ \A q \in Server : q # s => O[q] = self.on[q]
      /\ S \subseteq self.seeds /\ S \subseteq Server /\ s \notin S
  BY <1>3 DEF Pools, Handlers
<1> HIDE DEF S, P, O
<1>5. u \in Proxies
  BY <1>0, <1>4 DEF Proxies
<1>6. /\ u.seeds = S /\ u.pool = P /\ u.on = O /\ u.by = self.by
      /\ u.loops = self.loops /\ u.pings = self.pings /\ u.connecting = self.connecting
      /\ u.connected = self.connected /\ u.disconnected = self.disconnected
      /\ u.haTimeout = self.haTimeout /\ u.renewals = self.renewals
      /\ u.state = self.state /\ u.destroying = self.destroying
  BY <1>0 DEF Proxies
<1> HIDE DEF u
<1>7. Referred(u) \subseteq Referred(self) /\ Lists(u) = Lists(self)
  BY <1>4, <1>6 DEF Referred, Lists
<1>8. Working(u) <=> Working(self)
  BY <1>6 DEF Working
<1>9. \A n \in Loops : Total(u, n) <= Total(self, n)
  BY <1>4, <1>6, NoMoreTotal
<1>10. ASSUME Working(u) PROVE Whole(self, H) /\ self.pool[s] = "new" /\ self.on[s] = "none"
  BY <1>0, <1>1, <1>8, <1>10 DEF Whole, Settled
<1>11. ASSUME Working(u) PROVE \A n \in Loops : Total(u, n) = Total(self, n)
  BY <1>4, <1>6, <1>10, <1>11, SameTotal
<1>12. ASSUME NEW n \in Loops PROVE LoopFits(u, n)
  <2>1. LoopFits(self, n)
    BY <1>0 DEF Sound
  <2>2. self.loops[n].count \in Nat /\ Total(u, n) \in Nat /\ Total(self, n) \in Nat
    BY <1>0, Parts, TotalNat
  <2> QED
    BY <1>6, <1>9, <2>1, <2>2 DEF LoopFits
<1>13. ASSUME NEW q \in Server PROVE FreeFits(u, q) /\ DialFits(u, q)
  <2>1. FreeFits(self, q) /\ DialFits(self, q)
    BY <1>0 DEF Sound
  <2>2. CASE q = s
    BY <1>4, <1>6, <2>2 DEF FreeFits, DialFits
  <2>3. CASE q # s
    BY <1>4, <1>6, <1>7, <2>1, <2>3 DEF FreeFits, DialFits
  <2> QED
    BY <2>2, <2>3
<1>14. Sound(u)
  <2>1. Alone(u)
    BY <1>0, <1>6 DEF Sound, Alone
  <2> QED
    BY <1>2, <1>6, <1>12, <1>13, <2>1 DEF Sound
<1>15. ASSUME Working(u) PROVE Whole(u, H)
  <2>1. ASSUME NEW n \in Loops PROVE Counts(u, n)
    BY <1>6, <1>10, <1>11, <1>15 DEF Whole, Counts
  <2>2. ASSUME NEW q \in Server PROVE Settled(u, q)
    <3>1. Settled(self, q)
      BY <1>10, <1>15 DEF Whole
    <3>2. CASE q = s
      BY <1>1, <1>4, <1>6, <1>10, <1>15, <3>1, <3>2 DEF Settled, Pending
    <3>3. CASE q # s
      BY <1>4, <1>6, <3>1, <3>3 DEF Settled, Pending
    <3> QED
      BY <3>2, <3>3
  <2>3. Listed(u, H)
    BY <1>2, <1>7, <1>10, <1>15 DEF Whole, Listed
  <2> QED
    BY <2>1, <2>2, <2>3 DEF Whole
<1> QED
  BY <1>1, <1>5, <1>14, <1>15 DEF Good

(* The server that connect makes of the i-th seed *)
LEMMA SeedIs ==
  ASSUME seedlist \in SeedLists, NEW i \in DOMAIN seedlist
  PROVE  <<seedlist[i], Cardinality({j \in 1..i : seedlist[j] = seedlist[i]})>> \in Server
<1> DEFINE h == seedlist[i]
           S == {j \in 1..i : seedlist[j] = h}
           T == {j \in DOMAIN seedlist : seedlist[j] = h}
<1>1. seedlist \in Seq(Host) /\ h \in Host /\ i \in 1..Len(seedlist) /\ DOMAIN seedlist = 1..Len(seedlist)
      /\ Len(seedlist) \in Nat
  BY MongosAssumption
<1>2. Cardinality(T) <= Copies /\ Copies \in Nat
  BY <1>1, MongosAssumption
<1>3. IsFiniteSet(1..Len(seedlist))
  BY <1>1, FS_Interval
<1>4. S \subseteq T /\ T \subseteq 1..Len(seedlist) /\ i \in S
  BY <1>1
<1> HIDE DEF S, T
<1>5. IsFiniteSet(T) /\ IsFiniteSet(S) /\ Cardinality(S) <= Cardinality(T)
  BY <1>3, <1>4, FS_Subset
<1>6. Cardinality(S) \in Nat /\ Cardinality(T) \in Nat
  BY <1>5, FS_CardinalityType
<1>7. Cardinality(S) # 0
  BY <1>4, <1>5, FS_EmptySet
<1>8. Cardinality(S) \in 1..Copies
  BY <1>2, <1>5, <1>6, <1>7
<1>9. <<h, Cardinality(S)>> \in Server
  BY <1>1, <1>8 DEF Server
<1> QED
  BY <1>9 DEF S

LEMMA ConnectKeeps ==
  ASSUME NEW H, Good(self, H), seedlist \in SeedLists, H \subseteq ToSet(seedlist), Connect
  PROVE  Good(self', H)
<1> DEFINE W(i) == <<seedlist[i], Cardinality({j \in 1..i : seedlist[j] = seedlist[i]})>>
           servers == [i \in DOMAIN seedlist |-> W(i)]
           S == ToSet(servers)
           P == [s \in Server |-> IF s \in S THEN "new" ELSE self.pool[s]]
           u == [self EXCEPT !.state = "connecting", !.connecting = servers, !.seeds = S, !.pool = P]
<1>0. self \in Proxies /\ Sound(self)
  BY DEF Good
<1>1. self.state = "disconnected" /\ self' = u
  BY Zenon DEF Connect
<1>2. Untouched(self)
  BY <1>0, <1>1 DEF Sound
<1>3. /\ seedlist \in Seq(Host) /\ DOMAIN seedlist = 1..Len(seedlist) /\ Len(seedlist) \in Nat
  BY MongosAssumption
<1>4. \A i \in DOMAIN seedlist : W(i) \in Server /\ Name(W(i)) = seedlist[i]
  BY SeedIs DEF Name
<1> HIDE DEF W
<1>5. /\ servers \in Seq(Server) /\ S \subseteq Server
      /\ \A i \in DOMAIN seedlist : W(i) \in S
  <2>1. servers \in [1..Len(seedlist) -> Server] /\ DOMAIN servers = DOMAIN seedlist
    BY <1>3, <1>4
  <2>2. servers \in Seq(Server)
    BY <1>3, <2>1
  <2>3. S = {servers[i] : i \in DOMAIN seedlist}
    BY <2>1, Zenon DEF ToSet
  <2> QED
    BY <1>4, <2>2, <2>3
<1>6. ToSet(servers) = S
  OBVIOUS
<1> HIDE DEF servers, S
<1>7. self.pool \in [Server -> Pools]
  BY <1>0, Parts
<1>8. P \in [Server -> Pools] /\ \A s \in Server : P[s] = IF s \in S THEN "new" ELSE "free"
  BY <1>2, <1>7 DEF Pools, Untouched
<1> HIDE DEF P
<1>9. u \in Proxies
  BY <1>0, <1>5, <1>8 DEF Proxies
<1>10. /\ u.state = "connecting" /\ u.connecting = servers /\ u.seeds = S /\ u.pool = P
       /\ u.connected = {} /\ u.disconnected = {} /\ u.pings = {} /\ u.renewals = {}
       /\ u.destroying = {} /\ u.loops = self.loops /\ u.on = self.on /\ u.haTimeout = self.haTimeout
  BY <1>0, <1>2 DEF Proxies, Untouched
<1> HIDE DEF u
<1>11. \A n \in Loops : u.loops[n].at = "off" /\ u.haTimeout # n
  BY <1>0, <1>2, <1>10 DEF Untouched, Sound, LoopFits
<1>12. Referred(u) = S
  BY <1>6, <1>10 DEF Referred
<1>13. Sound(u)
  <2>1. \A s \in Server : FreeFits(u, s) /\ DialFits(u, s)
    BY <1>2, <1>8, <1>10, <1>12 DEF FreeFits, DialFits, Untouched
  <2>2. \A n \in Loops : LoopFits(u, n)
    BY <1>10, <1>11 DEF LoopFits
  <2>3. Alone(u)
    BY <1>10 DEF Alone
  <2> QED
    BY <1>10, <2>1, <2>2, <2>3 DEF Sound
<1>14. Whole(u, H)
  <2>1. \A n \in Loops : Counts(u, n)
    BY <1>11 DEF Counts
  <2>2. \A s \in Server : Settled(u, s)
    BY <1>2, <1>8, <1>10 DEF Settled, Pending, Untouched
  <2>3. ASSUME NEW h \in H PROVE \E s \in Lists(u) : Name(s) = h
    <3>1. PICK i \in DOMAIN seedlist : h = seedlist[i]
      BY DEF ToSet
    <3>2. W(i) \in Lists(u)
      BY <1>5, <1>6, <1>10, <3>1 DEF Lists
    <3> QED
      BY <1>4, <3>1, <3>2
  <2> QED
    BY <2>1, <2>2, <2>3 DEF Whole, Listed
<1> QED
  BY <1>1, <1>9, <1>13, <1>14 DEF Good

(* Destroy waits for servers, or comes to its end. *)
LEMMA EndsKeep ==
  ASSUME NEW H, NEW t, Good(t, H), t.state # "disconnected",
         NEW st \in {t.state, "destroyed"}, NEW D \in SUBSET Server,
         D = {} /\ t.destroying # {} => st = "destroyed"
  PROVE  Good([t EXCEPT !.destroying = D, !.state = st], H)
<1> DEFINE u == [t EXCEPT !.destroying = D, !.state = st]
<1>0. t \in Proxies /\ Sound(t) /\ (Working(t) => Whole(t, H))
  BY DEF Good
<1>1. st \in {"disconnected", "connecting", "connected", "destroyed"} /\ st # "disconnected"
  BY <1>0, Parts
<1>2. u \in Proxies
  BY <1>0, <1>1 DEF Proxies
<1>3. /\ u.destroying = D /\ u.state = st
      /\ u.seeds = t.seeds /\ u.pool = t.pool /\ u.on = t.on /\ u.by = t.by
      /\ u.loops = t.loops /\ u.pings = t.pings /\ u.connecting = t.connecting
      /\ u.connected = t.connected /\ u.disconnected = t.disconnected
      /\ u.haTimeout = t.haTimeout /\ u.renewals = t.renewals
  BY <1>0 DEF Proxies
<1> HIDE DEF u
<1>4. Lists(u) = Lists(t) /\ Referred(u) = Referred(t)
  BY <1>3, Zenon DEF Lists, Referred
<1>5. \A n \in Loops : Total(u, n) = Total(t, n)
  BY <1>3, SameTotal
<1>6. Working(u) => Working(t)
  BY <1>3 DEF Working
<1>7. Sound(u)
  <2>1. ASSUME NEW q \in Server PROVE FreeFits(u, q) /\ DialFits(u, q)
    BY <1>0, <1>3, <1>4 DEF Sound, FreeFits, DialFits
  <2>2. ASSUME NEW n \in Loops PROVE LoopFits(u, n)
    BY <1>0, <1>3, <1>5 DEF Sound, LoopFits
  <2>3. Alone(u)
    BY <1>0, <1>3 DEF Sound, Alone
  <2> QED
    BY <1>1, <1>3, <2>1, <2>2, <2>3 DEF Sound
<1>8. ASSUME Working(u) PROVE Whole(u, H)
  <2>0. Whole(t, H)
    BY <1>0, <1>6, <1>8
  <2>1. ASSUME NEW n \in Loops PROVE Counts(u, n)
    BY <1>3, <1>5, <2>0 DEF Whole, Counts
  <2>2. ASSUME NEW q \in Server PROVE Settled(u, q)
    BY <1>3, <2>0 DEF Whole, Settled, Pending
  <2>3. Listed(u, H)
    BY <1>4, <2>0 DEF Whole, Listed
  <2> QED
    BY <2>1, <2>2, <2>3 DEF Whole
<1>9. Good(u, H)
  BY <1>2, <1>7, <1>8 DEF Good
<1> QED
  BY <1>9 DEF u

LEMMA DrainedKeeps ==
  ASSUME NEW H, Good(self, H), NEW s \in Server, Drained(s)
  PROVE  Good(self', H)
<1> DEFINE D == self.destroying \ {s}
           st == IF self.destroying # {} /\ D = {} THEN "destroyed" ELSE self.state
           p == "destroyed"
           t == [self EXCEPT !.pool[s] = p]
           left == [self EXCEPT !.pool[s] = "destroyed", !.destroying = D, !.state = st]
<1>1. self.pool[s] = "draining" /\ Becomes(left)
  BY Zenon DEF Drained
<1>2. self \in Proxies /\ D \in SUBSET Server /\ self.pool \in [Server -> Pools]
  BY Parts DEF Good
<1>3. /\ self.state # "disconnected" /\ self.on[s] # "reconnect"
      /\ Working(self) => s \notin self.connected /\ s \notin self.seeds
  BY <1>1, Begun DEF Good, Sound, DialFits, Whole, Settled
<1>4. p \in Pools \ {"free"}
  BY DEF Pools
<1>5. left = [t EXCEPT !.destroying = D, !.state = st]
  BY <1>2 DEF Proxies
<1>6. t.state = self.state /\ t.destroying = self.destroying
  BY <1>2 DEF Proxies
<1>7. t = [self EXCEPT !.pool[s] = p]
  OBVIOUS
<1>8. st \in {self.state, "destroyed"} /\ (D = {} /\ self.destroying # {} => st = "destroyed")
  OBVIOUS
<1> HIDE DEF D, st, p, t, left
<1>9. Good(t, H)
  BY <1>3, <1>4, <1>7, PoolKeeps
<1>10. Good(left, H)
  BY <1>2, <1>3, <1>5, <1>6, <1>8, <1>9, EndsKeep
<1> QED
  BY <1>1, <1>10, BecomesKeeps DEF left, D, st

LEMMA DestroyKeeps ==
  ASSUME NEW H, Good(self, H), NEW force, Destroy(force)
  PROVE  Good(self', H)
<1> DEFINE servers == self.connected \cup ToSet(self.connecting)
           L == [n \in Loops |-> IF n \in {self.haTimeout} THEN Idle ELSE self.loops[n]]
           silent == [self EXCEPT !.loops = L, !.haTimeout = 0]
           d == DestroyServers(silent, servers)
           E == Over(Over(d.disconnected, self.connected), LastOf(self.connecting))
           ended == [d EXCEPT !.connected = {}, !.disconnected = E]
           waits == {s \in servers : ended.pool[s] = "draining"}
           P == [s \in Server |-> IF s \in waits THEN "destroyed" ELSE ended.pool[s]]
           cut == [ended EXCEPT !.pool = P]
           left == IF force \/ waits = {} THEN [cut EXCEPT !.state = "destroyed"]
                   ELSE [ended EXCEPT !.destroying = waits]
<1>0. self \in Proxies /\ Sound(self)
  BY DEF Good
<1>1. ~Gone(self) /\ self.destroying = {} /\ Becomes(left)
  <2>1. silent = [Silenced(self, {self.haTimeout}) EXCEPT !.haTimeout = 0]
    BY <1>0 DEF Silenced, Proxies
  <2> HIDE DEF silent, L
  <2> QED
    BY <2>1, Zenon DEF Destroy
<1>2. /\ self.connecting \in Seq(Server) /\ ToSet(self.connecting) \subseteq Server
      /\ self.connected \subseteq Server /\ self.disconnected \subseteq Server
      /\ self.loops \in [Loops -> [at : {"off", "timer", "pinging", "renewing"},
                                   first : BOOLEAN, idle : BOOLEAN, count : Nat]]
  BY <1>0, Parts
<1>3. /\ L \in [Loops -> [at : {"off", "timer", "pinging", "renewing"},
                          first : BOOLEAN, idle : BOOLEAN, count : Nat]]
      /\ \A n \in Loops : IF n = self.haTimeout THEN L[n].at = "off" ELSE L[n] = self.loops[n]
  BY <1>2 DEF Idle
<1> HIDE DEF L
<1>4. silent \in Proxies
  BY <1>0, <1>3 DEF Proxies
<1>5. /\ silent.loops = L /\ silent.haTimeout = 0 /\ silent.pings = self.pings
      /\ silent.renewals = self.renewals /\ silent.seeds = self.seeds /\ silent.by = self.by
      /\ silent.pool = self.pool /\ silent.on = self.on /\ silent.state = self.state
      /\ silent.connecting = self.connecting /\ silent.disconnected = self.disconnected
      /\ silent.destroying = self.destroying
  BY <1>0 DEF Proxies
<1>6. servers \in SUBSET Server
  BY <1>2
<1> HIDE DEF silent
<1>7. \A s \in servers : s \in Server /\ s \in Referred(self)
  BY <1>2 DEF Referred
<1> HIDE DEF servers
<1>8. /\ d \in Proxies /\ SameMonitors(silent, d) /\ d.loops = silent.loops
      /\ d.connecting = silent.connecting
      /\ d.disconnected = silent.disconnected /\ d.destroying = silent.destroying
      /\ d.pings = silent.pings
      /\ \A s \in Server :
           /\ s \notin servers => d.pool[s] = silent.pool[s] /\ d.on[s] = silent.on[s]
           /\ s \in servers => d.on[s] = "none"
           /\ d.pool[s] = "free" => silent.pool[s] = "free"
  BY <1>4, <1>6, DestroysIs
<1> HIDE DEF d
<1>9. E \subseteq Server /\ \A s \in E : s \in Referred(self)
  <2>1. LastOf(self.connecting) \subseteq ToSet(self.connecting)
    BY DEF LastOf, ToSet
  <2>2. E \subseteq self.disconnected \cup self.connected \cup ToSet(self.connecting)
    BY <1>5, <1>8, <2>1 DEF Over
  <2> QED
    BY <1>2, <2>2 DEF Referred
<1> HIDE DEF E
<1>10. ended \in Proxies
  BY <1>8, <1>9 DEF Proxies
<1>11. /\ ended.connected = {} /\ ended.disconnected = E /\ ended.connecting = d.connecting
       /\ ended.pool = d.pool /\ ended.on = d.on /\ ended.by = d.by /\ ended.seeds = d.seeds
       /\ ended.loops = d.loops /\ ended.haTimeout = d.haTimeout /\ ended.pings = d.pings
       /\ ended.renewals = d.renewals /\ ended.state = d.state /\ ended.destroying = d.destroying
  BY <1>8 DEF Proxies
<1>12. d.pool \in [Server -> Pools]
  BY <1>8, Parts
<1> HIDE DEF ended
<1>13. waits \subseteq servers /\ waits \subseteq Server
  BY <1>6
<1>14. P \in [Server -> Pools]
       /\ \A s \in Server : P[s] = IF s \in waits THEN "destroyed" ELSE d.pool[s]
  BY <1>11, <1>12 DEF Pools
<1> HIDE DEF waits, P
<1> DEFINE destroyed == [cut EXCEPT !.state = "destroyed"]
           waiting == [ended EXCEPT !.destroying = waits]
<1>15. /\ destroyed \in Proxies /\ destroyed.pool = P /\ destroyed.state = "destroyed"
       /\ destroyed.connected = {} /\ destroyed.disconnected = E /\ destroyed.connecting = d.connecting
       /\ destroyed.on = d.on /\ destroyed.by = d.by /\ destroyed.seeds = d.seeds
       /\ destroyed.loops = d.loops /\ destroyed.haTimeout = d.haTimeout
       /\ destroyed.pings = d.pings /\ destroyed.renewals = d.renewals
  BY <1>10, <1>11, <1>14 DEF Proxies
<1>16. /\ waiting \in Proxies /\ waiting.pool = d.pool /\ waiting.destroying = waits
       /\ waiting.connected = {} /\ waiting.disconnected = E /\ waiting.connecting = d.connecting
       /\ waiting.on = d.on /\ waiting.by = d.by /\ waiting.seeds = d.seeds
       /\ waiting.loops = d.loops /\ waiting.haTimeout = d.haTimeout
       /\ waiting.pings = d.pings /\ waiting.renewals = d.renewals /\ waiting.state = d.state
  BY <1>10, <1>11, <1>13 DEF Proxies
<1> HIDE DEF destroyed, waiting, cut
(* Whatever is left of it is sound. *)
<1>17. ASSUME NEW u \in Proxies, u.pool \in {d.pool, P}, u.state # "disconnected", ~Working(u),
              u.connected = {}, u.disconnected = E, u.connecting = d.connecting,
              u.on = d.on, u.by = d.by, u.seeds = d.seeds, u.loops = d.loops,
              u.haTimeout = d.haTimeout, u.pings = d.pings, u.renewals = d.renewals
       PROVE  Good(u, H)
  <2>1. /\ u.connecting = self.connecting /\ u.by = self.by /\ u.seeds = self.seeds
        /\ u.loops = L /\ u.haTimeout = 0 /\ u.pings = self.pings /\ u.renewals = self.renewals
    BY <1>5, <1>8, <1>17 DEF SameMonitors
  <2>2. \A s \in Server :
          /\ s \notin servers => u.pool[s] = self.pool[s] /\ u.on[s] = self.on[s]
          /\ s \in servers => u.on[s] = "none"
          /\ u.pool[s] = "free" => self.pool[s] = "free"
    <3>1. \A s \in Server :
            /\ s \notin servers => d.pool[s] = self.pool[s] /\ d.on[s] = self.on[s]
            /\ s \in servers => d.on[s] = "none"
            /\ d.pool[s] = "free" => self.pool[s] = "free"
      BY <1>5, <1>8
    <3>2. \A s \in Server : (s \notin servers => P[s] = d.pool[s])
                             /\ (P[s] = "free" => d.pool[s] = "free")
      BY <1>13, <1>14
    <3> QED
      BY <1>17, <3>1, <3>2
  <2>3. \A s \in Server : s \in Referred(u) => s \in Referred(self)
    BY <1>9, <1>17, <2>1 DEF Referred
  <2>4. ASSUME NEW s \in Server PROVE FreeFits(u, s) /\ DialFits(u, s)
    <3>1. FreeFits(self, s) /\ DialFits(self, s)
      BY <1>0 DEF Sound
    <3>2. FreeFits(u, s)
      BY <1>7, <2>2, <2>3, <3>1 DEF FreeFits
    <3>3. self.on[s] = "reconnect" => self.by[s] # self.haTimeout
      BY <1>0, <3>1 DEF DialFits, Sound, LoopFits
    <3>4. DialFits(u, s)
      BY <1>3, <2>1, <2>2, <3>1, <3>3 DEF DialFits
    <3> QED
      BY <3>2, <3>4
  <2>5. \A n \in Loops : Total(u, n) <= Total(self, n)
    BY <2>1, <2>2, NoMoreTotal
  <2>6. ASSUME NEW n \in Loops PROVE LoopFits(u, n)
    <3>1. LoopFits(self, n)
      BY <1>0 DEF Sound
    <3>2. self.loops[n].count \in Nat /\ Total(u, n) \in Nat /\ Total(self, n) \in Nat
          /\ Total(u, n) <= Total(self, n)
      BY <1>2, <2>5, TotalNat
    <3>3. u.haTimeout # n
      BY <2>1 DEF Loops
    <3>4. CASE n = self.haTimeout
      BY <1>3, <2>1, <3>1, <3>3, <3>4 DEF LoopFits
    <3>5. CASE n # self.haTimeout
      BY <1>3, <2>1, <3>1, <3>2, <3>3, <3>5 DEF LoopFits
    <3> QED
      BY <3>4, <3>5
  <2>7. Alone(u)
    BY <1>17 DEF Alone
  <2>8. Sound(u)
    BY <1>17, <2>4, <2>6, <2>7 DEF Sound
  <2> QED
    BY <1>17, <2>8 DEF Good
<1>18. Good(destroyed, H)
  BY <1>15, <1>17 DEF Working
<1>19. ASSUME waits # {} PROVE Good(waiting, H)
  <2>1. self.state # "disconnected"
    <3>1. PICK s \in servers : s \in waits
      BY <1>13, <1>19
    <3>2. s \in Server /\ s \in Referred(self)
      BY <1>7
    <3> QED
      BY <1>0, <3>2 DEF Sound, FreeFits, Untouched
  <2>2. waiting.state # "disconnected"
    BY <1>5, <1>8, <1>16, <2>1 DEF SameMonitors
  <2>3. ~Working(waiting)
    BY <1>16, <1>19 DEF Working
  <2> QED
    BY <1>16, <1>17, <2>2, <2>3
<1>20. left = (IF force \/ waits = {} THEN destroyed ELSE waiting)
  BY DEF destroyed, waiting
<1>21. Good(left, H)
  BY <1>18, <1>19, <1>20
<1> HIDE DEF left
<1> QED
  BY <1>1, <1>21, BecomesKeeps DEF left, cut, ended, P, waits, d, E, servers, silent, L

(***************************************************************************)
(* The theorems                                                            *)
(***************************************************************************)

(* The hosts that no list may lose *)
Hosts == ToSet(seedlist) \ foreign

IndInv ==
  /\ Good(self, Hosts)
  /\ seedlist \in SeedLists /\ foreign \subseteq Foreign /\ down \subseteq Host
  /\ faults \in 0..MaxFaults

LEMMA InitInv == Init => IndInv
<1> SUFFICES ASSUME Init PROVE IndInv
  OBVIOUS
<1>1. /\ self.state = "disconnected" /\ self.connecting = <<>> /\ self.connected = {}
      /\ self.disconnected = {} /\ self.pool = [s \in Server |-> "free"]
      /\ self.on = [s \in Server |-> "none"] /\ self.by = [s \in Server |-> 0]
      /\ self.seeds = {} /\ self.loops = [n \in Loops |-> Idle] /\ self.haTimeout = 0
      /\ self.pings = {} /\ self.renewals = {} /\ self.destroying = {}
  BY DEF Init
<1>2. self \in Proxies
  BY DEF Init, Proxies, Pools, Handlers, Idle
<1>3. \A n \in Loops : self.loops[n].at = "off" /\ self.haTimeout # n
  BY <1>1 DEF Idle, Loops
<1>4. Untouched(self)
  BY <1>1, <1>3 DEF Untouched
<1>5. Sound(self)
  <2>1. Referred(self) = {}
    BY <1>1 DEF Referred, ToSet
  <2>2. \A s \in Server : FreeFits(self, s) /\ DialFits(self, s)
    BY <1>1, <2>1 DEF FreeFits, DialFits
  <2>3. \A n \in Loops : LoopFits(self, n)
    BY <1>1, <1>3 DEF LoopFits
  <2>4. Alone(self)
    BY <1>1 DEF Alone
  <2> QED
    BY <1>4, <2>2, <2>3, <2>4 DEF Sound
<1>6. Whole(self, Hosts)
  <2>1. \A n \in Loops : Counts(self, n)
    BY <1>3 DEF Counts
  <2>2. \A s \in Server : Settled(self, s)
    BY <1>1 DEF Settled, Pending
  <2> QED
    BY <1>1, <2>1, <2>2 DEF Whole
<1>7. seedlist \in SeedLists /\ foreign \subseteq Foreign /\ down \subseteq Host /\ faults \in 0..MaxFaults
  <2>1. /\ seedlist \in SeedLists /\ foreign \subseteq Foreign /\ down \subseteq Host
        /\ Cardinality(down) <= MaxFaults /\ faults = Cardinality(down)
    BY DEF Init
  <2>2. IsFiniteSet(down)
    BY <2>1, MongosAssumption, FS_Subset
  <2>3. Cardinality(down) \in Nat /\ MaxFaults \in Nat
    BY <2>2, MongosAssumption, FS_CardinalityType
  <2> QED
    BY <2>1, <2>3
<1> QED
  BY <1>2, <1>5, <1>6, <1>7 DEF IndInv, Good

LEMMA WorldInv ==
  ASSUME IndInv, World PROVE IndInv'
<1>1. self' = self /\ seedlist' = seedlist /\ foreign' = foreign
      /\ down' \subseteq Host /\ faults' \in 0..MaxFaults
  BY MongosAssumption DEF IndInv, World, Crash, Recover
<1>2. Hosts' = Hosts
  BY <1>1, Zenon DEF Hosts
<1>3. Good(self', Hosts')
  BY <1>1, <1>2 DEF IndInv
<1> QED
  BY <1>1, <1>3 DEF IndInv

LEMMA TopologyKeeps ==
  ASSUME IndInv, Topology PROVE Good(self', Hosts)
<1> DEFINE H == Hosts
<1>0. /\ Good(self, H) /\ seedlist \in SeedLists
      /\ \A h \in H : h \notin foreign
      /\ H \subseteq ToSet(seedlist)
  BY DEF IndInv, Hosts
<1> HIDE DEF H
<1>1. ASSUME Connect PROVE Good(self', H)
  BY <1>0, <1>1, ConnectKeeps, Zenon
<1>2. ASSUME NEW force \in BOOLEAN, Destroy(force) PROVE Good(self', H)
  BY <1>0, <1>2, DestroyKeeps
<1>3. ASSUME NEW n \in Loops, Monitor(n) PROVE Good(self', H)
  BY <1>0, <1>3, MonitorKeeps
<1>4. ASSUME NEW p \in self.pings, PingAnswered(p[1], p[2]) PROVE Good(self', H)
  BY <1>0, <1>4, PingAnsweredKeeps
<1>5. ASSUME NEW p \in self.pings, PingFailed(p[1], p[2]) PROVE Good(self', H)
  BY <1>0, <1>5, PingFailedKeeps
<1>6. ASSUME NEW p \in self.renewals, Replace(p[1], p[2]) PROVE Good(self', H)
  BY <1>0, <1>6, ReplaceKeeps
<1>7. ASSUME NEW s \in Server,
             StartSeed(s) \/ SeedConnected(s) \/ SeedFailed(s) \/ Reconnected(s)
               \/ ReconnectFailed(s) \/ Close(s) \/ Drained(s)
      PROVE  Good(self', H)
  <2>1. CASE StartSeed(s)
    BY <1>0, <2>1, StartSeedKeeps
  <2>2. CASE SeedConnected(s)
    BY <1>0, <2>2, SeedConnectedKeeps
  <2>3. CASE SeedFailed(s)
    BY <1>0, <2>3, SeedFailedKeeps
  <2>4. CASE Reconnected(s)
    BY <1>0, <2>4, ReconnectedKeeps
  <2>5. CASE ReconnectFailed(s)
    BY <1>0, <2>5, ReconnectFailedKeeps
  <2>6. CASE Close(s)
    BY <1>0, <2>6, CloseKeeps
  <2>7. CASE Drained(s)
    BY <1>0, <2>7, DrainedKeeps
  <2> QED
    BY <1>7, <2>1, <2>2, <2>3, <2>4, <2>5, <2>6, <2>7
<1>8. Good(self', H)
  <2> DEFINE good == Good(self', H)
  <2>1. \A force \in BOOLEAN : Destroy(force) => good
    BY <1>2
  <2>2. \A n \in Loops : Monitor(n) => good
    BY <1>3
  <2>3. \A p \in self.pings : PingAnswered(p[1], p[2]) \/ PingFailed(p[1], p[2]) => good
    BY <1>4, <1>5
  <2>4. \A p \in self.renewals : Replace(p[1], p[2]) => good
    BY <1>6
  <2>5. \A s \in Server :
          StartSeed(s) \/ SeedConnected(s) \/ SeedFailed(s) \/ Reconnected(s)
            \/ ReconnectFailed(s) \/ Close(s) \/ Drained(s) => good
    BY <1>7
  <2>6. Connect => good
    BY <1>1
  <2> HIDE DEF good
  <2>7. good
    BY <2>1, <2>2, <2>3, <2>4, <2>5, <2>6, Zenon DEF Topology
  <2> QED
    BY <2>7 DEF good
<1> QED
  BY <1>8 DEF H

(* A step of the topology leaves the world as it is, but for the network,  *)
(* which may fail.                                                         *)
LEMMA TopologyWorld ==
  ASSUME Topology PROVE UNCHANGED worldVars \/ \E h : Fault(h)
<1>1. ASSUME Connect PROVE UNCHANGED worldVars
  BY <1>1, Zenon DEF Connect
<1>2. ASSUME NEW force \in BOOLEAN, Destroy(force) PROVE UNCHANGED worldVars
  BY <1>2, Zenon DEF Destroy
<1>3. ASSUME NEW n \in Loops, Monitor(n) PROVE UNCHANGED worldVars
  BY <1>3, Zenon DEF Monitor
<1>4. ASSUME NEW p \in self.pings, PingAnswered(p[1], p[2]) PROVE UNCHANGED worldVars
  BY <1>4, Zenon DEF PingAnswered
<1>5. ASSUME NEW p \in self.pings, PingFailed(p[1], p[2]) PROVE \E h : Fault(h)
  BY <1>5, Zenon DEF PingFailed
<1>6. ASSUME NEW p \in self.renewals, Replace(p[1], p[2]) PROVE UNCHANGED worldVars
  BY <1>6, Zenon DEF Replace
<1>7. ASSUME NEW s \in Server, StartSeed(s) \/ SeedConnected(s) \/ Reconnected(s) \/ Drained(s)
      PROVE  UNCHANGED worldVars
  BY <1>7, Zenon DEF StartSeed, SeedConnected, Reconnected, Drained
<1>8. ASSUME NEW s \in Server, SeedFailed(s) \/ ReconnectFailed(s) \/ Close(s)
      PROVE  \E h : Fault(h)
  BY <1>8, Zenon DEF SeedFailed, ReconnectFailed, Close
<1> QED
  BY <1>1, <1>2, <1>3, <1>4, <1>5, <1>6, <1>7, <1>8, Zenon DEF Topology

LEMMA TopologyInv ==
  ASSUME IndInv, Topology PROVE IndInv'
<1>1. /\ seedlist' = seedlist /\ foreign' = foreign /\ down' = down
      /\ faults' = faults \/ (faults < MaxFaults /\ faults' = faults + 1)
  <2>1. CASE UNCHANGED worldVars
    BY <2>1 DEF worldVars
  <2>2. ASSUME NEW h, Fault(h)
        PROVE  /\ seedlist' = seedlist /\ foreign' = foreign /\ down' = down
               /\ faults' = faults \/ (faults < MaxFaults /\ faults' = faults + 1)
    BY <2>2 DEF Fault, worldVars
  <2> QED
    BY <2>1, <2>2, TopologyWorld
<1>2. faults' \in 0..MaxFaults
  BY <1>1, MongosAssumption DEF IndInv
<1>3. Hosts' = Hosts
  BY <1>1, Zenon DEF Hosts
<1>4. Good(self', Hosts')
  BY <1>3, TopologyKeeps
<1> QED
  BY <1>1, <1>2, <1>4 DEF IndInv

LEMMA NextInv == IndInv /\ [Next]_vars => IndInv'
<1> SUFFICES ASSUME IndInv, [Next]_vars PROVE IndInv'
  OBVIOUS
<1>1. CASE World
  BY <1>1, WorldInv
<1>2. CASE Topology
  BY <1>2, TopologyInv
<1>3. CASE UNCHANGED vars
  <2>1. self' = self /\ seedlist' = seedlist /\ foreign' = foreign /\ down' = down /\ faults' = faults
    BY <1>3 DEF vars
  <2>2. Hosts' = Hosts
    BY <2>1, Zenon DEF Hosts
  <2> QED
    BY <2>1, <2>2 DEF IndInv
<1> QED
  BY <1>1, <1>2, <1>3 DEF Next

LEMMA Inductive == Spec => []IndInv
<1> QED
  BY InitInv, NextInv, PTL DEF Spec

(* Every handler leaves a topology of the right type: in particular the    *)
(* count of the proxies that a monitor waits for never falls below zero    *)
(* (_handleEvent of reconnectProxies), and each of them has its monitor.   *)
THEOREM TypeCorrect == Spec => []TypeOK
<1>1. IndInv => TypeOK
  BY DEF IndInv, Good, TypeOK
<1> QED
  BY <1>1, Inductive, PTL

(* No proxy is lost: while the topology lives, each host of the seed list  *)
(* that is a mongos is connecting, connected or disconnected, no two       *)
(* objects of a host are connected, and those that are have a connection   *)
(* whose end is noticed (handleEvent, moveServerFrom); and a monitor waits *)
(* for just as many proxies as it has yet to replace or see connect or     *)
(* fail (reconnectProxies).                                                *)
THEOREM ProxiesKept == Spec => []ProxiesSound
<1>1. IndInv => ProxiesSound
  <2> SUFFICES ASSUME IndInv PROVE ProxiesSound
    OBVIOUS
  <2>0. Good(self, Hosts)
    BY DEF IndInv
  <2>1. Live => Working(self) /\ self.state # "disconnected"
    BY DEF Live, Working
  <2>2. ASSUME Live PROVE Whole(self, Hosts)
    BY <2>0, <2>1, <2>2 DEF Good
  <2>3. NoneLost
    <3> SUFFICES ASSUME Live
                 PROVE  /\ \A h \in ToSet(seedlist) \ foreign :
                             Named(ToSet(self.connecting) \cup self.connected \cup self.disconnected, h) # {}
                        /\ \A s, q \in self.connected : Name(s) = Name(q) => s = q
                        /\ \A s \in self.connected : self.pool[s] = "open" /\ self.on[s] = "stable"
      BY DEF NoneLost
    <3>1. ASSUME NEW h \in Hosts PROVE Named(Lists(self), h) # {}
      BY <2>1, <2>2, <3>1 DEF Whole, Listed, Named
    <3>2. \A s, q \in self.connected : Name(s) = Name(q) => s = q
      BY <2>0 DEF Good, Sound, Alone
    <3>3. \A s \in self.connected : s \in Server /\ Settled(self, s)
      BY <2>0, <2>2, Parts DEF Good, Whole
    <3>4. \A s \in self.connected : self.pool[s] = "open" /\ self.on[s] = "stable"
      BY <3>3 DEF Settled
    <3> QED
      BY <3>1, <3>2, <3>4 DEF Hosts, Lists
  <2>4. MonitorsCount
    <3> SUFFICES ASSUME NEW n \in Loops, self.loops[n].at = "renewing", Live
                 PROVE  self.loops[n].count = Cardinality(Waits(self, n)) + Cardinality(Dials(self, n))
      BY DEF MonitorsCount, Waits, Dials
    <3> QED
      BY <2>2 DEF Whole, Counts, Total
  <2> QED
    BY <2>3, <2>4 DEF ProxiesSound
<1> QED
  BY <1>1, Inductive, PTL
=============================================================================
