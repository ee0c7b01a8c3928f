------------------------- MODULE ClientSessionProofs --------------------------
(***************************************************************************)
(* Proofs about ClientSession, for every set of sessions, of server        *)
(* sessions and of servers: the type invariant, ServerAgrees,              *)
(* CommandsSound, and that the server sessions move as SessionLease lets   *)
(* them.                                                                   *)
(*                                                                         *)
(* What a session may do depends on how its calls and its transaction      *)
(* combine, which no single variable holds: the inductive invariant states *)
(* it session by session (SessionInv), beside who holds which server       *)
(* session (LeaseInv) and which numbers were used (NumbersInv).            *)
(***************************************************************************)
EXTENDS ClientSession, TLAPS

(***************************************************************************)
(* Sequences without repetitions                                           *)
(***************************************************************************)

(* What is left of a pool when its first k sessions leave has none of them *)
(* (acquire).                                                              *)
LEMMA SuffixRange ==
  ASSUME NEW S, NEW q \in Seq(S), IsInjective(q), NEW k \in DOMAIN q
  PROVE  LET r == SubSeq(q, k + 1, Len(q)) IN
         /\ r \in Seq(S) /\ IsInjective(r)
         /\ Range(r) \subseteq Range(q) \ {q[k]}
<1> DEFINE r == SubSeq(q, k + 1, Len(q))
<1>1. /\ Len(q) \in Nat /\ DOMAIN q = 1..Len(q) /\ k \in 1..Len(q)
      /\ r \in Seq(S) /\ DOMAIN r = 1..(Len(q) - k)
      /\ \A i \in 1..(Len(q) - k) : r[i] = q[k + i]
  OBVIOUS
<1> HIDE DEF r
<1>2. \A i \in DOMAIN r : k + i \in DOMAIN q /\ k + i # k /\ r[i] = q[k + i]
  BY <1>1
<1>3. IsInjective(r)
  <2>1. SUFFICES ASSUME NEW i \in DOMAIN r, NEW j \in DOMAIN r, r[i] = r[j]
                 PROVE  i = j
    BY DEF IsInjective
  <2>2. k + i = k + j
    BY <1>2, <2>1 DEF IsInjective
  <2> QED BY <1>1, <2>2
<1>4. Range(r) \subseteq Range(q) \ {q[k]}
  BY <1>2 DEF Range, IsInjective
<1> QED BY <1>1, <1>3, <1>4 DEF r

(* A pool whose last sessions leave (release). *)
LEMMA PrefixRange ==
  ASSUME NEW S, NEW q \in Seq(S), IsInjective(q), NEW k \in 0..Len(q)
  PROVE  LET r == SubSeq(q, 1, k) IN
         /\ r \in Seq(S) /\ IsInjective(r) /\ Range(r) \subseteq Range(q)
<1> DEFINE r == SubSeq(q, 1, k)
<1>1. /\ r \in Seq(S) /\ Len(r) = k
      /\ \A i \in 1..Len(r) : r[i] = q[i] /\ i \in DOMAIN q
  OBVIOUS
<1> QED BY <1>1 DEF IsInjective, Range

(* A pool that is joined at the front by a session it did not have. *)
LEMMA ConsRange ==
  ASSUME NEW S, NEW q \in Seq(S), IsInjective(q), NEW l \in S, l \notin Range(q)
  PROVE  LET r == <<l>> \o q IN
         r \in Seq(S) /\ IsInjective(r) /\ Range(r) = Range(q) \cup {l}
<1> DEFINE r == <<l>> \o q
<1>1. /\ Len(q) \in Nat /\ DOMAIN q = 1..Len(q)
      /\ r \in Seq(S) /\ DOMAIN r = 1..(Len(q) + 1) /\ r[1] = l
      /\ \A i \in 2..(Len(q) + 1) : r[i] = q[i - 1]
  OBVIOUS
<1> HIDE DEF r
<1>2. \A i \in DOMAIN q : q[i] # l
  BY DEF Range
<1>3. IsInjective(r)
  <2>1. SUFFICES ASSUME NEW i \in DOMAIN r, NEW j \in DOMAIN r, r[i] = r[j]
                 PROVE  i = j
    BY DEF IsInjective
  <2>2. CASE i = 1 \/ j = 1
    BY <1>1, <1>2, <2>1, <2>2
  <2>3. CASE i # 1 /\ j # 1
    <3>1. i - 1 \in DOMAIN q /\ j - 1 \in DOMAIN q /\ q[i - 1] = q[j - 1]
      BY <1>1, <2>1, <2>3
    <3>2. i - 1 = j - 1
      BY <3>1 DEF IsInjective
    <3> QED BY <1>1, <3>2
  <2> QED BY <2>2, <2>3
<1>4. Range(r) \subseteq Range(q) \cup {l}
  BY <1>1 DEF Range
<1>5. ASSUME NEW i \in DOMAIN q PROVE q[i] \in Range(r)
  <2>1. i + 1 \in DOMAIN r /\ r[i + 1] = q[i]
    BY <1>1
  <2> QED BY <2>1 DEF Range
<1>6. l \in Range(r)
  BY <1>1 DEF Range
<1>7. Range(q) \subseteq Range(r)
  BY <1>5 DEF Range
<1> QED BY <1>1, <1>3, <1>4, <1>6, <1>7 DEF r

(***************************************************************************)
(* The inductive invariant                                                 *)
(***************************************************************************)

Call(s)   == request[s]["call"]
Abort(s)  == request[s]["end"]
Number(s) == txnNumber[serverSession[s]]

(* What was sent with the number the session is at. *)
Known(s) == sent[serverSession[s]][Number(s)]

Holds(s) == status[s] \in {"live", "ending"}

(* A server session is with the one session that holds it, pooled once, or *)
(* nowhere (startSession, endSession).                                     *)
LeaseInv ==
  /\ \A s \in Sessions : Holds(s) <=> serverSession[s] # None
  /\ \A s, t \in Sessions :
       s # t /\ serverSession[s] # None => serverSession[s] # serverSession[t]
  /\ IsInjective(pool)
  /\ \A s \in Sessions : serverSession[s] \notin Range(pool)
  /\ Range(pool) \subseteq born
  /\ \A s \in Sessions : serverSession[s] # None => serverSession[s] \in born

(* Which requests a session has in each part of its life. *)
RequestsFit(s) ==
  /\ status[s] = "new" => /\ txn[s] = "NO_TRANSACTION"
                          /\ Call(s).step = "idle" /\ Abort(s).step = "idle"
  /\ status[s] = "live" => Abort(s).step = "idle"
  /\ status[s] = "ending" => Call(s).step # "ready"
  /\ Abort(s).step # "idle" => Abort(s).kind = "abort" /\ ~Abort(s).willRetry
  /\ status[s] = "ending" /\ Abort(s).step # "idle" => txn[s] = "TRANSACTION_IN_PROGRESS"
  /\ Call(s).step = "sent" /\ Call(s).kind \in Ends => Call(s).inTxn
  /\ Abort(s).step = "sent" => Abort(s).inTxn

(* The call of a live session is one that its transaction allows. *)
CallFits(s) ==
  status[s] = "live" /\ Call(s).step # "idle" =>
    /\ Call(s).kind = "commit" =>
         /\ txn[s] \in {"TRANSACTION_IN_PROGRESS", "TRANSACTION_COMMITTED"}
         /\ ~Call(s).majority => txn[s] = "TRANSACTION_IN_PROGRESS"
    /\ Call(s).kind = "abort" => txn[s] = "TRANSACTION_IN_PROGRESS"
    /\ Call(s).willRetry =>
         /\ Call(s).kind = "write" /\ ~Active(s)
         /\ Call(s).step = "sent" \/ Call(s).retrying => Call(s).first = Number(s)

Nothing == [writes |-> 0, starts |-> 0, commits |-> 0, ends |-> {}]

(* What the server was told of the number of a live session. *)
NumberFits(s) ==
  status[s] = "live" /\ Number(s) > 0 =>
    /\ txn[s] \in {"STARTING_TRANSACTION", "TRANSACTION_COMMITTED_EMPTY"} =>
         Known(s) = Nothing
    /\ txn[s] = "TRANSACTION_IN_PROGRESS" =>
         /\ Known(s).starts = 1
         /\ Known(s).ends \subseteq (IF Call(s).step = "idle" THEN {} ELSE {Call(s).kind})
         /\ Known(s).commits = 1 =>
              Call(s).step # "idle" /\ Call(s).kind = "commit"
              /\ (Call(s).step = "sent" \/ Call(s).majority)
    /\ txn[s] = "TRANSACTION_COMMITTED" => Known(s).writes = 0 /\ "abort" \notin Known(s).ends
    /\ txn[s] = "TRANSACTION_ABORTED" => "commit" \notin Known(s).ends

(* Where the commands of the transaction went, and where the next goes. *)
PinFits(s) ==
  Sharded =>
    /\ \A x, y \in visited[s] : x = y
    /\ status[s] = "live" /\ txn[s] = "STARTING_TRANSACTION" => visited[s] = {}
    /\ Holds(s) /\ ~upset[s] /\ txn[s] \in {"TRANSACTION_IN_PROGRESS", "TRANSACTION_COMMITTED"} =>
         pinned[s] # None /\ visited[s] \subseteq {pinned[s]}
    /\ status[s] = "live" /\ Call(s).step = "selecting" => pinned[s] = None
    /\ status[s] = "ending" /\ Abort(s).step = "selecting" => pinned[s] = None

SessionInv(s) == RequestsFit(s) /\ CallFits(s) /\ NumberFits(s) /\ PinFits(s)

(* A number that was not reached is unused; a used one stands for one      *)
(* write or one transaction, committed without majority once.              *)
NumberOK(l, n) ==
  /\ sent[l][n].writes + sent[l][n].starts <= 1
  /\ sent[l][n].commits <= 1
  /\ n > txnNumber[l] => sent[l][n] = Nothing

NumbersInv == \A l \in ServerSessions, n \in 1..MaxNumber : NumberOK(l, n)

Inv ==
  /\ TypeOK
  /\ LeaseInv
  /\ \A s \in Sessions : SessionInv(s)
  /\ NumbersInv
  /\ ExceptionOnlyWhenEnded

(***************************************************************************)
(* Steps that leave a part alone                                           *)
(***************************************************************************)

(* The session is as it was and so is what was sent for it. *)
Untouched(o) ==
  /\ status'[o] = status[o] /\ serverSession'[o] = serverSession[o]
  /\ txn'[o] = txn[o] /\ pinned'[o] = pinned[o] /\ request'[o] = request[o]
  /\ visited'[o] = visited[o] /\ upset'[o] = upset[o]
  /\ serverSession[o] # None => /\ txnNumber'[serverSession[o]] = txnNumber[serverSession[o]]
                                /\ sent'[serverSession[o]] = sent[serverSession[o]]

LEMMA UntouchedKeeps ==
  ASSUME LeaseInv, NEW o \in Sessions, SessionInv(o), Untouched(o)
  PROVE  SessionInv(o)'
<1>1. status[o] = "live" => serverSession[o] # None
  BY DEF LeaseInv, Holds
<1>2. RequestsFit(o)'
  BY DEF SessionInv, RequestsFit, Untouched, Call, Abort
<1>3. CallFits(o)'
  BY <1>1 DEF SessionInv, CallFits, Untouched, Call, Number, Active
<1>4. NumberFits(o)'
  BY <1>1 DEF SessionInv, NumberFits, Untouched, Call, Number, Known
<1>5. PinFits(o)'
  BY DEF SessionInv, PinFits, Untouched, Call, Abort, Holds
<1> QED BY <1>2, <1>3, <1>4, <1>5 DEF SessionInv

(* Only s and what was sent for it changed. *)
OnlyTouches(s) ==
  \A o \in Sessions \ {s} :
    /\ status'[o] = status[o] /\ serverSession'[o] = serverSession[o]
    /\ txn'[o] = txn[o] /\ pinned'[o] = pinned[o] /\ request'[o] = request[o]
    /\ visited'[o] = visited[o] /\ upset'[o] = upset[o]
    /\ serverSession[o] # None => /\ txnNumber'[serverSession[o]] = txnNumber[serverSession[o]]
                                  /\ sent'[serverSession[o]] = sent[serverSession[o]]

LEMMA OthersKeep ==
  ASSUME LeaseInv, \A o \in Sessions : SessionInv(o), NEW s \in Sessions, OnlyTouches(s)
  PROVE  \A o \in Sessions \ {s} : SessionInv(o)'
  BY UntouchedKeeps DEF OnlyTouches, Untouched

LEMMA LeaseStays ==
  ASSUME LeaseInv, UNCHANGED <<serverSession, pool, born>>,
         \A s \in Sessions : Holds(s)' <=> Holds(s)
  PROVE  LeaseInv'
  BY DEF LeaseInv

(* A request takes the place of another. *)
Changes(s, k, r) == request' = [request EXCEPT ![s][k] = r]

LEMMA ChangesIs ==
  ASSUME request \in [Sessions -> [Slots -> Request]],
         NEW s \in Sessions, NEW k \in Slots, NEW r \in Request, Changes(s, k, r)
  PROVE  /\ request' \in [Sessions -> [Slots -> Request]]
         /\ request'[s][k] = r
         /\ \A j \in Slots \ {k} : request'[s][j] = request[s][j]
         /\ \A o \in Sessions \ {s} : request'[o] = request[o]
  BY DEF Changes

LEMMA NoRequestIs == NoRequest \in Request
  BY DEF NoRequest, Request, Kinds, Ends

LEMMA NumbersStay ==
  ASSUME TypeOK, NumbersInv, sent' = sent,
         \A l \in ServerSessions : txnNumber'[l] \in Nat /\ txnNumber'[l] >= txnNumber[l]
  PROVE  NumbersInv'
<1>1. SUFFICES ASSUME NEW l \in ServerSessions, NEW n \in 1..MaxNumber PROVE NumberOK(l, n)'
  BY DEF NumbersInv
<1>2. NumberOK(l, n) /\ txnNumber[l] \in Nat /\ txnNumber'[l] \in Nat
      /\ txnNumber'[l] >= txnNumber[l] /\ n \in Nat
  BY ClientSessionAssumption DEF NumbersInv, TypeOK
<1> QED BY <1>2 DEF NumberOK

LEMMA SelectionStepsAre ==
  ASSUME NEW p, NEW step \in SelectionSteps(p)
  PROVE  step \in {"ready", "selecting"} /\ (Sharded /\ step = "selecting" => p = None)
  BY DEF SelectionSteps

(* A session that is live holds one of the server sessions. *)
LEMMA LiveHolds ==
  ASSUME TypeOK, LeaseInv, NEW s \in Sessions, Holds(s)
  PROVE  serverSession[s] \in ServerSessions /\ Number(s) \in 0..MaxNumber
  BY DEF TypeOK, LeaseInv, Number

(***************************************************************************)
(* Sessions start and end                                                  *)
(***************************************************************************)

(* startSession gets the first pooled server session that has not timed    *)
(* out, or a new one when there is none.                                   *)
LEMMA StartSessionTakes ==
  ASSUME Inv, NEW s \in Sessions, StartSession(s)
  PROVE  \E l \in ServerSessions :
           /\ serverSession' = [serverSession EXCEPT ![s] = l]
           /\ pool' \in Seq(ServerSessions) /\ IsInjective(pool')
           /\ Range(pool') \subseteq Range(pool) \ {l}
           /\ born' = born \cup {l}
           /\ \A o \in Sessions : serverSession[o] # l
           /\ (l \in Range(pool)) \/ (l \notin born /\ Range(pool') = {})
<1>1. CASE \E k \in DOMAIN pool : /\ serverSession' = [serverSession EXCEPT ![s] = pool[k]]
                                  /\ pool' = Taken(k)
                                  /\ UNCHANGED born
  <2>1. PICK k \in DOMAIN pool : /\ serverSession' = [serverSession EXCEPT ![s] = pool[k]]
                                 /\ pool' = Taken(k)
                                 /\ UNCHANGED born
    BY <1>1
  <2>2. pool \in Seq(ServerSessions) /\ IsInjective(pool)
    BY DEF Inv, TypeOK, LeaseInv
  <2>3. /\ pool' \in Seq(ServerSessions) /\ IsInjective(pool')
        /\ Range(pool') \subseteq Range(pool) \ {pool[k]}
    BY <2>1, <2>2, SuffixRange DEF Taken
  <2>4. pool[k] \in ServerSessions /\ pool[k] \in Range(pool)
    BY <2>2 DEF Range
  <2>5. pool[k] \in born /\ \A o \in Sessions : serverSession[o] # pool[k]
    BY <2>4 DEF Inv, LeaseInv
  <2> QED BY <2>1, <2>3, <2>4, <2>5
<1>2. CASE \E l \in ServerSessions \ born :
             /\ serverSession' = [serverSession EXCEPT ![s] = l]
             /\ pool' = << >>
             /\ born' = born \cup {l}
  <2>1. PICK l \in ServerSessions \ born :
             /\ serverSession' = [serverSession EXCEPT ![s] = l]
             /\ pool' = << >>
             /\ born' = born \cup {l}
    BY <1>2
  <2>2. \A o \in Sessions : serverSession[o] # l
    BY <2>1, ClientSessionAssumption DEF Inv, LeaseInv
  <2>3. /\ pool' \in Seq(ServerSessions) /\ IsInjective(pool') /\ Range(pool') = {}
    BY <2>1 DEF IsInjective, Range
  <2> QED BY <2>1, <2>2, <2>3
<1> QED BY <1>1, <1>2 DEF StartSession

LEMMA StartSessionStep ==
  ASSUME Inv, NEW s \in Sessions, StartSession(s)
  PROVE  Inv'
<1> USE DEF Inv
<1>1. /\ status[s] = "new" /\ status' = [status EXCEPT ![s] = "live"]
      /\ status \in [Sessions -> Statuses] /\ serverSession \in [Sessions -> ServerSessions \cup {None}]
      /\ UNCHANGED <<txn, pinned, request, txnNumber, thrown, sent, visited, upset>>
      /\ ~thrown /\ serverSession[s] = None
  BY DEF StartSession, TypeOK, history, Still, LeaseInv, Holds
<1>2. PICK l \in ServerSessions :
        /\ serverSession' = [serverSession EXCEPT ![s] = l]
        /\ pool' \in Seq(ServerSessions) /\ IsInjective(pool')
        /\ Range(pool') \subseteq Range(pool) \ {l}
        /\ born' = born \cup {l}
        /\ \A o \in Sessions : serverSession[o] # l
  BY StartSessionTakes
<1>3. TypeOK'
  <2>1. status' \in [Sessions -> Statuses]
    BY <1>1 DEF Statuses
  <2>2. serverSession' \in [Sessions -> ServerSessions \cup {None}]
    BY <1>1, <1>2
  <2>3. born' \in SUBSET ServerSessions
    BY <1>2 DEF TypeOK
  <2> QED BY <2>1, <2>2, <2>3, <1>1, <1>2 DEF TypeOK
<1>4. LeaseInv'
  <2>1. \A o \in Sessions : serverSession'[o] = IF o = s THEN l ELSE serverSession[o]
    BY <1>1, <1>2
  <2>2. \A o \in Sessions : status'[o] = IF o = s THEN "live" ELSE status[o]
    BY <1>1
  <2>3. l # None
    BY ClientSessionAssumption
  <2>4. \A o \in Sessions : Holds(o)' <=> serverSession'[o] # None
    BY <2>1, <2>2, <2>3 DEF LeaseInv, Holds
  <2>5. \A o, t \in Sessions :
          o # t /\ serverSession'[o] # None => serverSession'[o] # serverSession'[t]
    BY <1>2, <2>1 DEF LeaseInv
  <2>6. \A o \in Sessions : serverSession'[o] \notin Range(pool')
    BY <1>2, <2>1 DEF LeaseInv
  <2>7. Range(pool') \subseteq born'
    BY <1>2 DEF LeaseInv
  <2>8. \A o \in Sessions : serverSession'[o] # None => serverSession'[o] \in born'
    BY <1>2, <2>1 DEF LeaseInv
  <2> QED BY <1>2, <2>4, <2>5, <2>6, <2>7, <2>8 DEF LeaseInv
<1>5. OnlyTouches(s)
  BY <1>1, <1>2 DEF OnlyTouches
<1>6. SessionInv(s)'
  <2>1. status'[s] = "live" /\ txn'[s] = "NO_TRANSACTION"
        /\ request'[s]["call"].step = "idle" /\ request'[s]["end"].step = "idle"
    BY <1>1 DEF SessionInv, RequestsFit, Call, Abort
  <2>2. RequestsFit(s)' /\ CallFits(s)' /\ NumberFits(s)'
    BY <2>1 DEF RequestsFit, CallFits, NumberFits, Call, Abort
  <2>3. PinFits(s)'
    BY <1>1, <2>1 DEF SessionInv, PinFits, Call, Abort
  <2> QED BY <2>2, <2>3 DEF SessionInv
<1>7. NumbersInv'
  <2>1. \A m \in ServerSessions : txnNumber[m] \in Nat
    BY DEF TypeOK
  <2> QED BY <1>1, <2>1, NumbersStay
<1>8. ExceptionOnlyWhenEnded'
  BY <1>1 DEF ExceptionOnlyWhenEnded
<1> QED BY <1>3, <1>4, <1>5, <1>6, <1>7, <1>8, OthersKeep

LEMMA EndSessionStep ==
  ASSUME Inv, NEW s \in Sessions, EndSession(s)
  PROVE  Inv'
<1> USE DEF Inv
<1>1. /\ status[s] = "live" /\ status' = [status EXCEPT ![s] = "ending"]
      /\ status \in [Sessions -> Statuses] /\ txn \in [Sessions -> TxnStates]
      /\ request \in [Sessions -> [Slots -> Request]]
      /\ UNCHANGED <<serverSession, pinned, pool, born, txnNumber, thrown, sent, visited, upset>>
      /\ ~thrown /\ Call(s).step # "ready"
  BY DEF EndSession, TypeOK, leases, history, Still, Slots, Call
<1>2. \/ /\ txn[s] = "TRANSACTION_IN_PROGRESS" /\ txn' = txn
         /\ \E step \in SelectionSteps(pinned[s]) :
              Changes(s, "end", [NoRequest EXCEPT !.kind = "abort", !.step = step])
      \/ /\ request' = request
         /\ txn[s] # "TRANSACTION_IN_PROGRESS"
         /\ txn' = txn \/ txn' = [txn EXCEPT ![s] = "TRANSACTION_ABORTED"]
  BY DEF EndSession, Changes
<1>3. /\ request' \in [Sessions -> [Slots -> Request]]
      /\ request'[s]["call"] = request[s]["call"]
      /\ \A o \in Sessions \ {s} : request'[o] = request[o] /\ txn'[o] = txn[o]
      /\ txn' \in [Sessions -> TxnStates]
      /\ \/ request'[s]["end"].step = "idle"
         \/ /\ request'[s]["end"].step \in {"ready", "selecting"}
            /\ request'[s]["end"].kind = "abort" /\ ~request'[s]["end"].willRetry
            /\ txn'[s] = "TRANSACTION_IN_PROGRESS" /\ txn[s] = "TRANSACTION_IN_PROGRESS"
            /\ Sharded /\ request'[s]["end"].step = "selecting" => pinned[s] = None
      /\ txn'[s] \in {txn[s], "TRANSACTION_ABORTED"}
  <2>1. CASE request' = request /\ (txn' = txn \/ txn' = [txn EXCEPT ![s] = "TRANSACTION_ABORTED"])
    <3>1. request[s]["end"].step = "idle"
      BY <1>1 DEF SessionInv, RequestsFit, Abort
    <3> QED BY <1>1, <2>1, <3>1 DEF TxnStates
  <2>2. CASE /\ txn[s] = "TRANSACTION_IN_PROGRESS" /\ txn' = txn
             /\ \E step \in SelectionSteps(pinned[s]) :
                  Changes(s, "end", [NoRequest EXCEPT !.kind = "abort", !.step = step])
    <3>1. PICK step \in SelectionSteps(pinned[s]) :
            Changes(s, "end", [NoRequest EXCEPT !.kind = "abort", !.step = step])
      BY <2>2
    <3> DEFINE r == [NoRequest EXCEPT !.kind = "abort", !.step = step]
    <3>2. step \in {"ready", "selecting"} /\ (Sharded /\ step = "selecting" => pinned[s] = None)
      BY SelectionStepsAre
    <3>3. r \in Request /\ r.kind = "abort" /\ r.step = step /\ ~r.willRetry
      BY <3>2 DEF NoRequest, Request, Kinds, Ends
    <3>4. Changes(s, "end", r)
      BY <3>1
    <3> HIDE DEF r
    <3>5. /\ request' \in [Sessions -> [Slots -> Request]]
          /\ request'[s]["end"] = r
          /\ request'[s]["call"] = request[s]["call"]
          /\ \A o \in Sessions \ {s} : request'[o] = request[o]
      BY <1>1, <3>3, <3>4, ChangesIs DEF Slots
    <3> QED BY <1>1, <2>2, <3>2, <3>3, <3>5
  <2> QED BY <1>2, <2>1, <2>2
<1>4. TypeOK'
  <2>1. status' \in [Sessions -> Statuses]
    BY <1>1 DEF Statuses
  <2> QED BY <1>1, <1>3, <2>1 DEF TypeOK
<1>5. LeaseInv'
  <2>1. \A o \in Sessions : Holds(o)' <=> Holds(o)
    BY <1>1 DEF Holds
  <2> QED BY <1>1, <2>1, LeaseStays
<1>6. OnlyTouches(s)
  BY <1>1, <1>3 DEF OnlyTouches
<1>7. SessionInv(s)'
  <2>1. status'[s] = "ending"
    BY <1>1
  <2>2. RequestsFit(s)'
    BY <1>1, <1>3, <2>1 DEF SessionInv, RequestsFit, Call, Abort
  <2>3. CallFits(s)' /\ NumberFits(s)'
    BY <2>1 DEF CallFits, NumberFits
  <2>4. PinFits(s)'
    BY <1>1, <1>3, <2>1 DEF SessionInv, PinFits, Holds, Call, Abort
  <2> QED BY <2>2, <2>3, <2>4 DEF SessionInv
<1>8. NumbersInv'
  <2>1. \A m \in ServerSessions : txnNumber[m] \in Nat
    BY DEF TypeOK
  <2> QED BY <1>1, <2>1, NumbersStay
<1>9. ExceptionOnlyWhenEnded'
  BY <1>1 DEF ExceptionOnlyWhenEnded
<1> QED BY <1>4, <1>5, <1>6, <1>7, <1>8, <1>9, OthersKeep

(* release puts the server session in front of those that have not timed   *)
(* out, unless it has timed out itself.                                    *)
LEMMA ReleaseSessionGives ==
  ASSUME Inv, NEW s \in Sessions, ReleaseSession(s)
  PROVE  /\ pool' \in Seq(ServerSessions) /\ IsInjective(pool')
         /\ Range(pool') \subseteq Range(pool) \cup {serverSession[s]}
<1>0. serverSession[s] \in ServerSessions /\ serverSession[s] \notin Range(pool)
  BY DEF ReleaseSession, Inv, TypeOK, LeaseInv, Holds
<1>1. PICK k \in 0..Len(pool), released \in {<< >>, <<serverSession[s]>>} :
        pool' = released \o SubSeq(pool, 1, k)
  BY DEF ReleaseSession
<1>2. pool \in Seq(ServerSessions) /\ IsInjective(pool)
  BY DEF Inv, TypeOK, LeaseInv
<1> DEFINE q == SubSeq(pool, 1, k)
<1>3. q \in Seq(ServerSessions) /\ IsInjective(q) /\ Range(q) \subseteq Range(pool)
  BY <1>2, PrefixRange
<1>4. pool' = released \o q
  BY <1>1
<1> HIDE DEF q
<1>5. CASE released = << >>
  <2>1. pool' = q
    BY <1>3, <1>4, <1>5
  <2> QED BY <1>3, <2>1
<1>6. CASE released = <<serverSession[s]>>
  <2>1. pool' = <<serverSession[s]>> \o q /\ serverSession[s] \notin Range(q)
    BY <1>0, <1>3, <1>4, <1>6
  <2> QED BY <1>0, <1>3, <2>1, ConsRange
<1> QED BY <1>5, <1>6

LEMMA ReleaseSessionStep ==
  ASSUME Inv, NEW s \in Sessions, ReleaseSession(s)
  PROVE  Inv'
<1> USE DEF Inv
<1>1. /\ status[s] = "ending" /\ status' = [status EXCEPT ![s] = "ended"]
      /\ serverSession' = [serverSession EXCEPT ![s] = None]
      /\ status \in [Sessions -> Statuses] /\ serverSession \in [Sessions -> ServerSessions \cup {None}]
      /\ UNCHANGED <<txn, pinned, request, born, txnNumber, thrown, sent, visited, upset>>
      /\ ~thrown
  BY DEF ReleaseSession, ServerSessionGone, TypeOK, history
<1>2. serverSession[s] \in ServerSessions /\ serverSession[s] \notin Range(pool)
      /\ serverSession[s] \in born
  BY <1>1 DEF TypeOK, LeaseInv, Holds
<1>3. /\ pool' \in Seq(ServerSessions) /\ IsInjective(pool')
      /\ Range(pool') \subseteq Range(pool) \cup {serverSession[s]}
  BY ReleaseSessionGives
<1>4. \A o \in Sessions : /\ serverSession'[o] = IF o = s THEN None ELSE serverSession[o]
                          /\ status'[o] = IF o = s THEN "ended" ELSE status[o]
  BY <1>1
<1>5. TypeOK'
  <2>1. status' \in [Sessions -> Statuses]
    BY <1>1 DEF Statuses
  <2>2. serverSession' \in [Sessions -> ServerSessions \cup {None}]
    BY <1>1
  <2> QED BY <1>1, <1>3, <2>1, <2>2 DEF TypeOK
<1>6. LeaseInv'
  <2>1. \A o \in Sessions : Holds(o)' <=> serverSession'[o] # None
    BY <1>4 DEF LeaseInv, Holds
  <2>2. \A o, t \in Sessions :
          o # t /\ serverSession'[o] # None => serverSession'[o] # serverSession'[t]
    BY <1>4 DEF LeaseInv
  <2>3. \A o \in Sessions : serverSession'[o] \notin Range(pool')
    <3>1. None \notin Range(pool')
      <4>1. Range(pool') \subseteq ServerSessions
        BY <1>3 DEF Range
      <4> QED BY <4>1, ClientSessionAssumption
    <3>2. \A o \in Sessions \ {s} : serverSession[o] \notin Range(pool)
                                    /\ serverSession[o] # serverSession[s]
      BY <1>2, ClientSessionAssumption DEF LeaseInv
    <3> QED BY <1>3, <1>4, <3>1, <3>2
  <2>4. Range(pool') \subseteq born'
    BY <1>1, <1>2, <1>3 DEF LeaseInv
  <2>5. \A o \in Sessions : serverSession'[o] # None => serverSession'[o] \in born'
    BY <1>1, <1>4 DEF LeaseInv
  <2> QED BY <1>3, <2>1, <2>2, <2>3, <2>4, <2>5 DEF LeaseInv
<1>7. OnlyTouches(s)
  BY <1>1, <1>4 DEF OnlyTouches
<1>8. SessionInv(s)'
  <2>1. status'[s] = "ended" /\ request' = request /\ visited' = visited
    BY <1>1
  <2>2. RequestsFit(s)'
    BY <2>1 DEF SessionInv, RequestsFit, Call, Abort
  <2>3. CallFits(s)' /\ NumberFits(s)'
    BY <2>1 DEF CallFits, NumberFits
  <2>4. PinFits(s)'
    BY <2>1 DEF SessionInv, PinFits, Holds
  <2> QED BY <2>2, <2>3, <2>4 DEF SessionInv
<1>9. NumbersInv'
  <2>1. \A m \in ServerSessions : txnNumber[m] \in Nat
    BY DEF TypeOK
  <2> QED BY <1>1, <2>1, NumbersStay
<1>10. ExceptionOnlyWhenEnded'
  BY <1>1 DEF ExceptionOnlyWhenEnded
<1> QED BY <1>5, <1>6, <1>7, <1>8, <1>9, <1>10, OthersKeep

LEMMA EndAllStep ==
  ASSUME Inv, EndAllPooledSessions
  PROVE  Inv'
<1> USE DEF Inv
<1>1. pool' = << >> /\ UNCHANGED <<status, serverSession, txn, pinned, request, born, txnNumber,
                                   thrown, sent, visited, upset>>
  BY DEF EndAllPooledSessions, session, history
<1>2. pool' \in Seq(ServerSessions) /\ IsInjective(pool') /\ Range(pool') = {}
  BY <1>1 DEF IsInjective, Range
<1>3. TypeOK'
  BY <1>1, <1>2 DEF TypeOK
<1>4. LeaseInv'
  BY <1>1, <1>2 DEF LeaseInv, Holds
<1>5. \A s \in Sessions : SessionInv(s)'
  BY <1>1, UntouchedKeeps DEF Untouched
<1>6. NumbersInv'
  BY <1>1 DEF NumbersInv, NumberOK
<1>7. ExceptionOnlyWhenEnded'
  BY <1>1 DEF ExceptionOnlyWhenEnded
<1> QED BY <1>3, <1>4, <1>5, <1>6, <1>7

(***************************************************************************)
(* Calls of the client                                                     *)
(***************************************************************************)

LEMMA FreeIs ==
  ASSUME NEW s \in Sessions, Free(s)
  PROVE  ~thrown /\ Call(s).step = "idle" /\ status[s] # "ending"
  BY DEF Free, Still, Call

(* A call that the transaction of its session allows starts. *)
LEMMA AskStep ==
  ASSUME Inv, NEW s \in Sessions, NEW r \in Request, Changes(s, "call", r),
         status[s] \in {"live", "ended"}, Call(s).step = "idle",
         r.step \in {"ready", "selecting"}, ~r.retrying,
         Sharded /\ r.step = "selecting" => pinned[s] = None,
         r.kind = "commit" =>
           /\ txn[s] \in {"TRANSACTION_IN_PROGRESS", "TRANSACTION_COMMITTED"}
           /\ ~r.majority => txn[s] = "TRANSACTION_IN_PROGRESS",
         r.kind = "abort" => txn[s] = "TRANSACTION_IN_PROGRESS",
         r.willRetry => r.kind = "write" /\ ~Active(s),
         UNCHANGED <<status, serverSession, txn, pinned, leases, txnNumber, thrown, history>>
  PROVE  Inv'
<1> USE DEF Inv
<1>1. UNCHANGED <<status, serverSession, txn, pinned, pool, born, txnNumber, thrown,
                  sent, visited, upset>>
  BY DEF leases, history
<1>2. /\ request' \in [Sessions -> [Slots -> Request]]
      /\ request'[s]["call"] = r
      /\ request'[s]["end"] = request[s]["end"]
      /\ \A o \in Sessions \ {s} : request'[o] = request[o]
  BY ChangesIs DEF TypeOK, Slots
<1>3. TypeOK'
  BY <1>1, <1>2 DEF TypeOK
<1>4. LeaseInv'
  BY <1>1, LeaseStays DEF Holds
<1>5. OnlyTouches(s)
  BY <1>1, <1>2 DEF OnlyTouches
<1>6. SessionInv(s)'
  <2>1. RequestsFit(s)'
    BY <1>1, <1>2 DEF SessionInv, RequestsFit, Call, Abort
  <2>2. CallFits(s)'
    BY <1>1, <1>2 DEF CallFits, Call, Number, Active
  <2>3. NumberFits(s)'
    <3>1. /\ Number(s)' = Number(s) /\ Known(s)' = Known(s)
          /\ status'[s] = status[s] /\ txn'[s] = txn[s]
      BY <1>1 DEF Number, Known
    <3>2. Call(s)' = r
      BY <1>2 DEF Call
    <3>3. NumberFits(s)
      BY DEF SessionInv
    <3> QED BY <3>1, <3>2, <3>3 DEF NumberFits
  <2>4. PinFits(s)'
    BY <1>1, <1>2 DEF SessionInv, PinFits, Holds, Call, Abort
  <2> QED BY <2>1, <2>2, <2>3, <2>4 DEF SessionInv
<1>7. NumbersInv'
  BY <1>1 DEF NumbersInv, NumberOK
<1>8. ExceptionOnlyWhenEnded'
  BY <1>1 DEF ExceptionOnlyWhenEnded
<1> QED BY <1>3, <1>4, <1>5, <1>6, <1>7, <1>8, OthersKeep

LEMMA OperationStep ==
  ASSUME Inv, NEW s \in Sessions, NEW kind \in {"read", "write"}, Operation(s, kind)
  PROVE  Inv'
<1>1. PICK step \in SelectionSteps(pinned[s]) :
        request' = [request EXCEPT ![s]["call"] =
                     [NoRequest EXCEPT !.kind = kind, !.step = step,
                        !.willRetry = kind = "write" /\ RetryWrites /\ ~Active(s)]]
  BY DEF Operation
<1>2. step \in {"ready", "selecting"} /\ (Sharded /\ step = "selecting" => pinned[s] = None)
  BY SelectionStepsAre
<1> DEFINE r == [NoRequest EXCEPT !.kind = kind, !.step = step,
                   !.willRetry = kind = "write" /\ RetryWrites /\ ~Active(s)]
<1>3. r \in Request /\ r.kind = kind /\ r.step = step /\ ~r.retrying
      /\ (r.willRetry => kind = "write" /\ ~Active(s))
  BY <1>2 DEF NoRequest, Request, Kinds
<1>4. Changes(s, "call", r)
  BY <1>1 DEF Changes
<1> HIDE DEF r
<1>5. status[s] \in {"live", "ended"} /\ Call(s).step = "idle"
  BY FreeIs DEF Operation, Inv, TypeOK, Statuses
<1> QED BY <1>2, <1>3, <1>4, <1>5, AskStep DEF Operation

(* The transaction moves without a command. *)
LEMMA TxnStep ==
  ASSUME Inv, NEW s \in Sessions, Free(s), status[s] = "live",
         NEW t \in {"TRANSACTION_COMMITTED_EMPTY", "TRANSACTION_ABORTED"},
         txn[s] \in {"STARTING_TRANSACTION", "TRANSACTION_COMMITTED_EMPTY"},
         txn' = [txn EXCEPT ![s] = t],
         UNCHANGED <<status, serverSession, pinned, request, leases, txnNumber, thrown, history>>
  PROVE  Inv'
<1> USE DEF Inv
<1>1. UNCHANGED <<status, serverSession, pinned, request, pool, born, txnNumber, thrown,
                  sent, visited, upset>>
  BY DEF leases, history
<1>2. Call(s).step = "idle"
  BY FreeIs
<1>3. txn \in [Sessions -> TxnStates] /\ t \in TxnStates
  BY DEF TypeOK, TxnStates
<1>4. txn' \in [Sessions -> TxnStates] /\ txn'[s] = t
      /\ \A o \in Sessions \ {s} : txn'[o] = txn[o]
  BY <1>3
<1>5. TypeOK'
  BY <1>1, <1>4 DEF TypeOK
<1>6. LeaseInv'
  BY <1>1, LeaseStays DEF Holds
<1>7. OnlyTouches(s)
  BY <1>1, <1>4 DEF OnlyTouches
<1>8. SessionInv(s)'
  <2>1. RequestsFit(s)'
    BY <1>1 DEF SessionInv, RequestsFit, Call, Abort
  <2>2. CallFits(s)'
    BY <1>1, <1>2 DEF CallFits, Call
  <2>3. NumberFits(s)'
    <3>1. Number(s)' = Number(s) /\ Known(s)' = Known(s)
      BY <1>1 DEF Number, Known
    <3>2. Number(s) > 0 => Known(s) = Nothing
      BY DEF SessionInv, NumberFits
    <3>3. "abort" \notin Nothing.ends /\ "commit" \notin Nothing.ends /\ Nothing.writes = 0
      BY DEF Nothing
    <3> QED BY <1>4, <3>1, <3>2, <3>3 DEF NumberFits
  <2>4. PinFits(s)'
    BY <1>1, <1>4 DEF SessionInv, PinFits, Holds, Call, Abort
  <2> QED BY <2>1, <2>2, <2>3, <2>4 DEF SessionInv
<1>9. NumbersInv'
  BY <1>1 DEF NumbersInv, NumberOK
<1>10. ExceptionOnlyWhenEnded'
  BY <1>1 DEF ExceptionOnlyWhenEnded
<1> QED BY <1>5, <1>6, <1>7, <1>8, <1>9, <1>10, OthersKeep

LEMMA CommitStep ==
  ASSUME Inv, NEW s \in Sessions, CommitTransaction(s)
  PROVE  Inv'
<1>1. CASE EmptyTransaction(s)
  BY <1>1, TxnStep DEF CommitTransaction, EmptyTransaction
<1>2. CASE ~EmptyTransaction(s)
  <2>1. PICK step \in SelectionSteps(pinned[s]) :
          request' = [request EXCEPT ![s]["call"] =
                       [NoRequest EXCEPT !.kind = "commit", !.step = step,
                                         !.majority = MajorityCommit(s)]]
    BY <1>2 DEF CommitTransaction
  <2>2. step \in {"ready", "selecting"} /\ (Sharded /\ step = "selecting" => pinned[s] = None)
    BY SelectionStepsAre
  <2> DEFINE r == [NoRequest EXCEPT !.kind = "commit", !.step = step,
                                    !.majority = MajorityCommit(s)]
  <2>3. r \in Request /\ r.kind = "commit" /\ r.step = step /\ ~r.retrying /\ ~r.willRetry
        /\ (r.majority <=> MajorityCommit(s))
    BY <2>2 DEF NoRequest, Request, Kinds, Ends, MajorityCommit
  <2>4. Changes(s, "call", r)
    BY <2>1 DEF Changes
  <2> HIDE DEF r
  <2>5. status[s] = "live" /\ Call(s).step = "idle" /\ Committable(s)
        /\ UNCHANGED <<status, serverSession, txn, pinned, leases, txnNumber, thrown, history>>
    BY <1>2, FreeIs DEF CommitTransaction
  <2> QED BY <2>2, <2>3, <2>4, <2>5, AskStep DEF Committable, MajorityCommit
<1> QED BY <1>1, <1>2

LEMMA AbortStep ==
  ASSUME Inv, NEW s \in Sessions, AbortTransaction(s)
  PROVE  Inv'
<1>1. CASE txn[s] = "STARTING_TRANSACTION"
  BY <1>1, TxnStep DEF AbortTransaction
<1>2. CASE txn[s] = "TRANSACTION_IN_PROGRESS"
  <2>1. PICK step \in SelectionSteps(pinned[s]) :
          request' = [request EXCEPT ![s]["call"] =
                       [NoRequest EXCEPT !.kind = "abort", !.step = step]]
    BY <1>2 DEF AbortTransaction
  <2>2. step \in {"ready", "selecting"} /\ (Sharded /\ step = "selecting" => pinned[s] = None)
    BY SelectionStepsAre
  <2> DEFINE r == [NoRequest EXCEPT !.kind = "abort", !.step = step]
  <2>3. r \in Request /\ r.kind = "abort" /\ r.step = step /\ ~r.retrying /\ ~r.willRetry
    BY <2>2 DEF NoRequest, Request, Kinds, Ends
  <2>4. Changes(s, "call", r)
    BY <2>1 DEF Changes
  <2> HIDE DEF r
  <2>5. status[s] = "live" /\ Call(s).step = "idle"
        /\ UNCHANGED <<status, serverSession, txn, pinned, leases, txnNumber, thrown, history>>
    BY <1>2, FreeIs DEF AbortTransaction
  <2> QED BY <1>2, <2>2, <2>3, <2>4, <2>5, AskStep
<1> QED BY <1>1, <1>2 DEF AbortTransaction

LEMMA StartTransactionStep ==
  ASSUME Inv, NEW s \in Sessions, StartTransaction(s)
  PROVE  Inv'
<1> USE DEF Inv
<1> DEFINE l == serverSession[s]
<1>1. /\ status[s] = "live" /\ txnNumber[l] < MaxNumber
      /\ txnNumber' = [txnNumber EXCEPT ![l] = @ + 1]
      /\ txn' = [txn EXCEPT ![s] = "STARTING_TRANSACTION"]
      /\ pinned' = [pinned EXCEPT ![s] = None]
      /\ visited' = [visited EXCEPT ![s] = {}]
      /\ upset' = [upset EXCEPT ![s] = FALSE]
      /\ UNCHANGED <<status, serverSession, request, pool, born, thrown, sent>>
      /\ Call(s).step = "idle"
  BY FreeIs DEF StartTransaction, IncrementTransactionNumber, leases
<1>2. l \in ServerSessions /\ l # None /\ MaxNumber \in Nat
      /\ txnNumber \in [ServerSessions -> 0..MaxNumber]
  BY <1>1, LiveHolds, ClientSessionAssumption DEF Holds, TypeOK
<1>3. \A m \in ServerSessions : /\ txnNumber[m] \in 0..MaxNumber
                                /\ txnNumber'[m] = IF m = l THEN txnNumber[m] + 1 ELSE txnNumber[m]
  BY <1>1, <1>2
<1>4. \A o \in Sessions : serverSession[o] = l => o = s
  BY <1>2 DEF LeaseInv
<1>5. /\ txn' \in [Sessions -> TxnStates] /\ txn'[s] = "STARTING_TRANSACTION"
      /\ pinned' \in [Sessions -> Servers \cup {None}] /\ pinned'[s] = None
      /\ visited' \in [Sessions -> SUBSET Servers] /\ visited'[s] = {}
      /\ upset' \in [Sessions -> BOOLEAN]
      /\ \A o \in Sessions \ {s} : txn'[o] = txn[o] /\ pinned'[o] = pinned[o]
                                   /\ visited'[o] = visited[o] /\ upset'[o] = upset[o]
  <2>1. /\ txn \in [Sessions -> TxnStates] /\ "STARTING_TRANSACTION" \in TxnStates
        /\ pinned \in [Sessions -> Servers \cup {None}]
        /\ visited \in [Sessions -> SUBSET Servers] /\ upset \in [Sessions -> BOOLEAN]
    BY DEF TypeOK, TxnStates
  <2> QED BY <1>1, <2>1
<1>6. txnNumber' \in [ServerSessions -> 0..MaxNumber]
  <2>1. txnNumber[l] + 1 \in 0..MaxNumber
    BY <1>1, <1>2, <1>3
  <2> QED BY <1>1, <1>2, <2>1
<1>7. TypeOK'
  BY <1>1, <1>5, <1>6 DEF TypeOK
<1>8. LeaseInv'
  BY <1>1, LeaseStays DEF Holds
<1>9. OnlyTouches(s)
  <2>1. \A o \in Sessions \ {s} :
          serverSession[o] # None => serverSession[o] \in ServerSessions /\ serverSession[o] # l
    BY <1>4 DEF TypeOK
  <2> QED BY <1>1, <1>3, <1>5, <2>1 DEF OnlyTouches
<1> HIDE DEF l
<1>10. SessionInv(s)'
  <2>1. RequestsFit(s)'
    BY <1>1 DEF SessionInv, RequestsFit, Call, Abort
  <2>2. CallFits(s)'
    BY <1>1 DEF CallFits, Call
  <2>3. NumberFits(s)'
    <3>1. sent'[l][txnNumber'[l]] = Nothing
      <4>1. txnNumber'[l] \in 1..MaxNumber /\ txnNumber'[l] > txnNumber[l]
        BY <1>1, <1>2, <1>3
      <4> QED BY <1>1, <1>2, <4>1 DEF NumbersInv, NumberOK
    <3>2. Known(s)' = Nothing
      BY <1>1, <3>1 DEF Known, Number, l
    <3> QED BY <1>5, <3>2 DEF NumberFits, Known
  <2>4. PinFits(s)'
    BY <1>1, <1>5 DEF PinFits, Holds
  <2> QED BY <2>1, <2>2, <2>3, <2>4 DEF SessionInv
<1>11. NumbersInv'
  BY <1>1, <1>2, <1>3, NumbersStay
<1>12. ExceptionOnlyWhenEnded'
  BY <1>1 DEF ExceptionOnlyWhenEnded
<1> QED BY <1>7, <1>8, <1>9, <1>10, <1>11, <1>12, OthersKeep

(***************************************************************************)
(* A request under way                                                     *)
(***************************************************************************)

(* The request has something to do: it is running, or nothing else is. *)
Runs(s, k) ==
  /\ ~thrown
  /\ request[s][k].step # "idle"
  /\ request[s][k].step = "ready" \/ Still

(* A live session runs its call, one that ends its abort. *)
LEMMA RunsIs ==
  ASSUME Inv, NEW s \in Sessions, NEW k \in Slots, Runs(s, k)
  PROVE  /\ status[s] # "new"
         /\ status[s] = "live" => k = "call"
         /\ status[s] = "ending" => k = "end" /\ txn[s] = "TRANSACTION_IN_PROGRESS"
                                    /\ request[s][k].kind = "abort"
                                    /\ request[s][k].step = "ready"
                                    /\ ~request[s][k].willRetry
<1>1. RequestsFit(s) /\ k \in {"call", "end"}
  BY DEF Inv, SessionInv, Slots
<1>2. CASE k = "call"
  BY <1>1, <1>2 DEF Runs, RequestsFit, Call, Still
<1>3. CASE k = "end"
  BY <1>1, <1>3 DEF Runs, RequestsFit, Abort, Still
<1> QED BY <1>1, <1>2, <1>3

(* A commit or an abort under way, in a session that holds its server      *)
(* session, is one that the state machine of the transaction takes.        *)
LEMMA EndsLegally ==
  ASSUME Inv, NEW s \in Sessions, NEW k \in Slots, Runs(s, k), Holds(s),
         request[s][k].kind \in Ends
  PROVE  EndState(request[s][k]) \in LegalTransitions[txn[s]]
<1>1. CASE status[s] = "live"
  <2>1. k = "call" /\ CallFits(s) /\ Call(s).step # "idle" /\ Call(s).kind \in Ends
    BY <1>1, RunsIs DEF Inv, SessionInv, Runs, Call
  <2>2. \/ Call(s).kind = "commit"
           /\ txn[s] \in {"TRANSACTION_IN_PROGRESS", "TRANSACTION_COMMITTED"}
        \/ Call(s).kind = "abort" /\ txn[s] = "TRANSACTION_IN_PROGRESS"
    BY <1>1, <2>1 DEF CallFits, Ends
  <2> QED BY <2>1, <2>2 DEF EndState, LegalTransitions, Call
<1>2. CASE status[s] = "ending"
  BY <1>2, RunsIs DEF EndState, LegalTransitions
<1> QED BY <1>1, <1>2 DEF Holds

LEMMA FinishIs ==
  ASSUME Inv, NEW s \in Sessions, NEW k \in Slots, Runs(s, k), Finish(s, k)
  PROVE  /\ request' \in [Sessions -> [Slots -> Request]]
         /\ txn' \in [Sessions -> TxnStates]
         /\ thrown' \in BOOLEAN
         /\ \A o \in Sessions \ {s} : request'[o] = request[o] /\ txn'[o] = txn[o]
         /\ \/ status[s] = "ended" /\ thrown' /\ request' = request /\ txn' = txn
            \/ /\ ~thrown'
               /\ request'[s][k] = NoRequest
               /\ \A j \in Slots \ {k} : request'[s][j] = request[s][j]
               /\ txn'[s] = IF request[s][k].kind \in Ends THEN EndState(request[s][k])
                            ELSE txn[s]
<1> DEFINE r == request[s][k]
<1>1. request \in [Sessions -> [Slots -> Request]] /\ txn \in [Sessions -> TxnStates]
      /\ status[s] \in Statuses /\ thrown \in BOOLEAN
  BY DEF Inv, TypeOK
<1>2. CASE r.kind \in Ends /\ EndState(r) \notin LegalTransitions[txn[s]]
  <2>1. status[s] = "ended"
    BY <1>1, <1>2, EndsLegally, RunsIs DEF Holds, Statuses
  <2>2. thrown' = TRUE /\ txn' = txn /\ request' = request
    BY <1>2 DEF Finish
  <2> QED BY <1>1, <2>1, <2>2
<1>3. CASE ~(r.kind \in Ends /\ EndState(r) \notin LegalTransitions[txn[s]])
  <2>1. /\ Changes(s, k, NoRequest)
        /\ txn' = IF r.kind \in Ends THEN [txn EXCEPT ![s] = EndState(r)] ELSE txn
        /\ thrown' = thrown
    BY <1>3 DEF Finish, Changes
  <2>2. /\ request' \in [Sessions -> [Slots -> Request]]
        /\ request'[s][k] = NoRequest
        /\ \A j \in Slots \ {k} : request'[s][j] = request[s][j]
        /\ \A o \in Sessions \ {s} : request'[o] = request[o]
    BY <1>1, <2>1, ChangesIs, NoRequestIs
  <2>3. EndState(r) \in TxnStates
    BY DEF EndState, TxnStates
  <2>4. /\ txn' \in [Sessions -> TxnStates]
        /\ txn'[s] = IF r.kind \in Ends THEN EndState(r) ELSE txn[s]
        /\ \A o \in Sessions \ {s} : txn'[o] = txn[o]
    BY <1>1, <2>1, <2>3
  <2>5. ~thrown' /\ thrown' \in BOOLEAN
    BY <1>1, <2>1 DEF Runs
  <2> QED BY <2>2, <2>4, <2>5
<1> QED BY <1>2, <1>3

(* What becomes of the numbers when a request runs. *)
LEMMA NumberedIs ==
  ASSUME Inv, NEW s \in Sessions, NEW k \in Slots, Runs(s, k), Numbered(s, k)
  PROVE  /\ Holds(s) /\ serverSession[s] \in ServerSessions
         /\ txnNumber' \in [ServerSessions -> 0..MaxNumber]
         /\ txnNumber[serverSession[s]] \in 0..MaxNumber
         /\ \A m \in ServerSessions \ {serverSession[s]} : txnNumber'[m] = txnNumber[m]
         /\ IF Increments(request[s][k])
            THEN txnNumber'[serverSession[s]] = txnNumber[serverSession[s]] + 1
            ELSE txnNumber' = txnNumber
<1> DEFINE l == serverSession[s]
<1>1. Holds(s) /\ l \in ServerSessions
  BY DEF Inv, LeaseInv, TypeOK, Numbered
<1>2. txnNumber \in [ServerSessions -> 0..MaxNumber] /\ MaxNumber \in Nat
  BY ClientSessionAssumption DEF Inv, TypeOK
<1>3. txnNumber[l] \in 0..MaxNumber
  BY <1>1, <1>2
<1>4. CASE Increments(request[s][k])
  <2>1. txnNumber[l] < MaxNumber /\ txnNumber' = [txnNumber EXCEPT ![l] = txnNumber[l] + 1]
    BY <1>4 DEF Numbered
  <2>2. txnNumber[l] + 1 \in 0..MaxNumber
    BY <1>2, <1>3, <2>1
  <2> QED BY <1>1, <1>2, <1>3, <1>4, <2>1, <2>2
<1>5. CASE ~Increments(request[s][k])
  <2>1. txnNumber' = txnNumber
    BY <1>5 DEF Numbered
  <2> QED BY <1>1, <1>2, <1>3, <1>5, <2>1
<1> QED BY <1>4, <1>5

(* A request ends, or throws because its session was ended. *)
LEMMA FinishStep ==
  ASSUME Inv, NEW s \in Sessions, NEW k \in Slots, Runs(s, k),
         \/ Finish(s, k)
         \/ status[s] = "ended" /\ thrown' = TRUE /\ UNCHANGED <<txn, request>>,
         Numbered(s, k) \/ UNCHANGED txnNumber,
         UNCHANGED <<status, serverSession, pool, born, sent, visited>>,
         pinned' \in [Sessions -> Servers \cup {None}], upset' \in [Sessions -> BOOLEAN],
         \A o \in Sessions \ {s} : pinned'[o] = pinned[o] /\ upset'[o] = upset[o],
         /\ Sharded /\ Holds(s) /\ ~upset'[s]
         /\ txn[s] \in {"TRANSACTION_IN_PROGRESS", "TRANSACTION_COMMITTED"}
         => ~upset[s] /\ pinned'[s] = pinned[s]
  PROVE  Inv'
<1> DEFINE r == request[s][k]
           l == serverSession[s]
<1>1. /\ request' \in [Sessions -> [Slots -> Request]]
      /\ txn' \in [Sessions -> TxnStates]
      /\ thrown' \in BOOLEAN
      /\ \A o \in Sessions \ {s} : request'[o] = request[o] /\ txn'[o] = txn[o]
      /\ \/ status[s] = "ended" /\ thrown' /\ request' = request /\ txn' = txn
         \/ /\ ~thrown'
            /\ request'[s][k] = NoRequest
            /\ \A j \in Slots \ {k} : request'[s][j] = request[s][j]
            /\ txn'[s] = IF r.kind \in Ends THEN EndState(r) ELSE txn[s]
  <2>1. CASE Finish(s, k)
    BY <2>1, FinishIs
  <2>2. CASE status[s] = "ended" /\ thrown' = TRUE /\ UNCHANGED <<txn, request>>
    BY <2>2 DEF Inv, TypeOK
  <2> QED BY <2>1, <2>2
<1>2. /\ txnNumber' \in [ServerSessions -> 0..MaxNumber]
      /\ txnNumber \in [ServerSessions -> 0..MaxNumber]
      /\ \A m \in ServerSessions \ {l} : txnNumber'[m] = txnNumber[m]
      /\ \/ txnNumber' = txnNumber
         \/ Increments(r) /\ l \in ServerSessions /\ txnNumber'[l] = txnNumber[l] + 1
  <2>1. txnNumber \in [ServerSessions -> 0..MaxNumber]
    BY DEF Inv, TypeOK
  <2> QED BY <2>1, NumberedIs
<1>3. TypeOK'
  BY <1>1, <1>2 DEF Inv, TypeOK
<1>4. LeaseInv'
  BY LeaseStays DEF Holds, Inv
<1>5. OnlyTouches(s)
  <2>1. \A o \in Sessions \ {s} :
          serverSession[o] # None => serverSession[o] \in ServerSessions /\ serverSession[o] # l
    BY DEF Inv, TypeOK, LeaseInv
  <2> QED BY <1>1, <1>2, <2>1 DEF OnlyTouches
<1>6. SessionInv(s)'
  <2> USE DEF Inv, SessionInv
  <2>1. /\ status[s] # "new"
        /\ status[s] = "live" => k = "call"
        /\ status[s] = "ending" => k = "end"
    BY RunsIs
  <2>2. NoRequest.step = "idle" /\ Slots = {"call", "end"}
    BY DEF NoRequest, Slots
  <2>3. RequestsFit(s)'
    BY <1>1, <2>1, <2>2 DEF RequestsFit, Call, Abort
  <2>4. CallFits(s)'
    BY <1>1, <2>1, <2>2 DEF CallFits, Call
  <2>5. NumberFits(s)'
    <3>1. SUFFICES ASSUME status[s] = "live" PROVE NumberFits(s)'
      BY DEF NumberFits
    <3>2. k = "call" /\ Call(s) = r /\ Call(s)'.step = "idle" /\ l \in ServerSessions
          /\ r.step # "idle" /\ r \in Request
          /\ txn'[s] = IF r.kind \in Ends THEN EndState(r) ELSE txn[s]
      BY <1>1, <2>1, <2>2, <3>1, LiveHolds DEF Call, Holds, Runs, TypeOK
    <3> HIDE DEF r, l
    <3>3. CASE txnNumber' = txnNumber
      <4>1. Number(s)' = Number(s) /\ Known(s)' = Known(s)
        BY <3>3 DEF Number, Known
      <4>2. SUFFICES ASSUME Number(s) > 0 PROVE NumberFits(s)'
        BY <4>1 DEF NumberFits
      <4>3. Number(s) \in 1..MaxNumber
        BY <1>2, <3>2, <4>2 DEF Number, l
      <4>4. NumberOK(l, Number(s)) /\ Known(s).writes \in Nat /\ Known(s).starts \in Nat
            /\ Known(s).ends \subseteq Ends
        <5>1. NumberOK(l, Number(s))
          BY <3>2, <4>3 DEF NumbersInv
        <5>2. sent[l][Number(s)] \in [writes : Nat, starts : Nat, commits : Nat, ends : SUBSET Ends]
          <6>1. sent \in [ServerSessions -> [1..MaxNumber ->
                  [writes : Nat, starts : Nat, commits : Nat, ends : SUBSET Ends]]]
            BY DEF TypeOK
          <6> QED BY <3>2, <4>3, <6>1
        <5>3. Known(s) = sent[l][Number(s)]
          BY DEF Known, l
        <5> QED BY <5>1, <5>2, <5>3
      <4>5. Known(s).starts = 1 => Known(s).writes = 0
        <5>1. Known(s).writes + Known(s).starts <= 1
          BY <4>4 DEF NumberOK, Known, l
        <5> QED BY <4>4, <5>1
      <4>6. CASE r.kind = "commit"
        <5>1. txn'[s] = "TRANSACTION_COMMITTED"
          BY <3>2, <4>6 DEF EndState, Ends
        <5>2. txn[s] \in {"TRANSACTION_IN_PROGRESS", "TRANSACTION_COMMITTED"}
          BY <3>1, <3>2, <4>6 DEF CallFits
        <5>3. Known(s).writes = 0 /\ "abort" \notin Known(s).ends
          BY <3>1, <3>2, <4>2, <4>5, <4>6, <5>2 DEF NumberFits
        <5> QED BY <4>1, <5>1, <5>3 DEF NumberFits
      <4>7. CASE r.kind = "abort"
        <5>1. txn'[s] = "TRANSACTION_ABORTED"
          BY <3>2, <4>7 DEF EndState, Ends
        <5>2. txn[s] = "TRANSACTION_IN_PROGRESS"
          BY <3>1, <3>2, <4>7 DEF CallFits
        <5>3. "commit" \notin Known(s).ends
          BY <3>1, <3>2, <4>2, <4>7, <5>2 DEF NumberFits
        <5> QED BY <4>1, <5>1, <5>3 DEF NumberFits
      <4>8. CASE r.kind \notin Ends
        <5>1. txn'[s] = txn[s]
          BY <3>2, <4>8
        <5>2. txn[s] = "TRANSACTION_IN_PROGRESS" =>
                Known(s).starts = 1 /\ Known(s).ends \subseteq {} /\ Known(s).commits # 1
          BY <3>1, <3>2, <4>2, <4>4, <4>8 DEF NumberFits, Ends
        <5>3. NumberFits(s)
          OBVIOUS
        <5> QED BY <3>1, <4>1, <4>2, <5>1, <5>2, <5>3 DEF NumberFits
      <4> QED BY <4>6, <4>7, <4>8 DEF Ends
    <3>4. CASE Increments(r) /\ l \in ServerSessions /\ txnNumber'[l] = txnNumber[l] + 1
      <4>1. r.willRetry
        BY <3>4 DEF Increments
      <4>2. r.kind = "write" /\ ~Active(s)
        BY <3>1, <3>2, <4>1 DEF CallFits
      <4>3. txn'[s] = txn[s]
        BY <3>2, <4>2 DEF Ends
      <4>4. Known(s)' = Nothing
        <5>1. txnNumber'[l] \in 1..MaxNumber /\ txnNumber'[l] > txnNumber[l]
          BY <1>2, <3>4
        <5>2. sent[l][txnNumber'[l]] = Nothing
          BY <3>4, <5>1 DEF NumbersInv, NumberOK
        <5> QED BY <5>2 DEF Known, Number, l
      <4> QED BY <4>2, <4>3, <4>4 DEF NumberFits, Active, Nothing, Known
    <3> QED BY <1>2, <3>3, <3>4
  <2>6. PinFits(s)'
    <3>1. SUFFICES ASSUME Sharded PROVE PinFits(s)'
      BY DEF PinFits
    <3>2. PinFits(s) /\ txn[s] \in TxnStates /\ visited'[s] = visited[s]
      BY DEF TypeOK
    <3>3. CASE status[s] = "ended"
      BY <3>1, <3>2, <3>3 DEF PinFits, Holds
    <3>4. CASE status[s] # "ended"
      <4>1. /\ txn'[s] = IF r.kind \in Ends THEN EndState(r) ELSE txn[s]
            /\ request'[s][k].step = "idle"
        BY <1>1, <2>2, <3>4
      <4>2. Holds(s)
        BY <2>1, <3>4 DEF Holds, TypeOK, Statuses
      <4>3. txn'[s] = "STARTING_TRANSACTION" => txn[s] = "STARTING_TRANSACTION"
        BY <4>1 DEF EndState
      <4>4. txn'[s] \in {"TRANSACTION_IN_PROGRESS", "TRANSACTION_COMMITTED"} =>
              txn[s] \in {"TRANSACTION_IN_PROGRESS", "TRANSACTION_COMMITTED"}
        <5>1. CASE r.kind \notin Ends
          BY <4>1, <5>1
        <5>2. CASE r.kind = "abort"
          BY <4>1, <5>2 DEF EndState, Ends
        <5>3. CASE r.kind = "commit"
          <6>1. status[s] = "live" /\ k = "call"
            BY <2>1, <4>2, <5>3, RunsIs DEF Holds
          <6> QED BY <5>3, <6>1 DEF CallFits, Call, Runs
        <5> QED BY <5>1, <5>2, <5>3 DEF Ends
      <4> QED BY <2>1, <3>1, <3>2, <4>1, <4>2, <4>3, <4>4 DEF PinFits, Holds, Call, Abort
    <3> QED BY <3>3, <3>4
  <2> QED BY <2>3, <2>4, <2>5, <2>6
<1>7. NumbersInv'
  <2>1. \A m \in ServerSessions : txnNumber[m] \in Nat /\ txnNumber'[m] \in Nat
                                  /\ txnNumber'[m] >= txnNumber[m]
    BY <1>2
  <2> QED BY <2>1, NumbersStay DEF Inv
<1>8. ExceptionOnlyWhenEnded'
  BY <1>1 DEF ExceptionOnlyWhenEnded, Runs, Inv
<1> QED BY <1>3, <1>4, <1>5, <1>6, <1>7, <1>8, OthersKeep DEF Inv

LEMMA SelectedRuns ==
  ASSUME NEW s, NEW k, Selected(s, k)
  PROVE  Runs(s, k)
  BY DEF Selected, Runs

LEMMA SelectionFailsStep ==
  ASSUME Inv, NEW s \in Sessions, NEW k \in Slots, SelectionFails(s, k)
  PROVE  Inv'
<1>1. Runs(s, k)
  BY DEF SelectionFails, Runs, Still
<1>2. UNCHANGED <<status, serverSession, pinned, pool, born, txnNumber, sent, visited, upset>>
      /\ Finish(s, k)
  BY DEF SelectionFails, leases, history
<1>3. pinned \in [Sessions -> Servers \cup {None}] /\ upset \in [Sessions -> BOOLEAN]
  BY DEF Inv, TypeOK
<1> QED BY <1>1, <1>2, <1>3, FinishStep

LEMMA SessionGoneStep ==
  ASSUME Inv, NEW s \in Sessions, NEW k \in Slots, SessionGone(s, k)
  PROVE  Inv'
<1>1. Runs(s, k) /\ serverSession[s] = None
  BY SelectedRuns DEF SessionGone
<1>2. status[s] = "ended"
  BY <1>1, RunsIs DEF Inv, LeaseInv, Holds, TypeOK, Statuses
<1>3. UNCHANGED <<status, serverSession, pinned, pool, born, txnNumber, sent, visited, upset>>
  BY DEF SessionGone, leases, history
<1>4. pinned \in [Sessions -> Servers \cup {None}] /\ upset \in [Sessions -> BOOLEAN]
  BY DEF Inv, TypeOK
<1>5. \/ Finish(s, k)
      \/ status[s] = "ended" /\ thrown' = TRUE /\ UNCHANGED <<txn, request>>
  BY <1>2 DEF SessionGone
<1> QED BY <1>1, <1>3, <1>4, <1>5, FinishStep

(* The server that is taken for a request of a transaction that has sent   *)
(* commands, none of which failed, is the one they went to.                *)
LEMMA PinnedChosen ==
  ASSUME Inv, NEW s \in Sessions, NEW k \in Slots, Runs(s, k), NEW x \in Choices(s, k),
         Holds(s), Sharded, ~upset[s],
         request[s][k].step \in {"ready", "selecting"},
         txn[s] \in {"TRANSACTION_IN_PROGRESS", "TRANSACTION_COMMITTED"}
  PROVE  x = pinned[s] /\ visited[s] \subseteq {x}
<1>1. pinned[s] # None /\ visited[s] \subseteq {pinned[s]}
  BY DEF Inv, SessionInv, PinFits
<1>2. request[s][k].step = "ready"
  <2>1. CASE status[s] = "live"
    BY <1>1, <2>1, RunsIs DEF Inv, SessionInv, PinFits, Call
  <2>2. CASE status[s] = "ending"
    BY <2>2, RunsIs
  <2> QED BY <2>1, <2>2 DEF Holds
<1> QED BY <1>1, <1>2 DEF Choices

LEMMA PinIs ==
  ASSUME TypeOK, NEW s \in Sessions, NEW k, NEW x \in Choices(s, k)
  PROVE  Pin(s, x) \in Servers \cup {None}
  BY DEF TypeOK, Pin, Choices

LEMMA RefusedStep ==
  ASSUME Inv, NEW s \in Sessions, NEW k \in Slots, NEW x \in Servers, Refused(s, k, x)
  PROVE  Inv'
<1>1. Runs(s, k) /\ Numbered(s, k) /\ Finish(s, k) /\ x \in Choices(s, k)
      /\ request[s][k].step \in {"ready", "selecting"}
      /\ pinned' = [pinned EXCEPT ![s] = Pin(s, x)]
      /\ UNCHANGED <<status, serverSession, pool, born, sent, visited, upset>>
  BY SelectedRuns DEF Refused, Selected, leases, history
<1>2. pinned \in [Sessions -> Servers \cup {None}] /\ upset \in [Sessions -> BOOLEAN]
  BY DEF Inv, TypeOK
<1>3. /\ pinned' \in [Sessions -> Servers \cup {None}]
      /\ pinned'[s] = Pin(s, x)
      /\ \A o \in Sessions \ {s} : pinned'[o] = pinned[o]
  BY <1>1, <1>2, PinIs DEF Inv
<1>4. Holds(s)
  BY <1>1, NumberedIs
<1>5. ASSUME Sharded, ~upset[s],
             txn[s] \in {"TRANSACTION_IN_PROGRESS", "TRANSACTION_COMMITTED"}
      PROVE  pinned'[s] = pinned[s]
  BY <1>1, <1>3, <1>4, <1>5, PinnedChosen DEF Pin
<1> QED BY <1>1, <1>2, <1>3, <1>5, FinishStep

(***************************************************************************)
(* A request is sent                                                       *)
(***************************************************************************)

(* What is known of a number, once a request was sent with it. *)
LEMMA RecordedIs ==
  ASSUME NEW h \in [writes : Nat, starts : Nat, commits : Nat, ends : SUBSET Ends],
         NEW s, NEW r \in Request
  PROVE  /\ Recorded(h, s, r) \in [writes : Nat, starts : Nat, commits : Nat, ends : SUBSET Ends]
         /\ r.kind \in Ends =>
              /\ Recorded(h, s, r).writes = h.writes /\ Recorded(h, s, r).starts = h.starts
              /\ Recorded(h, s, r).ends = h.ends \cup {r.kind}
              /\ Recorded(h, s, r).commits =
                   IF r.kind = "commit" /\ ~r.majority THEN h.commits + 1 ELSE h.commits
         /\ r.kind \notin Ends =>
              Recorded(h, s, r).ends = h.ends /\ Recorded(h, s, r).commits = h.commits
         /\ r.kind \notin Ends /\ Active(s) =>
              /\ Recorded(h, s, r).writes = h.writes
              /\ Recorded(h, s, r).starts =
                   IF txn[s] = "STARTING_TRANSACTION" THEN h.starts + 1 ELSE h.starts
         /\ r.kind \notin Ends /\ ~Active(s) =>
              /\ Recorded(h, s, r).starts = h.starts
              /\ Recorded(h, s, r).writes = IF Increments(r) THEN h.writes + 1 ELSE h.writes
<1>1. CASE r.kind \in Ends
  <2> DEFINE e == h.ends \cup {r.kind}
             c == IF r.kind = "commit" /\ ~r.majority THEN h.commits + 1 ELSE h.commits
  <2>1. e \in SUBSET Ends /\ c \in Nat
    BY <1>1
  <2>2. Recorded(h, s, r) = [h EXCEPT !.ends = e, !.commits = c]
    BY <1>1 DEF Recorded
  <2> HIDE DEF e, c
  <2>3. /\ Recorded(h, s, r) \in [writes : Nat, starts : Nat, commits : Nat, ends : SUBSET Ends]
        /\ Recorded(h, s, r).writes = h.writes /\ Recorded(h, s, r).starts = h.starts
        /\ Recorded(h, s, r).ends = e /\ Recorded(h, s, r).commits = c
    BY <2>1, <2>2
  <2> QED BY <1>1, <2>3 DEF e, c
<1>2. CASE r.kind \notin Ends /\ Active(s)
  BY <1>2 DEF Recorded
<1>3. CASE r.kind \notin Ends /\ ~Active(s)
  BY <1>3 DEF Recorded
<1> QED BY <1>1, <1>2, <1>3

(* The step, seen from the session that sends. *)
LEMMA SendIs ==
  ASSUME Inv, NEW s \in Sessions, NEW k \in Slots, NEW x \in Servers, Send(s, k, x)
  PROVE  LET r == request[s][k]
             l == serverSession[s]
             inTxn == Active(s) \/ r.kind \in Ends
         IN  /\ Runs(s, k) /\ Numbered(s, k) /\ x \in Choices(s, k)
             /\ r \in Request /\ r.step \in {"ready", "selecting"}
             /\ request' \in [Sessions -> [Slots -> Request]]
             /\ request'[s][k] \in Request
             /\ request'[s][k].kind = r.kind /\ request'[s][k].step = "sent"
             /\ request'[s][k].willRetry = r.willRetry /\ request'[s][k].retrying = r.retrying
             /\ request'[s][k].majority = r.majority /\ request'[s][k].inTxn = inTxn
             /\ request'[s][k].first = IF r.willRetry /\ ~r.retrying THEN txnNumber'[l] ELSE r.first
             /\ \A j \in Slots \ {k} : request'[s][j] = request[s][j]
             /\ \A o \in Sessions \ {s} : request'[o] = request[o]
<1> DEFINE r == request[s][k]
           l == serverSession[s]
           inTxn == Active(s) \/ r.kind \in Ends
           r2 == [r EXCEPT !.step = "sent", !.inTxn = inTxn,
                           !.first = IF r.willRetry /\ ~r.retrying THEN txnNumber'[l] ELSE @]
<1>1. Runs(s, k) /\ Numbered(s, k) /\ x \in Choices(s, k) /\ r.step \in {"ready", "selecting"}
  BY SelectedRuns DEF Send, Selected
<1>2. request \in [Sessions -> [Slots -> Request]] /\ r \in Request
  BY DEF Inv, TypeOK
<1>3. txnNumber'[l] \in Nat
  <2>1. l \in ServerSessions /\ txnNumber' \in [ServerSessions -> 0..MaxNumber]
    BY <1>1, NumberedIs
  <2>2. txnNumber'[l] \in 0..MaxNumber
    BY <2>1
  <2> QED BY <2>2, ClientSessionAssumption
<1>4. /\ r2 \in Request /\ r2.kind = r.kind /\ r2.step = "sent"
      /\ r2.willRetry = r.willRetry /\ r2.retrying = r.retrying
      /\ r2.majority = r.majority /\ r2.inTxn = inTxn
      /\ r2.first = IF r.willRetry /\ ~r.retrying THEN txnNumber'[l] ELSE r.first
  BY <1>2, <1>3 DEF Request
<1>5. Changes(s, k, r2)
  BY <1>2 DEF Send, Changes
<1> HIDE DEF r2
<1>6. /\ request' \in [Sessions -> [Slots -> Request]]
      /\ request'[s][k] = r2
      /\ \A j \in Slots \ {k} : request'[s][j] = request[s][j]
      /\ \A o \in Sessions \ {s} : request'[o] = request[o]
  BY <1>2, <1>4, <1>5, ChangesIs
<1> QED BY <1>1, <1>2, <1>4, <1>6

LEMMA SendStep ==
  ASSUME Inv, NEW s \in Sessions, NEW k \in Slots, NEW x \in Servers, Send(s, k, x)
  PROVE  Inv'
<1> DEFINE r == request[s][k]
           l == serverSession[s]
           n == txnNumber'[l]
           h == sent[l][n]
           inTxn == Active(s) \/ r.kind \in Ends
<1>1. /\ Runs(s, k) /\ Numbered(s, k) /\ x \in Choices(s, k)
      /\ r \in Request /\ r.step \in {"ready", "selecting"}
      /\ request' \in [Sessions -> [Slots -> Request]]
      /\ request'[s][k].kind = r.kind /\ request'[s][k].step = "sent"
      /\ request'[s][k].willRetry = r.willRetry /\ request'[s][k].retrying = r.retrying
      /\ request'[s][k].majority = r.majority /\ request'[s][k].inTxn = inTxn
      /\ request'[s][k].first = IF r.willRetry /\ ~r.retrying THEN n ELSE r.first
      /\ \A j \in Slots \ {k} : request'[s][j] = request[s][j]
      /\ \A o \in Sessions \ {s} : request'[o] = request[o]
  BY SendIs
<1>2. /\ Holds(s) /\ l \in ServerSessions
      /\ txnNumber' \in [ServerSessions -> 0..MaxNumber]
      /\ txnNumber[l] \in 0..MaxNumber
      /\ \A m \in ServerSessions \ {l} : txnNumber'[m] = txnNumber[m]
      /\ IF Increments(r) THEN n = txnNumber[l] + 1 ELSE txnNumber' = txnNumber
  BY <1>1, NumberedIs
<1>3. n \in 0..MaxNumber /\ MaxNumber \in Nat /\ txnNumber[l] = Number(s)
      /\ (~Increments(r) => n = txnNumber[l])
  BY <1>2, ClientSessionAssumption DEF Number
<1>4. /\ status[s] \in {"live", "ending"}
      /\ status[s] = "live" => k = "call" /\ Call(s) = r
      /\ status[s] = "ending" => k = "end" /\ r.kind = "abort" /\ ~r.willRetry
                                 /\ txn[s] = "TRANSACTION_IN_PROGRESS"
  BY <1>1, <1>2, RunsIs DEF Holds, Call
<1>5. /\ txn' = [txn EXCEPT ![s] = Applied(s, r.kind)]
      /\ pinned' = [pinned EXCEPT ![s] = IF inTxn THEN Pin(s, x) ELSE None]
      /\ sent' = IF n = 0 THEN sent ELSE [sent EXCEPT ![l][n] = Recorded(h, s, r)]
      /\ visited' = IF inTxn /\ ~upset[s] THEN [visited EXCEPT ![s] = @ \cup {x}] ELSE visited
      /\ UNCHANGED <<status, serverSession, pool, born, thrown, upset>>
  BY DEF Send, leases
<1>6. /\ txn \in [Sessions -> TxnStates] /\ pinned \in [Sessions -> Servers \cup {None}]
      /\ visited \in [Sessions -> SUBSET Servers]
      /\ sent \in [ServerSessions -> [1..MaxNumber ->
                [writes : Nat, starts : Nat, commits : Nat, ends : SUBSET Ends]]]
  BY DEF Inv, TypeOK
(* What the request may be, given its transaction. *)
<1>7. /\ r.kind = "commit" => /\ status[s] = "live"
                              /\ txn[s] \in {"TRANSACTION_IN_PROGRESS", "TRANSACTION_COMMITTED"}
                              /\ ~r.majority => txn[s] = "TRANSACTION_IN_PROGRESS"
      /\ r.kind = "abort" => txn[s] = "TRANSACTION_IN_PROGRESS"
      /\ r.willRetry => /\ r.kind = "write" /\ ~Active(s)
                        /\ r.retrying => r.first = txnNumber[l]
      /\ r.kind \in Kinds /\ r.step # "idle" /\ r.step # "sent"
  <2>1. CASE status[s] = "live"
    <3>1. CallFits(s) /\ Call(s) = r
      BY <1>4, <2>1 DEF Inv, SessionInv
    <3> QED BY <1>1, <1>3, <2>1, <3>1 DEF CallFits, Request, Kinds
  <2>2. CASE status[s] = "ending"
    BY <1>1, <1>4, <2>2 DEF Request
  <2> QED BY <1>4, <2>1, <2>2
<1> HIDE DEF r, l, n, h, inTxn
<1>8. Ends = {"commit", "abort"} /\ (Increments(r) <=> r.willRetry /\ ~r.retrying)
      /\ (inTxn <=> Active(s) \/ r.kind \in Ends)
      /\ (Active(s) <=> txn[s] \in {"STARTING_TRANSACTION", "TRANSACTION_IN_PROGRESS"})
  BY DEF Ends, Increments, inTxn, Active
<1>9. /\ txn' \in [Sessions -> TxnStates] /\ txn'[s] = Applied(s, r.kind)
      /\ \A o \in Sessions \ {s} : txn'[o] = txn[o]
  <2>1. Applied(s, r.kind) \in TxnStates
    BY <1>6 DEF Applied, TxnStates
  <2> QED BY <1>5, <1>6, <2>1
(* After a command a transaction is in progress, or it was committed. *)
<1>10. /\ r.kind \in Ends => txn'[s] = txn[s]
       /\ r.kind \notin Ends /\ Active(s) => txn'[s] = "TRANSACTION_IN_PROGRESS"
       /\ r.kind \notin Ends /\ ~Active(s) => txn'[s] = "NO_TRANSACTION"
  BY <1>7, <1>8, <1>9 DEF Applied
<1>11. /\ pinned' \in [Sessions -> Servers \cup {None}]
       /\ pinned'[s] = IF inTxn THEN Pin(s, x) ELSE None
       /\ \A o \in Sessions \ {s} : pinned'[o] = pinned[o]
  <2>1. Pin(s, x) \in Servers \cup {None}
    BY <1>1, PinIs DEF Inv
  <2> QED BY <1>5, <1>6, <2>1
<1>12. /\ visited' \in [Sessions -> SUBSET Servers]
       /\ visited'[s] = IF inTxn /\ ~upset[s] THEN visited[s] \cup {x} ELSE visited[s]
       /\ \A o \in Sessions \ {s} : visited'[o] = visited[o]
  BY <1>5, <1>6
<1>13. /\ sent' \in [ServerSessions -> [1..MaxNumber ->
                [writes : Nat, starts : Nat, commits : Nat, ends : SUBSET Ends]]]
       /\ n > 0 => h \in [writes : Nat, starts : Nat, commits : Nat, ends : SUBSET Ends]
       /\ n > 0 => sent'[l][n] = Recorded(h, s, r)
       /\ \A m \in ServerSessions \ {l} : sent'[m] = sent[m]
       /\ \A i \in 1..MaxNumber : i # n => sent'[l][i] = sent[l][i]
  <2>1. CASE n = 0
    BY <1>5, <1>6, <2>1
  <2>2. CASE n # 0
    <3>1. n \in 1..MaxNumber
      BY <1>3, <2>2
    <3>2. h \in [writes : Nat, starts : Nat, commits : Nat, ends : SUBSET Ends]
      <4>1. l \in ServerSessions
        BY <1>2
      <4>2. \A m \in ServerSessions : \A i \in 1..MaxNumber :
              sent[m][i] \in [writes : Nat, starts : Nat, commits : Nat, ends : SUBSET Ends]
        <5> SUFFICES ASSUME NEW m \in ServerSessions, NEW i \in 1..MaxNumber
                     PROVE  sent[m][i] \in [writes : Nat, starts : Nat, commits : Nat, ends : SUBSET Ends]
          OBVIOUS
        <5>1. sent[m] \in [1..MaxNumber -> [writes : Nat, starts : Nat, commits : Nat, ends : SUBSET Ends]]
          BY <1>6, Zenon
        <5> QED BY <5>1, Zenon
      <4> QED BY <3>1, <4>1, <4>2 DEF h
    <3>3. Recorded(h, s, r) \in [writes : Nat, starts : Nat, commits : Nat, ends : SUBSET Ends]
      BY <1>1, <3>2, RecordedIs
    <3>4. sent' = [sent EXCEPT ![l][n] = Recorded(h, s, r)]
      BY <1>5, <2>2
    <3> HIDE DEF h
    <3> QED BY <1>2, <1>6, <3>1, <3>2, <3>3, <3>4
  <2> QED BY <2>1, <2>2
<1>14. TypeOK'
  BY <1>1, <1>2, <1>5, <1>9, <1>11, <1>12, <1>13 DEF Inv, TypeOK
<1>15. LeaseInv'
  BY <1>5, LeaseStays DEF Holds, Inv
<1>16. OnlyTouches(s)
  <2>1. \A o \in Sessions \ {s} :
          serverSession[o] # None => serverSession[o] \in ServerSessions /\ serverSession[o] # l
    BY DEF Inv, TypeOK, LeaseInv, l
  <2> QED BY <1>1, <1>2, <1>5, <1>9, <1>11, <1>12, <1>13, <2>1 DEF OnlyTouches
(* The number is new, or the session is at it. *)
<1>17. /\ Increments(r) /\ n > 0 => h = Nothing
       /\ ~Increments(r) /\ n > 0 => h = Known(s)
       /\ n > 0 => NumberOK(l, n) /\ h.writes \in Nat /\ h.starts \in Nat /\ h.commits \in Nat
  <2>1. SUFFICES ASSUME n > 0
                 PROVE  /\ Increments(r) => h = Nothing
                        /\ ~Increments(r) => h = Known(s)
                        /\ NumberOK(l, n) /\ h.writes \in Nat /\ h.starts \in Nat /\ h.commits \in Nat
    OBVIOUS
  <2>2. n \in 1..MaxNumber
    BY <1>3, <2>1
  <2>3. NumberOK(l, n)
    BY <1>2, <2>2 DEF Inv, NumbersInv
  <2>4. Increments(r) => h = Nothing
    BY <1>2, <1>3, <2>3 DEF NumberOK, h, n
  <2>5. ~Increments(r) => h = Known(s)
    BY <1>3 DEF h, Known, l, Number
  <2> QED BY <1>13, <2>1, <2>3, <2>4, <2>5
<1>18. SessionInv(s)'
  <2>1. status'[s] = status[s] /\ l = serverSession'[s] /\ upset'[s] = upset[s]
        /\ (k = "call" => Call(s)' = request'[s][k] /\ Abort(s)' = Abort(s))
        /\ (k = "end" => Abort(s)' = request'[s][k] /\ Call(s)' = Call(s))
        /\ (k = "call" => Call(s) = r) /\ (k = "end" => Abort(s) = r)
        /\ Number(s)' = n
    BY <1>1, <1>5 DEF Call, Abort, Slots, r, l, n, Number
  <2>2. RequestsFit(s)'
    <3>1. RequestsFit(s)
      BY DEF Inv, SessionInv
    <3> QED BY <1>1, <1>4, <1>7, <1>8, <1>10, <2>1, <3>1 DEF RequestsFit
  <2>3. CallFits(s)'
    <3>1. SUFFICES ASSUME status[s] = "live" PROVE CallFits(s)'
      BY <2>1 DEF CallFits
    <3>2. /\ Call(s)'.kind = r.kind /\ Call(s)'.majority = r.majority
          /\ Call(s)'.willRetry = r.willRetry
          /\ Call(s)'.first = IF r.willRetry /\ ~r.retrying THEN n ELSE r.first
      BY <1>1, <1>4, <2>1, <3>1
    <3>3. r.willRetry => txn'[s] = "NO_TRANSACTION" /\ Call(s)'.first = n
      BY <1>3, <1>7, <1>8, <1>10, <3>2
    <3> QED BY <1>7, <1>8, <1>10, <2>1, <3>2, <3>3 DEF CallFits, Active
  <2>4. NumberFits(s)'
    <3>1. SUFFICES ASSUME status[s] = "live", n > 0 PROVE NumberFits(s)'
      BY <2>1 DEF NumberFits
    <3>2. Known(s)' = Recorded(h, s, r) /\ Call(s)'.kind = r.kind /\ Call(s)'.step = "sent"
          /\ Call(s) = r
      BY <1>1, <1>4, <1>13, <2>1, <3>1 DEF Known
    <3>3. CASE r.kind \in Ends
      <4>1. h = Known(s) /\ NumberFits(s) /\ Number(s) > 0
        BY <1>3, <1>7, <1>8, <1>17, <3>1, <3>3 DEF Inv, SessionInv
      <4>2. /\ Known(s)'.starts = Known(s).starts /\ Known(s)'.writes = Known(s).writes
            /\ Known(s)'.ends = Known(s).ends \cup {r.kind}
            /\ r.kind = "abort" => Known(s)'.commits = Known(s).commits
        BY <1>1, <1>13, <3>1, <3>2, <3>3, <4>1, RecordedIs
      <4>3. CASE txn[s] = "TRANSACTION_IN_PROGRESS"
        <5>1. /\ Known(s).starts = 1 /\ Known(s).ends \subseteq {r.kind}
              /\ r.kind = "abort" => Known(s).commits # 1
          BY <1>7, <3>1, <3>2, <4>1, <4>3 DEF NumberFits
        <5> QED BY <1>8, <1>10, <3>2, <3>3, <4>2, <4>3, <5>1 DEF NumberFits
      <4>4. CASE txn[s] = "TRANSACTION_COMMITTED"
        <5>1. Known(s).writes = 0 /\ "abort" \notin Known(s).ends /\ r.kind # "abort"
          BY <1>7, <3>1, <4>1, <4>4 DEF NumberFits
        <5> QED BY <1>8, <1>10, <3>2, <3>3, <4>2, <4>4, <5>1 DEF NumberFits
      <4> QED BY <1>7, <1>8, <3>3, <4>3, <4>4
    <3>4. CASE r.kind \notin Ends /\ Active(s)
      <4>1. h = Known(s) /\ NumberFits(s) /\ Number(s) > 0
        BY <1>3, <1>7, <1>8, <1>17, <3>1, <3>4 DEF Inv, SessionInv
      <4>2. /\ Known(s)'.ends = h.ends /\ Known(s)'.commits = h.commits
            /\ Known(s)'.starts = IF txn[s] = "STARTING_TRANSACTION" THEN h.starts + 1 ELSE h.starts
        BY <1>1, <1>13, <3>1, <3>2, <3>4, RecordedIs
      <4>3. txn[s] = "STARTING_TRANSACTION" => h.starts = 0 /\ h.ends = {} /\ h.commits = 0
        BY <3>1, <4>1 DEF NumberFits, Nothing
      <4>4. txn[s] = "TRANSACTION_IN_PROGRESS" =>
              h.starts = 1 /\ h.ends \subseteq {r.kind} /\ h.commits # 1
        BY <1>7, <1>8, <3>1, <3>2, <3>4, <4>1 DEF NumberFits
      <4>5. /\ Known(s)'.starts = 1 /\ Known(s)'.ends \subseteq {r.kind}
            /\ Known(s)'.commits # 1
        BY <1>8, <3>4, <4>2, <4>3, <4>4
      <4> QED BY <1>10, <3>2, <3>4, <4>5 DEF NumberFits
    <3>5. CASE r.kind \notin Ends /\ ~Active(s)
      BY <1>10, <3>5 DEF NumberFits
    <3> QED BY <3>3, <3>4, <3>5
  <2>5. PinFits(s)'
    <3>1. SUFFICES ASSUME Sharded PROVE PinFits(s)'
      BY DEF PinFits
    <3>2. PinFits(s)
      BY DEF Inv, SessionInv
    <3>3. /\ status[s] = "live" => Call(s)'.step = "sent"
          /\ status[s] = "ending" => Abort(s)'.step = "sent"
      BY <1>1, <1>4, <2>1
    <3>4. CASE ~inTxn
      <4>1. visited'[s] = visited[s] /\ txn'[s] = "NO_TRANSACTION"
        BY <1>8, <1>10, <1>12, <3>4
      <4> QED BY <2>1, <3>1, <3>2, <3>3, <4>1 DEF PinFits
    <3>5. CASE inTxn
      <4>1. txn'[s] # "STARTING_TRANSACTION"
        BY <1>7, <1>8, <1>10, <3>5
      <4>2. CASE upset[s]
        BY <1>12, <2>1, <3>1, <3>2, <3>3, <4>1, <4>2 DEF PinFits
      <4>3. CASE ~upset[s]
        <5>1. visited[s] \subseteq {x} /\ (~Active(s) => x = pinned[s])
          <6>1. CASE txn[s] = "STARTING_TRANSACTION"
            BY <1>4, <1>8, <3>1, <3>2, <6>1 DEF PinFits
          <6>2. CASE txn[s] \in {"TRANSACTION_IN_PROGRESS", "TRANSACTION_COMMITTED"}
            <7>1. request[s][k].step \in {"ready", "selecting"}
              BY <1>1 DEF r
            <7> QED BY <1>1, <1>2, <3>1, <4>3, <6>2, <7>1, PinnedChosen
          <6> QED BY <1>7, <1>8, <3>5, <6>1, <6>2
        <5>2. visited'[s] = {x} /\ pinned'[s] = x /\ x # None
          <6>1. x # None
            BY ClientSessionAssumption
          <6>2. pinned'[s] = x
            BY <1>11, <3>1, <3>5, <5>1 DEF Pin
          <6> QED BY <1>12, <3>5, <4>3, <5>1, <6>1, <6>2
        <5> QED BY <2>1, <3>1, <3>3, <4>1, <5>2 DEF PinFits
      <4> QED BY <4>2, <4>3
    <3> QED BY <3>4, <3>5
  <2> QED BY <2>2, <2>3, <2>4, <2>5 DEF SessionInv
<1>19. NumbersInv'
  <2>1. SUFFICES ASSUME NEW m \in ServerSessions, NEW i \in 1..MaxNumber
                 PROVE  NumberOK(m, i)'
    BY DEF NumbersInv
  <2>2. NumberOK(m, i) /\ i \in Nat
    BY DEF Inv, NumbersInv
  <2>3. CASE m # l
    <3>1. sent'[m] = sent[m] /\ txnNumber'[m] = txnNumber[m]
      BY <1>2, <1>13, <2>3
    <3> QED BY <2>2, <3>1 DEF NumberOK
  <2>4. CASE m = l /\ i # n
    <3>1. sent'[m][i] = sent[m][i] /\ txnNumber'[m] = n
      BY <1>13, <2>4 DEF n
    <3>2. i > n => i > txnNumber[m]
      BY <1>2, <1>3, <2>2, <2>4
    <3> QED BY <2>2, <3>1, <3>2 DEF NumberOK
  <2>5. CASE m = l /\ i = n
    <3>1. n > 0 /\ sent'[m][i] = Recorded(h, s, r) /\ ~(i > txnNumber'[m])
      BY <1>3, <1>13, <2>2, <2>5 DEF n
    <3> DEFINE g == Recorded(h, s, r)
    <3>2. h.writes + h.starts <= 1 /\ h.commits <= 1
          /\ h.writes \in Nat /\ h.starts \in Nat /\ h.commits \in Nat
      BY <1>17, <3>1 DEF NumberOK, h
    <3>3. g.writes + g.starts <= 1 /\ g.commits <= 1
      <4>0. h \in [writes : Nat, starts : Nat, commits : Nat, ends : SUBSET Ends] /\ r \in Request
        BY <1>1, <1>13, <3>1
      <4>1. CASE r.kind \in Ends
        <5>1. g.writes = h.writes /\ g.starts = h.starts
              /\ g.commits = IF r.kind = "commit" /\ ~r.majority THEN h.commits + 1 ELSE h.commits
          BY <4>0, <4>1, RecordedIs
        <5>2. ASSUME r.kind = "commit", ~r.majority PROVE h.commits = 0
          <6>1. h = Known(s) /\ Number(s) > 0
            BY <1>3, <1>7, <1>8, <1>17, <3>1, <4>1
          <6>2. NumberFits(s) /\ status[s] = "live" /\ txn[s] = "TRANSACTION_IN_PROGRESS"
                /\ Call(s) = r /\ r.step # "sent"
            BY <1>4, <1>7, <5>2 DEF Inv, SessionInv
          <6>3. h.commits # 1
            BY <5>2, <6>1, <6>2 DEF NumberFits
          <6> QED BY <3>2, <6>3
        <5> HIDE DEF g
        <5> QED BY <3>2, <5>1, <5>2
      <4>2. CASE r.kind \notin Ends /\ Active(s)
        <5>1. g.writes = h.writes /\ g.commits = h.commits
              /\ g.starts = IF txn[s] = "STARTING_TRANSACTION" THEN h.starts + 1 ELSE h.starts
          BY <4>0, <4>2, RecordedIs
        <5>2. txn[s] = "STARTING_TRANSACTION" => h.writes = 0 /\ h.starts = 0
          <6>1. h = Known(s) /\ NumberFits(s) /\ Number(s) > 0
            BY <1>3, <1>7, <1>8, <1>17, <3>1, <4>2 DEF Inv, SessionInv
          <6> QED BY <1>4, <6>1 DEF NumberFits, Nothing
        <5> HIDE DEF g
        <5> QED BY <3>2, <5>1, <5>2
      <4>3. CASE r.kind \notin Ends /\ ~Active(s)
        <5>1. g.starts = h.starts /\ g.commits = h.commits
              /\ g.writes = IF Increments(r) THEN h.writes + 1 ELSE h.writes
          BY <4>0, <4>3, RecordedIs
        <5>2. Increments(r) => h.writes = 0 /\ h.starts = 0
          BY <1>17, <3>1 DEF Nothing
        <5> HIDE DEF g
        <5> QED BY <3>2, <5>1, <5>2
      <4> QED BY <4>1, <4>2, <4>3
    <3> QED BY <3>1, <3>3 DEF NumberOK
  <2> QED BY <2>3, <2>4, <2>5
<1>20. ExceptionOnlyWhenEnded'
  BY <1>5 DEF Inv, ExceptionOnlyWhenEnded
<1> QED BY <1>14, <1>15, <1>16, <1>18, <1>19, <1>20, OthersKeep DEF Inv

(***************************************************************************)
(* A request is answered                                                   *)
(***************************************************************************)

(* What was sent for a commit or an abort was sent in its transaction.     *)
LEMMA SentInTxn ==
  ASSUME Inv, NEW s \in Sessions, NEW k \in Slots, request[s][k].step = "sent",
         request[s][k].kind \in Ends
  PROVE  request[s][k].inTxn
  BY DEF Inv, SessionInv, RequestsFit, Call, Abort, Slots

(* A command of a transaction that fails leaves its mark, and one that     *)
(* succeeds leaves the server pinned.                                      *)
LEMMA UnpinnedIs ==
  ASSUME Inv, NEW s \in Sessions, NEW k \in Slots, request[s][k].step = "sent",
         NEW outcome \in Outcomes
  PROVE  /\ Unpinned(s, request[s][k], outcome) \in Servers \cup {None}
         /\ request[s][k].inTxn \in BOOLEAN
         /\ ~(request[s][k].inTxn /\ outcome # "ok") =>
              Unpinned(s, request[s][k], outcome) = pinned[s]
<1>1. pinned[s] \in Servers \cup {None} /\ request[s][k] \in Request
  BY DEF Inv, TypeOK
<1>2. request[s][k].kind = "commit" => request[s][k].inTxn
  BY SentInTxn DEF Ends
<1> QED BY <1>1, <1>2 DEF Unpinned, Retryable, Transient, Request

LEMMA ReplyStep ==
  ASSUME Inv, NEW s \in Sessions, NEW k \in Slots, NEW outcome \in Outcomes,
         Reply(s, k, outcome)
  PROVE  Inv'
<1> DEFINE r == request[s][k]
           u == Unpinned(s, r, outcome)
           l == serverSession[s]
<1>1. /\ Still /\ r.step = "sent"
      /\ pinned' = [pinned EXCEPT ![s] = IF thrown' THEN pinned[s] ELSE u]
      /\ upset' = [upset EXCEPT ![s] = upset[s] \/ (r.inTxn /\ outcome # "ok")]
      /\ UNCHANGED <<status, serverSession, pool, born, txnNumber, sent, visited>>
  BY DEF Reply, leases
<1>2. Runs(s, k)
  BY <1>1 DEF Runs, Still
<1>3. /\ u \in Servers \cup {None} /\ r.inTxn \in BOOLEAN
      /\ ~(r.inTxn /\ outcome # "ok") => u = pinned[s]
  BY <1>1, UnpinnedIs
<1>4. /\ pinned \in [Sessions -> Servers \cup {None}] /\ upset \in [Sessions -> BOOLEAN]
      /\ r \in Request /\ request \in [Sessions -> [Slots -> Request]]
  BY DEF Inv, TypeOK
<1> HIDE DEF u
<1>5. /\ pinned' \in [Sessions -> Servers \cup {None}]
      /\ pinned'[s] = IF thrown' THEN pinned[s] ELSE u
      /\ upset' \in [Sessions -> BOOLEAN]
      /\ (upset'[s] <=> upset[s] \/ (r.inTxn /\ outcome # "ok"))
      /\ \A o \in Sessions \ {s} : pinned'[o] = pinned[o] /\ upset'[o] = upset[o]
  BY <1>1, <1>3, <1>4
<1>6. ~upset'[s] => ~upset[s] /\ pinned'[s] = pinned[s]
  BY <1>3, <1>5
<1>7. CASE ~Retried(r, outcome)
  <2>1. Finish(s, k)
    BY <1>7 DEF Reply
  <2> QED BY <1>1, <1>2, <1>5, <1>6, <2>1, FinishStep
<1>8. CASE Retried(r, outcome)
  <2>1. PICK step \in SelectionSteps(u) :
          Changes(s, k, [r EXCEPT !.step = step, !.retrying = TRUE,
                                  !.majority = r.kind = "commit"])
    BY <1>8 DEF Reply, Changes, u
  <2>2. step \in {"ready", "selecting"} /\ (Sharded /\ step = "selecting" => u = None)
    BY SelectionStepsAre
  <2> DEFINE r2 == [r EXCEPT !.step = step, !.retrying = TRUE, !.majority = r.kind = "commit"]
  <2>3. /\ r2 \in Request /\ r2.kind = r.kind /\ r2.step = step /\ r2.retrying
        /\ (r2.majority <=> r.kind = "commit") /\ r2.willRetry = r.willRetry
        /\ r2.first = r.first
    BY <1>4, <2>2 DEF Request
  <2>4. Changes(s, k, r2)
    BY <2>1
  <2> HIDE DEF r2
  <2>5. /\ request' \in [Sessions -> [Slots -> Request]]
        /\ request'[s][k] = r2
        /\ \A j \in Slots \ {k} : request'[s][j] = request[s][j]
        /\ \A o \in Sessions \ {s} : request'[o] = request[o]
    BY <1>4, <2>3, <2>4, ChangesIs
  <2>6. UNCHANGED <<txn, thrown>> /\ ~thrown' /\ pinned'[s] = u
    BY <1>1, <1>5, <1>8 DEF Reply, Still
  <2>7. /\ status[s] # "new" /\ status[s] # "ending"
        /\ status[s] = "live" => k = "call"
    BY <1>1, <1>2, RunsIs DEF Still
  <2>8. TypeOK'
    BY <1>1, <1>5, <2>5, <2>6 DEF Inv, TypeOK
  <2>9. LeaseInv'
    BY <1>1, LeaseStays DEF Inv, Holds
  <2>10. OnlyTouches(s)
    BY <1>1, <1>5, <2>5, <2>6 DEF OnlyTouches
  <2>11. SessionInv(s)'
    <3> USE DEF Inv, SessionInv
    <3>1. /\ (k = "call" => Call(s)' = r2 /\ Abort(s)' = Abort(s) /\ Call(s) = r)
          /\ (k = "end" => Abort(s)' = r2 /\ Call(s)' = Call(s) /\ Abort(s) = r)
          /\ k \in {"call", "end"}
      BY <2>5 DEF Call, Abort, Slots
    <3> HIDE DEF r
    <3>2. RequestsFit(s)'
      BY <1>1, <2>2, <2>3, <2>6, <2>7, <3>1 DEF RequestsFit
    <3>3. CallFits(s)'
      <4>1. SUFFICES ASSUME status[s] = "live" PROVE CallFits(s)'
        BY <1>1 DEF CallFits
      <4>2. Call(s) = r /\ Call(s)' = r2 /\ Number(s)' = Number(s)
        BY <1>1, <2>7, <3>1, <4>1 DEF Number
      <4> QED BY <1>1, <2>2, <2>3, <2>6, <4>1, <4>2 DEF CallFits, Active
    <3>4. NumberFits(s)'
      <4>1. SUFFICES ASSUME status[s] = "live" PROVE NumberFits(s)'
        BY <1>1 DEF NumberFits
      <4>2. Call(s) = r /\ Call(s)' = r2 /\ Number(s)' = Number(s) /\ Known(s)' = Known(s)
        BY <1>1, <2>7, <3>1, <4>1 DEF Number, Known
      <4> QED BY <1>1, <2>2, <2>3, <2>6, <4>1, <4>2 DEF NumberFits
    <3>5. PinFits(s)'
      <4>1. SUFFICES ASSUME Sharded PROVE PinFits(s)'
        BY DEF PinFits
      <4>2. PinFits(s) /\ visited'[s] = visited[s] /\ txn'[s] = txn[s] /\ status'[s] = status[s]
        BY <1>1, <2>6
      <4>3. status[s] = "live" /\ Call(s)'.step = "selecting" => pinned'[s] = None
        BY <2>2, <2>3, <2>6, <2>7, <3>1, <4>1
      <4> QED BY <1>6, <2>7, <4>1, <4>2, <4>3 DEF PinFits, Holds
    <3> QED BY <3>2, <3>3, <3>4, <3>5
  <2>12. NumbersInv'
    BY <1>1 DEF Inv, NumbersInv, NumberOK
  <2>13. ExceptionOnlyWhenEnded'
    BY <2>6 DEF ExceptionOnlyWhenEnded
  <2> QED BY <2>8, <2>9, <2>10, <2>11, <2>12, <2>13, OthersKeep DEF Inv
<1> QED BY <1>7, <1>8

(***************************************************************************)
(* The invariant holds                                                     *)
(***************************************************************************)

LEMMA InvInit == Init => Inv
<1> SUFFICES ASSUME Init PROVE Inv
  OBVIOUS
<1> USE DEF Init
<1>1. TypeOK
  <2>1. Nothing \in [writes : Nat, starts : Nat, commits : Nat, ends : SUBSET Ends]
    BY DEF Nothing
  <2>2. sent \in [ServerSessions -> [1..MaxNumber ->
                   [writes : Nat, starts : Nat, commits : Nat, ends : SUBSET Ends]]]
    BY <2>1 DEF Nothing
  <2>3. txnNumber \in [ServerSessions -> 0..MaxNumber]
    BY ClientSessionAssumption
  <2>4. request \in [Sessions -> [Slots -> Request]]
    BY NoRequestIs
  <2>5. /\ status \in [Sessions -> Statuses] /\ txn \in [Sessions -> TxnStates]
        /\ serverSession \in [Sessions -> ServerSessions \cup {None}]
        /\ pinned \in [Sessions -> Servers \cup {None}]
    BY DEF Statuses, TxnStates
  <2>6. /\ born \in SUBSET ServerSessions /\ thrown \in BOOLEAN
        /\ visited \in [Sessions -> SUBSET Servers] /\ upset \in [Sessions -> BOOLEAN]
    OBVIOUS
  <2>7. pool \in Seq(ServerSessions)
    <3>1. pool = << >>
      OBVIOUS
    <3> HIDE DEF Init
    <3> QED BY <3>1
  <2> HIDE DEF Init
  <2> QED BY <2>2, <2>3, <2>4, <2>5, <2>6, <2>7 DEF TypeOK
<1>2. LeaseInv
  BY DEF LeaseInv, Holds, IsInjective, Range
<1>3. ASSUME NEW s \in Sessions PROVE SessionInv(s)
  <2>1. /\ status[s] = "new" /\ txn[s] = "NO_TRANSACTION" /\ visited[s] = {}
        /\ Call(s) = NoRequest /\ Abort(s) = NoRequest
    BY DEF Call, Abort, Slots
  <2>2. NoRequest.step = "idle"
    BY DEF NoRequest
  <2> QED BY <2>1, <2>2 DEF SessionInv, RequestsFit, CallFits, NumberFits, PinFits, Holds
<1>4. NumbersInv
  <2>1. ASSUME NEW l \in ServerSessions, NEW n \in 1..MaxNumber PROVE NumberOK(l, n)
    <3>1. sent[l][n] = Nothing
      BY DEF Nothing
    <3> QED BY <3>1 DEF NumberOK, Nothing
  <2> QED BY <2>1 DEF NumbersInv
<1>5. ExceptionOnlyWhenEnded
  BY DEF ExceptionOnlyWhenEnded
<1> QED BY <1>1, <1>2, <1>3, <1>4, <1>5 DEF Inv

LEMMA InvUnchanged ==
  ASSUME Inv, UNCHANGED vars
  PROVE  Inv'
<1>1. UNCHANGED <<status, serverSession, txn, pinned, request, pool, born, txnNumber, thrown,
                  sent, visited, upset>>
  BY DEF vars, session, leases, history
<1>2. TypeOK' /\ LeaseInv' /\ NumbersInv' /\ ExceptionOnlyWhenEnded'
  BY <1>1 DEF Inv, TypeOK, LeaseInv, Holds, NumbersInv, NumberOK, ExceptionOnlyWhenEnded
<1>3. \A s \in Sessions : SessionInv(s)'
  BY <1>1, UntouchedKeeps DEF Inv, Untouched
<1> QED BY <1>2, <1>3 DEF Inv

LEMMA InvNext == Inv /\ [Next]_vars => Inv'
<1> SUFFICES ASSUME Inv, [Next]_vars PROVE Inv'
  OBVIOUS
<1>1. ASSUME NEW s \in Sessions, Client(s) PROVE Inv'
  BY <1>1, StartSessionStep, EndSessionStep, StartTransactionStep, CommitStep, AbortStep,
     OperationStep DEF Client
<1>2. ASSUME NEW s \in Sessions, ReleaseSession(s) PROVE Inv'
  BY <1>2, ReleaseSessionStep
<1>3. ASSUME NEW s \in Sessions, NEW k \in Slots, Progress(s, k) PROVE Inv'
  BY <1>3, SelectionFailsStep, SessionGoneStep, RefusedStep, SendStep, ReplyStep DEF Progress
<1>4. CASE EndAllPooledSessions
  BY <1>4, EndAllStep
<1>5. CASE UNCHANGED vars
  BY <1>5, InvUnchanged
<1> QED BY <1>1, <1>2, <1>3, <1>4, <1>5 DEF Next

(* The invariant holds in every reachable state: of any sessions, requests *)
(* and answers in any order.                                               *)
THEOREM Invariance == Spec => []Inv
<1>1. Init => Inv
  BY InvInit
<1>2. Inv /\ [Next]_vars => Inv'
  BY InvNext
<1> QED BY <1>1, <1>2, PTL DEF Spec

(* The variables keep their types.                                         *)
THEOREM TypeCorrect == Spec => []TypeOK
<1>1. Inv => TypeOK
  BY DEF Inv
<1> QED BY <1>1, Invariance, PTL

(* A number stands for one write or one transaction, and the state of a    *)
(* transaction is what the server was told of it: to increment the number  *)
(* before every write and every transaction, and not before a retry, is    *)
(* enough, whoever gets the server session next.                           *)
LEMMA AgreesFromInv == Inv => ServerAgrees
<1> SUFFICES ASSUME Inv PROVE ServerAgrees
  OBVIOUS
<1>1. NumberUsedOnce
  <2>1. \A l \in ServerSessions, n \in 1..MaxNumber : sent[l][n].writes + sent[l][n].starts <= 1
    BY DEF Inv, NumbersInv, NumberOK
  <2>2. ASSUME NEW s \in Sessions, status[s] = "live", request[s]["call"].willRetry,
               request[s]["call"].step = "sent"
        PROVE  request[s]["call"].first = txnNumber[serverSession[s]]
    BY <2>2 DEF Inv, SessionInv, CallFits, Call, Number
  <2> QED BY <2>1, <2>2 DEF NumberUsedOnce
<1>2. StateMatchesServer
  <2>1. ASSUME NEW s \in Sessions, status[s] = "live", Number(s) > 0
        PROVE  /\ txn[s] \in {"STARTING_TRANSACTION", "TRANSACTION_COMMITTED_EMPTY"} =>
                    Known(s).writes = 0 /\ Known(s).starts = 0 /\ Known(s).ends = {}
               /\ txn[s] = "TRANSACTION_IN_PROGRESS" =>
                    Known(s).starts = 1
                    /\ Known(s).ends \subseteq (IF Call(s).step = "idle" THEN {} ELSE {Call(s).kind})
               /\ txn[s] = "TRANSACTION_COMMITTED" => Known(s).writes = 0 /\ "abort" \notin Known(s).ends
               /\ txn[s] = "TRANSACTION_ABORTED" => "commit" \notin Known(s).ends
    BY <2>1 DEF Inv, SessionInv, NumberFits, Nothing
  <2> QED BY <2>1 DEF StateMatchesServer, Known, Number, Call
<1> QED BY <1>1, <1>2 DEF ServerAgrees

(* What a session believes of its transaction is what the server was told  *)
(* of its number, which no two writes or transactions share: whatever is   *)
(* interleaved, retried or ended early.                                    *)
THEOREM ServerAgreesAlways == Spec => []ServerAgrees
  BY AgreesFromInv, Invariance, PTL

(* A commit is sent without write concern majority once, the commands of a *)
(* sharded transaction go to one mongos until one of them fails, and no    *)
(* callback meets an illegal transition unless a session was ended while   *)
(* it was used (endTransaction, applySession, TransactionError).           *)
LEMMA SoundFromInv == Inv => CommandsSound
  BY DEF Inv, SessionInv, PinFits, NumbersInv, NumberOK, CommandsSound, MajorityOnRetry,
     PinnedTogether

(* The commands of a session are sound: commitTransaction, the choice of a *)
(* mongos and the transitions that callbacks make, in any order.           *)
THEOREM CommandsCorrect == Spec => []CommandsSound
  BY SoundFromInv, Invariance, PTL

(***************************************************************************)
(* The server sessions move as SessionLease lets them                      *)
(***************************************************************************)

Unheld(l) == \A s \in Sessions : serverSession[s] # l

(* Where a server session is that nobody holds. *)
FreePlace(l) ==
  IF l \in Range(pool) THEN "pooled" ELSE IF l \in born THEN "gone" ELSE "unborn"

PlacesAre ==
  \A l \in ServerSessions :
    /\ \A s \in Sessions : serverSession[s] = l => Place[l] = s
    /\ Unheld(l) => Place[l] = FreePlace(l)

LEMMA PlacesNow == Inv => PlacesAre
<1> SUFFICES ASSUME Inv, NEW l \in ServerSessions
             PROVE  /\ \A s \in Sessions : serverSession[s] = l => Place[l] = s
                    /\ Unheld(l) => Place[l] = FreePlace(l)
  BY DEF PlacesAre
<1>1. ASSUME NEW s \in Sessions, serverSession[s] = l PROVE Place[l] = s
  <2>1. \A t \in Sessions : serverSession[t] = l => t = s
    BY <1>1, ClientSessionAssumption DEF Inv, LeaseInv
  <2> QED BY <1>1, <2>1 DEF Place
<1>2. ASSUME Unheld(l) PROVE Place[l] = FreePlace(l)
  BY <1>2 DEF Place, FreePlace, Unheld
<1> QED BY <1>1, <1>2

LEMMA PlacesNext == Inv' => PlacesAre'
  BY PlacesNow, PTL

LEMMA PlaceDomain ==
  /\ Place = [m \in ServerSessions |-> Place[m]]
  /\ Place' = [m \in ServerSessions |-> Place'[m]]
  BY DEF Place

(* When one server session moves the others stay where they are, or leave  *)
(* the pool: a move of the abstract pool.                                  *)
LEMMA MoveIs ==
  ASSUME Inv, Inv', NEW l \in ServerSessions, NEW p, Place'[l] = p,
         \A s \in Sessions : \A m \in ServerSessions \ {l} :
           serverSession[s] = m <=> serverSession'[s] = m,
         Range(pool') \subseteq Range(pool) \cup {l},
         \A m \in ServerSessions \ {l} : m \in born <=> m \in born'
  PROVE  Lease!Move(l, p, {m \in Lease!Pooled : m # l /\ m \notin Range(pool')})
<1> DEFINE dropped == {m \in Lease!Pooled : m # l /\ m \notin Range(pool')}
<1>1. ASSUME NEW m \in ServerSessions \ {l}
      PROVE  Place'[m] = IF m \in dropped THEN "gone" ELSE Place[m]
  <2>1. CASE \E s \in Sessions : serverSession[s] = m
    <3>1. PICK s \in Sessions : serverSession[s] = m
      BY <2>1
    <3>2. Place[m] = s /\ Place'[m] = s
      BY <1>1, <3>1, PlacesNow, PlacesNext DEF PlacesAre
    <3> QED BY <3>2, ClientSessionAssumption DEF Lease!Pooled
  <2>2. CASE Unheld(m)
    <3>1. Unheld(m)'
      BY <1>1, <2>2 DEF Unheld
    <3>2. Place[m] = FreePlace(m) /\ Place'[m] = FreePlace(m)'
      BY <1>1, <2>2, <3>1, PlacesNow, PlacesNext DEF PlacesAre
    <3>3. /\ m \in Range(pool') => m \in Range(pool)
          /\ m \in Range(pool) => m \in born
      BY <1>1 DEF Inv, LeaseInv
    <3> QED BY <1>1, <3>2, <3>3 DEF FreePlace, Lease!Pooled
  <2> QED BY <2>1, <2>2 DEF Unheld
<1> HIDE DEF dropped
<1>2. Lease!Move(l, p, dropped)
  BY <1>1, PlaceDomain DEF Lease!Move
<1> QED BY <1>2 DEF dropped

(* startSession is an Acquire of the abstract pool. *)
LEMMA StartImplements ==
  ASSUME Inv, Inv', NEW s \in Sessions, StartSession(s)
  PROVE  \E l \in ServerSessions : Lease!Acquire(s, l)
<1>1. PICK l \in ServerSessions :
        /\ serverSession' = [serverSession EXCEPT ![s] = l]
        /\ Range(pool') \subseteq Range(pool) \ {l}
        /\ born' = born \cup {l}
        /\ \A o \in Sessions : serverSession[o] # l
        /\ (l \in Range(pool)) \/ (l \notin born /\ Range(pool') = {})
  BY StartSessionTakes
<1>2. serverSession[s] = None /\ serverSession \in [Sessions -> ServerSessions \cup {None}]
      /\ Range(pool) \subseteq born
  BY DEF StartSession, Inv, TypeOK, LeaseInv, Holds
<1>3. ASSUME NEW m \in ServerSessions PROVE Place[m] # s
  <2>1. CASE \E o \in Sessions : serverSession[o] = m
    <3>1. PICK o \in Sessions : serverSession[o] = m
      BY <2>1
    <3>2. Place[m] = o /\ o # s
      BY <1>2, <3>1, PlacesNow, ClientSessionAssumption DEF PlacesAre
    <3> QED BY <3>2
  <2>2. CASE Unheld(m)
    <3>1. Place[m] \in {"unborn", "pooled", "gone"}
      BY <2>2, PlacesNow DEF PlacesAre, FreePlace
    <3> QED BY <3>1, ClientSessionAssumption
  <2> QED BY <2>1, <2>2 DEF Unheld
<1>4. Place'[l] = s /\ Place[l] = FreePlace(l)
  <2>1. Unheld(l) /\ serverSession'[s] = l
    BY <1>1, <1>2 DEF Unheld
  <2> QED BY <2>1, PlacesNow, PlacesNext DEF PlacesAre
<1>5. \A o \in Sessions : \A m \in ServerSessions \ {l} :
        serverSession[o] = m <=> serverSession'[o] = m
  BY <1>1, <1>2, ClientSessionAssumption
<1>6. Lease!Move(l, s, {m \in Lease!Pooled : m # l /\ m \notin Range(pool')})
  BY <1>1, <1>4, <1>5, MoveIs
<1>7. CASE l \in Range(pool)
  <2>1. {m \in Lease!Pooled : m # l /\ m \notin Range(pool')} \in SUBSET Lease!Pooled
    OBVIOUS
  <2>2. Place[l] = "pooled"
    BY <1>4, <1>7 DEF FreePlace
  <2> QED BY <1>3, <1>6, <2>1, <2>2 DEF Lease!Acquire
<1>8. CASE l \notin born /\ Range(pool') = {}
  <2>1. Place[l] = "unborn"
    BY <1>2, <1>4, <1>8 DEF FreePlace
  <2>2. {m \in Lease!Pooled : m # l /\ m \notin Range(pool')} = Lease!Pooled
    BY <1>8, <2>1 DEF Lease!Pooled
  <2> QED BY <1>3, <1>6, <2>1, <2>2 DEF Lease!Acquire
<1> QED BY <1>1, <1>7, <1>8

(* endSession is a Release of it. *)
LEMMA ReleaseImplements ==
  ASSUME Inv, Inv', NEW s \in Sessions, ReleaseSession(s)
  PROVE  \E l \in ServerSessions : Lease!Release(s, l)
<1>0. PICK l \in ServerSessions : l = serverSession[s]
  BY DEF ReleaseSession, Inv, TypeOK, LeaseInv, Holds
<1>1. /\ serverSession' = [serverSession EXCEPT ![s] = None] /\ UNCHANGED born
      /\ serverSession \in [Sessions -> ServerSessions \cup {None}]
      /\ l \in born
  BY <1>0 DEF ReleaseSession, ServerSessionGone, Inv, TypeOK, LeaseInv, Holds
<1>2. Range(pool') \subseteq Range(pool) \cup {l}
  BY <1>0, ReleaseSessionGives
<1>3. Place[l] = s
  BY <1>0, PlacesNow DEF PlacesAre
<1>4. Place'[l] \in {"pooled", "gone"}
  <2>1. Unheld(l)'
    <3>1. \A o \in Sessions \ {s} : serverSession[o] # l
      BY <1>0, ClientSessionAssumption DEF Inv, LeaseInv
    <3> QED BY <1>1, <3>1, ClientSessionAssumption DEF Unheld
  <2>2. Place'[l] = FreePlace(l)'
    BY <2>1, PlacesNext DEF PlacesAre
  <2> QED BY <1>1, <2>2 DEF FreePlace
<1>5. \A o \in Sessions : \A m \in ServerSessions \ {l} :
        serverSession[o] = m <=> serverSession'[o] = m
  BY <1>0, <1>1, ClientSessionAssumption
<1>6. Lease!Move(l, Place'[l], {m \in Lease!Pooled : m # l /\ m \notin Range(pool')})
  BY <1>1, <1>2, <1>5, MoveIs
<1>7. {m \in Lease!Pooled : m # l /\ m \notin Range(pool')} \in SUBSET Lease!Pooled
  OBVIOUS
<1> QED BY <1>1, <1>3, <1>4, <1>6, <1>7 DEF Lease!Release

LEMMA EndAllImplements ==
  ASSUME Inv, Inv', EndAllPooledSessions
  PROVE  Lease!EndAllPooledSessions
<1>1. Range(pool') = {} /\ born' = born /\ serverSession' = serverSession
  BY DEF EndAllPooledSessions, session, Range
<1>2. ASSUME NEW l \in ServerSessions
      PROVE  Place'[l] = IF l \in Lease!Pooled THEN "gone" ELSE Place[l]
  <2>1. CASE \E s \in Sessions : serverSession[s] = l
    <3>1. PICK s \in Sessions : serverSession[s] = l
      BY <2>1
    <3>2. Place[l] = s /\ Place'[l] = s
      BY <1>1, <3>1, PlacesNow, PlacesNext DEF PlacesAre
    <3> QED BY <3>2, ClientSessionAssumption DEF Lease!Pooled
  <2>2. CASE Unheld(l)
    <3>1. Unheld(l)'
      BY <1>1, <2>2 DEF Unheld
    <3>2. Place[l] = FreePlace(l) /\ Place'[l] = FreePlace(l)'
      BY <2>2, <3>1, PlacesNow, PlacesNext DEF PlacesAre
    <3>3. l \in Range(pool) => l \in born
      BY DEF Inv, LeaseInv
    <3> QED BY <1>1, <3>2, <3>3 DEF FreePlace, Lease!Pooled
  <2> QED BY <2>1, <2>2 DEF Unheld
<1> QED BY <1>2, PlaceDomain DEF Lease!EndAllPooledSessions

LEMMA StepImplements ==
  ASSUME Inv, Inv', [Next]_vars
  PROVE  [Lease!Next]_Place
<1>1. ASSUME UNCHANGED <<serverSession, pool, born>> PROVE UNCHANGED Place
  BY <1>1 DEF Place
<1>2. ASSUME NEW s \in Sessions, Client(s) PROVE [Lease!Next]_Place
  <2>1. CASE StartSession(s)
    BY <2>1, StartImplements DEF Lease!Next
  <2>2. CASE ~StartSession(s)
    <3>1. UNCHANGED <<serverSession, pool, born>>
      BY <1>2, <2>2 DEF Client, EndSession, StartTransaction, CommitTransaction, AbortTransaction,
         Operation, leases
    <3> QED BY <1>1, <3>1
  <2> QED BY <2>1, <2>2
<1>3. ASSUME NEW s \in Sessions, ReleaseSession(s) PROVE Lease!Next
  BY <1>3, ReleaseImplements DEF Lease!Next
<1>4. ASSUME NEW s \in Sessions, NEW k \in Slots, Progress(s, k) PROVE UNCHANGED Place
  <2>1. UNCHANGED <<serverSession, pool, born>>
    BY <1>4 DEF Progress, SelectionFails, SessionGone, Refused, Send, Reply, leases
  <2> QED BY <1>1, <2>1
<1>5. CASE EndAllPooledSessions
  BY <1>5, EndAllImplements DEF Lease!Next
<1>6. CASE UNCHANGED vars
  BY <1>1, <1>6 DEF vars, session, leases
<1> QED BY <1>2, <1>3, <1>4, <1>5, <1>6 DEF Next

(* Whatever the client sessions do, throw or leave unanswered, a server    *)
(* session goes from one of them to another through the pool only, and one *)
(* that was dropped never comes back.                                      *)
THEOREM LeaseImplemented == Spec => LeaseSpec
<1>1. Init => Lease!Init
  <2>1. SUFFICES ASSUME Init PROVE Lease!Init
    OBVIOUS
  <2>2. (\A s \in Sessions : serverSession[s] = None) /\ Range(pool) = {} /\ born = {}
    BY <2>1 DEF Init, Range
  <2> QED BY <2>2, ClientSessionAssumption DEF Lease!Init, Place
<1>2. Inv /\ Inv' /\ [Next]_vars => [Lease!Next]_Place
  BY StepImplements
<1> QED BY <1>1, <1>2, Invariance, PTL DEF Spec, LeaseSpec, Lease!Spec
===============================================================================
