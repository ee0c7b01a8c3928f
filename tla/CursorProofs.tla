----------------------------- MODULE CursorProofs -----------------------------
(* Theorems about Cursor, for every query, limit, batch size and number of  *)
(* calls of next.                                                          *)
EXTENDS Cursor, SequenceTheorems, TLAPS

(***************************************************************************)
(* The inductive invariant                                                 *)
(*                                                                         *)
(* It is stated of a state s of the cursor and of the requests, documents  *)
(* and answers that go with it: next and the handlers of answers change s  *)
(* and the requests step by step before they leave them in the variables.  *)
(***************************************************************************)

CursorType ==
  [id : NoId..MaxFinds, docs : Batches, index : Nat, current : Nat, dead : BOOLEAN,
   killed : BOOLEAN, init : BOOLEAN, notified : BOOLEAN,
   session : {"shared", "own", "ended"}]

RequestType ==
  [kind : {"select", "stored", "find", "getMore", "kill"}, id : NoId..MaxFinds,
   call : Calls \cup {NoCall}, batch : Nat, phase : {"sent", "answered"}, reply : Replies]

Outcomes == {"unused", "pending", "document", "null", "exhausted", "error", "threw", "tailed"}

EnvironmentOK ==
  /\ setup \in [limit : Limits, batch : BatchSizes, tailable : BOOLEAN,
                handler : {"store", "refuse", "none"}, given : BOOLEAN, matched : Results]
  /\ topology \in {"connected", "disconnected", "destroyed"}
  /\ killed \in BOOLEAN /\ misused \in BOOLEAN
  /\ opened \in 0..MaxFinds
  /\ position \in [ServerCursors -> Nat \cup {Closed}]

CursorOK(s) ==
  /\ s \in CursorType
  /\ setup.limit > 0 => s.current <= setup.limit
  /\ s.notified => s.session # "own"

RequestOK(r) ==
  /\ r \in RequestType
  /\ r.kind \in {"getMore", "kill"} => r.id > 0
  /\ r.kind # "kill" => r.call \in Calls

RequestsOK(reqs) == \A r \in reqs : RequestOK(r)

(* The request is one for a call of next. *)
Awaited(r) == r.kind # "kill"

NoneAwaited(reqs) == \A r \in reqs : ~Awaited(r)

(* The application makes one call after the other, each with one request   *)
(* at a time.                                                              *)
OneCall(reqs, ans) ==
  /\ \A r, q \in reqs : Awaited(r) /\ Awaited(q) => r = q
  /\ \A c, d \in Calls : ans[c] = "pending" /\ ans[d] = "pending" => c = d
  /\ \A r \in reqs : Awaited(r) => ans[r.call] = "pending"

(* Then the cursor has counted what the application read, has nothing more *)
(* to give once it was killed or told of the end, and was killed for a     *)
(* reason.                                                                 *)
Orderly(s, rd) ==
  /\ Len(rd) = s.current
  /\ s.index <= s.docs.size \/ s.killed
  /\ s.killed => s.docs.size = 0
  /\ s.notified => s.docs.size = 0 /\ s.index = 0
  /\ s.id = NoId => s.current = 0 /\ s.docs.size = 0 /\ s.index = 0
  /\ killed => s.killed
  /\ ~killed /\ (s.killed \/ s.dead)
       => s.notified \/ (setup.limit > 0 /\ s.current = setup.limit)

(* The request r of a cursor in state s. *)
InFlight(r, s) ==
  /\ Awaited(r) => ~s.notified
  /\ r.kind \in {"find", "getMore"} => s.session # "ended" /\ s.docs.size = 0 /\ s.index = 0
  /\ r.kind = "find" => s.id = NoId
  /\ r.kind = "find" /\ r.phase = "answered" => r.reply.id # NoId
  /\ r.kind = "getMore" => /\ r.batch > 0 /\ r.id = s.id
                           /\ setup.limit > 0 => s.current + r.batch <= setup.limit
                           /\ r.phase = "answered" /\ r.reply.found
                                => r.reply.id \in {Zero, s.id}

Ordered(s, reqs, rd, ans) ==
  OneCall(reqs, ans) /\ Orderly(s, rd) /\ \A r \in reqs : InFlight(r, s)

(* The server has handed out n documents on its cursor id. *)
At(id, n) ==
  /\ n <= setup.matched
  /\ id = Zero => n = setup.matched
  /\ id > 0 => position[id] \in {Closed, n}

(* The batch that is asked for follows the documents that were read.       *)
Follows(r, s) ==
  /\ r.kind = "getMore" /\ r.phase = "sent" => At(s.id, s.current)
  /\ r.kind \in {"find", "getMore"} /\ r.phase = "answered" =>
       IF r.reply.found
       THEN /\ r.reply.docs.first = s.current + 1
            /\ At(r.reply.id, s.current + r.reply.docs.size)
       ELSE r.kind = "getMore" /\ position[s.id] = Closed

(* What was read is the beginning of the result, and the buffer goes on    *)
(* where it ends.                                                          *)
ReadFits(s, rd) ==
  /\ rd = [k \in 1..s.current |-> k]
  /\ s.current <= setup.matched
  /\ ~s.killed /\ s.index < s.docs.size => s.docs.first + s.index = s.current + 1

(* The server goes on where the buffer ends. *)
BufferFits(s) == ~s.killed => At(s.id, s.current + (s.docs.size - s.index))

DataFits(s, reqs, rd) ==
  /\ ReadFits(s, rd)
  /\ (~\E r \in reqs : r.kind = "getMore" /\ r.phase = "answered") => BufferFits(s)
  /\ \A r \in reqs : Follows(r, s)

(* The invariant, of any state; "bad" says that calls of next overlapped.  *)
Good(s, reqs, rd, ans, bad) ==
  /\ CursorOK(s) /\ RequestsOK(reqs) /\ rd \in Seq(Nat) /\ ans \in [Calls -> Outcomes]
  /\ ~bad => Ordered(s, reqs, rd, ans)
  /\ ~bad /\ ~LostAnswers => DataFits(s, reqs, rd)

CursorInv == EnvironmentOK /\ Good(cursor, requests, read, answers, misused)

(* The same, when the request of the call c has just been answered.        *)
Ready(c, s, reqs, rd, ans, bad) ==
  /\ CursorOK(s) /\ RequestsOK(reqs) /\ rd \in Seq(Nat) /\ ans \in [Calls -> Outcomes]
  /\ ~bad => /\ NoneAwaited(reqs)
             /\ \A d \in Calls : ans[d] = "pending" => d = c
             /\ Orderly(s, rd)
  /\ ~bad /\ ~LostAnswers => ReadFits(s, rd) /\ BufferFits(s)

(***************************************************************************)
(* What a call may do                                                      *)
(***************************************************************************)

(* From the state s of the cursor the application reads on, or is told     *)
(* that there is nothing more.                                             *)
Reads(s) ==
  \/ read' = read /\ cursor'.notified = s.notified
  \/ /\ read' = read /\ ~s.notified /\ cursor'.notified
     /\ killed \/ Len(read) = Reader!Allowed
  \/ /\ ~killed /\ ~s.notified /\ ~cursor'.notified
     /\ \E n \in (Len(read) + 1)..Reader!Allowed : read' = [k \in 1..n |-> k]

(* The cursor of the server does not outlive that of the driver.           *)
Sweeps(s) ==
  ~s.dead /\ cursor'.dead /\ cursor'.init /\ cursor'.id > Zero
    => \E r \in requests' : r.kind = "kill" /\ r.id = cursor'.id

(* A good step from the state s: the invariant, and what it does.          *)
Keeps(s) ==
  /\ Good(cursor', requests', read', answers', misused')
  /\ Sweeps(s)
  /\ ~misused' /\ ~LostAnswers => Reads(s)

(***************************************************************************)
(* The cursor's states                                                     *)
(***************************************************************************)

LEMMA EmptyType == Empty \in Batches /\ Empty.size = 0 /\ Empty.first = 0
BY DEF Empty, Batches

LEMMA SessionEndedIs ==
  ASSUME NEW s \in CursorType
  PROVE  /\ SessionEnded(s) \in CursorType
         /\ SessionEnded(s).id = s.id /\ SessionEnded(s).docs = s.docs
         /\ SessionEnded(s).index = s.index /\ SessionEnded(s).current = s.current
         /\ SessionEnded(s).dead = s.dead /\ SessionEnded(s).killed = s.killed
         /\ SessionEnded(s).init = s.init /\ SessionEnded(s).notified = s.notified
         /\ SessionEnded(s).session # "own"
BY DEF CursorType, SessionEnded

LEMMA NotifiedIs ==
  ASSUME NEW s \in CursorType
  PROVE  /\ Notified(s) \in CursorType
         /\ Notified(s).id = s.id /\ Notified(s).docs.size = 0
         /\ Notified(s).index = 0 /\ Notified(s).current = s.current
         /\ Notified(s).dead = s.dead /\ Notified(s).killed = s.killed
         /\ Notified(s).init = s.init /\ Notified(s).notified
         /\ Notified(s).session # "own"
<1> DEFINE t == [s EXCEPT !.notified = TRUE, !.docs = Empty, !.index = 0]
<1>1. /\ t \in CursorType
      /\ t.id = s.id /\ t.docs = Empty /\ t.index = 0 /\ t.current = s.current
      /\ t.dead = s.dead /\ t.killed = s.killed /\ t.init = s.init /\ t.notified
  BY EmptyType DEF CursorType
<1>2. Notified(s) = SessionEnded(t)
  BY DEF Notified
<1> HIDE DEF t
<1> QED
  BY <1>1, <1>2, SessionEndedIs, EmptyType

LEMMA KilledIs ==
  ASSUME NEW s \in CursorType
  PROVE  /\ Killed(s) \in CursorType
         /\ Killed(s).id = s.id /\ Killed(s).docs.size = 0
         /\ Killed(s).index = s.index /\ Killed(s).current = s.current
         /\ Killed(s).dead /\ Killed(s).killed
         /\ Killed(s).init = s.init /\ Killed(s).notified = s.notified
         /\ Killed(s).session = s.session
BY EmptyType DEF CursorType, Killed

LEMMA NoReplyIs == NoReply \in Replies /\ NoReply.id = NoId /\ ~NoReply.found
<1>1. NoId \in NoId..MaxFinds
  BY CursorAssumption DEF NoId
<1> QED
  BY <1>1, EmptyType DEF NoReply, Replies

(* kill() sends a command for a cursor that the server may have.           *)
LEMMA KillSentIs ==
  ASSUME NEW s, CursorOK(s), NEW reqs, RequestsOK(reqs)
  PROVE  /\ RequestsOK(KillSent(s, reqs))
         /\ reqs \subseteq KillSent(s, reqs)
         /\ \A r \in KillSent(s, reqs) \ reqs : r.kind = "kill"
         /\ s.init /\ s.id > Zero => \E r \in KillSent(s, reqs) : r.kind = "kill" /\ r.id = s.id
<1> DEFINE k == [kind |-> "kill", id |-> s.id, call |-> NoCall, batch |-> 0,
                 phase |-> "sent", reply |-> NoReply]
<1>1. s.id \in NoId..MaxFinds
  BY DEF CursorOK, CursorType
<1>2. /\ k \in RequestType
      /\ k.kind = "kill" /\ k.id = s.id /\ k.reply = NoReply
  BY <1>1, NoReplyIs DEF RequestType
<1>3. KillSent(s, reqs) = IF s.id \in {NoId, Zero} \/ ~s.init THEN reqs ELSE reqs \cup {k}
  BY DEF KillSent
<1> HIDE DEF k
<1>4. CASE s.id \in {NoId, Zero} \/ ~s.init
  BY <1>3, <1>4, CursorAssumption DEF NoId, Zero
<1>5. CASE ~(s.id \in {NoId, Zero} \/ ~s.init)
  <2>1. s.id > 0
    BY <1>1, <1>5, CursorAssumption DEF NoId, Zero
  <2>2. RequestOK(k)
    BY <1>2, <2>1, NoReplyIs DEF RequestOK, NoId
  <2> QED
    BY <1>2, <1>3, <1>5, <2>2 DEF RequestsOK
<1> QED
  BY <1>4, <1>5

(***************************************************************************)
(* Answers and requests                                                    *)
(***************************************************************************)

LEMMA ReplyKeeps ==
  ASSUME NEW c \in Calls, NEW a \in Outcomes, a # "pending", NEW s, NEW reqs,
         Reply(c, a, s, reqs), Ready(c, s, reqs, read', answers, misused')
  PROVE  Good(cursor', requests', read', answers', misused')
<1>1. cursor' = s /\ requests' = reqs /\ answers' = [answers EXCEPT ![c] = a]
  BY DEF Reply
<1>2. /\ answers' \in [Calls -> Outcomes] /\ answers'[c] = a
      /\ \A d \in Calls \ {c} : answers'[d] = answers[d]
  BY <1>1 DEF Ready
<1>3. ASSUME ~misused'
      PROVE  Ordered(s, reqs, read', answers')
  <2>1. NoneAwaited(reqs) /\ Orderly(s, read')
    BY <1>3 DEF Ready
  <2>2. \A d \in Calls : answers'[d] # "pending"
    BY <1>2, <1>3 DEF Ready
  <2>3. OneCall(reqs, answers')
    BY <2>1, <2>2 DEF OneCall, NoneAwaited
  <2>4. \A r \in reqs : InFlight(r, s)
    BY <2>1 DEF NoneAwaited, Awaited, InFlight
  <2> QED
    BY <2>1, <2>3, <2>4 DEF Ordered
<1>4. ASSUME ~misused', ~LostAnswers
      PROVE  DataFits(s, reqs, read')
  BY <1>4 DEF Ready, DataFits, NoneAwaited, Awaited, Follows
<1> QED
  BY <1>1, <1>2, <1>3, <1>4 DEF Ready, Good

LEMMA AwaitKeeps ==
  ASSUME NEW c \in Calls, NEW kind \in {"select", "stored", "find", "getMore"}, NEW s,
         NEW batch \in Nat, NEW reqs, Await(kind, c, s, batch, reqs),
         Ready(c, s, reqs, read', answers, misused'),
         kind = "getMore" => s.id > 0,
         ~misused' =>
           /\ ~s.notified
           /\ kind \in {"find", "getMore"} =>
                s.session # "ended" /\ s.docs.size = 0 /\ s.index = 0
           /\ kind = "find" => s.id = NoId
           /\ kind = "getMore" =>
                /\ batch > 0 /\ ~s.killed
                /\ setup.limit > 0 => s.current + batch <= setup.limit
  PROVE  Good(cursor', requests', read', answers', misused')
<1> DEFINE new == [kind |-> kind, id |-> s.id, call |-> c, batch |-> batch,
                   phase |-> "sent", reply |-> NoReply]
<1>1. /\ cursor' = s /\ requests' = reqs \cup {new}
      /\ answers' = [answers EXCEPT ![c] = "pending"]
  BY DEF Await, Reply
<1>2. s.id \in NoId..MaxFinds
  BY DEF Ready, CursorOK, CursorType
<1>3. /\ new \in RequestType
      /\ new.kind = kind /\ new.id = s.id /\ new.call = c /\ new.batch = batch
      /\ new.phase = "sent" /\ new.reply = NoReply
  BY <1>2, NoReplyIs DEF RequestType
<1> HIDE DEF new
<1>4. RequestOK(new)
  BY <1>3, NoReplyIs DEF RequestOK, NoId
<1>5. RequestsOK(requests')
  BY <1>1, <1>4 DEF RequestsOK, Ready
<1>6. /\ answers' \in [Calls -> Outcomes] /\ answers'[c] = "pending"
      /\ \A d \in Calls \ {c} : answers'[d] = answers[d]
  BY <1>1 DEF Ready, Outcomes
<1>7. ASSUME ~misused'
      PROVE  Ordered(s, requests', read', answers')
  <2>1. NoneAwaited(reqs) /\ Orderly(s, read')
    BY <1>7 DEF Ready
  <2>2. \A d \in Calls : answers'[d] = "pending" => d = c
    BY <1>6, <1>7 DEF Ready
  <2>3. \A r \in requests' : Awaited(r) => r = new
    BY <1>1, <2>1 DEF NoneAwaited
  <2>4. OneCall(requests', answers')
    BY <1>3, <1>6, <2>2, <2>3 DEF OneCall
  <2>5. InFlight(new, s)
    BY <1>3, <1>7 DEF InFlight
  <2>6. \A r \in requests' : InFlight(r, s)
    <3>1. \A r : ~Awaited(r) => InFlight(r, s)
      BY DEF InFlight, Awaited
    <3> QED
      BY <2>3, <2>5, <3>1
  <2> QED
    BY <2>1, <2>4, <2>6 DEF Ordered
<1>8. ASSUME ~misused', ~LostAnswers
      PROVE  DataFits(s, requests', read')
  <2>1. NoneAwaited(reqs) /\ ReadFits(s, read') /\ BufferFits(s)
    BY <1>8 DEF Ready
  <2>2. ASSUME kind = "getMore"
        PROVE  At(s.id, s.current)
    <3>1. s.docs.size = 0 /\ s.index = 0 /\ ~s.killed
      BY <1>8, <2>2
    <3>2. s.current \in Nat
      BY DEF Ready, CursorOK, CursorType
    <3>3. s.current + (s.docs.size - s.index) = s.current
      BY <3>1, <3>2
    <3> QED
      BY <2>1, <3>1, <3>3 DEF BufferFits
  <2>3. Follows(new, s)
    BY <1>3, <2>2 DEF Follows
  <2>4. \A r \in requests' : Follows(r, s)
    BY <1>1, <2>1, <2>3 DEF Follows, NoneAwaited, Awaited
  <2>5. BufferFits(s) /\ ReadFits(s, read')
    BY <2>1
  <2> QED
    BY <2>4, <2>5 DEF DataFits
<1> QED
  BY <1>1, <1>5, <1>6, <1>7, <1>8 DEF Ready, Good

(* Nothing happened to the cursor but that the call was answered or goes on. *)
LEMMA SamePasses ==
  ASSUME NEW s, NEW t, cursor' = t, read' = read, t.notified = s.notified,
         ~s.dead /\ t.dead /\ t.init /\ t.id > Zero
           => \E r \in requests' : r.kind = "kill" /\ r.id = t.id,
         Good(cursor', requests', read', answers', misused')
  PROVE  Keeps(s)
BY DEF Keeps, Sweeps, Reads

(* Commands are not sent in a session that ended. *)
LEMMA CommandKeeps ==
  ASSUME NEW c \in Calls, NEW kind \in {"find", "getMore"}, NEW s, NEW t,
         NEW batch \in Nat, NEW reqs, Command(kind, c, t, batch, reqs),
         read' = read, t.notified = s.notified, t.dead = s.dead,
         Ready(c, t, reqs, read, answers, misused'),
         kind = "getMore" => t.id > 0,
         ~misused' =>
           /\ ~t.notified /\ t.docs.size = 0 /\ t.index = 0
           /\ kind = "find" => t.id = NoId
           /\ kind = "getMore" =>
                /\ batch > 0 /\ ~t.killed
                /\ setup.limit > 0 => t.current + batch <= setup.limit
  PROVE  Keeps(s)
<1>1. cursor' = t
  BY DEF Command, Reply, Await
<1>2. Ready(c, t, reqs, read', answers, misused')
  OBVIOUS
<1>3. CASE t.session = "ended" /\ Reply(c, "error", t, reqs)
  <2>1. "error" \in Outcomes
    BY DEF Outcomes
  <2>2. Good(cursor', requests', read', answers', misused')
    BY <1>2, <1>3, <2>1, ReplyKeeps
  <2> QED
    BY <1>1, <2>2, SamePasses
<1>4. CASE t.session # "ended" /\ Await(kind, c, t, batch, reqs)
  <2>1. Good(cursor', requests', read', answers', misused')
    BY <1>2, <1>4, AwaitKeeps
  <2> QED
    BY <1>1, <2>1, SamePasses
<1> QED
  BY <1>3, <1>4 DEF Command

LEMMA InitializeKeeps ==
  ASSUME NEW c \in Calls, NEW s, NEW reqs, Ready(c, s, reqs, read, answers, misused'),
         ~s.notified, InitializeCursor(c, s, reqs), read' = read
  PROVE  Keeps(s)
<1>1. cursor' = s
  BY DEF InitializeCursor, Reply, Await
<1>2. Ready(c, s, reqs, read', answers, misused')
  OBVIOUS
<1>3. "error" \in Outcomes
  BY DEF Outcomes
<1>4. Good(cursor', requests', read', answers', misused')
  <2>1. CASE Reply(c, "error", s, reqs)
    BY <1>2, <1>3, <2>1, ReplyKeeps
  <2>2. ASSUME NEW kind \in {"select", "stored"}, Await(kind, c, s, 0, reqs)
        PROVE  Good(cursor', requests', read', answers', misused')
    BY <1>2, <2>2, AwaitKeeps
  <2> QED
    BY <2>1, <2>2 DEF InitializeCursor
<1> QED
  BY <1>1, <1>4, SamePasses

(***************************************************************************)
(* next                                                                    *)
(***************************************************************************)

LEMMA OutcomesAre ==
  \A a \in {"document", "null", "exhausted", "error", "threw", "tailed"} :
    a \in Outcomes /\ a # "pending"
BY DEF Outcomes

LEMMA SetupTypes ==
  ASSUME EnvironmentOK
  PROVE  /\ setup.limit \in Nat /\ setup.matched \in Nat /\ setup.batch \in Nat \ {0}
         /\ setup.tailable \in BOOLEAN
         /\ MaxFinds \in Nat /\ MaxFinds # 0 /\ killed \in BOOLEAN
<1>1. /\ setup.limit \in Limits /\ setup.batch \in BatchSizes /\ setup.matched \in Results
      /\ setup.tailable \in BOOLEAN
  BY DEF EnvironmentOK
<1>2. Limits \subseteq Nat /\ BatchSizes \subseteq Nat \ {0} /\ Results \subseteq Nat
  BY CursorAssumption
<1>3. MaxFinds \in Nat /\ MaxFinds # 0 /\ killed \in BOOLEAN
  BY CursorAssumption DEF EnvironmentOK
<1> QED
  BY <1>1, <1>2, <1>3

LEMMA CursorTypes ==
  ASSUME NEW s \in CursorType
  PROVE  /\ s.id \in NoId..MaxFinds /\ s.id \in Int /\ s.docs \in Batches
         /\ s.docs.size \in Nat /\ s.docs.first \in Nat
         /\ s.index \in Nat /\ s.current \in Nat
         /\ s.dead \in BOOLEAN /\ s.killed \in BOOLEAN /\ s.init \in BOOLEAN
         /\ s.notified \in BOOLEAN
BY CursorAssumption DEF CursorType, Batches, NoId

(* At the limit everything that is allowed was read.                       *)
LEMMA AllowedAtLimit ==
  ASSUME EnvironmentOK, NEW s, CursorOK(s), Orderly(s, read), ReadFits(s, read),
         setup.limit > 0, s.current >= setup.limit
  PROVE  Len(read) = Reader!Allowed
<1>1. Len(read) = s.current /\ s.current <= setup.limit /\ s.current <= setup.matched
  BY DEF CursorOK, Orderly, ReadFits
<1>2. Reader!Allowed = IF setup.limit > 0 /\ setup.limit < setup.matched
                       THEN setup.limit ELSE setup.matched
  BY DEF Reader!Allowed
<1>3. s.current \in Nat /\ setup.limit \in Nat /\ setup.matched \in Nat
  BY CursorTypes, SetupTypes DEF CursorOK
<1> QED
  BY <1>1, <1>2, <1>3

(* ... and so it is when the whole result was.                             *)
LEMMA AllowedAtEnd ==
  ASSUME EnvironmentOK, NEW s, CursorOK(s), Orderly(s, read), s.current = setup.matched
  PROVE  Len(read) = Reader!Allowed
<1>1. Len(read) = s.current /\ (setup.limit > 0 => s.current <= setup.limit)
  BY DEF CursorOK, Orderly
<1>2. Reader!Allowed = IF setup.limit > 0 /\ setup.limit < setup.matched
                       THEN setup.limit ELSE setup.matched
  BY DEF Reader!Allowed
<1>3. s.current \in Nat /\ setup.limit \in Nat /\ setup.matched \in Nat
  BY CursorTypes, SetupTypes DEF CursorOK
<1> QED
  BY <1>1, <1>2, <1>3

(* The call is answered and nothing else happens. *)
LEMMA SameKeeps ==
  ASSUME NEW c \in Calls, NEW a \in Outcomes, a # "pending", NEW s, NEW t, NEW reqs,
         Ready(c, t, reqs, read, answers, misused'), Reply(c, a, t, reqs), read' = read,
         t.notified = s.notified, t.dead = s.dead
  PROVE  Keeps(s)
<1>1. cursor' = t /\ Ready(c, t, reqs, read', answers, misused')
  BY DEF Reply
<1>2. Good(cursor', requests', read', answers', misused')
  BY <1>1, ReplyKeeps
<1> QED
  BY <1>1, <1>2, SamePasses

(* The application is told that there is nothing more: u is the state that *)
(* the cursor is in then.                                                  *)
LEMMA EndKeeps ==
  ASSUME EnvironmentOK, NEW c \in Calls, NEW a \in Outcomes, a # "pending",
         NEW s, NEW reqs, Ready(c, s, reqs, read, answers, misused'),
         ~misused' => ~s.notified, NEW u, CursorOK(u), u.id = s.id, u.current = s.current, u.init = s.init,
         s.killed => u.killed,
         NEW left, RequestsOK(left), ~misused' => NoneAwaited(left),
         Reply(c, a, Notified(u), left), read' = read,
         ~misused' /\ ~LostAnswers =>
           /\ killed \/ Len(read) = Reader!Allowed
           /\ ~u.killed => At(s.id, s.current),
         ~s.dead /\ u.dead /\ s.init /\ s.id > Zero
           => \E r \in left : r.kind = "kill" /\ r.id = s.id
  PROVE  Keeps(s)
<1> DEFINE n == Notified(u)
<1>1. /\ n \in CursorType
      /\ n.id = s.id /\ n.docs.size = 0 /\ n.index = 0 /\ n.current = s.current
      /\ n.dead = u.dead /\ n.killed = u.killed /\ n.init = s.init /\ n.notified
      /\ n.session # "own"
  BY NotifiedIs DEF CursorOK
<1>2. cursor' = n /\ requests' = left /\ Reply(c, a, n, left)
  BY DEF Reply
<1> HIDE DEF n
<1>3. CursorOK(n)
  BY <1>1 DEF CursorOK, Ready
<1>4. ~misused' => Orderly(n, read)
  BY <1>1 DEF Ready, Orderly
<1>5. ~misused' /\ ~LostAnswers => ReadFits(n, read) /\ BufferFits(n)
  <2> SUFFICES ASSUME ~misused', ~LostAnswers
               PROVE  ReadFits(n, read) /\ BufferFits(n)
    OBVIOUS
  <2>1. ReadFits(n, read)
    BY <1>1 DEF Ready, ReadFits
  <2>2. s.current \in Nat
    BY CursorTypes DEF Ready, CursorOK
  <2>3. n.current + (n.docs.size - n.index) = s.current
    BY <1>1, <2>2
  <2>4. BufferFits(n)
    BY <1>1, <2>3 DEF BufferFits
  <2> QED
    BY <2>1, <2>4
<1>6. Ready(c, n, left, read', answers, misused')
  BY <1>3, <1>4, <1>5 DEF Ready
<1>7. Good(cursor', requests', read', answers', misused')
  BY <1>2, <1>6, ReplyKeeps
<1>8. Sweeps(s)
  BY <1>1, <1>2 DEF Sweeps
<1>9. ~misused' /\ ~LostAnswers => Reads(s)
  BY <1>1, <1>2 DEF Reads
<1> QED
  BY <1>7, <1>8, <1>9 DEF Keeps

(* A cursor that died was killed by the application, or had given all.     *)
LEMMA AllowedWhenDead ==
  ASSUME EnvironmentOK, NEW c, NEW s, NEW reqs, Ready(c, s, reqs, read, answers, misused'),
         ~misused', ~LostAnswers, ~s.notified, s.killed \/ s.dead
  PROVE  killed \/ Len(read) = Reader!Allowed
<1> SUFFICES ASSUME ~killed PROVE Len(read) = Reader!Allowed
  OBVIOUS
<1>1. CursorOK(s) /\ Orderly(s, read) /\ ReadFits(s, read)
  BY DEF Ready
<1>2. setup.limit > 0 /\ s.current = setup.limit
  BY <1>1 DEF Orderly
<1>3. s.current >= setup.limit
  BY <1>2, SetupTypes
<1> QED
  BY <1>1, <1>2, <1>3, AllowedAtLimit

(* A cursor that was killed before. *)
LEMMA DeadKeeps ==
  ASSUME EnvironmentOK, NEW c \in Calls, NEW s, NEW reqs,
         Ready(c, s, reqs, read, answers, misused'), ~s.notified, s.killed \/ s.dead,
         Reply(c, "null", Notified([s EXCEPT !.killed = TRUE]), reqs), read' = read
  PROVE  Keeps(s)
<1> DEFINE u == [s EXCEPT !.killed = TRUE]
<1>1. /\ u \in CursorType /\ u.id = s.id /\ u.current = s.current /\ u.init = s.init
      /\ u.killed /\ u.dead = s.dead /\ u.notified = s.notified /\ u.session = s.session
  BY DEF Ready, CursorOK, CursorType
<1> HIDE DEF u
<1>2. CursorOK(u) /\ CursorOK(s)
  BY <1>1 DEF Ready, CursorOK
<1>3. ~misused' /\ ~LostAnswers => killed \/ Len(read) = Reader!Allowed
  BY AllowedWhenDead
<1>4. RequestsOK(reqs) /\ (~misused' => NoneAwaited(reqs))
  BY DEF Ready
<1>5. Reply(c, "null", Notified(u), reqs)
  BY DEF u
<1> QED
  BY <1>1, <1>2, <1>3, <1>4, <1>5, EndKeeps, OutcomesAre

(* A cursor that has given as much as its limit. *)
LEMMA LimitKeeps ==
  ASSUME EnvironmentOK, NEW c \in Calls, NEW s, NEW reqs,
         Ready(c, s, reqs, read, answers, misused'), ~s.notified, AtLimit(s),
         Reply(c, "null", Notified(Killed(s)), KillSent(s, reqs)), read' = read
  PROVE  Keeps(s)
<1> DEFINE u == Killed(s)
           left == KillSent(s, reqs)
<1>1. CursorOK(s) /\ RequestsOK(reqs)
  BY DEF Ready
<1>2. /\ u \in CursorType /\ u.id = s.id /\ u.current = s.current /\ u.init = s.init
      /\ u.killed /\ u.dead /\ u.notified = s.notified /\ u.session = s.session
  BY <1>1, KilledIs DEF CursorOK
<1>3. /\ RequestsOK(left)
      /\ \A r \in left \ reqs : r.kind = "kill"
      /\ s.init /\ s.id > Zero => \E r \in left : r.kind = "kill" /\ r.id = s.id
  BY <1>1, KillSentIs
<1>4. Reply(c, "null", Notified(u), left)
  OBVIOUS
<1> HIDE DEF u, left
<1>5. CursorOK(u)
  BY <1>1, <1>2 DEF CursorOK
<1>6. ~misused' => NoneAwaited(left)
  BY <1>3 DEF Ready, NoneAwaited, Awaited
<1>7. ~misused' /\ ~LostAnswers => Len(read) = Reader!Allowed
  BY <1>1, AllowedAtLimit DEF Ready, AtLimit
<1> QED
  BY <1>2, <1>3, <1>4, <1>5, <1>6, <1>7, EndKeeps, OutcomesAre

(* A cursor whose buffer is empty: it asks for more, or there is no more.  *)
LEMMA NoneBufferedKeeps ==
  ASSUME EnvironmentOK, NEW c \in Calls, NEW s, NEW reqs,
         Ready(c, s, reqs, read, answers, misused'), ~s.notified, ~s.killed, ~s.dead,
         ~AtLimit(s), s.index = s.docs.size, NoneBuffered(c, s, reqs), read' = read
  PROVE  Keeps(s)
<1> DEFINE emptied == [s EXCEPT !.docs = Empty, !.index = 0]
           over == [s EXCEPT !.dead = TRUE]
<1>1. s \in CursorType /\ CursorOK(s) /\ RequestsOK(reqs)
  BY DEF Ready, CursorOK
<1>2. /\ emptied \in CursorType /\ emptied.id = s.id /\ emptied.current = s.current
      /\ emptied.docs.size = 0 /\ emptied.index = 0 /\ emptied.init = s.init
      /\ emptied.killed = s.killed /\ emptied.dead = s.dead
      /\ emptied.notified = s.notified /\ emptied.session = s.session
  BY <1>1, EmptyType DEF CursorType
<1>3. /\ over \in CursorType /\ over.id = s.id /\ over.current = s.current
      /\ over.init = s.init /\ over.killed = s.killed /\ over.notified = s.notified
      /\ over.session = s.session
  BY <1>1 DEF CursorType
<1>4. \/ s.id = NoId /\ Reply(c, "threw", s, reqs)
      \/ s.id > Zero /\ Reply(c, "error", emptied, reqs)
      \/ s.id > Zero /\ Command("getMore", c, emptied, BatchSize(s), reqs)
      \/ s.id = Zero /\ Reply(c, "tailed", s, reqs)
      \/ s.id = Zero /\ Reply(c, "null", Notified(over), reqs)
  BY DEF NoneBuffered
<1> HIDE DEF emptied, over
<1>5. s.current \in Nat /\ s.docs.size \in Nat /\ s.index \in Nat /\ setup.limit \in Nat
      /\ setup.batch \in Nat \ {0} /\ setup.matched \in Nat
  BY <1>1, CursorTypes, SetupTypes
<1>6. s.current + (s.docs.size - s.index) = s.current
  BY <1>5
<1>7. Ready(c, emptied, reqs, read, answers, misused')
  <2>1. CursorOK(emptied)
    BY <1>1, <1>2 DEF CursorOK
  <2>2. ~misused' => Orderly(emptied, read)
    BY <1>2 DEF Ready, Orderly
  <2>3. emptied.current + (emptied.docs.size - emptied.index) = s.current
    BY <1>2, <1>5
  <2>4. ~misused' /\ ~LostAnswers => ReadFits(emptied, read) /\ BufferFits(emptied)
    <3>1. ~misused' /\ ~LostAnswers => ReadFits(emptied, read)
      BY <1>2 DEF Ready, ReadFits
    <3>2. ~misused' /\ ~LostAnswers => BufferFits(emptied)
      BY <1>2, <1>6, <2>3 DEF Ready, BufferFits
    <3> QED
      BY <3>1, <3>2
  <2> QED
    BY <2>1, <2>2, <2>4 DEF Ready
<1>8. CASE Reply(c, "threw", s, reqs) \/ Reply(c, "tailed", s, reqs)
  BY <1>8, SameKeeps, OutcomesAre
<1>9. CASE Reply(c, "error", emptied, reqs)
  BY <1>2, <1>7, <1>9, SameKeeps, OutcomesAre
<1>10. CASE s.id > Zero /\ Command("getMore", c, emptied, BatchSize(s), reqs)
  <2>1. setup.limit > 0 => s.current < setup.limit
    BY <1>5 DEF AtLimit
  <2>2. /\ BatchSize(s) \in Nat /\ BatchSize(s) > 0
        /\ setup.limit > 0 => s.current + BatchSize(s) <= setup.limit
    BY <1>5, <2>1 DEF BatchSize
  <2>3. emptied.id > 0
    BY <1>2, <1>10 DEF Zero
  <2>4. setup.limit > 0 => emptied.current + BatchSize(s) <= setup.limit
    BY <1>2, <2>2
  <2> DEFINE batch == BatchSize(s)
  <2> HIDE DEF batch
  <2>5. batch \in Nat /\ batch > 0 /\ ~emptied.killed
        /\ (setup.limit > 0 => emptied.current + batch <= setup.limit)
        /\ Command("getMore", c, emptied, batch, reqs)
    BY <1>2, <1>10, <2>2, <2>4 DEF batch
  <2> QED
    BY <1>2, <1>7, <2>3, <2>5, CommandKeeps
<1>11. CASE s.id = Zero /\ Reply(c, "null", Notified(over), reqs)
  <2>1. CursorOK(over)
    BY <1>1, <1>3 DEF CursorOK
  <2>2. ~misused' /\ ~LostAnswers => At(s.id, s.current)
    BY <1>6 DEF Ready, BufferFits
  <2>3. ~misused' /\ ~LostAnswers => Len(read) = Reader!Allowed
    <3> SUFFICES ASSUME ~misused', ~LostAnswers PROVE Len(read) = Reader!Allowed
      OBVIOUS
    <3>1. s.current = setup.matched
      BY <1>11, <2>2 DEF At
    <3>2. Orderly(s, read)
      BY DEF Ready
    <3> QED
      BY <1>1, <3>1, <3>2, AllowedAtEnd
  <2>4. ~(s.id > Zero)
    BY <1>11 DEF Zero
  <2>5. ~misused' => NoneAwaited(reqs)
    BY DEF Ready
  <2> QED
    BY <1>1, <1>3, <1>11, <2>1, <2>2, <2>3, <2>4, <2>5, EndKeeps, OutcomesAre
<1> QED
  BY <1>4, <1>8, <1>9, <1>10, <1>11

(* The next document of the buffer is given, with the invariant. *)
LEMMA TakenReady ==
  ASSUME EnvironmentOK, NEW c \in Calls, NEW s, NEW reqs, NEW t,
         Ready(c, s, reqs, read, answers, misused'), ~AtLimit(s), s.index < s.docs.size,
         t \in CursorType, t.id = s.id, t.docs = s.docs, t.index = s.index + 1,
         t.current = s.current + 1, t.dead = s.dead, t.killed = s.killed,
         t.init = s.init, t.notified = s.notified, t.session = s.session,
         read' = Append(read, s.docs.first + s.index)
  PROVE  Ready(c, t, reqs, read', answers, misused')
<1>1. /\ s \in CursorType /\ CursorOK(s) /\ RequestsOK(reqs) /\ read \in Seq(Nat)
      /\ answers \in [Calls -> Outcomes]
  BY DEF Ready, CursorOK
<1>2. /\ s.current \in Nat /\ s.docs.size \in Nat /\ s.docs.first \in Nat /\ s.index \in Nat
      /\ setup.limit \in Nat /\ setup.matched \in Nat /\ s.id \in Int
  BY <1>1, CursorTypes, SetupTypes
<1>3. setup.limit > 0 => s.current + 1 <= setup.limit
  BY <1>2 DEF AtLimit
<1>4. CursorOK(t)
  BY <1>1, <1>3 DEF CursorOK
<1>5. read' \in Seq(Nat) /\ Len(read') = Len(read) + 1
  <2>1. s.docs.first + s.index \in Nat
    BY <1>2
  <2> QED
    BY <1>1, <2>1
<1>6. ASSUME ~misused'
      PROVE  Orderly(t, read')
  <2>1. Orderly(s, read)
    BY <1>6 DEF Ready
  <2>2. s.docs.size # 0
    BY <1>2
  <2>3. ~s.killed /\ ~s.notified /\ s.id # NoId /\ ~killed
    BY <2>1, <2>2 DEF Orderly
  <2>4. ~s.dead
    <3>1. ~(setup.limit > 0 /\ s.current = setup.limit)
      BY <1>2 DEF AtLimit
    <3> QED
      BY <2>1, <2>3, <3>1 DEF Orderly
  <2>5. s.index + 1 <= s.docs.size /\ Len(read) = s.current
    BY <1>2, <2>1 DEF Orderly
  <2> QED
    BY <1>5, <2>3, <2>4, <2>5 DEF Orderly
<1>7. ASSUME ~misused', ~LostAnswers
      PROVE  ReadFits(t, read') /\ BufferFits(t)
  <2>1. Orderly(s, read) /\ ReadFits(s, read) /\ BufferFits(s)
    BY <1>7 DEF Ready
  <2>2. ~s.killed
    <3>1. s.docs.size # 0
      BY <1>2
    <3> QED
      BY <2>1, <3>1 DEF Orderly
  <2>3. s.docs.first + s.index = s.current + 1
    BY <2>1, <2>2 DEF ReadFits
  <2>4. At(s.id, s.current + (s.docs.size - s.index))
    BY <2>1, <2>2 DEF BufferFits
  <2>5. s.current + 1 <= setup.matched
    BY <1>2, <2>4 DEF At
  <2>6. read = [k \in 1..s.current |-> k]
    BY <2>1 DEF ReadFits
  <2>7. read' = [k \in 1..(s.current + 1) |-> k]
    <3>1. read' = Append([k \in 1..s.current |-> k], s.current + 1)
      BY <2>3, <2>6
    <3> DEFINE n == s.current
    <3>2. n \in Nat
      BY <1>2
    <3> HIDE DEF n
    <3>3. Append([k \in 1..n |-> k], n + 1) = [k \in 1..(n + 1) |-> k]
      BY <3>2
    <3> QED
      BY <3>1, <3>3 DEF n
  <2> DEFINE a == s.current
             b == s.docs.size
             f == s.docs.first
             i == s.index
  <2>12. a \in Nat /\ b \in Nat /\ f \in Nat /\ i \in Nat /\ f + i = a + 1
    BY <1>2, <2>3
  <2>13. t.current = a + 1 /\ t.docs.size = b /\ t.docs.first = f /\ t.index = i + 1
    OBVIOUS
  <2> HIDE DEF a, b, f, i
  <2>8. t.docs.first + t.index = t.current + 1
    <3>1. f + (i + 1) = (a + 1) + 1
      BY <2>12
    <3> QED
      BY <2>13, <3>1
  <2>9. t.current + (t.docs.size - t.index) = s.current + (s.docs.size - s.index)
    <3>1. (a + 1) + (b - (i + 1)) = a + (b - i)
      BY <2>12
    <3> QED
      BY <2>13, <3>1 DEF a, b, i
  <2>10. ReadFits(t, read')
    BY <2>5, <2>7, <2>8 DEF ReadFits
  <2>11. BufferFits(t)
    BY <2>4, <2>9 DEF BufferFits
  <2> QED
    BY <2>10, <2>11
<1> QED
  BY <1>1, <1>4, <1>5, <1>6, <1>7 DEF Ready

(* A document is taken from the buffer.  Past its end, when calls          *)
(* overlapped, the cursor is killed.                                       *)
LEMMA BufferedKeeps ==
  ASSUME EnvironmentOK, NEW c \in Calls, NEW s, NEW reqs,
         Ready(c, s, reqs, read, answers, misused'), ~s.notified, ~s.killed, ~s.dead,
         ~AtLimit(s), Buffered(c, s, reqs)
  PROVE  Keeps(s)
<1> DEFINE taken == [s EXCEPT !.current = @ + 1, !.index = @ + 1]
<1>1. s \in CursorType /\ CursorOK(s) /\ RequestsOK(reqs)
  BY DEF Ready, CursorOK
<1>2. /\ s.current \in Nat /\ s.docs.size \in Nat /\ s.index \in Nat /\ setup.limit \in Nat
      /\ setup.matched \in Nat
  BY <1>1, CursorTypes, SetupTypes
<1>3. /\ taken \in CursorType /\ taken.id = s.id /\ taken.docs = s.docs
      /\ taken.index = s.index + 1 /\ taken.current = s.current + 1
      /\ taken.init = s.init /\ taken.killed = s.killed /\ taken.dead = s.dead
      /\ taken.notified = s.notified /\ taken.session = s.session
  <2>1. s.current + 1 \in Nat /\ s.index + 1 \in Nat
    BY <1>2
  <2> DEFINE m == s.current + 1
             i == s.index + 1
  <2>2. m \in Nat /\ i \in Nat /\ taken = [s EXCEPT !.current = m, !.index = i]
    BY <2>1
  <2> HIDE DEF m, i, taken
  <2>3. /\ taken \in CursorType /\ taken.id = s.id /\ taken.docs = s.docs
        /\ taken.index = i /\ taken.current = m
        /\ taken.init = s.init /\ taken.killed = s.killed /\ taken.dead = s.dead
        /\ taken.notified = s.notified /\ taken.session = s.session
    BY <1>1, <2>2 DEF CursorType
  <2> QED
    BY <2>3 DEF m, i
<1>4. \/ /\ s.index < s.docs.size /\ read' = Append(read, s.docs.first + s.index)
         /\ Reply(c, "document", taken, reqs)
      \/ /\ s.index > s.docs.size /\ read' = read
         /\ Reply(c, "error", Notified(Killed(taken)), KillSent(taken, reqs))
  BY DEF Buffered
<1> HIDE DEF taken
<1>5. CASE /\ s.index < s.docs.size /\ read' = Append(read, s.docs.first + s.index)
           /\ Reply(c, "document", taken, reqs)
  <2>1. Ready(c, taken, reqs, read', answers, misused')
    BY <1>3, <1>5, TakenReady
  <2>2. Good(cursor', requests', read', answers', misused')
    BY <1>5, <2>1, ReplyKeeps, OutcomesAre
  <2>3. cursor' = taken
    BY <1>5 DEF Reply
  <2>4. Sweeps(s)
    BY <1>3, <2>3 DEF Sweeps
  <2>5. ASSUME ~misused', ~LostAnswers
        PROVE  Reads(s)
    <3>1. Orderly(s, read) /\ Orderly(taken, read') /\ ReadFits(taken, read')
      BY <2>1, <2>5 DEF Ready
    <3>2. ~killed
      <4>1. s.docs.size # 0
        BY <1>2, <1>5
      <4> QED
        BY <3>1, <4>1 DEF Orderly
    <3>3. Len(read) = s.current
      BY <3>1 DEF Orderly
    <3>4. /\ read' = [k \in 1..(s.current + 1) |-> k] /\ s.current + 1 <= setup.matched
      BY <1>3, <3>1 DEF ReadFits
    <3>5. setup.limit > 0 => s.current + 1 <= setup.limit
      BY <1>2 DEF AtLimit
    <3>6. Reader!Allowed = IF setup.limit > 0 /\ setup.limit < setup.matched
                           THEN setup.limit ELSE setup.matched
      BY DEF Reader!Allowed
    <3>7. s.current + 1 \in (Len(read) + 1)..Reader!Allowed
      BY <1>2, <3>3, <3>4, <3>5, <3>6
    <3> QED
      BY <1>3, <2>3, <3>2, <3>4, <3>7 DEF Reads
  <2> QED
    BY <2>2, <2>4, <2>5 DEF Keeps
<1>6. CASE /\ s.index > s.docs.size /\ read' = read
           /\ Reply(c, "error", Notified(Killed(taken)), KillSent(taken, reqs))
  <2> DEFINE u == Killed(taken)
             left == KillSent(taken, reqs)
             n == Notified(u)
  <2>1. misused'
    <3>1. ~(s.index <= s.docs.size)
      BY <1>2, <1>6
    <3> QED
      BY <3>1 DEF Ready, Orderly
  <2>2. setup.limit > 0 => s.current + 1 <= setup.limit
    BY <1>2 DEF AtLimit
  <2>3. CursorOK(taken)
    BY <1>1, <1>3, <2>2 DEF CursorOK
  <2>4. /\ u \in CursorType /\ u.id = s.id /\ u.current = s.current + 1
        /\ u.notified = s.notified /\ u.session = s.session /\ u.init = s.init
    BY <1>3, KilledIs
  <2>5. /\ RequestsOK(left)
        /\ taken.init /\ taken.id > Zero => \E r \in left : r.kind = "kill" /\ r.id = taken.id
    BY <1>1, <2>3, SetupTypes, KillSentIs
  <2> HIDE DEF u, left
  <2>6. /\ n \in CursorType /\ n.id = s.id /\ n.current = s.current + 1 /\ n.notified
        /\ n.init = s.init /\ n.session # "own"
    BY <2>4, NotifiedIs
  <2>7. Reply(c, "error", n, left)
    BY <1>6 DEF u, left
  <2> HIDE DEF n
  <2>8. CursorOK(n)
    BY <1>1, <2>2, <2>6 DEF CursorOK
  <2>9. Ready(c, n, left, read', answers, misused')
    BY <1>6, <2>1, <2>5, <2>8 DEF Ready
  <2>10. Good(cursor', requests', read', answers', misused')
    BY <2>7, <2>9, ReplyKeeps, OutcomesAre
  <2>11. Sweeps(s)
    BY <1>3, <2>5, <2>6, <2>7 DEF Sweeps, Reply
  <2> QED
    BY <2>1, <2>10, <2>11 DEF Keeps
<1> QED
  BY <1>4, <1>5, <1>6

(* A call of next, or the part of one that is left after an answer. *)
LEMMA NextFunctionKeeps ==
  ASSUME EnvironmentOK, NEW c \in Calls, NEW s, NEW reqs,
         Ready(c, s, reqs, read, answers, misused'), NextFunction(c, s, reqs)
  PROVE  Keeps(s)
<1>1. s \in CursorType
  BY DEF Ready, CursorOK
<1>2. /\ s.notified \in BOOLEAN /\ s.killed \in BOOLEAN /\ s.dead \in BOOLEAN
      /\ s.index \in Nat /\ s.docs.size \in Nat
  BY <1>1, CursorTypes
<1> DEFINE live == ~s.notified /\ ~s.killed /\ ~s.dead
<1>3. CASE s.notified /\ Reply(c, "exhausted", s, reqs) /\ read' = read
  BY <1>3, SameKeeps, OutcomesAre
<1>4. CASE /\ ~s.notified /\ (s.killed \/ s.dead)
           /\ Reply(c, "null", Notified([s EXCEPT !.killed = TRUE]), reqs) /\ read' = read
  BY <1>4, DeadKeeps
<1>5. CASE live /\ ~s.init /\ InitializeCursor(c, s, reqs) /\ read' = read
  BY <1>1, <1>5, InitializeKeeps
<1>6. CASE /\ live /\ s.init /\ AtLimit(s) /\ read' = read
           /\ Reply(c, "null", Notified(Killed(s)), KillSent(s, reqs))
  BY <1>6, LimitKeeps
<1>7. CASE /\ live /\ s.init /\ ~AtLimit(s) /\ s.index = s.docs.size
           /\ NoneBuffered(c, s, reqs) /\ read' = read
  BY <1>7, NoneBufferedKeeps
<1>8. CASE live /\ s.init /\ ~AtLimit(s) /\ s.index # s.docs.size /\ Buffered(c, s, reqs)
  BY <1>8, BufferedKeeps
<1> QED
  BY <1>3, <1>4, <1>5, <1>6, <1>7, <1>8 DEF NextFunction

LEMMA KeepsFrom ==
  ASSUME NEW s, NEW t, t.dead = s.dead, t.notified = s.notified, Keeps(t)
  PROVE  Keeps(s)
BY DEF Keeps, Sweeps, Reads

LEMMA SessionEndedReady ==
  ASSUME NEW c \in Calls, NEW s, NEW reqs, Ready(c, s, reqs, read, answers, misused')
  PROVE  Ready(c, SessionEnded(s), reqs, read, answers, misused')
<1> DEFINE e == SessionEnded(s)
<1>1. /\ e \in CursorType
      /\ e.id = s.id /\ e.docs = s.docs /\ e.index = s.index /\ e.current = s.current
      /\ e.dead = s.dead /\ e.killed = s.killed /\ e.init = s.init /\ e.notified = s.notified
      /\ e.session # "own"
  BY SessionEndedIs DEF Ready, CursorOK
<1> HIDE DEF e
<1>2. CursorOK(e)
  BY <1>1 DEF Ready, CursorOK
<1>3. ~misused' => Orderly(e, read)
  BY <1>1 DEF Ready, Orderly
<1>4. ~misused' /\ ~LostAnswers => ReadFits(e, read) /\ BufferFits(e)
  BY <1>1 DEF Ready, ReadFits, BufferFits
<1>5. Ready(c, e, reqs, read, answers, misused')
  BY <1>2, <1>3, <1>4 DEF Ready
<1> QED
  BY <1>5 DEF e

(* The end of initializeCursor. *)
LEMMA DoneKeeps ==
  ASSUME EnvironmentOK, NEW c \in Calls, NEW s, NEW reqs,
         Ready(c, s, reqs, read, answers, misused'), ~misused' => ~s.notified,
         Done(c, s, reqs)
  PROVE  Keeps(s)
<1> DEFINE ended == IF s.id = Zero THEN SessionEnded(s) ELSE s
<1>1. s \in CursorType /\ CursorOK(s) /\ RequestsOK(reqs)
  BY DEF Ready, CursorOK
<1>2. /\ ended \in CursorType /\ ended.id = s.id /\ ended.current = s.current
      /\ ended.init = s.init /\ ended.killed = s.killed /\ ended.dead = s.dead
      /\ ended.notified = s.notified
  BY <1>1, SessionEndedIs
<1>3. Ready(c, ended, reqs, read, answers, misused')
  BY SessionEndedReady
<1>4. CASE /\ s.docs.size = 0 /\ s.id = Zero
           /\ Reply(c, "null", Notified(ended), reqs) /\ read' = read
  <2> HIDE DEF ended
  <2>1. CursorOK(ended)
    BY <1>3 DEF Ready
  <2>2. ~misused' /\ ~LostAnswers /\ ~s.killed => s.current = setup.matched /\ At(s.id, s.current)
    <3> SUFFICES ASSUME ~misused', ~LostAnswers, ~s.killed
                 PROVE  s.current = setup.matched /\ At(s.id, s.current)
      OBVIOUS
    <3>1. Orderly(s, read) /\ BufferFits(s)
      BY DEF Ready
    <3>2. s.index = 0 /\ s.current + (s.docs.size - s.index) = s.current
      BY <1>1, <1>4, <3>1, CursorTypes DEF Orderly
    <3> QED
      BY <1>4, <3>1, <3>2 DEF BufferFits, At
  <2>3. ~misused' /\ ~LostAnswers => killed \/ Len(read) = Reader!Allowed
    <3>1. CASE s.killed
      BY <3>1, AllowedWhenDead
    <3>2. CASE ~s.killed
      BY <1>1, <2>2, <3>2, AllowedAtEnd DEF Ready
    <3> QED
      BY <3>1, <3>2
  <2>4. ~misused' => NoneAwaited(reqs)
    BY DEF Ready
  <2>5. ~(~s.dead /\ ended.dead)
    BY <1>2
  <2>6. ~misused' /\ ~LostAnswers /\ ~ended.killed => At(s.id, s.current)
    BY <1>2, <2>2
  <2> QED
    BY <1>1, <1>2, <1>4, <2>1, <2>3, <2>4, <2>5, <2>6, EndKeeps, OutcomesAre
<1>5. CASE NextFunction(c, ended, reqs)
  <2> HIDE DEF ended
  <2>1. Keeps(ended)
    BY <1>3, <1>5, NextFunctionKeeps
  <2> QED
    BY <1>2, <2>1, KeepsFrom
<1> QED
  BY <1>4, <1>5 DEF Done

(* The cursor was killed before the answer to its command came: v is the   *)
(* cursor without the documents that the answer has brought.               *)
LEMMA KilledNextKeeps ==
  ASSUME EnvironmentOK, NEW c \in Calls, NEW v, NEW reqs,
         Ready(c, v, reqs, read, answers, misused'), ~misused', ~v.notified, v.killed,
         NEW s, CursorOK(s), s.id = v.id, s.current = v.current, s.init = v.init,
         s.killed, s.dead = v.dead, s.notified = v.notified,
         NextFunction(c, s, reqs) \/ (Reply(c, "null", Notified(s), reqs) /\ read' = read)
  PROVE  Keeps(v)
<1>1. RequestsOK(reqs) /\ NoneAwaited(reqs)
  BY DEF Ready
<1>2. ~LostAnswers => killed \/ Len(read) = Reader!Allowed
  BY AllowedWhenDead
<1>3. CASE Reply(c, "null", Notified(s), reqs) /\ read' = read
  BY <1>1, <1>2, <1>3, EndKeeps, OutcomesAre
<1>4. CASE NextFunction(c, s, reqs)
  <2> DEFINE u == [s EXCEPT !.killed = TRUE]
  <2>1. Reply(c, "null", Notified(u), reqs) /\ read' = read
    BY <1>4 DEF NextFunction
  <2>2. /\ u \in CursorType /\ u.id = s.id /\ u.current = s.current /\ u.init = s.init
        /\ u.killed /\ u.dead = s.dead /\ u.notified = s.notified /\ u.session = s.session
    BY DEF CursorOK, CursorType
  <2> HIDE DEF u
  <2>3. CursorOK(u)
    BY <2>2 DEF CursorOK
  <2> QED
    BY <1>1, <1>2, <2>1, <2>2, <2>3, EndKeeps, OutcomesAre
<1> QED
  BY <1>3, <1>4

(***************************************************************************)
(* Steps                                                                   *)
(***************************************************************************)

(* What stays good when the server, the query and kill have not changed.   *)
LEMMA GoodNext ==
  ASSUME Good(cursor', requests', read', answers', misused'),
         UNCHANGED <<setup, position, killed>>
  PROVE  Good(cursor, requests, read, answers, misused)'
<1>1. CursorOK(cursor') => CursorOK(cursor)'
  BY DEF CursorOK
<1>2. RequestsOK(requests') => RequestsOK(requests)'
  BY DEF RequestsOK, RequestOK
<1>3. Orderly(cursor', read') => Orderly(cursor, read)'
  BY DEF Orderly
<1>4. OneCall(requests', answers') => OneCall(requests, answers)'
  BY DEF OneCall
<1>5. \A r \in requests' : InFlight(r, cursor') => InFlight(r, cursor)'
  BY DEF InFlight
<1>6. Ordered(cursor', requests', read', answers') => Ordered(cursor, requests, read, answers)'
  BY <1>3, <1>4, <1>5 DEF Ordered
<1>7. ReadFits(cursor', read') => ReadFits(cursor, read)'
  BY DEF ReadFits
<1>8. BufferFits(cursor') => BufferFits(cursor)'
  BY DEF BufferFits, At
<1>9. \A r \in requests' : Follows(r, cursor') => Follows(r, cursor)'
  BY DEF Follows, At
<1>10. DataFits(cursor', requests', read') => DataFits(cursor, requests, read)'
  BY <1>7, <1>8, <1>9 DEF DataFits
<1> QED
  BY <1>1, <1>2, <1>6, <1>10 DEF Good

(* The request of a call is answered, by nothing that changes the cursor.  *)
LEMMA AnsweredReady ==
  ASSUME CursorInv, NEW r \in requests, Awaited(r),
         ~LostAnswers => ~(r.kind = "getMore" /\ r.phase = "answered" /\ r.reply.found)
  PROVE  /\ Ready(r.call, cursor, requests \ {r}, read, answers, misused)
         /\ r.call \in Calls
         /\ ~misused => ~cursor.notified
<1>1. /\ CursorOK(cursor) /\ RequestsOK(requests) /\ read \in Seq(Nat)
      /\ answers \in [Calls -> Outcomes] /\ RequestOK(r) /\ r.call \in Calls
  BY DEF CursorInv, Good, RequestsOK, RequestOK, Awaited
<1>2. RequestsOK(requests \ {r})
  BY <1>1 DEF RequestsOK
<1>3. ASSUME ~misused
      PROVE  /\ NoneAwaited(requests \ {r}) /\ Orderly(cursor, read) /\ InFlight(r, cursor)
             /\ \A d \in Calls : answers[d] = "pending" => d = r.call
  <2>1. OneCall(requests, answers) /\ Orderly(cursor, read) /\ InFlight(r, cursor)
    BY <1>3 DEF CursorInv, Good, Ordered
  <2>2. answers[r.call] = "pending"
    BY <2>1 DEF OneCall
  <2>3. \A d \in Calls : answers[d] = "pending" => d = r.call
    BY <1>1, <2>1, <2>2 DEF OneCall
  <2>4. NoneAwaited(requests \ {r})
    BY <2>1 DEF OneCall, NoneAwaited
  <2> QED
    BY <2>1, <2>3, <2>4
<1>4. ASSUME ~misused, ~LostAnswers
      PROVE  ReadFits(cursor, read) /\ BufferFits(cursor)
  <2>1. DataFits(cursor, requests, read)
    BY <1>4 DEF CursorInv, Good
  <2>2. CASE ~(r.kind = "getMore" /\ r.phase = "answered")
    <3>1. ~\E q \in requests : q.kind = "getMore" /\ q.phase = "answered"
      BY <1>3, <1>4, <2>2 DEF NoneAwaited, Awaited
    <3> QED
      BY <2>1, <3>1 DEF DataFits
  <2>3. CASE r.kind = "getMore" /\ r.phase = "answered"
    <3>1. position[cursor.id] = Closed
      BY <1>4, <2>1, <2>3 DEF DataFits, Follows
    <3>2. cursor.id > 0 /\ cursor.docs.size = 0 /\ cursor.index = 0
      BY <1>1, <1>3, <1>4, <2>3 DEF RequestOK, InFlight
    <3>3. ReadFits(cursor, read) /\ cursor.current <= setup.matched
      BY <2>1 DEF DataFits, ReadFits
    <3>4. At(cursor.id, cursor.current)
      BY <3>1, <3>2, <3>3 DEF At, Zero
    <3>5. cursor.current + (cursor.docs.size - cursor.index) = cursor.current
      BY <1>1, <3>2, CursorTypes DEF CursorOK
    <3> QED
      BY <3>3, <3>4, <3>5 DEF BufferFits
  <2> QED
    BY <2>2, <2>3
<1>5. ~misused => ~cursor.notified
  BY <1>3 DEF InFlight
<1> QED
  BY <1>1, <1>2, <1>3, <1>4, <1>5 DEF Ready

(* What the steps of the call show: the parts of a good step.              *)
LEMMA KeepsNext ==
  ASSUME CursorInv, Keeps(cursor), UNCHANGED <<setup, position, opened, killed>>,
         topology' \in {"connected", "disconnected", "destroyed"}, misused' \in BOOLEAN
  PROVE  CursorInv'
<1>1. Good(cursor, requests, read, answers, misused)'
  BY GoodNext DEF Keeps
<1>2. EnvironmentOK'
  BY DEF CursorInv, EnvironmentOK
<1> QED
  BY <1>1, <1>2 DEF CursorInv

LEMMA CallNextKeeps ==
  ASSUME CursorInv, NEW c \in Calls, CallNext(c)
  PROVE  Keeps(cursor)
<1>1. /\ NextFunction(c, cursor, requests) /\ misused' = (misused \/ Pending # {})
  BY DEF CallNext
<1>2. EnvironmentOK /\ Good(cursor, requests, read, answers, misused)
  BY DEF CursorInv
<1>3. ASSUME ~misused'
      PROVE  NoneAwaited(requests) /\ (\A d \in Calls : answers[d] = "pending" => d = c)
  <2>1. ~misused /\ Pending = {}
    BY <1>1, <1>3
  <2>2. \A d \in Calls : answers[d] # "pending"
    BY <2>1 DEF Pending
  <2>3. OneCall(requests, answers) /\ RequestsOK(requests)
    BY <1>2, <2>1 DEF Good, Ordered
  <2>4. NoneAwaited(requests)
    BY <2>2, <2>3 DEF OneCall, NoneAwaited, RequestsOK, RequestOK, Awaited
  <2> QED
    BY <2>2, <2>4
<1>4. ~misused' => Orderly(cursor, read)
  BY <1>1, <1>2 DEF Good, Ordered
<1>5. ~misused' /\ ~LostAnswers => ReadFits(cursor, read) /\ BufferFits(cursor)
  BY <1>1, <1>2, <1>3 DEF Good, DataFits, NoneAwaited, Awaited
<1>6. Ready(c, cursor, requests, read, answers, misused')
  BY <1>2, <1>3, <1>4, <1>5 DEF Ready, Good
<1> QED
  BY <1>1, <1>2, <1>6, NextFunctionKeeps

(* The call is answered with an error and the cursor is left alone, or it  *)
(* waits in the store.                                                     *)
LEMMA PassedOn ==
  ASSUME CursorInv, NEW r \in requests, Awaited(r),
         ~LostAnswers => ~(r.kind = "getMore" /\ r.phase = "answered" /\ r.reply.found),
         \/ Reply(r.call, "error", cursor, requests \ {r})
         \/ Await("stored", r.call, cursor, 0, requests \ {r}),
         read' = read, misused' = misused
  PROVE  Keeps(cursor)
<1>1. /\ Ready(r.call, cursor, requests \ {r}, read, answers, misused)
      /\ r.call \in Calls /\ (~misused => ~cursor.notified)
  BY AnsweredReady
<1>2. Ready(r.call, cursor, requests \ {r}, read', answers, misused')
  BY <1>1
<1>3. CASE Reply(r.call, "error", cursor, requests \ {r})
  <2>1. Good(cursor', requests', read', answers', misused')
    BY <1>1, <1>2, <1>3, ReplyKeeps, OutcomesAre
  <2> QED
    BY <1>3, <2>1, SamePasses DEF Reply
<1>4. CASE Await("stored", r.call, cursor, 0, requests \ {r})
  <2>1. Good(cursor', requests', read', answers', misused')
    BY <1>1, <1>2, <1>4, AwaitKeeps
  <2>2. cursor' = cursor
    BY <1>4 DEF Await, Reply
  <2> QED
    BY <2>1, <2>2, SamePasses
<1> QED
  BY <1>3, <1>4

LEMMA SelectionFailedKeeps ==
  ASSUME CursorInv, NEW r \in requests, SelectionFailed(r)
  PROVE  Keeps(cursor)
BY PassedOn DEF SelectionFailed, clientVars, Awaited

LEMMA FlushStoredKeeps ==
  ASSUME CursorInv, NEW r \in requests, FlushStored(r)
  PROVE  Keeps(cursor)
BY PassedOn DEF FlushStored, clientVars, Awaited

LEMMA RunStoredKeeps ==
  ASSUME CursorInv, NEW r \in requests, RunStored(r)
  PROVE  Keeps(cursor)
<1>1. /\ r.kind = "stored" /\ NextFunction(r.call, cursor, requests \ {r})
      /\ misused' = misused
  BY DEF RunStored
<1>2. /\ Ready(r.call, cursor, requests \ {r}, read, answers, misused) /\ r.call \in Calls
  BY <1>1, AnsweredReady DEF Awaited
<1>3. Ready(r.call, cursor, requests \ {r}, read, answers, misused') /\ EnvironmentOK
  BY <1>1, <1>2 DEF CursorInv
<1> QED
  BY <1>1, <1>2, <1>3, NextFunctionKeeps

(* The server has been chosen: the query is sent, unless the cursor of the *)
(* server is there already.                                                *)
LEMMA SelectedKeeps ==
  ASSUME CursorInv, NEW r \in requests, Selected(r)
  PROVE  Keeps(cursor)
<1> DEFINE s == [cursor EXCEPT !.init = TRUE]
           base == requests \ {r}
<1>1. /\ r.kind = "select" /\ misused' = misused
      /\ \/ s.id # NoId /\ Done(r.call, s, base)
         \/ s.id = NoId /\ Command("find", r.call, s, setup.batch, base) /\ read' = read
  BY DEF Selected
<1>2. /\ Ready(r.call, cursor, base, read, answers, misused') /\ r.call \in Calls
      /\ ~misused' => ~cursor.notified
  BY <1>1, AnsweredReady DEF Awaited
<1>3. cursor \in CursorType /\ EnvironmentOK
  BY DEF CursorInv, Good, CursorOK
<1>4. /\ s \in CursorType /\ s.id = cursor.id /\ s.docs = cursor.docs
      /\ s.index = cursor.index /\ s.current = cursor.current /\ s.dead = cursor.dead
      /\ s.killed = cursor.killed /\ s.notified = cursor.notified
      /\ s.session = cursor.session
  BY <1>3 DEF CursorType
<1> HIDE DEF s, base
<1>5. Ready(r.call, s, base, read, answers, misused')
  <2>1. CursorOK(s)
    BY <1>2, <1>4 DEF Ready, CursorOK
  <2>2. ~misused' => Orderly(s, read)
    BY <1>2, <1>4 DEF Ready, Orderly
  <2>3. ~misused' /\ ~LostAnswers => ReadFits(s, read) /\ BufferFits(s)
    BY <1>2, <1>4 DEF Ready, ReadFits, BufferFits
  <2> QED
    BY <1>2, <2>1, <2>2, <2>3 DEF Ready
<1>6. CASE s.id # NoId /\ Done(r.call, s, base)
  <2>1. Keeps(s)
    BY <1>2, <1>3, <1>4, <1>5, <1>6, DoneKeeps
  <2> QED
    BY <1>4, <2>1, KeepsFrom
<1>7. CASE s.id = NoId /\ Command("find", r.call, s, setup.batch, base) /\ read' = read
  <2>1. setup.batch \in Nat
    BY <1>3, SetupTypes
  <2>2. ~misused' => s.docs.size = 0 /\ s.index = 0
    BY <1>5, <1>7 DEF Ready, Orderly
  <2> QED
    BY <1>2, <1>4, <1>5, <1>7, <2>1, <2>2, CommandKeeps
<1> QED
  BY <1>1, <1>6, <1>7

(* The cursor takes the id and the documents of an answer: without the     *)
(* documents, and with them unless the cursor was killed meanwhile.        *)
LEMMA AnswerReady ==
  ASSUME CursorInv, NEW r \in requests, r.kind \in {"find", "getMore"},
         r.phase = "answered", r.kind = "getMore" => r.reply.found,
         NEW s, s \in CursorType, s.id = r.reply.id, s.docs = r.reply.docs,
         s.index = cursor.index, s.current = cursor.current, s.dead = cursor.dead,
         s.killed = cursor.killed, s.init = cursor.init, s.notified = cursor.notified,
         s.session = cursor.session,
         NEW v, v \in CursorType, v.id = r.reply.id, v.docs = Empty,
         v.index = cursor.index, v.current = cursor.current, v.dead = cursor.dead,
         v.killed = cursor.killed, v.init = cursor.init, v.notified = cursor.notified,
         v.session = cursor.session
  PROVE  /\ r.call \in Calls /\ CursorOK(s)
         /\ ~misused => ~cursor.notified
         /\ ~misused => cursor.index = 0
         /\ ~misused /\ r.kind = "getMore" /\ setup.limit > 0 => cursor.current < setup.limit
         /\ ~misused /\ s.killed =>
              Ready(r.call, v, requests \ {r}, read, answers, misused)
         /\ misused \/ ~s.killed \/ s.docs.size = 0 =>
              Ready(r.call, s, requests \ {r}, read, answers, misused)
<1> DEFINE base == requests \ {r}
           c == r.call
<1>1. /\ CursorOK(cursor) /\ RequestsOK(requests) /\ read \in Seq(Nat)
      /\ answers \in [Calls -> Outcomes] /\ RequestOK(r) /\ c \in Calls /\ EnvironmentOK
  BY DEF CursorInv, Good, RequestsOK, RequestOK, Awaited
<1>2. CursorOK(s) /\ CursorOK(v) /\ RequestsOK(base)
  BY <1>1 DEF CursorOK, RequestOK, RequestsOK
<1>3. ASSUME ~misused
      PROVE  /\ NoneAwaited(base) /\ Orderly(cursor, read) /\ InFlight(r, cursor)
             /\ \A d \in Calls : answers[d] = "pending" => d = c
  <2>1. OneCall(requests, answers) /\ Orderly(cursor, read) /\ InFlight(r, cursor)
    BY <1>3 DEF CursorInv, Good, Ordered
  <2>2. answers[c] = "pending" /\ Awaited(r)
    BY <2>1 DEF OneCall, Awaited
  <2>3. \A d \in Calls : answers[d] = "pending" => d = c
    BY <1>1, <2>1, <2>2 DEF OneCall
  <2>4. NoneAwaited(base)
    BY <2>1, <2>2 DEF OneCall, NoneAwaited
  <2> QED
    BY <2>1, <2>3, <2>4
<1>4. /\ cursor.id \in Int /\ cursor.current \in Nat /\ cursor.index \in Nat
      /\ s.docs.size \in Nat /\ setup.limit \in Nat /\ r.batch \in Nat
  BY <1>1, CursorTypes, SetupTypes DEF CursorOK, RequestOK, RequestType
<1>5. ASSUME ~misused
      PROVE  /\ ~cursor.notified /\ cursor.index = 0 /\ cursor.docs.size = 0
             /\ r.kind = "getMore" /\ setup.limit > 0 => cursor.current < setup.limit
             /\ r.reply.id = NoId => cursor.id = NoId
  <2>1. InFlight(r, cursor)
    BY <1>3, <1>5
  <2>2. r.kind = "getMore" /\ setup.limit > 0 => cursor.current < setup.limit
    BY <1>4, <2>1 DEF InFlight
  <2>3. r.reply.id = NoId => cursor.id = NoId
    BY <2>1 DEF InFlight, NoId, Zero
  <2> QED
    BY <2>1, <2>2, <2>3 DEF InFlight, Awaited
<1>6. ASSUME ~misused
      PROVE  Orderly(v, read) /\ (~s.killed \/ s.docs.size = 0 => Orderly(s, read))
  <2>1. Orderly(cursor, read)
    BY <1>3, <1>6
  <2>2. /\ v.index <= v.docs.size /\ v.docs.size = 0 /\ 0 <= s.docs.size
    BY <1>4, <1>5, <1>6, EmptyType
  <2>3. r.reply.id = NoId => FALSE
    <3>1. InFlight(r, cursor)
      BY <1>3, <1>6
    <3>2. r.kind = "getMore" => r.id = cursor.id /\ r.id > 0
      BY <1>1, <3>1 DEF InFlight, RequestOK
    <3> QED
      BY <3>1, <3>2 DEF InFlight, NoId, Zero
  <2>4. Orderly(v, read)
    BY <1>5, <1>6, <2>1, <2>2, <2>3 DEF Orderly
  <2>5. ~s.killed \/ s.docs.size = 0 => Orderly(s, read)
    BY <1>5, <1>6, <2>1, <2>2, <2>3 DEF Orderly
  <2> QED
    BY <2>4, <2>5
<1>7. ASSUME ~misused, ~LostAnswers
      PROVE  /\ ReadFits(v, read) /\ (s.killed => BufferFits(v))
             /\ ReadFits(s, read) /\ BufferFits(s)
  <2>1. ReadFits(cursor, read) /\ Follows(r, cursor)
    BY <1>7 DEF CursorInv, Good, DataFits
  <2>2. r.reply.found
    BY <2>1 DEF Follows
  <2>3. /\ s.docs.first = s.current + 1 /\ At(s.id, s.current + s.docs.size)
    BY <2>1, <2>2 DEF Follows
  <2>4. v.docs.size = 0 /\ v.index = 0 /\ s.index = 0
    BY <1>5, <1>7, EmptyType
  <2>5. ReadFits(v, read)
    BY <2>1, <2>4 DEF ReadFits
  <2>6. s.docs.first + s.index = s.current + 1
    BY <1>4, <2>3, <2>4
  <2>7. ReadFits(s, read)
    BY <2>1, <2>6 DEF ReadFits
  <2>8. s.current + (s.docs.size - s.index) = s.current + s.docs.size
    BY <1>4, <2>4
  <2>9. BufferFits(s)
    BY <2>3, <2>8 DEF BufferFits
  <2> QED
    BY <2>5, <2>7, <2>9 DEF BufferFits
<1>8. ~misused /\ s.killed => Ready(c, v, base, read, answers, misused)
  BY <1>1, <1>2, <1>3, <1>6, <1>7 DEF Ready
<1>9. misused \/ ~s.killed \/ s.docs.size = 0 => Ready(c, s, base, read, answers, misused)
  BY <1>1, <1>2, <1>3, <1>6, <1>7 DEF Ready
<1> QED
  BY <1>1, <1>2, <1>5, <1>8, <1>9

LEMMA FindAnsweredKeeps ==
  ASSUME CursorInv, NEW r \in requests, FindAnswered(r)
  PROVE  Keeps(cursor)
<1> DEFINE s == [cursor EXCEPT !.id = r.reply.id, !.docs = r.reply.docs]
           v == [cursor EXCEPT !.id = r.reply.id, !.docs = Empty]
           base == requests \ {r}
           ended == IF s.id = Zero THEN SessionEnded(s) ELSE s
<1>1. /\ r.kind = "find" /\ r.phase = "answered" /\ misused' = misused
      /\ Done(r.call, s, base)
  BY DEF FindAnswered
<1>2. /\ cursor \in CursorType /\ EnvironmentOK
      /\ r.reply.id \in NoId..MaxFinds /\ r.reply.docs \in Batches
  BY DEF CursorInv, Good, CursorOK, RequestsOK, RequestOK, RequestType, Replies
<1>3. /\ s \in CursorType /\ s.id = r.reply.id /\ s.docs = r.reply.docs
      /\ s.index = cursor.index /\ s.current = cursor.current /\ s.dead = cursor.dead
      /\ s.killed = cursor.killed /\ s.init = cursor.init
      /\ s.notified = cursor.notified /\ s.session = cursor.session
  BY <1>2 DEF CursorType
<1>4. /\ v \in CursorType /\ v.id = r.reply.id /\ v.docs = Empty
      /\ v.index = cursor.index /\ v.current = cursor.current /\ v.dead = cursor.dead
      /\ v.killed = cursor.killed /\ v.init = cursor.init
      /\ v.notified = cursor.notified /\ v.session = cursor.session
  BY <1>2, EmptyType DEF CursorType
<1>5. /\ ended \in CursorType /\ ended.id = s.id /\ ended.current = s.current
      /\ ended.init = s.init /\ ended.killed = s.killed /\ ended.dead = s.dead
      /\ ended.notified = s.notified /\ (s.notified => ended.session # "own" \/ ended = s)
  BY <1>3, SessionEndedIs
<1>6. \/ Reply(r.call, "null", Notified(ended), base) /\ read' = read
      \/ NextFunction(r.call, ended, base)
  BY <1>1 DEF Done
<1> HIDE DEF s, v, base
<1>7. CASE misused \/ ~s.killed
  <2>1. Ready(r.call, s, base, read, answers, misused) /\ r.call \in Calls
    BY <1>1, <1>3, <1>4, <1>7, AnswerReady DEF base
  <2>2. Ready(r.call, s, base, read, answers, misused')
    BY <1>1, <2>1
  <2>3. ~misused' => ~s.notified
    BY <1>1, <1>3, <1>4, AnswerReady
  <2>4. Keeps(s)
    BY <1>1, <1>2, <2>1, <2>2, <2>3, DoneKeeps
  <2> QED
    BY <1>3, <2>4, KeepsFrom
<1>8. CASE ~misused /\ s.killed
  <2> HIDE DEF ended
  <2>1. /\ Ready(r.call, v, base, read, answers, misused) /\ r.call \in Calls
        /\ CursorOK(s) /\ ~cursor.notified
    BY <1>1, <1>3, <1>4, <1>8, AnswerReady DEF base
  <2>2. Ready(r.call, v, base, read, answers, misused') /\ ~misused'
    BY <1>1, <1>8, <2>1
  <2>3. CursorOK(ended)
    BY <1>3, <1>5, <2>1 DEF CursorOK
  <2>4. Keeps(v)
    BY <1>2, <1>3, <1>4, <1>5, <1>6, <1>8, <2>1, <2>2, <2>3, KilledNextKeeps
  <2> QED
    BY <1>4, <2>4, KeepsFrom
<1> QED
  BY <1>7, <1>8, <1>3

(* An answer past the limit is one of calls that overlapped.               *)
LEMMA GetMoreAnsweredKeeps ==
  ASSUME CursorInv, NEW r \in requests, GetMoreAnswered(r)
  PROVE  /\ Good(cursor', requests', read', answers', misused')
         /\ ~misused => Keeps(cursor)
<1> DEFINE s == [cursor EXCEPT !.id = r.reply.id, !.docs = r.reply.docs]
           v == [cursor EXCEPT !.id = r.reply.id, !.docs = Empty]
           base == requests \ {r}
           ended == IF s.id = Zero THEN SessionEnded(s) ELSE s
           over == [ended EXCEPT !.dead = TRUE]
<1>1. /\ r.kind = "getMore" /\ r.phase = "answered" /\ misused' = misused
      /\ \/ /\ ~r.reply.found
            /\ Reply(r.call, "error", cursor, base) /\ read' = read
         \/ /\ r.reply.found /\ s.docs.size = 0 /\ s.id = Zero
            /\ Reply(r.call, "tailed", ended, base) /\ read' = read
         \/ /\ r.reply.found /\ AtLimit(s)
            /\ Reply(r.call, "null", Notified(over), base) /\ read' = read
         \/ r.reply.found /\ NextFunction(r.call, ended, base)
  BY DEF GetMoreAnswered
<1>2. /\ cursor \in CursorType /\ EnvironmentOK
      /\ r.reply.id \in NoId..MaxFinds /\ r.reply.docs \in Batches
  BY DEF CursorInv, Good, CursorOK, RequestsOK, RequestOK, RequestType, Replies
<1>3. /\ s \in CursorType /\ s.id = r.reply.id /\ s.docs = r.reply.docs
      /\ s.index = cursor.index /\ s.current = cursor.current /\ s.dead = cursor.dead
      /\ s.killed = cursor.killed /\ s.init = cursor.init
      /\ s.notified = cursor.notified /\ s.session = cursor.session
  BY <1>2 DEF CursorType
<1>4. /\ v \in CursorType /\ v.id = r.reply.id /\ v.docs = Empty
      /\ v.index = cursor.index /\ v.current = cursor.current /\ v.dead = cursor.dead
      /\ v.killed = cursor.killed /\ v.init = cursor.init
      /\ v.notified = cursor.notified /\ v.session = cursor.session
  BY <1>2, EmptyType DEF CursorType
<1>5. /\ ended \in CursorType /\ ended.id = s.id /\ ended.current = s.current
      /\ ended.init = s.init /\ ended.killed = s.killed /\ ended.dead = s.dead
      /\ ended.notified = s.notified /\ (s.notified => ended.session # "own" \/ ended = s)
  BY <1>3, SessionEndedIs
<1>6. /\ over \in CursorType /\ over.id = ended.id /\ over.current = ended.current
      /\ over.session = ended.session
  BY <1>5 DEF CursorType
<1> HIDE DEF s, v, over
<1>7. CASE ~r.reply.found /\ Reply(r.call, "error", cursor, base) /\ read' = read
  <2>1. Keeps(cursor)
    BY <1>1, <1>7, PassedOn DEF Awaited
  <2> QED
    BY <2>1 DEF Keeps
<1> HIDE DEF base
<1>8. CASE r.reply.found
  <2>1. /\ r.call \in Calls /\ CursorOK(s)
        /\ ~misused => ~cursor.notified
        /\ ~misused /\ setup.limit > 0 => cursor.current < setup.limit
        /\ ~misused /\ s.killed => Ready(r.call, v, base, read, answers, misused)
        /\ misused \/ ~s.killed \/ s.docs.size = 0 =>
             Ready(r.call, s, base, read, answers, misused)
    BY <1>1, <1>3, <1>4, <1>8, AnswerReady DEF base
  <2>2. misused \/ ~s.killed \/ s.docs.size = 0 =>
          Ready(r.call, ended, base, read, answers, misused')
    BY <1>1, <2>1, SessionEndedReady
  <2> HIDE DEF ended
  <2>3. CursorOK(ended)
    BY <1>3, <1>5, <2>1 DEF CursorOK
  <2>4. Keeps(ended) => Keeps(cursor) /\ Good(cursor', requests', read', answers', misused')
    <3>1. Keeps(ended) => Keeps(cursor)
      BY <1>3, <1>5, KeepsFrom
    <3> QED
      BY <3>1 DEF Keeps
  <2>5. CASE s.docs.size = 0 /\ Reply(r.call, "tailed", ended, base) /\ read' = read
    <3>1. Keeps(ended)
      BY <2>1, <2>2, <2>5, SameKeeps, OutcomesAre
    <3> QED
      BY <2>4, <3>1
  <2>6. CASE AtLimit(s) /\ Reply(r.call, "null", Notified(over), base) /\ read' = read
    <3> DEFINE n == Notified(over)
    <3>1. misused
      <4>1. cursor.current \in Nat /\ setup.limit \in Nat
        BY <1>2, CursorTypes, SetupTypes
      <4> QED
        BY <1>3, <2>1, <2>6, <4>1 DEF AtLimit
    <3>2. /\ n \in CursorType /\ n.id = ended.id /\ n.current = ended.current
          /\ n.session # "own" /\ Reply(r.call, "null", n, base)
      BY <1>6, <2>6, NotifiedIs
    <3> HIDE DEF n
    <3>3. CursorOK(n)
      BY <2>3, <3>2 DEF CursorOK
    <3>4. Ready(r.call, n, base, read', answers, misused')
      BY <1>1, <2>1, <2>6, <3>1, <3>3 DEF Ready
    <3>5. Good(cursor', requests', read', answers', misused')
      BY <2>1, <3>2, <3>4, ReplyKeeps, OutcomesAre
    <3> QED
      BY <3>1, <3>5
  <2>7. CASE NextFunction(r.call, ended, base)
    <3>1. CASE misused \/ ~s.killed
      <4>1. Keeps(ended)
        BY <1>2, <2>1, <2>2, <2>7, <3>1, NextFunctionKeeps
      <4> QED
        BY <2>4, <4>1
    <3>2. CASE ~misused /\ s.killed
      <4>1. Ready(r.call, v, base, read, answers, misused') /\ ~misused' /\ ~cursor.notified
        BY <1>1, <2>1, <3>2
      <4>2. Keeps(v)
        BY <1>2, <1>3, <1>4, <1>5, <2>1, <2>3, <2>7, <3>2, <4>1, KilledNextKeeps
      <4>3. Keeps(cursor)
        BY <1>4, <4>2, KeepsFrom
      <4> QED
        BY <4>3 DEF Keeps
    <3> QED
      BY <1>3, <3>1, <3>2
  <2> QED
    BY <1>1, <1>8, <2>5, <2>6, <2>7
<1> QED
  BY <1>1, <1>7, <1>8

(* A command is lost: one of the cursor's calls is told, a kill is not.    *)
LEMMA CommandFailedKeeps ==
  ASSUME CursorInv, NEW r \in requests, CommandFailed(r)
  PROVE  Keeps(cursor)
<1>1. /\ r.kind \in {"find", "getMore", "kill"} /\ (r.phase = "answered" => LostAnswers)
      /\ read' = read /\ misused' = misused
  BY DEF CommandFailed, clientVars
<1>2. CASE r.kind # "kill"
  <2>1. Reply(r.call, "error", cursor, requests \ {r})
    BY <1>2 DEF CommandFailed
  <2> QED
    BY <1>1, <1>2, <2>1, PassedOn DEF Awaited
<1>3. CASE r.kind = "kill"
  <2>1. cursor' = cursor /\ answers' = answers /\ requests' = requests \ {r}
    BY <1>3 DEF CommandFailed
  <2>2. Good(cursor, requests, read, answers, misused)
    BY DEF CursorInv
  <2>3. RequestsOK(requests \ {r})
    BY <2>2 DEF Good, RequestsOK
  <2>4. ~misused => Ordered(cursor, requests \ {r}, read, answers)
    BY <2>2 DEF Good, Ordered, OneCall
  <2>5. ~misused /\ ~LostAnswers => DataFits(cursor, requests \ {r}, read)
    BY <1>3, <2>2 DEF Good, DataFits
  <2>6. Good(cursor, requests \ {r}, read, answers, misused)
    BY <2>2, <2>3, <2>4, <2>5 DEF Good
  <2>7. Good(cursor', requests', read', answers', misused')
    BY <1>1, <2>1, <2>6
  <2> QED
    BY <1>1, <2>1, <2>7, SamePasses
<1> QED
  BY <1>2, <1>3

(* kill, on a cursor that may wait for an answer. *)
LEMMA KillKeeps ==
  ASSUME CursorInv, Kill
  PROVE  CursorInv' /\ Sweeps(cursor)
<1> DEFINE k == Killed(cursor)
           left == KillSent(cursor, requests)
<1>1. /\ cursor' = k /\ requests' = left /\ killed' = TRUE
      /\ setup' = setup /\ topology' = topology /\ answers' = answers /\ read' = read
      /\ misused' = misused /\ opened' = opened /\ position' = position
  BY DEF Kill, serverVars
<1>2. /\ CursorOK(cursor) /\ RequestsOK(requests) /\ read \in Seq(Nat)
      /\ answers \in [Calls -> Outcomes]
  BY DEF CursorInv, Good
<1>3. /\ k \in CursorType /\ k.id = cursor.id /\ k.docs.size = 0 /\ k.index = cursor.index
      /\ k.current = cursor.current /\ k.dead /\ k.killed /\ k.init = cursor.init
      /\ k.notified = cursor.notified /\ k.session = cursor.session
  BY <1>2, KilledIs DEF CursorOK
<1>4. /\ RequestsOK(left) /\ requests \subseteq left
      /\ \A r \in left \ requests : r.kind = "kill"
      /\ cursor.init /\ cursor.id > Zero => \E r \in left : r.kind = "kill" /\ r.id = cursor.id
  BY <1>2, KillSentIs
<1> HIDE DEF k, left
<1>5. EnvironmentOK'
  BY <1>1 DEF CursorInv, EnvironmentOK
<1>6. CursorOK(cursor)' /\ RequestsOK(requests)'
  <2>1. CursorOK(cursor)'
    BY <1>1, <1>2, <1>3 DEF CursorOK
  <2>2. RequestsOK(requests)'
    BY <1>1, <1>4 DEF RequestsOK, RequestOK
  <2> QED
    BY <2>1, <2>2
<1>7. ASSUME ~misused
      PROVE  Ordered(cursor, requests, read, answers)'
  <2>1. /\ OneCall(requests, answers) /\ Orderly(cursor, read)
        /\ \A r \in requests : InFlight(r, cursor)
    BY <1>7 DEF CursorInv, Good, Ordered
  <2>2. OneCall(requests, answers)'
    <3>1. \A r \in left : Awaited(r) => r \in requests
      BY <1>4 DEF Awaited
    <3> QED
      BY <1>1, <2>1, <3>1 DEF OneCall
  <2>3. Orderly(cursor, read)'
    BY <1>1, <1>3, <2>1 DEF Orderly
  <2>4. (\A r \in requests : InFlight(r, cursor))'
    <3>1. ASSUME NEW r \in left
          PROVE  InFlight(r, cursor)'
      <4>1. CASE r \in requests
        BY <1>1, <1>3, <2>1, <4>1 DEF InFlight
      <4>2. CASE r.kind = "kill"
        BY <4>2 DEF InFlight, Awaited
      <4> QED
        BY <1>4, <4>1, <4>2
    <3> QED
      BY <1>1, <3>1
  <2> QED
    BY <2>2, <2>3, <2>4 DEF Ordered
<1>8. ASSUME ~misused, ~LostAnswers
      PROVE  DataFits(cursor, requests, read)'
  <2>1. ReadFits(cursor, read) /\ \A r \in requests : Follows(r, cursor)
    BY <1>8 DEF CursorInv, Good, DataFits
  <2>2. ReadFits(cursor, read)' /\ BufferFits(cursor)'
    BY <1>1, <1>3, <2>1 DEF ReadFits, BufferFits
  <2>3. ASSUME NEW r \in left
        PROVE  Follows(r, cursor)'
    <3>1. CASE r \in requests
      BY <1>1, <1>3, <2>1, <3>1 DEF Follows, At
    <3>2. CASE r.kind = "kill"
      BY <3>2 DEF Follows
    <3> QED
      BY <1>4, <3>1, <3>2
  <2>4. (\A r \in requests : Follows(r, cursor))'
    BY <1>1, <2>3
  <2> QED
    BY <2>2, <2>4 DEF DataFits
<1>9. Good(cursor, requests, read, answers, misused)'
  BY <1>1, <1>2, <1>6, <1>7, <1>8 DEF Good
<1>10. Sweeps(cursor)
  BY <1>1, <1>3, <1>4 DEF Sweeps
<1> QED
  BY <1>5, <1>9, <1>10 DEF CursorInv

(* rewind: when no call is under way the cursor starts afresh. *)
LEMMA RewindKeeps ==
  ASSUME CursorInv, Rewind
  PROVE  CursorInv' /\ Sweeps(cursor)
<1> DEFINE s == Start(NoId, cursor.session)
           left == KillSent(cursor, requests)
<1>1. /\ cursor' = s /\ requests' \in {requests, left} /\ killed' = FALSE
      /\ read' = <<>> /\ misused' = (misused \/ Pending # {})
      /\ setup' = setup /\ topology' = topology /\ answers' = answers
      /\ opened' = opened /\ position' = position
  BY DEF Rewind, serverVars
<1>2. /\ CursorOK(cursor) /\ RequestsOK(requests) /\ answers \in [Calls -> Outcomes]
      /\ EnvironmentOK
  BY DEF CursorInv, Good
<1>3. /\ s \in CursorType /\ s.id = NoId /\ s.docs.size = 0 /\ s.index = 0
      /\ s.current = 0 /\ ~s.dead /\ ~s.killed /\ ~s.init /\ ~s.notified
  <2>1. cursor.session \in {"shared", "own", "ended"} /\ NoId \in NoId..MaxFinds
    BY <1>2, SetupTypes DEF CursorOK, CursorType, NoId
  <2> QED
    BY <2>1, EmptyType DEF Start, CursorType
<1>4. /\ RequestsOK(left) /\ requests \subseteq left
      /\ \A r \in left \ requests : r.kind = "kill"
  BY <1>2, KillSentIs
<1> HIDE DEF s, left
<1>5. EnvironmentOK'
  BY <1>1, <1>2 DEF EnvironmentOK
<1>6. setup.limit \in Nat /\ setup.matched \in Nat
  BY <1>2, SetupTypes
<1>7. CursorOK(cursor)' /\ RequestsOK(requests)'
  <2>1. CursorOK(cursor)'
    BY <1>1, <1>3, <1>6 DEF CursorOK
  <2>2. RequestsOK(requests)'
    BY <1>1, <1>2, <1>4 DEF RequestsOK, RequestOK
  <2> QED
    BY <2>1, <2>2
<1>8. ASSUME ~misused'
      PROVE  /\ \A r \in requests' : r.kind = "kill"
             /\ \A c \in Calls : answers[c] # "pending"
  <2>1. ~misused /\ \A c \in Calls : answers[c] # "pending"
    BY <1>1, <1>8 DEF Pending
  <2>2. \A r \in requests : r.kind = "kill"
    BY <1>2, <2>1 DEF CursorInv, Good, Ordered, OneCall, Awaited, RequestsOK, RequestOK
  <2> QED
    BY <1>1, <1>4, <2>1, <2>2
<1>9. ASSUME ~misused'
      PROVE  Ordered(cursor, requests, read, answers)'
  <2>1. OneCall(requests, answers)' /\ (\A r \in requests : InFlight(r, cursor))'
    BY <1>1, <1>8, <1>9 DEF OneCall, Awaited, InFlight
  <2>2. Orderly(cursor, read)'
    BY <1>1, <1>3 DEF Orderly
  <2> QED
    BY <2>1, <2>2 DEF Ordered
<1>10. ASSUME ~misused', ~LostAnswers
       PROVE  DataFits(cursor, requests, read)'
  <2>1. <<>> = [k \in 1..0 |-> k]
    OBVIOUS
  <2>2. ReadFits(cursor, read)'
    BY <1>1, <1>3, <1>6, <2>1 DEF ReadFits
  <2>3. BufferFits(cursor)'
    <3>1. s.current + (s.docs.size - s.index) = 0
      BY <1>3
    <3> QED
      BY <1>1, <1>3, <1>6, <3>1 DEF BufferFits, At, NoId, Zero
  <2>4. (\A r \in requests : Follows(r, cursor))'
    BY <1>8, <1>10 DEF Follows
  <2> QED
    BY <2>2, <2>3, <2>4 DEF DataFits
<1>11. Good(cursor, requests, read, answers, misused)'
  <2>1. read' \in Seq(Nat) /\ answers' \in [Calls -> Outcomes]
    BY <1>1, <1>2
  <2> QED
    BY <1>7, <1>9, <1>10, <2>1 DEF Good
<1>12. Sweeps(cursor)
  BY <1>1, <1>3 DEF Sweeps
<1> QED
  BY <1>5, <1>11, <1>12 DEF CursorInv

(* readBufferedDocuments: what it takes is in the buffer, and the cursor   *)
(* does not pass its limit.                                                *)
LEMMA ReadBufferedKeeps ==
  ASSUME CursorInv, NEW number \in Nat, ReadBufferedDocuments(number)
  PROVE  Keeps(cursor) /\ UNCHANGED <<setup, topology, killed, misused, opened, position>>
<1> DEFINE s == cursor
           unread == s.docs.size - s.index
           length == IF number < unread THEN number ELSE unread
           wanted == IF length > 0 THEN length ELSE 0
           over == setup.limit > 0 /\ s.current + wanted > setup.limit
           given == IF over THEN setup.limit - s.current ELSE wanted
           left == IF over THEN Killed(s) ELSE s
           t == [left EXCEPT !.current = left.current + given,
                             !.index = left.index + given]
           sent == IF over THEN KillSent(s, requests) ELSE requests
<1>1. /\ read' = read \o [k \in 1..given |-> s.docs.first + s.index + k - 1]
      /\ cursor' = t /\ requests' = sent /\ answers' = answers /\ misused' = misused
      /\ UNCHANGED <<setup, topology, killed, misused, opened, position>>
  BY DEF ReadBufferedDocuments, serverVars
<1>2. /\ CursorOK(s) /\ RequestsOK(requests) /\ read \in Seq(Nat)
      /\ answers \in [Calls -> Outcomes] /\ EnvironmentOK /\ s \in CursorType
  BY DEF CursorInv, Good, CursorOK
<1>3. /\ s.current \in Nat /\ s.docs.size \in Nat /\ s.docs.first \in Nat /\ s.index \in Nat
      /\ setup.limit \in Nat /\ setup.matched \in Nat
  BY <1>2, CursorTypes, SetupTypes
<1>4. over \in BOOLEAN /\ (setup.limit > 0 => s.current <= setup.limit)
  BY <1>2 DEF CursorOK
<1>5. /\ wanted \in Nat /\ given \in Nat /\ given <= wanted
      /\ wanted > 0 => s.index + wanted <= s.docs.size
      /\ over => wanted > 0 /\ s.current + given = setup.limit
      /\ ~over => given = wanted
      /\ setup.limit > 0 => s.current + given <= setup.limit
  BY <1>3, <1>4
<1>6. /\ left \in CursorType /\ left.id = s.id /\ left.index = s.index
      /\ left.current = s.current /\ left.init = s.init /\ left.notified = s.notified
      /\ left.session = s.session
      /\ over => left.docs.size = 0 /\ left.killed
      /\ ~over => left.docs = s.docs /\ left.killed = s.killed /\ left.dead = s.dead
  BY <1>2, KilledIs
<1>7. /\ RequestsOK(sent) /\ requests \subseteq sent
      /\ \A r \in sent \ requests : r.kind = "kill"
      /\ over /\ s.init /\ s.id > Zero => \E r \in sent : r.kind = "kill" /\ r.id = s.id
  BY <1>2, KillSentIs
<1> HIDE DEF left, sent, over, given, wanted
<1>8. left.current + given \in Nat /\ left.index + given \in Nat
  BY <1>3, <1>5, <1>6
<1>9. /\ t \in CursorType /\ t.id = s.id /\ t.docs = left.docs
      /\ t.index = s.index + given /\ t.current = s.current + given
      /\ t.init = s.init /\ t.killed = left.killed /\ t.dead = left.dead
      /\ t.notified = s.notified /\ t.session = s.session
  <2> DEFINE m == left.current + given
             i == left.index + given
  <2>1. m \in Nat /\ i \in Nat /\ t = [left EXCEPT !.current = m, !.index = i]
    BY <1>8
  <2> HIDE DEF m, i, t
  <2>2. /\ t \in CursorType /\ t.id = left.id /\ t.docs = left.docs
        /\ t.index = i /\ t.current = m
        /\ t.init = left.init /\ t.killed = left.killed /\ t.dead = left.dead
        /\ t.notified = left.notified /\ t.session = left.session
    BY <1>6, <2>1 DEF CursorType
  <2> QED
    BY <1>6, <2>2 DEF m, i
<1> HIDE DEF t
<1>10. CursorOK(t)
  BY <1>2, <1>5, <1>9 DEF CursorOK
<1>11. read' \in Seq(Nat) /\ Len(read') = Len(read) + given
  <2> DEFINE more == [k \in 1..given |-> s.docs.first + s.index + k - 1]
  <2>1. \A k \in 1..given : s.docs.first + s.index + k - 1 \in Nat
    BY <1>3, <1>5
  <2>2. more \in Seq(Nat) /\ Len(more) = given
    BY <1>5, <2>1
  <2>3. read' = read \o more
    BY <1>1
  <2> HIDE DEF more
  <2> QED
    BY <1>2, <2>2, <2>3, ConcatProperties
<1>12. ASSUME ~misused
       PROVE  /\ OneCall(requests, answers) /\ Orderly(s, read)
              /\ \A r \in requests : InFlight(r, s)
              /\ wanted > 0 => /\ ~s.killed /\ ~s.notified /\ s.id # NoId /\ ~killed
                               /\ \A r \in requests : r.kind \notin {"find", "getMore"}
  <2>1. /\ OneCall(requests, answers) /\ Orderly(s, read)
        /\ \A r \in requests : InFlight(r, s)
    BY <1>12 DEF CursorInv, Good, Ordered
  <2>2. wanted > 0 => s.docs.size # 0
    BY <1>3, <1>5
  <2> QED
    BY <2>1, <2>2 DEF Orderly, InFlight
<1>13. ASSUME ~misused
       PROVE  Ordered(t, sent, read', answers)
  <2>1. OneCall(sent, answers)
    <3>1. \A r \in sent : Awaited(r) => r \in requests
      BY <1>7 DEF Awaited
    <3> QED
      BY <1>12, <1>13, <3>1 DEF OneCall
  <2>2. CASE wanted = 0
    <3>1. ~over /\ given = 0
      BY <1>5, <2>2
    <3>2. t.index = s.index /\ t.current = s.current /\ Len(read') = Len(read)
      BY <1>2, <1>3, <1>9, <1>11, <3>1
    <3>3. Orderly(t, read')
      BY <1>6, <1>9, <1>12, <1>13, <3>1, <3>2 DEF Orderly
    <3>4. ASSUME NEW r \in sent
          PROVE  InFlight(r, t)
      <4>1. CASE r \in requests
        <5>1. InFlight(r, s)
          BY <1>12, <1>13, <4>1
        <5> QED
          BY <1>6, <1>9, <3>1, <3>2, <5>1 DEF InFlight
      <4>2. CASE r.kind = "kill"
        BY <4>2 DEF InFlight, Awaited
      <4> QED
        BY <1>7, <4>1, <4>2
    <3> QED
      BY <2>1, <3>3, <3>4 DEF Ordered
  <2>3. CASE wanted > 0
    <3>1. /\ ~s.killed /\ ~s.notified /\ s.id # NoId /\ ~killed /\ Orderly(s, read)
          /\ \A r \in requests : r.kind \notin {"find", "getMore"}
      BY <1>12, <1>13, <2>3
    <3>2. t.index <= t.docs.size \/ t.killed
      BY <1>3, <1>5, <1>6, <1>9, <2>3
    <3>3. Len(read') = t.current
      BY <1>9, <1>11, <3>1 DEF Orderly
    <3>4. t.killed \/ t.dead => setup.limit > 0 /\ t.current = setup.limit
      <4>1. CASE over
        <5>1. setup.limit > 0
          BY <4>1 DEF over
        <5> QED
          BY <1>5, <1>9, <4>1, <5>1
      <4>2. CASE ~over
        <5>1. ~(setup.limit > 0 /\ s.current = setup.limit)
          BY <1>3, <1>5, <2>3, <4>2 DEF over
        <5> QED
          BY <1>6, <1>9, <3>1, <4>2, <5>1 DEF Orderly
      <4> QED
        BY <4>1, <4>2
    <3>5. t.killed => t.docs.size = 0
      BY <1>6, <1>9, <3>1
    <3>6. Orderly(t, read')
      BY <1>9, <3>1, <3>2, <3>3, <3>4, <3>5 DEF Orderly
    <3>7. ASSUME NEW r \in sent
          PROVE  InFlight(r, t)
      BY <1>7, <1>9, <3>1 DEF InFlight
    <3> QED
      BY <2>1, <3>6, <3>7 DEF Ordered
  <2> QED
    BY <1>5, <2>2, <2>3
<1>14. ASSUME ~misused, ~LostAnswers
       PROVE  DataFits(t, sent, read') /\ Reads(s)
  <2>1. DataFits(s, requests, read)
    BY <1>14 DEF CursorInv, Good
  <2>2. CASE wanted = 0
    <3>1. ~over /\ given = 0 /\ sent = requests
      BY <1>5, <2>2 DEF sent
    <3>2. t.index = s.index /\ t.current = s.current
      BY <1>3, <1>9, <3>1
    <3>3. read' = read
      <4>1. [k \in 1..given |-> s.docs.first + s.index + k - 1] = <<>>
        BY <3>1
      <4> QED
        BY <1>1, <1>2, <4>1, ConcatEmptySeq
    <3>4. ReadFits(t, read') /\ (BufferFits(s) => BufferFits(t))
      BY <1>6, <1>9, <2>1, <3>1, <3>2, <3>3 DEF DataFits, ReadFits, BufferFits
    <3>5. \A r \in requests : Follows(r, t)
      BY <1>9, <2>1, <3>2 DEF DataFits, Follows
    <3>6. DataFits(t, sent, read')
      BY <2>1, <3>1, <3>4, <3>5 DEF DataFits
    <3>7. Reads(s)
      BY <1>1, <1>9, <3>3 DEF Reads
    <3> QED
      BY <3>6, <3>7
  <2>3. CASE wanted > 0
    <3>1. /\ ~s.killed /\ ~s.notified /\ ~killed /\ Orderly(s, read)
          /\ \A r \in requests : r.kind \notin {"find", "getMore"}
      BY <1>12, <1>14, <2>3
    <3>2. ReadFits(s, read) /\ BufferFits(s)
      BY <2>1, <3>1 DEF DataFits
    <3>3. s.docs.first + s.index = s.current + 1
      BY <1>3, <1>5, <2>3, <3>1, <3>2 DEF ReadFits
    <3>4. At(s.id, s.current + (s.docs.size - s.index))
      BY <3>1, <3>2 DEF BufferFits
    <3>5. s.current + given <= setup.matched
      BY <1>3, <1>5, <2>3, <3>4 DEF At
    <3>6. read' = [k \in 1..(s.current + given) |-> k]
      <4> DEFINE n == s.current
                 g == given
      <4>1. n \in Nat /\ g \in Nat
        BY <1>3, <1>5
      <4>2. read = [k \in 1..n |-> k]
        BY <3>2 DEF ReadFits
      <4>3. [k \in 1..g |-> s.docs.first + s.index + k - 1] = [k \in 1..g |-> n + k]
        BY <1>3, <3>3, <4>1
      <4>4. read' = [k \in 1..n |-> k] \o [k \in 1..g |-> n + k]
        BY <1>1, <4>2, <4>3
      <4> HIDE DEF n, g
      <4>5. [k \in 1..n |-> k] \o [k \in 1..g |-> n + k] = [k \in 1..(n + g) |-> k]
        BY <4>1
      <4> QED
        BY <4>4, <4>5 DEF n, g
    <3>7. ReadFits(t, read')
      <4>1. ASSUME ~t.killed, t.index < t.docs.size
            PROVE  t.docs.first + t.index = t.current + 1
        <5>1. ~over /\ t.docs = s.docs
          BY <1>6, <1>9, <4>1
        <5> QED
          BY <1>3, <1>5, <1>9, <3>3, <5>1
      <4> QED
        BY <1>9, <3>5, <3>6, <4>1 DEF ReadFits
    <3>8. BufferFits(t)
      <4> SUFFICES ASSUME ~t.killed PROVE At(t.id, t.current + (t.docs.size - t.index))
        BY DEF BufferFits
      <4>1. ~over /\ t.docs = s.docs
        BY <1>6, <1>9
      <4>2. (s.current + given) + (s.docs.size - (s.index + given))
              = s.current + (s.docs.size - s.index)
        BY <1>3, <1>5
      <4> QED
        BY <1>9, <3>4, <4>1, <4>2
    <3>9. \A r \in sent : Follows(r, t)
      BY <1>7, <3>1 DEF Follows
    <3>10. DataFits(t, sent, read')
      BY <3>7, <3>8, <3>9 DEF DataFits
    <3>11. Reads(s)
      <4>1. CASE given = 0
        <5>1. [k \in 1..given |-> s.docs.first + s.index + k - 1] = <<>>
          BY <4>1
        <5>2. read' = read
          BY <1>1, <1>2, <5>1, ConcatEmptySeq
        <5> QED
          BY <1>1, <1>9, <5>2 DEF Reads
      <4>2. CASE given > 0
        <5>1. Reader!Allowed = IF setup.limit > 0 /\ setup.limit < setup.matched
                               THEN setup.limit ELSE setup.matched
          BY DEF Reader!Allowed
        <5>2. Len(read) = s.current
          BY <3>1 DEF Orderly
        <5>3. s.current + given \in (Len(read) + 1)..Reader!Allowed
          BY <1>3, <1>5, <3>5, <4>2, <5>1, <5>2
        <5> QED
          BY <1>1, <1>9, <3>1, <3>6, <5>3 DEF Reads
      <4> QED
        BY <1>5, <4>1, <4>2
    <3> QED
      BY <3>10, <3>11
  <2> QED
    BY <1>5, <2>2, <2>3
<1>15. Good(cursor', requests', read', answers', misused')
  BY <1>1, <1>2, <1>7, <1>10, <1>11, <1>13, <1>14 DEF Good
<1>16. Sweeps(s)
  <2>1. CASE over
    BY <1>1, <1>7, <1>9, <2>1 DEF Sweeps
  <2>2. CASE ~over
    BY <1>1, <1>6, <1>9, <2>2 DEF Sweeps
  <2> QED
    BY <2>1, <2>2
<1> QED
  BY <1>1, <1>14, <1>15, <1>16 DEF Keeps

(* The server answers the query or a getMore.                              *)
LEMMA ServedKeeps ==
  ASSUME CursorInv, NEW r \in requests, r.kind \in {"find", "getMore"}, r.phase = "sent",
         NEW reply \in Replies, Serve(r, reply), opened' \in 0..MaxFinds,
         position' \in [ServerCursors -> Nat \cup {Closed}],
         ~misused => /\ r.kind = "find" => reply.id # NoId
                     /\ r.kind = "getMore" /\ reply.found => reply.id \in {Zero, cursor.id},
         ~misused /\ ~LostAnswers =>
           IF reply.found
           THEN /\ reply.docs.first = cursor.current + 1
                /\ At(reply.id, cursor.current + reply.docs.size)'
           ELSE r.kind = "getMore" /\ position'[cursor.id] = Closed
  PROVE  CursorInv' /\ cursor' = cursor /\ UNCHANGED <<setup, read, killed, misused>>
<1> DEFINE a == [r EXCEPT !.phase = "answered", !.reply = reply]
           base == requests \ {r}
<1>1. /\ requests' = base \cup {a}
      /\ UNCHANGED <<setup, cursor, topology, answers, read, killed, misused>>
  BY DEF Serve, clientVars
<1>2. /\ CursorOK(cursor) /\ RequestsOK(requests) /\ RequestOK(r) /\ read \in Seq(Nat)
      /\ answers \in [Calls -> Outcomes] /\ EnvironmentOK
  BY DEF CursorInv, Good, RequestsOK
<1>3. /\ a \in RequestType /\ a.kind = r.kind /\ a.id = r.id /\ a.call = r.call
      /\ a.batch = r.batch /\ a.phase = "answered" /\ a.reply = reply
  BY <1>2 DEF RequestOK, RequestType
<1> HIDE DEF a, base
<1>4. EnvironmentOK'
  BY <1>1, <1>2 DEF EnvironmentOK
<1>5. RequestsOK(requests)'
  <2>1. RequestOK(a)
    BY <1>2, <1>3 DEF RequestOK
  <2> QED
    BY <1>1, <1>2, <2>1 DEF RequestsOK, RequestOK, base
<1>6. ASSUME ~misused
      PROVE  /\ \A q \in requests : Awaited(q) => q = r
             /\ Ordered(cursor, requests, read, answers)'
             /\ InFlight(r, cursor)
  <2>1. /\ OneCall(requests, answers) /\ Orderly(cursor, read)
        /\ \A q \in requests : InFlight(q, cursor)
    BY <1>6 DEF CursorInv, Good, Ordered
  <2>2. \A q \in requests : Awaited(q) => q = r
    BY <2>1 DEF OneCall, Awaited
  <2>3. OneCall(requests, answers)'
    <3>1. \A q \in requests' : Awaited(q) => q = a
      BY <1>1, <2>2 DEF base
    <3>2. answers'[a.call] = "pending"
      BY <1>1, <1>3, <2>1 DEF OneCall, Awaited
    <3> QED
      BY <1>1, <2>1, <3>1, <3>2 DEF OneCall
  <2>4. Orderly(cursor, read)'
    BY <1>1, <2>1 DEF Orderly
  <2>5. InFlight(a, cursor)
    BY <1>3, <1>6, <2>1 DEF InFlight, Awaited
  <2>6. (\A q \in requests : InFlight(q, cursor))'
    BY <1>1, <2>1, <2>5 DEF InFlight, base
  <2> QED
    BY <2>1, <2>2, <2>3, <2>4, <2>6 DEF Ordered
<1>7. ASSUME ~misused, ~LostAnswers
      PROVE  DataFits(cursor, requests, read)'
  <2>1. DataFits(cursor, requests, read)
    BY <1>7 DEF CursorInv, Good
  <2>2. ReadFits(cursor, read)'
    BY <1>1, <2>1 DEF DataFits, ReadFits
  <2>3. (\A q \in requests : Follows(q, cursor))'
    <3>1. Follows(a, cursor)'
      BY <1>1, <1>3, <1>7 DEF Follows
    <3>2. ASSUME NEW q \in base
          PROVE  Follows(q, cursor)'
      <4>1. ~Awaited(q)
        BY <1>6, <1>7 DEF base
      <4> QED
        BY <4>1 DEF Follows, Awaited
    <3> QED
      BY <1>1, <3>1, <3>2
  <2>4. CASE r.kind = "getMore"
    <3>1. a \in requests' /\ a.kind = "getMore" /\ a.phase = "answered"
      BY <1>1, <1>3, <2>4
    <3> QED
      BY <2>2, <2>3, <3>1 DEF DataFits
  <2>5. CASE r.kind = "find"
    <3>1. cursor.id = NoId /\ cursor.docs.size = 0 /\ cursor.index = 0
      BY <1>6, <1>7, <2>5 DEF InFlight
    <3>2. cursor.current + (cursor.docs.size - cursor.index) = cursor.current
      BY <1>2, <3>1, CursorTypes DEF CursorOK
    <3>3. cursor.current <= setup.matched
      BY <2>1 DEF DataFits, ReadFits
    <3>4. BufferFits(cursor)'
      BY <1>1, <3>1, <3>2, <3>3 DEF BufferFits, At, NoId, Zero
    <3> QED
      BY <2>2, <2>3, <3>4 DEF DataFits
  <2> QED
    BY <2>4, <2>5
<1>8. CursorOK(cursor)'
  BY <1>1, <1>2 DEF CursorOK
<1>9. Good(cursor, requests, read, answers, misused)'
  BY <1>1, <1>2, <1>5, <1>6, <1>7, <1>8 DEF Good
<1> QED
  BY <1>1, <1>4, <1>9 DEF CursorInv

(* A batch of n documents of the cursor id, after the first k. *)
LEMMA GivenIs ==
  ASSUME NEW r, NEW id \in ServerCursors, NEW k \in Nat, NEW n \in Nat, GiveBatch(r, id, k, n),
         EnvironmentOK, setup' = setup
  PROVE  \E reply \in Replies :
           /\ Serve(r, reply) /\ reply.found /\ reply.id \in {Zero, id}
           /\ reply.docs.first = k + 1 /\ At(reply.id, k + reply.docs.size)'
           /\ position' \in [ServerCursors -> Nat \cup {Closed}]
<1> PICK closes \in BOOLEAN :
      /\ k + n <= setup.matched
      /\ closes => k + n = setup.matched
      /\ position' = [position EXCEPT ![id] = IF closes THEN Closed ELSE k + n]
      /\ Serve(r, [found |-> TRUE, id |-> IF closes THEN Zero ELSE id,
                   docs |-> [first |-> k + 1, size |-> n]])
  BY DEF GiveBatch
<1> DEFINE docs == [first |-> k + 1, size |-> n]
           reply == [found |-> TRUE, id |-> IF closes THEN Zero ELSE id, docs |-> docs]
<1>1. docs \in Batches /\ docs.first = k + 1 /\ docs.size = n
  BY DEF Batches
<1>2. Zero \in NoId..MaxFinds /\ id \in NoId..MaxFinds /\ id # Zero
  BY SetupTypes DEF ServerCursors, Zero, NoId
<1>3. Serve(r, reply)
  OBVIOUS
<1> HIDE DEF docs
<1>4. /\ reply \in Replies /\ reply.found /\ reply.docs = docs
      /\ reply.id = IF closes THEN Zero ELSE id
  BY <1>1, <1>2 DEF Replies
<1> HIDE DEF reply
<1>5. position \in [ServerCursors -> Nat \cup {Closed}]
  BY DEF EnvironmentOK
<1>6. /\ position' \in [ServerCursors -> Nat \cup {Closed}]
      /\ ~closes => position'[id] = k + n
  BY <1>5
<1>7. At(reply.id, k + reply.docs.size)'
  BY <1>1, <1>2, <1>4, <1>6 DEF At, Zero
<1> QED
  BY <1>1, <1>3, <1>4, <1>6, <1>7

LEMMA ServeFindKeeps ==
  ASSUME CursorInv, NEW r \in requests, ServeFind(r)
  PROVE  CursorInv' /\ cursor' = cursor /\ UNCHANGED <<setup, read, killed, misused>>
<1>1. EnvironmentOK /\ RequestOK(r) /\ r.kind = "find" /\ r.phase = "sent"
  BY DEF CursorInv, Good, RequestsOK, ServeFind
<1>2. PICK n \in 0..r.batch : GiveBatch(r, opened', 0, n)
  BY DEF ServeFind
<1>3. /\ opened' \in 0..MaxFinds /\ opened' \in ServerCursors
  BY <1>1, SetupTypes DEF ServeFind, EnvironmentOK, ServerCursors
<1>4. n \in Nat /\ 0 \in Nat
  BY <1>1, <1>2 DEF RequestOK, RequestType
<1>5. setup' = setup
  BY <1>2 DEF GiveBatch, Serve
<1>6. PICK reply \in Replies :
        /\ Serve(r, reply) /\ reply.found /\ reply.id \in {Zero, opened'}
        /\ reply.docs.first = 0 + 1 /\ At(reply.id, 0 + reply.docs.size)'
        /\ position' \in [ServerCursors -> Nat \cup {Closed}]
  BY <1>1, <1>2, <1>3, <1>4, <1>5, GivenIs
<1>7. reply.id # NoId
  BY <1>3, <1>6 DEF ServerCursors, NoId, Zero
<1>8. ~misused => cursor.current = 0
  BY <1>1 DEF CursorInv, Good, Ordered, Orderly, InFlight
<1>9. cursor' = cursor
  BY <1>6 DEF Serve
<1>10. ~misused => /\ reply.docs.first = cursor.current + 1
                   /\ At(reply.id, cursor.current + reply.docs.size)'
  BY <1>6, <1>8, <1>9
<1> QED
  BY <1>1, <1>3, <1>6, <1>7, <1>10, ServedKeeps

LEMMA ServeGetMoreKeeps ==
  ASSUME CursorInv, NEW r \in requests, ServeGetMore(r)
  PROVE  CursorInv' /\ cursor' = cursor /\ UNCHANGED <<setup, read, killed, misused>>
<1>1. /\ EnvironmentOK /\ RequestOK(r) /\ r.kind = "getMore" /\ r.phase = "sent"
      /\ opened' = opened /\ opened \in 0..MaxFinds
      /\ position \in [ServerCursors -> Nat \cup {Closed}]
  BY DEF CursorInv, Good, RequestsOK, ServeGetMore, EnvironmentOK
<1>2. r.id \in ServerCursors
  BY <1>1, SetupTypes DEF RequestOK, RequestType, NoId, ServerCursors
<1>3. ~misused => r.id = cursor.id
  BY <1>1 DEF CursorInv, Good, Ordered, InFlight
<1>4. CASE position[r.id] = Closed /\ Serve(r, NoReply) /\ position' = position
  BY <1>1, <1>3, <1>4, NoReplyIs, ServedKeeps
<1>5. CASE /\ position[r.id] # Closed
           /\ \E n \in 0..r.batch : GiveBatch(r, r.id, position[r.id], n)
  <2>1. PICK n \in 0..r.batch : GiveBatch(r, r.id, position[r.id], n)
    BY <1>5
  <2>2. PICK k \in Nat : k = position[r.id]
    BY <1>1, <1>2, <1>5
  <2>3. n \in Nat
    BY <1>1, <2>1 DEF RequestOK, RequestType
  <2>4. setup' = setup
    BY <2>1 DEF GiveBatch, Serve
  <2>5. PICK reply \in Replies :
          /\ Serve(r, reply) /\ reply.found /\ reply.id \in {Zero, r.id}
          /\ reply.docs.first = k + 1 /\ At(reply.id, k + reply.docs.size)'
          /\ position' \in [ServerCursors -> Nat \cup {Closed}]
    BY <1>1, <1>2, <2>1, <2>2, <2>3, <2>4, GivenIs
  <2>6. ~misused /\ ~LostAnswers => k = cursor.current
    <3> SUFFICES ASSUME ~misused, ~LostAnswers PROVE k = cursor.current
      OBVIOUS
    <3>1. At(cursor.id, cursor.current)
      BY <1>1 DEF CursorInv, Good, DataFits, Follows
    <3> QED
      BY <1>1, <1>3, <1>5, <2>2, <3>1 DEF At, RequestOK
  <2>7. cursor' = cursor
    BY <2>5 DEF Serve
  <2>8. ~misused /\ ~LostAnswers => /\ reply.docs.first = cursor.current + 1
                                    /\ At(reply.id, cursor.current + reply.docs.size)'
    BY <2>5, <2>6, <2>7
  <2> QED
    BY <1>1, <1>3, <2>5, <2>8, ServedKeeps
<1> QED
  BY <1>4, <1>5 DEF ServeGetMore

(* A cursor of the server is closed, at the request of the driver or not.  *)
LEMMA ClosedKeeps ==
  ASSUME CursorInv, NEW x, position' = [position EXCEPT ![x] = Closed],
         requests' \subseteq requests, \A r \in requests \ requests' : r.kind = "kill",
         UNCHANGED <<setup, cursor, topology, answers, read, killed, misused, opened>>
  PROVE  CursorInv'
<1>1. EnvironmentOK /\ Good(cursor, requests, read, answers, misused)
  BY DEF CursorInv
<1>2. EnvironmentOK'
  BY <1>1 DEF EnvironmentOK
<1>3. CursorOK(cursor)' /\ RequestsOK(requests)'
  <2>1. CursorOK(cursor)'
    BY <1>1 DEF Good, CursorOK
  <2>2. RequestsOK(requests)'
    BY <1>1 DEF Good, RequestsOK, RequestOK
  <2> QED
    BY <2>1, <2>2
<1>4. ASSUME ~misused
      PROVE  Ordered(cursor, requests, read, answers)'
  <2>1. Ordered(cursor, requests, read, answers)
    BY <1>1, <1>4 DEF Good
  <2>2. OneCall(requests, answers)'
    BY <2>1 DEF Ordered, OneCall
  <2>3. Orderly(cursor, read)'
    BY <2>1 DEF Ordered, Orderly
  <2>4. (\A r \in requests : InFlight(r, cursor))'
    BY <2>1 DEF Ordered, InFlight
  <2> QED
    BY <2>2, <2>3, <2>4 DEF Ordered
<1>5. ASSUME ~misused, ~LostAnswers
      PROVE  DataFits(cursor, requests, read)'
  <2>1. DataFits(cursor, requests, read)
    BY <1>1, <1>5 DEF Good
  <2>2. \A id \in NoId..MaxFinds : id > 0 => position'[id] \in {position[id], Closed}
    <3>1. position \in [ServerCursors -> Nat \cup {Closed}]
      BY <1>1 DEF EnvironmentOK
    <3>2. \A id \in NoId..MaxFinds : id > 0 => id \in ServerCursors
      BY <1>1, SetupTypes DEF ServerCursors, NoId
    <3> QED
      BY <3>1, <3>2
  <2>3. ASSUME NEW id \in NoId..MaxFinds, NEW n, At(id, n)
        PROVE  At(id, n)'
    BY <2>2, <2>3 DEF At
  <2>4. cursor.id \in NoId..MaxFinds
    BY <1>1 DEF Good, CursorOK, CursorType
  <2>5. ReadFits(cursor, read)'
    BY <2>1 DEF DataFits, ReadFits
  <2>6. BufferFits(cursor) => BufferFits(cursor)'
    BY <2>3, <2>4 DEF BufferFits
  <2>7. ASSUME NEW r \in requests
        PROVE  Follows(r, cursor)'
    <3>1. Follows(r, cursor)
      BY <2>1 DEF DataFits
    <3>2. r.reply.id \in NoId..MaxFinds
      BY <1>1 DEF Good, RequestsOK, RequestOK, RequestType, Replies
    <3>3. r.kind = "getMore" => cursor.id > 0
      BY <1>1, <1>4, <1>5 DEF Good, Ordered, InFlight, RequestsOK, RequestOK
    <3> QED
      BY <2>2, <2>3, <2>4, <3>1, <3>2, <3>3 DEF Follows
  <2>8. (\A r \in requests : Follows(r, cursor))'
    BY <2>7
  <2>9. \A r \in requests : r.kind = "getMore" => r \in requests'
    OBVIOUS
  <2> QED
    BY <2>1, <2>5, <2>6, <2>8, <2>9 DEF DataFits
<1>6. read' \in Seq(Nat) /\ answers' \in [Calls -> Outcomes]
  BY <1>1 DEF Good
<1>7. Good(cursor, requests, read, answers, misused)'
  BY <1>3, <1>4, <1>5, <1>6 DEF Good
<1> QED
  BY <1>2, <1>7 DEF CursorInv

LEMMA Initially == Init => CursorInv
<1> SUFFICES ASSUME Init PROVE CursorInv
  OBVIOUS
<1>1. PICK session \in {"shared", "own"} :
        cursor = Start(IF setup.given THEN 1 ELSE NoId, session)
  BY DEF Init
<1>2. /\ setup \in [limit : Limits, batch : BatchSizes, tailable : BOOLEAN,
                    handler : {"store", "refuse", "none"}, given : BOOLEAN, matched : Results]
      /\ topology = "connected" /\ requests = {} /\ answers = [c \in Calls |-> "unused"]
      /\ read = <<>> /\ killed = FALSE /\ misused = FALSE
      /\ opened = IF setup.given THEN 1 ELSE 0
      /\ position = [id \in ServerCursors |-> IF id <= opened THEN 0 ELSE Closed]
  BY DEF Init
<1>3. /\ MaxFinds \in Nat /\ MaxFinds > 0 /\ 1 \in ServerCursors
  BY CursorAssumption DEF ServerCursors
<1>4. EnvironmentOK
  <2>1. opened \in 0..MaxFinds
    BY <1>2, <1>3
  <2>2. position \in [ServerCursors -> Nat \cup {Closed}]
    BY <1>2
  <2> QED
    BY <1>2, <2>1, <2>2 DEF EnvironmentOK
<1>5. /\ cursor \in CursorType /\ cursor.id \in {NoId, 1}
      /\ cursor.docs = Empty /\ cursor.index = 0 /\ cursor.current = 0
      /\ ~cursor.dead /\ ~cursor.killed /\ ~cursor.init /\ ~cursor.notified
      /\ cursor.id = 1 => setup.given
  <2> DEFINE id == IF setup.given THEN 1 ELSE NoId
  <2>1. id \in NoId..MaxFinds /\ id \in {NoId, 1} /\ (id = 1 => setup.given)
    BY <1>3 DEF NoId
  <2>2. cursor = Start(id, session)
    BY <1>1
  <2> HIDE DEF id
  <2> QED
    BY <2>1, <2>2, EmptyType DEF Start, CursorType
<1>6. cursor.docs.size = 0 /\ cursor.docs.first = 0
  BY <1>5, EmptyType
<1>7. setup.limit \in Nat /\ setup.matched \in Nat
  BY <1>4, SetupTypes
<1>8. CursorOK(cursor) /\ RequestsOK(requests)
  BY <1>2, <1>5, <1>7 DEF CursorOK, RequestsOK
<1>9. Ordered(cursor, requests, read, answers)
  <2>1. OneCall(requests, answers)
    BY <1>2 DEF OneCall
  <2>2. Orderly(cursor, read)
    BY <1>2, <1>5, <1>6 DEF Orderly
  <2> QED
    BY <1>2, <2>1, <2>2 DEF Ordered
<1>10. DataFits(cursor, requests, read)
  <2>1. <<>> = [k \in 1..0 |-> k]
    OBVIOUS
  <2>2. ReadFits(cursor, read)
    BY <1>2, <1>5, <1>6, <1>7, <2>1 DEF ReadFits
  <2>3. BufferFits(cursor)
    <3>1. cursor.current + (cursor.docs.size - cursor.index) = 0
      BY <1>5, <1>6
    <3>2. cursor.id > 0 => position[cursor.id] = 0
      BY <1>2, <1>3, <1>5 DEF NoId
    <3>3. cursor.id # Zero
      BY <1>5 DEF NoId, Zero
    <3> QED
      BY <1>7, <3>1, <3>2, <3>3 DEF BufferFits, At
  <2> QED
    BY <1>2, <2>2, <2>3 DEF DataFits
<1>11. read \in Seq(Nat) /\ answers \in [Calls -> Outcomes]
  BY <1>2 DEF Outcomes
<1> QED
  BY <1>4, <1>8, <1>9, <1>10, <1>11 DEF CursorInv, Good

(* What the application sees of a good step is a step of the reading.      *)
LEMMA ReadsRefines ==
  ASSUME CursorInv, UNCHANGED <<setup, killed>>, misused => misused',
         misused' \/ Reads(cursor), CursorInv'
  PROVE  [Reader!Next]_(Reader!vars)
<1>1. killed \in BOOLEAN /\ misused \in BOOLEAN /\ misused' \in BOOLEAN
  BY DEF CursorInv, EnvironmentOK
<1>2. cursor.notified \in BOOLEAN /\ cursor'.notified \in BOOLEAN
  BY DEF CursorInv, Good, CursorOK, CursorType
<1>3. CASE misused'
  BY <1>3 DEF Reader!Next, Reader!Misuse
<1>4. CASE ~misused' /\ read' = read /\ cursor'.notified = cursor.notified
  BY <1>1, <1>4 DEF Reader!vars
<1>5. CASE /\ ~misused' /\ read' = read /\ ~cursor.notified /\ cursor'.notified
           /\ killed \/ Len(read) = Reader!Allowed
  BY <1>1, <1>5 DEF Reader!vars, Reader!Next, Reader!Finish
<1>6. CASE /\ ~misused' /\ ~killed /\ ~cursor.notified /\ ~cursor'.notified
           /\ \E n \in (Len(read) + 1)..Reader!Allowed : read' = [k \in 1..n |-> k]
  BY <1>1, <1>6 DEF Reader!Next, Reader!Read, Reader!FirstDocuments
<1> QED
  BY <1>3, <1>4, <1>5, <1>6 DEF Reads

(* One step of the system: the invariant, no cursor left behind on the     *)
(* server, and a step of the reading.                                      *)
LEMMA StepKeeps ==
  ASSUME CursorInv, [Next]_vars
  PROVE  /\ CursorInv'
         /\ ~misused => Sweeps(cursor)
         /\ ~LostAnswers => [Reader!Next]_(Reader!vars)
<1> DEFINE Shown == /\ CursorInv'
                    /\ ~misused => Sweeps(cursor)
                    /\ ~LostAnswers => [Reader!Next]_(Reader!vars)
<1>1. ASSUME Keeps(cursor), UNCHANGED <<setup, opened, position, killed>>,
             topology' = topology, misused => misused', misused' \in BOOLEAN
      PROVE  Shown
  <2>1. CursorInv'
    BY <1>1, KeepsNext DEF CursorInv, EnvironmentOK
  <2>2. ~LostAnswers => [Reader!Next]_(Reader!vars)
    BY <1>1, <2>1, ReadsRefines DEF Keeps
  <2> QED
    BY <1>1, <2>1, <2>2 DEF Keeps
<1>2. ASSUME CursorInv', UNCHANGED <<setup, cursor, read, killed, misused>>
      PROVE  Shown
  BY <1>2 DEF Sweeps, Reader!vars
<1>3. ASSUME NEW c \in Calls, CallNext(c)
      PROVE  Shown
  BY <1>1, <1>3, CallNextKeeps DEF CallNext, serverVars, CursorInv, EnvironmentOK
<1>4. ASSUME NEW number \in 1..setup.matched, ReadBufferedDocuments(number)
      PROVE  Shown
  <2>1. number \in Nat
    BY SetupTypes DEF CursorInv
  <2> QED
    BY <1>1, <1>4, <2>1, ReadBufferedKeeps DEF CursorInv, EnvironmentOK
<1>5. ASSUME Kill
      PROVE  Shown
  <2>1. CursorInv' /\ Sweeps(cursor) /\ killed \in BOOLEAN /\ misused \in BOOLEAN
    BY <1>5, KillKeeps DEF CursorInv, EnvironmentOK
  <2>2. /\ UNCHANGED <<setup, read, misused>> /\ killed' = TRUE
        /\ cursor'.notified = cursor.notified
    <3>1. cursor \in CursorType
      BY DEF CursorInv, Good, CursorOK
    <3> QED
      BY <1>5, <3>1, KilledIs DEF Kill
  <2>3. [Reader!Next]_(Reader!vars)
    BY <2>1, <2>2 DEF Reader!Next, Reader!Kill, Reader!vars
  <2> QED
    BY <2>1, <2>3
<1>6. ASSUME Rewind
      PROVE  Shown
  <2>1. CursorInv' /\ Sweeps(cursor)
    BY <1>6, RewindKeeps
  <2>2. /\ setup' = setup /\ read' = <<>> /\ killed' = FALSE
        /\ misused' = (misused \/ Pending # {}) /\ ~cursor'.notified
    BY <1>6 DEF Rewind, Start
  <2>3. [Reader!Next]_(Reader!vars)
    BY <2>2 DEF Reader!Next, Reader!Rewind, Reader!Misuse
  <2> QED
    BY <2>1, <2>3
<1>7. ASSUME NEW r \in requests, Selected(r)
      PROVE  Shown
  BY <1>1, <1>7, SelectedKeeps DEF Selected, serverVars, CursorInv, EnvironmentOK
<1>8. ASSUME NEW r \in requests, SelectionFailed(r)
      PROVE  Shown
  BY <1>1, <1>8, SelectionFailedKeeps
     DEF SelectionFailed, serverVars, clientVars, CursorInv, EnvironmentOK
<1>9. ASSUME NEW r \in requests, FindAnswered(r)
      PROVE  Shown
  BY <1>1, <1>9, FindAnsweredKeeps DEF FindAnswered, serverVars, CursorInv, EnvironmentOK
<1>10. ASSUME NEW r \in requests, GetMoreAnswered(r)
       PROVE  Shown
  <2>1. UNCHANGED <<setup, topology, killed, misused, opened, position>> /\ misused \in BOOLEAN
    BY <1>10 DEF GetMoreAnswered, serverVars, CursorInv, EnvironmentOK
  <2>2. /\ Good(cursor', requests', read', answers', misused')
        /\ ~misused => Keeps(cursor)
    BY <1>10, GetMoreAnsweredKeeps
  <2>3. CursorInv'
    BY <2>1, <2>2, GoodNext DEF CursorInv, EnvironmentOK
  <2>4. ~LostAnswers => [Reader!Next]_(Reader!vars)
    BY <2>1, <2>2, <2>3, ReadsRefines DEF Keeps
  <2> QED
    BY <2>2, <2>3, <2>4 DEF Keeps
<1>11. ASSUME NEW r \in requests, RunStored(r)
       PROVE  Shown
  BY <1>1, <1>11, RunStoredKeeps DEF RunStored, serverVars, CursorInv, EnvironmentOK
<1>12. ASSUME NEW r \in requests, FlushStored(r)
       PROVE  Shown
  BY <1>1, <1>12, FlushStoredKeeps
     DEF FlushStored, serverVars, clientVars, CursorInv, EnvironmentOK
<1>13. ASSUME Disconnect \/ Reconnect \/ Destroy
       PROVE  Shown
  <2>1. /\ UNCHANGED <<setup, cursor, requests, answers, clientVars, serverVars>>
        /\ topology' \in {"connected", "disconnected", "destroyed"}
    BY <1>13 DEF Disconnect, Reconnect, Destroy
  <2>2. Good(cursor', requests', read', answers', misused')
    BY <2>1 DEF CursorInv, clientVars
  <2>3. CursorInv'
    BY <2>1, <2>2, GoodNext DEF CursorInv, EnvironmentOK, clientVars, serverVars
  <2> QED
    BY <1>2, <2>1, <2>3 DEF clientVars
<1>14. ASSUME NEW r \in requests, ServeFind(r)
       PROVE  Shown
  BY <1>2, <1>14, ServeFindKeeps
<1>15. ASSUME NEW r \in requests, ServeGetMore(r)
       PROVE  Shown
  BY <1>2, <1>15, ServeGetMoreKeeps
<1>16. ASSUME NEW r \in requests, ServeKill(r)
       PROVE  Shown
  <2>1. CursorInv'
    BY <1>16, ClosedKeeps DEF ServeKill, clientVars
  <2> QED
    BY <1>2, <1>16, <2>1 DEF ServeKill, clientVars
<1>17. ASSUME NEW r \in requests, CommandFailed(r)
       PROVE  Shown
  BY <1>1, <1>17, CommandFailedKeeps
     DEF CommandFailed, serverVars, clientVars, CursorInv, EnvironmentOK
<1>18. ASSUME NEW id \in ServerCursors, CursorTimedOut(id)
       PROVE  Shown
  <2>1. CursorInv'
    BY <1>18, ClosedKeeps DEF CursorTimedOut, clientVars
  <2> QED
    BY <1>2, <1>18, <2>1 DEF CursorTimedOut, clientVars
<1>19. ASSUME UNCHANGED vars
       PROVE  Shown
  <2>1. Good(cursor', requests', read', answers', misused')
    BY <1>19 DEF vars, CursorInv, clientVars
  <2>2. CursorInv'
    BY <1>19, <2>1, GoodNext DEF vars, clientVars, serverVars, CursorInv, EnvironmentOK
  <2> QED
    BY <1>2, <1>19, <2>2 DEF vars, clientVars
<1> HIDE DEF Shown
<1>20. Shown
  <2>1. CASE Application
    BY <1>3, <1>4, <1>5, <1>6, <2>1 DEF Application
  <2>2. CASE Driver
    BY <1>7, <1>8, <1>9, <1>10, <1>11, <1>12, <2>2 DEF Driver
  <2>3. CASE Environment
    BY <1>13, <1>14, <1>15, <1>16, <1>17, <1>18, <2>3 DEF Environment
  <2> QED
    BY <1>19, <2>1, <2>2, <2>3 DEF Next
<1> QED
  BY <1>20 DEF Shown

(***************************************************************************)
(* Theorems                                                                *)
(***************************************************************************)

(* The invariant holds, for every query and number of calls.               *)
THEOREM CursorInvariance == Spec => []CursorInv
<1>1. CursorInv /\ [Next]_vars => CursorInv'
  BY StepKeeps
<1> QED
  BY Initially, <1>1, PTL DEF Spec

(* The variables of the cursor keep their types.                           *)
THEOREM CursorTypeCorrect == Spec => []TypeOK
<1>1. CursorInv => TypeOK
  BY DEF CursorInv, EnvironmentOK, Good, CursorOK, RequestsOK, RequestOK, CursorType,
         RequestType, Outcomes, TypeOK
<1> QED
  BY <1>1, CursorInvariance, PTL

(* The commands that a cursor sends ask for no more than its limit leaves  *)
(* (getMore's batch, _getmore), and never in a session that the cursor has *)
(* ended, however the answers and the calls are interleaved.               *)
THEOREM CommandsCorrect == Spec => []CommandsSound
<1>1. CursorInv => BatchFitsLimit
  <2> SUFFICES ASSUME CursorInv, NEW r \in requests, r.kind = "getMore", ~misused
               PROVE  r.batch > 0 /\ (setup.limit > 0 => Len(read) + r.batch <= setup.limit)
    BY DEF BatchFitsLimit
  <2>1. Orderly(cursor, read) /\ InFlight(r, cursor)
    BY DEF CursorInv, Good, Ordered
  <2> QED
    BY <2>1 DEF Orderly, InFlight
<1>2. CursorInv => SessionHeld
  BY DEF CursorInv, Good, Ordered, CursorOK, InFlight, SessionHeld
<1>3. CursorInv => CommandsSound
  BY <1>1, <1>2 DEF CommandsSound
<1> QED
  BY <1>3, CursorInvariance, PTL

(* A cursor that dies sends the command that closes it on the server, if   *)
(* it knows one there: by the limit, by kill, by readBufferedDocuments.    *)
THEOREM KillsSent == Spec => KilledOnServer
<1> DEFINE Kills == ~cursor.dead /\ cursor'.dead /\ cursor'.init /\ cursor'.id > Zero /\ ~misused
                      => \E r \in requests' : r.kind = "kill" /\ r.id = cursor'.id
<1>1. CursorInv /\ [Next]_vars => [Kills]_vars
  BY StepKeeps DEF Sweeps
<1>2. Spec => [][Kills]_vars
  BY <1>1, CursorInvariance, PTL DEF Spec
<1> QED
  BY <1>2 DEF KilledOnServer

(* If no answer is lost after the server has acted on the command, what    *)
(* the application sees is the reading of the result: every document once, *)
(* in order, up to the limit, and the end only there.  (When the answer to *)
(* a getMore is lost, the next one gets the batch that follows.)           *)
THEOREM ReadingImplemented == ASSUME ~LostAnswers PROVE Spec => ReaderSpec
<1>1. Init => Reader!Init
  <2> SUFFICES ASSUME Init PROVE Reader!Init
    OBVIOUS
  <2>1. setup.matched \in Nat /\ setup.limit \in Nat
    BY Initially, SetupTypes DEF CursorInv
  <2>2. ~killed /\ ~misused /\ read = <<>> /\ ~cursor.notified
    BY DEF Init, Start
  <2> QED
    BY <2>1, <2>2 DEF Reader!Init
<1>2. CursorInv /\ [Next]_vars => [Reader!Next]_(Reader!vars)
  BY StepKeeps
<1> QED
  BY <1>1, <1>2, CursorInvariance, PTL DEF Spec, ReaderSpec, Reader!Spec
===============================================================================
