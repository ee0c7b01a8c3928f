-------------------------------- MODULE Cursor --------------------------------
(***************************************************************************)
(* A cursor, lib/cursor.js: the application asks for documents with next   *)
(* and readBufferedDocuments, kills and rewinds the cursor; the cursor     *)
(* finds a server, sends it the query and then getMore commands, and keeps *)
(* the last batch it was given.  The server, its cursors and the store of  *)
(* calls made while disconnected (disconnectHandler) are the environment.  *)
(*                                                                         *)
(* Documents are numbered in the order of the result, so that a batch is   *)
(* the number of its first document and its size.  Tailable cursors wait   *)
(* on the server: awaitData changes nothing here.                          *)
(***************************************************************************)
EXTENDS Integers, Sequences, FiniteSets

CONSTANTS
  Calls,         \* calls of next that can be under way at once, by name
  Results,       \* how many documents may match the query
  Limits,        \* limits of the cursor, 0 for none
  BatchSizes,    \* batch sizes of the cursor
  MaxFinds,      \* bound on the cursors the server makes for this one
  NoCall,        \* the call of a command that answers none
  LostAnswers    \* whether an answer can be lost after the server has acted

ASSUME CursorAssumption ==
  /\ Results \subseteq Nat /\ Limits \subseteq Nat
  /\ BatchSizes \subseteq Nat \ {0}
  /\ MaxFinds \in Nat \ {0}
  /\ LostAnswers \in BOOLEAN
  /\ NoCall \notin Calls

VARIABLES
  setup,      \* the options of the cursor, and the result that awaits it
  cursor,     \* this.cursorState
  topology,   \* the topology, as isConnected and isDestroyed tell it
  requests,   \* selections and commands that were not answered yet, and the
              \* calls of next held by the disconnectHandler
  answers,    \* what the last call of next of each name was answered
  read,       \* the documents the application was given, since the start or a rewind
  killed,     \* the application has called kill since the start or a rewind
  misused,    \* two calls of next overlapped, or a rewind overlapped one
  opened,     \* how many cursors the server made
  position    \* how many documents each of them has handed out, Closed when closed

clientVars == <<read, killed, misused>>
serverVars == <<opened, position>>
vars == <<setup, cursor, topology, requests, answers, clientVars, serverVars>>

-------------------------------------------------------------------------------
(* cursorId: null before the answer to the query, Long.ZERO once the       *)
(* server has closed its cursor.                                           *)
NoId == -1
Zero == 0
ServerCursors == 1..MaxFinds
Closed == -1

Empty == [first |-> 0, size |-> 0]
NoReply == [found |-> FALSE, id |-> NoId, docs |-> Empty]

Pending == {c \in Calls : answers[c] = "pending"}

(* The bound on cursors of the server, counting the queries under way. *)
MayFind ==
  opened + Cardinality({r \in requests : r.kind \in {"select", "stored", "find"}}) < MaxFinds

(* Mutant: one document more than the limit.                               *)
MutantBeyondLimit(s) == setup.limit > 0 /\ s.current > setup.limit

(* The application has been given as many documents as it wanted. *)
AtLimit(s) == setup.limit > 0 /\ s.current >= setup.limit

(* Mutant: the limit is not taken into account. *)
MutantFullBatch(s) == setup.batch

(* Mutant: the subtraction is made whether there is a limit or not.        *)
MutantNoLimitChecked(s) == setup.limit - s.current

(* _getmore: a batch no larger than what is left of the limit. *)
BatchSize(s) ==
  IF setup.limit > 0 /\ s.current + setup.batch > setup.limit
  THEN setup.limit - s.current ELSE setup.batch

(* _endSession: a session is ended by the cursor that owns it. *)
SessionEnded(s) == [s EXCEPT !.session = IF @ = "own" THEN "ended" ELSE @]

(* Mutant: the cursor forgets to end its session when it notifies.         *)
MutantNotNotified(s) ==
  [s EXCEPT !.notified = TRUE, !.docs = Empty, !.index = 0]

(* _setCursorNotifiedImpl *)
Notified(s) ==
  SessionEnded([s EXCEPT !.notified = TRUE, !.docs = Empty, !.index = 0])

Killed(s) == [s EXCEPT !.dead = TRUE, !.killed = TRUE, !.docs = Empty]

(* Mutant: kill only marks the cursor.                                     *)
MutantNotSent(s, reqs) == reqs

(* The command kill sends: none when there is no cursor on the server, or  *)
(* none is known yet.                                                      *)
KillSent(s, reqs) ==
  IF s.id \in {NoId, Zero} \/ ~s.init THEN reqs
  ELSE reqs \cup {[kind |-> "kill", id |-> s.id, call |-> NoCall, batch |-> 0,
                   phase |-> "sent", reply |-> NoReply]}

-------------------------------------------------------------------------------
(* The call c of next is answered a, or goes on pending, and the cursor is *)
(* left in state s.                                                        *)
Reply(c, a, s, reqs) ==
  /\ answers' = [answers EXCEPT ![c] = a]
  /\ cursor' = s
  /\ requests' = reqs

Await(kind, c, s, batch, reqs) ==
  Reply(c, "pending", s, reqs \cup {[kind |-> kind, id |-> s.id, call |-> c,
                                     batch |-> batch, phase |-> "sent", reply |-> NoReply]})

(* A command is sent for the call c, unless the session given in the       *)
(* options has ended (applySession).                                       *)
Command(kind, c, s, batch, reqs) ==
  \/ s.session = "ended" /\ Reply(c, "error", s, reqs)
  \/ s.session # "ended" /\ Await(kind, c, s, batch, reqs)

(* initializeCursor: without a connection the call is refused or stored,   *)
(* else a server is looked for.                                            *)
InitializeCursor(c, s, reqs) ==
  LET disconnected == topology # "connected" /\ setup.handler # "none" IN
  \/ /\ disconnected /\ (setup.handler = "refuse" \/ topology = "destroyed")
     /\ Reply(c, "error", s, reqs)
  \/ /\ disconnected /\ setup.handler = "store" /\ topology # "destroyed"
     /\ Await("stored", c, s, 0, reqs)
  \/ ~disconnected /\ Await("select", c, s, 0, reqs)

(* The branches of nextFunction that find no buffered document left. *)
NoneBuffered(c, s, reqs) ==
  LET emptied == [s EXCEPT !.docs = Empty, !.index = 0] IN
  \* Long.ZERO.equals(null) raises an exception
  \/ s.id = NoId /\ Reply(c, "threw", s, reqs)
  \/ s.id > Zero /\ topology = "destroyed" /\ Reply(c, "error", emptied, reqs)
  \/ /\ s.id > Zero /\ topology # "destroyed"
     /\ Command("getMore", c, emptied, BatchSize(s), reqs)
  \/ s.id = Zero /\ setup.tailable /\ Reply(c, "tailed", s, reqs)
  \/ /\ s.id = Zero /\ ~setup.tailable
     /\ Reply(c, "null", Notified([s EXCEPT !.dead = TRUE]), reqs)

(* The branch of nextFunction that takes the next buffered document; past  *)
(* the end of the batch there is none.                                     *)
Buffered(c, s, reqs) ==
  LET taken == [s EXCEPT !.current = @ + 1, !.index = @ + 1] IN
  \/ /\ s.index < s.docs.size
     /\ read' = Append(read, s.docs.first + s.index)
     /\ Reply(c, "document", taken, reqs)
  \/ /\ s.index > s.docs.size
     /\ Reply(c, "error", Notified(Killed(taken)), KillSent(taken, reqs))
     /\ UNCHANGED read

(* nextFunction, called for the call c in state s. *)
NextFunction(c, s, reqs) ==
  LET live == ~s.notified /\ ~s.killed /\ ~s.dead IN
  \/ /\ s.notified
     /\ Reply(c, "exhausted", s, reqs) /\ UNCHANGED read
  \/ /\ ~s.notified /\ (s.killed \/ s.dead)
     /\ Reply(c, "null", Notified([s EXCEPT !.killed = TRUE]), reqs) /\ UNCHANGED read
  \/ /\ live /\ ~s.init
     /\ InitializeCursor(c, s, reqs) /\ UNCHANGED read
  \/ /\ live /\ s.init /\ AtLimit(s)
     /\ Reply(c, "null", Notified(Killed(s)), KillSent(s, reqs)) /\ UNCHANGED read
  \/ /\ live /\ s.init /\ ~AtLimit(s) /\ s.index = s.docs.size
     /\ NoneBuffered(c, s, reqs) /\ UNCHANGED read
  \/ /\ live /\ s.init /\ ~AtLimit(s) /\ s.index # s.docs.size
     /\ Buffered(c, s, reqs)

(* done, inside initializeCursor *)
Done(c, s, reqs) ==
  LET ended == IF s.id = Zero THEN SessionEnded(s) ELSE s IN
  IF s.docs.size = 0 /\ s.id = Zero /\ ~setup.tailable
  THEN Reply(c, "null", Notified(ended), reqs) /\ UNCHANGED read
  ELSE NextFunction(c, ended, reqs)

-------------------------------------------------------------------------------
(* The application calls next, perhaps before an earlier call is answered. *)
CallNext(c) ==
  /\ c \notin Pending
  /\ cursor.init \/ MayFind
  /\ NextFunction(c, cursor, requests)
  /\ misused' = (misused \/ Pending # {})
  /\ UNCHANGED <<setup, topology, killed, serverVars>>

(* readBufferedDocuments: no more than the limit allows. *)
ReadBufferedDocuments(number) ==
  LET unread == cursor.docs.size - cursor.index
      length == IF number < unread THEN number ELSE unread
      wanted == IF length > 0 THEN length ELSE 0
      over == setup.limit > 0 /\ cursor.current + wanted > setup.limit
      given == IF over THEN setup.limit - cursor.current ELSE wanted
      left == IF over THEN Killed(cursor) ELSE cursor
  IN
  /\ number > 0
  /\ read' = read \o [k \in 1..given |-> cursor.docs.first + cursor.index + k - 1]
  /\ cursor' = [left EXCEPT !.current = @ + given, !.index = @ + given]
  /\ requests' = IF over THEN KillSent(cursor, requests) ELSE requests
  /\ UNCHANGED <<setup, topology, answers, killed, misused, serverVars>>

Kill ==
  /\ cursor' = Killed(cursor)
  /\ requests' = KillSent(cursor, requests)
  /\ killed' = TRUE
  /\ UNCHANGED <<setup, topology, answers, read, misused, serverVars>>

Start(id, session) ==
  [id |-> id, docs |-> Empty, index |-> 0, current |-> 0, dead |-> FALSE,
   killed |-> FALSE, init |-> FALSE, notified |-> FALSE, session |-> session]

(* rewind: nothing happens to a cursor that was not initialized.  One made *)
(* from the id of a server cursor has no query to run again.               *)
Rewind ==
  /\ ~setup.given
  /\ cursor.init
  /\ MayFind
  /\ cursor' = Start(NoId, cursor.session)
  /\ requests' = IF cursor.dead THEN requests ELSE KillSent(cursor, requests)
  /\ read' = <<>>
  /\ killed' = FALSE
  /\ misused' = (misused \/ Pending # {})
  /\ UNCHANGED <<setup, topology, answers, serverVars>>

-------------------------------------------------------------------------------
(* selectServer found a server, or did not in time. *)
Selected(r) ==
  /\ r.kind = "select" /\ topology = "connected"
  /\ LET s == [cursor EXCEPT !.init = TRUE] IN
     IF s.id # NoId
     THEN Done(r.call, s, requests \ {r})
     ELSE /\ Command("find", r.call, s, setup.batch, requests \ {r})
          /\ UNCHANGED read
  /\ UNCHANGED <<setup, topology, killed, misused, serverVars>>

(* Mutant: the error of the selection is not passed on.                    *)
MutantSelectionForgotten(r) ==
  /\ r.kind = "select" /\ topology # "connected"
  /\ requests' = requests \ {r}
  /\ UNCHANGED <<setup, cursor, topology, answers, clientVars, serverVars>>

SelectionFailed(r) ==
  /\ r.kind = "select" /\ topology # "connected"
  /\ IF setup.handler = "store"
     THEN Await("stored", r.call, cursor, 0, requests \ {r})
     ELSE Reply(r.call, "error", cursor, requests \ {r})
  /\ UNCHANGED <<setup, topology, clientVars, serverVars>>

(* The answer to the query arrives. *)
FindAnswered(r) ==
  /\ r.kind = "find" /\ r.phase = "answered"
  /\ Done(r.call, [cursor EXCEPT !.id = r.reply.id, !.docs = r.reply.docs], requests \ {r})
  /\ UNCHANGED <<setup, topology, killed, misused, serverVars>>

(* The answer to a getMore arrives. *)
GetMoreAnswered(r) ==
  LET s == [cursor EXCEPT !.id = r.reply.id, !.docs = r.reply.docs]
      ended == IF s.id = Zero THEN SessionEnded(s) ELSE s
      tailed == s.docs.size = 0 /\ setup.tailable
      base == requests \ {r}
  IN
  /\ r.kind = "getMore" /\ r.phase = "answered"
  /\ \/ /\ ~r.reply.found
        /\ Reply(r.call, "error", cursor, base) /\ UNCHANGED read
     \/ /\ r.reply.found /\ tailed /\ s.id = Zero
        /\ Reply(r.call, "tailed", ended, base) /\ UNCHANGED read
     \/ /\ r.reply.found /\ ~tailed /\ AtLimit(s)
        /\ Reply(r.call, "null", Notified([ended EXCEPT !.dead = TRUE]), base)
        /\ UNCHANGED read
     \/ /\ r.reply.found
        /\ IF tailed THEN s.id # Zero ELSE ~AtLimit(s)
        /\ NextFunction(r.call, ended, base)
  /\ UNCHANGED <<setup, topology, killed, misused, serverVars>>

(* The connection fails before the server has seen the command, or before  *)
(* its answer is read.                                                     *)
CommandFailed(r) ==
  /\ r.kind \in {"find", "getMore", "kill"}
  /\ r.phase = "answered" => LostAnswers
  /\ IF r.kind = "kill"
     THEN requests' = requests \ {r} /\ UNCHANGED <<cursor, answers>>
     ELSE Reply(r.call, "error", cursor, requests \ {r})
  /\ UNCHANGED <<setup, topology, clientVars, serverVars>>

-------------------------------------------------------------------------------
(* The topology loses its connection, gets it back, is destroyed. *)
Disconnect ==
  /\ topology = "connected" /\ topology' = "disconnected"
  /\ UNCHANGED <<setup, cursor, requests, answers, clientVars, serverVars>>

Reconnect ==
  /\ topology = "disconnected" /\ topology' = "connected"
  /\ UNCHANGED <<setup, cursor, requests, answers, clientVars, serverVars>>

Destroy ==
  /\ topology # "destroyed" /\ topology' = "destroyed"
  /\ UNCHANGED <<setup, cursor, requests, answers, clientVars, serverVars>>

(* The store runs a call again, or gives it up. *)
RunStored(r) ==
  /\ r.kind = "stored" /\ topology = "connected"
  /\ NextFunction(r.call, cursor, requests \ {r})
  /\ UNCHANGED <<setup, topology, killed, misused, serverVars>>

FlushStored(r) ==
  /\ r.kind = "stored" /\ topology # "connected"
  /\ Reply(r.call, "error", cursor, requests \ {r})
  /\ UNCHANGED <<setup, topology, clientVars, serverVars>>

(* The server takes the command r and sends the reply. *)
Serve(r, reply) ==
  /\ requests' = (requests \ {r}) \cup {[r EXCEPT !.phase = "answered", !.reply = reply]}
  /\ UNCHANGED <<setup, cursor, topology, answers, clientVars>>

(* It gives n documents of its cursor id, after the first k, and keeps the *)
(* cursor open unless they were the last.                                  *)
GiveBatch(r, id, k, n) ==
  \E closes \in BOOLEAN :
    /\ k + n <= setup.matched
    /\ closes => k + n = setup.matched
    /\ position' = [position EXCEPT ![id] = IF closes THEN Closed ELSE k + n]
    /\ Serve(r, [found |-> TRUE, id |-> IF closes THEN Zero ELSE id,
                 docs |-> [first |-> k + 1, size |-> n]])

(* Queries of calls that overlap may be more than the bound leaves: those  *)
(* past it are not answered.                                               *)
ServeFind(r) ==
  /\ r.kind = "find" /\ r.phase = "sent"
  /\ opened < MaxFinds
  /\ opened' = opened + 1
  /\ \E n \in 0..r.batch : GiveBatch(r, opened', 0, n)

(* No empty batch comes from a cursor that has documents left, unless it   *)
(* is tailable.                                                            *)
ServeGetMore(r) ==
  /\ r.kind = "getMore" /\ r.phase = "sent"
  /\ \/ /\ position[r.id] = Closed
        /\ Serve(r, NoReply)
        /\ UNCHANGED position
     \/ /\ position[r.id] # Closed
        /\ \E n \in 0..r.batch :
             /\ GiveBatch(r, r.id, position[r.id], n)
             /\ n = 0 /\ ~setup.tailable => position'[r.id] = Closed
  /\ UNCHANGED opened

ServeKill(r) ==
  /\ r.kind = "kill"
  /\ position' = [position EXCEPT ![r.id] = Closed]
  /\ requests' = requests \ {r}
  /\ UNCHANGED <<setup, cursor, topology, answers, clientVars, opened>>

(* A cursor that was idle for too long is closed by the server. *)
CursorTimedOut(id) ==
  /\ position' = [position EXCEPT ![id] = Closed]
  /\ UNCHANGED <<setup, cursor, topology, requests, answers, clientVars, opened>>

-------------------------------------------------------------------------------
Init ==
  /\ setup \in [limit : Limits, batch : BatchSizes, tailable : BOOLEAN,
                handler : {"store", "refuse", "none"}, given : BOOLEAN,
                matched : Results]
  /\ \E session \in {"shared", "own"} :
       cursor = Start(IF setup.given THEN 1 ELSE NoId, session)
  /\ topology = "connected"
  /\ requests = {}
  /\ answers = [c \in Calls |-> "unused"]
  /\ read = <<>> /\ killed = FALSE /\ misused = FALSE
  /\ opened = IF setup.given THEN 1 ELSE 0
  /\ position = [id \in ServerCursors |-> IF id <= opened THEN 0 ELSE Closed]

Application ==
  \/ \E c \in Calls : CallNext(c)
  \/ \E number \in 1..setup.matched : ReadBufferedDocuments(number)
  \/ Kill
  \/ Rewind

Driver ==
  \E r \in requests :
    \/ Selected(r) \/ SelectionFailed(r)
    \/ FindAnswered(r) \/ GetMoreAnswered(r)
    \/ RunStored(r) \/ FlushStored(r)

Environment ==
  \/ Disconnect \/ Reconnect \/ Destroy
  \/ \E r \in requests :
       ServeFind(r) \/ ServeGetMore(r) \/ ServeKill(r) \/ CommandFailed(r)
  \/ \E id \in ServerCursors : CursorTimedOut(id)

Next == Application \/ Driver \/ Environment

Spec == Init /\ [][Next]_vars

(* What goes on with the call c. *)
Step(c) ==
  \E r \in requests :
    /\ r.call = c
    /\ \/ SelectionFailed(r) \/ RunStored(r) \/ FlushStored(r)
       \/ ServeFind(r) \/ ServeGetMore(r)
       \/ FindAnswered(r) \/ GetMoreAnswered(r)

(* The server answers or the connection fails; what is stored runs again   *)
(* once connected; a server is looked for in the same tick as the          *)
(* connection was seen to be there, so flapping does not defer it forever. *)
Fairness ==
  \A c \in Calls :
    /\ WF_vars(Step(c))
    /\ SF_vars(\E r \in requests : r.call = c /\ Selected(r))

FairSpec == Spec /\ Fairness

-------------------------------------------------------------------------------
Batches == [first : Nat, size : Nat]
Replies == [found : BOOLEAN, id : NoId..MaxFinds, docs : Batches]

(* Every variable keeps its type; indices may run past a batch, no further *)
(* than the calls made.                                                    *)
TypeOK ==
  /\ setup \in [limit : Limits, batch : BatchSizes, tailable : BOOLEAN,
                handler : {"store", "refuse", "none"}, given : BOOLEAN,
                matched : Results]
  /\ cursor \in [id : NoId..MaxFinds, docs : Batches, index : Nat, current : Nat,
                 dead : BOOLEAN, killed : BOOLEAN, init : BOOLEAN,
                 notified : BOOLEAN, session : {"shared", "own", "ended"}]
  /\ topology \in {"connected", "disconnected", "destroyed"}
  /\ \A r \in requests :
       r \in [kind : {"select", "stored", "find", "getMore", "kill"}, id : NoId..MaxFinds,
              call : Calls \cup {NoCall}, batch : Nat,
              phase : {"sent", "answered"}, reply : Replies]
  /\ answers \in [Calls -> {"unused", "pending", "document", "null", "exhausted",
                            "error", "threw", "tailed"}]
  /\ read \in Seq(Nat)
  /\ {killed, misused} \subseteq BOOLEAN
  /\ opened \in 0..MaxFinds
  /\ position \in [ServerCursors -> Nat \cup {Closed}]

(* A getMore asks for something, and for no more than the limit leaves.    *)
BatchFitsLimit ==
  \A r \in requests :
    r.kind = "getMore" /\ ~misused =>
      /\ r.batch > 0
      /\ setup.limit > 0 => Len(read) + r.batch <= setup.limit

(* The session that the cursor owns is not ended under a command of the    *)
(* cursor, and is ended when the application has been told of the end.     *)
SessionHeld ==
  /\ cursor.notified => cursor.session # "own"
  /\ ~misused => \A r \in requests :
                   r.kind \in {"find", "getMore"} => cursor.session # "ended"

(* The commands of a cursor stay within its limit and its session. *)
CommandsSound == BatchFitsLimit /\ SessionHeld

(* A cursor that dies, at the limit or by kill, leaves nothing behind on   *)
(* the server: it was closed, or a command to kill it is on its way.       *)
KilledOnServer ==
  [][~cursor.dead /\ cursor'.dead /\ cursor'.init /\ cursor'.id > Zero /\ ~misused
     => \E r \in requests' : r.kind = "kill" /\ r.id = cursor'.id]_vars

(* Every call of next is answered, unless the cursor is tailable and may   *)
(* wait for documents forever.                                             *)
NextAnswered ==
  \A c \in Calls : answers[c] = "pending" /\ ~setup.tailable ~> answers[c] # "pending"

(* What the application sees is the reading of a result, in order and up   *)
(* to the limit (CursorReader).                                            *)
Reader == INSTANCE CursorReader WITH
  matched <- setup.matched,
  limit <- setup.limit,
  status <- IF misused THEN "misused" ELSE IF killed THEN "killed"
            ELSE IF cursor.notified THEN "over" ELSE "reading"

ReaderSpec == Reader!Spec
===============================================================================
