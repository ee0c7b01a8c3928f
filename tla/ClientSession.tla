---------------------------- MODULE ClientSession -----------------------------
(***************************************************************************)
(* Client sessions and their transactions: ClientSession, endTransaction   *)
(* and applySession of lib/sessions.js, the Transaction of                 *)
(* lib/transactions.js, and what the unified topology does with a session  *)
(* when it selects a server and retries (lib/sdam/topology.js) and when a  *)
(* command is written and answered (lib/wireprotocol/command.js).          *)
(*                                                                         *)
(* A client makes its calls on a session one at a time, waiting for the    *)
(* answer of each, but a session can be ended at any time: close() of the  *)
(* topology ends all of them.  So a session has at most two requests: the  *)
(* "call" of its client, and the abort of its "end".                       *)
(*                                                                         *)
(* Server selection calls back at once when a server is known ("ready")    *)
(* or later ("selecting").  What runs at once is done before anything      *)
(* else: see Still.  Which pooled server sessions have timed out is left   *)
(* open here; SessionPool says when they have.                             *)
(***************************************************************************)
EXTENDS Integers, Sequences, Functions

CONSTANTS
  Sessions,        \* client sessions, each of which is used once
  ServerSessions,  \* server sessions that can be made
  Servers,         \* addresses that can be selected
  Sharded,         \* is the topology one of mongos proxies
  RetryWrites,     \* options.retryWrites
  MaxNumber,       \* bound on the transaction numbers of a server session
  None             \* no server session, no pinned server

ASSUME ClientSessionAssumption ==
  /\ None \notin ServerSessions \cup Servers
  /\ {"unborn", "pooled", "gone"} \cap Sessions = {}
  /\ Sharded \in BOOLEAN
  /\ RetryWrites \in BOOLEAN
  /\ MaxNumber \in Nat \ {0}

VARIABLES
  status,         \* of a session: not started, live, in endSession, ended
  serverSession,  \* ClientSession.serverSession
  txn,            \* ClientSession.transaction.state
  pinned,         \* ClientSession.transaction.server
  request,        \* the requests of a session
  pool,           \* ServerSessionPool.sessions
  born,           \* server sessions that were made
  txnNumber,      \* ServerSession.txnNumber
  thrown,         \* was an exception thrown that nobody catches
  sent,           \* history: what was sent with each number of a server session
  visited,        \* history: servers that got commands of the transaction
  upset           \* history: did one of those commands fail

session == <<status, serverSession, txn, pinned, request>>
leases  == <<pool, born>>
history == <<sent, visited, upset>>
vars    == <<session, leases, txnNumber, thrown, history>>

Statuses == {"new", "live", "ending", "ended"}

TxnStates == {"NO_TRANSACTION", "STARTING_TRANSACTION", "TRANSACTION_IN_PROGRESS",
              "TRANSACTION_COMMITTED", "TRANSACTION_COMMITTED_EMPTY",
              "TRANSACTION_ABORTED"}

(* stateMachine; startTransaction makes a new Transaction, which starts    *)
(* without one.                                                            *)
LegalTransitions ==
  [NO_TRANSACTION              |-> {"NO_TRANSACTION", "STARTING_TRANSACTION"},
   STARTING_TRANSACTION        |-> {"TRANSACTION_IN_PROGRESS", "TRANSACTION_COMMITTED",
                                    "TRANSACTION_COMMITTED_EMPTY", "TRANSACTION_ABORTED"},
   TRANSACTION_IN_PROGRESS     |-> {"TRANSACTION_IN_PROGRESS", "TRANSACTION_COMMITTED",
                                    "TRANSACTION_ABORTED"},
   TRANSACTION_COMMITTED       |-> {"TRANSACTION_COMMITTED", "STARTING_TRANSACTION",
                                    "TRANSACTION_COMMITTED_EMPTY", "NO_TRANSACTION"},
   TRANSACTION_ABORTED         |-> {"STARTING_TRANSACTION", "NO_TRANSACTION"},
   TRANSACTION_COMMITTED_EMPTY |-> {"TRANSACTION_COMMITTED_EMPTY", "NO_TRANSACTION"}]

Slots == {"call", "end"}
Ends  == {"commit", "abort"}
Kinds == {"read", "write"} \cup Ends

(* A network error is retryable and transient, "not master" is retryable,  *)
(* the others are not retried.                                             *)
Outcomes  == {"ok", "network", "notMaster", "transient", "writeConcern", "other"}
Retryable == {"network", "notMaster"}
Transient == {"network", "transient"}

(* first is the number a retryable write was first sent with, inTxn tells  *)
(* whether its response is handled as one of a transaction.                *)
Request == [kind : Kinds, step : {"idle", "ready", "selecting", "sent"},
            willRetry : BOOLEAN, retrying : BOOLEAN, majority : BOOLEAN,
            first : Nat, inTxn : BOOLEAN]

NoRequest == [kind |-> "read", step |-> "idle", willRetry |-> FALSE, retrying |-> FALSE,
              majority |-> FALSE, first |-> 0, inTxn |-> FALSE]

(* isActive *)
Active(s) == txn[s] \in {"STARTING_TRANSACTION", "TRANSACTION_IN_PROGRESS"}

(* No callback is running. *)
Still ==
  /\ ~thrown
  /\ \A s \in Sessions : /\ status[s] # "ending"
                         /\ \A k \in Slots : request[s][k].step # "ready"

(***************************************************************************)
(* The server session of a client session                                  *)
(***************************************************************************)

(* The pool once its k-th server session, the first that has not timed     *)
(* out, was taken.                                                         *)
Taken(k) == SubSeq(pool, k + 1, Len(pool))

(* startSession; acquire takes the first pooled server session that has    *)
(* not timed out, or makes one.                                            *)
StartSession(s) ==
  /\ Still
  /\ status[s] = "new"
  /\ status' = [status EXCEPT ![s] = "live"]
  /\ \/ \E k \in DOMAIN pool : /\ serverSession' = [serverSession EXCEPT ![s] = pool[k]]
                               /\ pool' = Taken(k)
                               /\ UNCHANGED born
     \/ \E l \in ServerSessions \ born : /\ serverSession' = [serverSession EXCEPT ![s] = l]
                                         /\ pool' = << >>
                                         /\ born' = born \cup {l}
  /\ UNCHANGED <<txn, pinned, request, txnNumber, thrown, history>>

(* selectServer: a pinned server is known at once. *)
SelectionSteps(p) ==
  IF Sharded /\ p # None THEN {"ready"} ELSE {"ready", "selecting"}

(* endSession up to the release: a transaction in progress is aborted. *)
EndSession(s) ==
  /\ Still
  /\ status[s] = "live"
  /\ status' = [status EXCEPT ![s] = "ending"]
  /\ IF txn[s] = "TRANSACTION_IN_PROGRESS"
     THEN /\ \E step \in SelectionSteps(pinned[s]) :
               request' = [request EXCEPT ![s]["end"] =
                            [NoRequest EXCEPT !.kind = "abort", !.step = step]]
          /\ UNCHANGED txn
     ELSE /\ txn' = IF Active(s) THEN [txn EXCEPT ![s] = "TRANSACTION_ABORTED"] ELSE txn
          /\ UNCHANGED request
  /\ UNCHANGED <<serverSession, pinned, leases, txnNumber, thrown, history>>

(* Mutant: the session keeps its server session. *)
MutantServerSessionKept(s) == UNCHANGED serverSession

ServerSessionGone(s) == serverSession' = [serverSession EXCEPT ![s] = None]

(* The rest of endSession: release drops the pooled server sessions that   *)
(* timed out, from the end, and the released one if it did.                *)
ReleaseSession(s) ==
  /\ ~thrown
  /\ status[s] = "ending"
  /\ request[s]["end"].step # "ready"
  /\ status' = [status EXCEPT ![s] = "ended"]
  /\ ServerSessionGone(s)
  /\ \E k \in 0..Len(pool), released \in {<< >>, <<serverSession[s]>>} :
       pool' = released \o SubSeq(pool, 1, k)
  /\ UNCHANGED <<txn, pinned, request, born, txnNumber, thrown, history>>

(* endAllPooledSessions, called by close() after it ended every session. *)
EndAllPooledSessions ==
  /\ Still
  /\ \A s \in Sessions : status[s] # "live"
  /\ pool' = << >>
  /\ UNCHANGED <<session, born, txnNumber, thrown, history>>

(***************************************************************************)
(* Calls of the client                                                     *)
(***************************************************************************)

Free(s) == Still /\ request[s]["call"].step = "idle"

(* Mutants: the number of the transaction before is used again; a number   *)
(* is skipped.                                                             *)
MutantNumberKept(l) == UNCHANGED txnNumber
MutantNumberSkipped(l) == txnNumber' = [txnNumber EXCEPT ![l] = @ + 2]

(* incrementTransactionNumber *)
IncrementTransactionNumber(l) == txnNumber' = [txnNumber EXCEPT ![l] = @ + 1]

StartTransaction(s) ==
  /\ Free(s)
  /\ status[s] = "live"
  /\ ~Active(s)
  /\ txnNumber[serverSession[s]] < MaxNumber
  /\ IncrementTransactionNumber(serverSession[s])
  /\ txn' = [txn EXCEPT ![s] = "STARTING_TRANSACTION"]
  /\ pinned' = [pinned EXCEPT ![s] = None]
  /\ visited' = [visited EXCEPT ![s] = {}]
  /\ upset' = [upset EXCEPT ![s] = FALSE]
  /\ UNCHANGED <<status, serverSession, request, leases, thrown, sent>>

(* An operation; a write is retried unless it is made in a transaction.    *)
(* Nothing refuses a session that was ended before its number is used.     *)
Operation(s, kind) ==
  /\ Free(s)
  /\ status[s] # "new"
  /\ serverSession[s] # None => txnNumber[serverSession[s]] < MaxNumber
  /\ \E step \in SelectionSteps(pinned[s]) :
       request' = [request EXCEPT ![s]["call"] =
                    [NoRequest EXCEPT !.kind = kind, !.step = step,
                       !.willRetry = kind = "write" /\ RetryWrites /\ ~Active(s)]]
  /\ UNCHANGED <<status, serverSession, txn, pinned, leases, txnNumber, thrown, history>>

(* The transaction was never started on the server: nothing to commit. *)
EmptyTransaction(s) == txn[s] \in {"STARTING_TRANSACTION", "TRANSACTION_COMMITTED_EMPTY"}

(* Mutant: a transaction that was aborted can be committed. *)
MutantCommittable(s) ==
  txn[s] \in {"TRANSACTION_IN_PROGRESS", "TRANSACTION_COMMITTED", "TRANSACTION_ABORTED"}

(* The transactions commitTransaction sends a command for. *)
Committable(s) == txn[s] \in {"TRANSACTION_IN_PROGRESS", "TRANSACTION_COMMITTED"}

(* Mutant: committing again is not told from committing. *)
MutantNoMajority(s) == FALSE

MajorityCommit(s) == txn[s] = "TRANSACTION_COMMITTED"

(* commitTransaction; its other cases return an error. *)
CommitTransaction(s) ==
  /\ Free(s)
  /\ status[s] = "live"
  /\ \/ /\ EmptyTransaction(s)
        /\ txn' = [txn EXCEPT ![s] = "TRANSACTION_COMMITTED_EMPTY"]
        /\ UNCHANGED request
     \/ /\ ~EmptyTransaction(s)
        /\ Committable(s)
        /\ \E step \in SelectionSteps(pinned[s]) :
             request' = [request EXCEPT ![s]["call"] =
                          [NoRequest EXCEPT !.kind = "commit", !.step = step,
                                            !.majority = MajorityCommit(s)]]
        /\ UNCHANGED txn
  /\ UNCHANGED <<status, serverSession, pinned, leases, txnNumber, thrown, history>>

(* abortTransaction; its other cases return an error. *)
AbortTransaction(s) ==
  /\ Free(s)
  /\ status[s] = "live"
  /\ \/ /\ txn[s] = "STARTING_TRANSACTION"
        /\ txn' = [txn EXCEPT ![s] = "TRANSACTION_ABORTED"]
        /\ UNCHANGED request
     \/ /\ txn[s] = "TRANSACTION_IN_PROGRESS"
        /\ \E step \in SelectionSteps(pinned[s]) :
             request' = [request EXCEPT ![s]["call"] =
                          [NoRequest EXCEPT !.kind = "abort", !.step = step]]
        /\ UNCHANGED txn
  /\ UNCHANGED <<status, serverSession, pinned, leases, txnNumber, thrown, history>>

(***************************************************************************)
(* A request under way                                                     *)
(***************************************************************************)

(* The state a request leaves its transaction in when it is answered. *)
EndState(r) == IF r.kind = "commit" THEN "TRANSACTION_COMMITTED" ELSE "TRANSACTION_ABORTED"

(* The callback of a request runs: commandHandler for the end of a         *)
(* transaction, whose illegal transition is thrown.                        *)
Finish(s, k) ==
  LET r == request[s][k] IN
  IF r.kind \in Ends /\ EndState(r) \notin LegalTransitions[txn[s]]
  THEN thrown' = TRUE /\ UNCHANGED <<txn, request>>
  ELSE /\ request' = [request EXCEPT ![s][k] = NoRequest]
       /\ txn' = IF r.kind \in Ends THEN [txn EXCEPT ![s] = EndState(r)] ELSE txn
       /\ UNCHANGED thrown

(* Server selection times out. *)
SelectionFails(s, k) ==
  /\ Still
  /\ request[s][k].step = "selecting"
  /\ Finish(s, k)
  /\ UNCHANGED <<status, serverSession, pinned, leases, txnNumber, history>>

(* A server was selected and the request can go on. *)
Selected(s, k) ==
  /\ ~thrown
  /\ \/ request[s][k].step = "ready"
     \/ request[s][k].step = "selecting" /\ Still

(* A pinned server is taken when its transaction had it at the call. *)
Choices(s, k) ==
  IF Sharded /\ request[s][k].step = "ready" /\ pinned[s] # None
  THEN {pinned[s]} ELSE Servers

(* Mutant: the server is not pinned. *)
MutantNotPinned(s, x) == pinned[s]

(* The server that is pinned once x was selected. *)
Pin(s, x) == IF Sharded /\ Active(s) THEN x ELSE pinned[s]

(* Mutant: the retry takes a number of its own. *)
MutantIncrementOnRetry(r) == r.willRetry

(* The number is incremented before a write is sent, not before its retry. *)
Increments(r) == r.willRetry /\ ~r.retrying

(* The request meets a session without server session: its callback gets   *)
(* an error, unless incrementing the number throws, to the caller when the *)
(* server was known at once.                                               *)
SessionGone(s, k) ==
  /\ Selected(s, k)
  /\ serverSession[s] = None
  /\ IF Increments(request[s][k]) /\ request[s][k].step = "selecting"
     THEN thrown' = TRUE /\ UNCHANGED <<txn, request>>
     ELSE Finish(s, k)
  /\ UNCHANGED <<status, serverSession, pinned, leases, txnNumber, history>>

Numbered(s, k) ==
  LET l == serverSession[s] IN
  /\ l # None
  /\ IF Increments(request[s][k])
     THEN txnNumber[l] < MaxNumber /\ txnNumber' = [txnNumber EXCEPT ![l] = @ + 1]
     ELSE UNCHANGED txnNumber

(* The server has no usable pool, or applySession refuses the read         *)
(* preference: nothing is sent.                                            *)
Refused(s, k, x) ==
  /\ Selected(s, k)
  /\ x \in Choices(s, k)
  /\ Numbered(s, k)
  /\ pinned' = [pinned EXCEPT ![s] = Pin(s, x)]
  /\ Finish(s, k)
  /\ UNCHANGED <<status, serverSession, leases, history>>

(* Mutant: a transaction starts again with each command. *)
MutantStays(s, kind) == txn[s]

(* The state of the transaction once applySession let a request pass. *)
Applied(s, kind) ==
  IF ~Active(s) /\ kind \notin Ends THEN "NO_TRANSACTION"
  ELSE IF txn[s] = "STARTING_TRANSACTION" THEN "TRANSACTION_IN_PROGRESS" ELSE txn[s]

(* What is known of one number of a server session once a request was sent *)
(* with it.                                                                *)
Recorded(h, s, r) ==
  IF r.kind \in Ends
  THEN [h EXCEPT !.ends = @ \cup {r.kind},
                 !.commits = IF r.kind = "commit" /\ ~r.majority THEN @ + 1 ELSE @]
  ELSE IF Active(s)
  THEN [h EXCEPT !.starts = IF txn[s] = "STARTING_TRANSACTION" THEN @ + 1 ELSE @]
  ELSE [h EXCEPT !.writes = IF Increments(r) THEN @ + 1 ELSE @]

(* The request is sent to x. *)
Send(s, k, x) ==
  LET r     == request[s][k]
      l     == serverSession[s]
      inTxn == Active(s) \/ r.kind \in Ends
  IN
  /\ Selected(s, k)
  /\ x \in Choices(s, k)
  /\ Numbered(s, k)
  /\ txn' = [txn EXCEPT ![s] = Applied(s, r.kind)]
  /\ pinned' = [pinned EXCEPT ![s] = IF inTxn THEN Pin(s, x) ELSE None]
  /\ request' = [request EXCEPT ![s][k].step = "sent", ![s][k].inTxn = inTxn,
                   ![s][k].first = IF r.willRetry /\ ~r.retrying THEN txnNumber'[l] ELSE @]
  /\ sent' = IF txnNumber'[l] = 0 THEN sent
             ELSE [sent EXCEPT ![l][txnNumber'[l]] = Recorded(@, s, r)]
  /\ visited' = IF inTxn /\ ~upset[s] THEN [visited EXCEPT ![s] = @ \cup {x}] ELSE visited
  /\ UNCHANGED <<status, serverSession, leases, thrown, upset>>

(* Mutant: a retry is retried. *)
MutantRetriedAgain(r, outcome) == outcome \in Retryable /\ (r.willRetry \/ r.kind \in Ends)

Retried(r, outcome) ==
  outcome \in Retryable /\ ~r.retrying /\ (r.willRetry \/ r.kind \in Ends)

(* The pinned server after an outcome.  A commit whose result is unknown   *)
(* unpins, as do other commands of a transaction with a transient error.   *)
Unpinned(s, r, outcome) ==
  IF \/ r.kind = "commit" /\ outcome \in Retryable \cup {"writeConcern"}
     \/ r.kind # "commit" /\ r.inTxn /\ outcome \in Transient
  THEN None ELSE pinned[s]

(* The response to a request, or the failure of its connection. *)
Reply(s, k, outcome) ==
  LET r == request[s][k] IN
  /\ Still
  /\ r.step = "sent"
  /\ IF Retried(r, outcome)
     THEN /\ \E step \in SelectionSteps(Unpinned(s, r, outcome)) :
               request' = [request EXCEPT ![s][k] =
                            [r EXCEPT !.step = step, !.retrying = TRUE,
                                      !.majority = r.kind = "commit"]]
          /\ UNCHANGED <<txn, thrown>>
     ELSE Finish(s, k)
  /\ pinned' = [pinned EXCEPT ![s] = IF thrown' THEN pinned[s] ELSE Unpinned(s, r, outcome)]
  /\ upset' = [upset EXCEPT ![s] = @ \/ (r.inTxn /\ outcome # "ok")]
  /\ UNCHANGED <<status, serverSession, leases, txnNumber, sent, visited>>

(***************************************************************************)
(* The specification                                                       *)
(***************************************************************************)

Init ==
  /\ status = [s \in Sessions |-> "new"]
  /\ serverSession = [s \in Sessions |-> None]
  /\ txn = [s \in Sessions |-> "NO_TRANSACTION"]
  /\ pinned = [s \in Sessions |-> None]
  /\ request = [s \in Sessions |-> [k \in Slots |-> NoRequest]]
  /\ pool = << >> /\ born = {}
  /\ txnNumber = [l \in ServerSessions |-> 0]
  /\ thrown = FALSE
  /\ sent = [l \in ServerSessions |-> [n \in 1..MaxNumber |->
              [writes |-> 0, starts |-> 0, commits |-> 0, ends |-> {}]]]
  /\ visited = [s \in Sessions |-> {}]
  /\ upset = [s \in Sessions |-> FALSE]

(* What the client does with a session. *)
Client(s) ==
  \/ StartSession(s) \/ EndSession(s) \/ StartTransaction(s)
  \/ CommitTransaction(s) \/ AbortTransaction(s)
  \/ \E kind \in {"read", "write"} : Operation(s, kind)

(* What becomes of a request. *)
Progress(s, k) ==
  \/ SelectionFails(s, k) \/ SessionGone(s, k)
  \/ \E x \in Servers : Refused(s, k, x) \/ Send(s, k, x)
  \/ \E outcome \in Outcomes : Reply(s, k, outcome)

Next ==
  \/ \E s \in Sessions : Client(s) \/ ReleaseSession(s) \/ \E k \in Slots : Progress(s, k)
  \/ EndAllPooledSessions

Spec == Init /\ [][Next]_vars

(* What runs at once goes on; selection ends by its timer and the pool     *)
(* answers what is sent (Pool's InFlightAnswered).  Others may run in      *)
(* between: strong fairness.                                               *)
AtOnce ==
  \E s \in Sessions : ReleaseSession(s) \/ \E k \in Slots : Progress(s, k) /\ ~Still

Fairness ==
  WF_vars(AtOnce) /\ \A s \in Sessions : SF_vars(Progress(s, "call"))

FairSpec == Spec /\ Fairness

(***************************************************************************)
(* Properties                                                              *)
(***************************************************************************)

TypeOK ==
  /\ status \in [Sessions -> Statuses]
  /\ serverSession \in [Sessions -> ServerSessions \cup {None}]
  /\ txn \in [Sessions -> TxnStates]
  /\ pinned \in [Sessions -> Servers \cup {None}]
  /\ request \in [Sessions -> [Slots -> Request]]
  /\ pool \in Seq(ServerSessions)
  /\ born \in SUBSET ServerSessions
  /\ txnNumber \in [ServerSessions -> 0..MaxNumber]
  /\ thrown \in BOOLEAN
  /\ sent \in [ServerSessions -> [1..MaxNumber ->
                [writes : Nat, starts : Nat, commits : Nat, ends : SUBSET Ends]]]
  /\ visited \in [Sessions -> SUBSET Servers]
  /\ upset \in [Sessions -> BOOLEAN]

(* The server identifies a transaction, and a retried write, by session    *)
(* and number: a number stands for one of them only, whoever holds the     *)
(* server session, and the retry of a write has the number of the write.   *)
NumberUsedOnce ==
  /\ \A l \in ServerSessions, n \in 1..MaxNumber : sent[l][n].writes + sent[l][n].starts <= 1
  /\ \A s \in Sessions :
       LET r == request[s]["call"] IN
       status[s] = "live" /\ r.willRetry /\ r.step = "sent" =>
         r.first = txnNumber[serverSession[s]]

(* What the session holds of its transaction agrees with what the server   *)
(* was told of it: not started, started and not ended but by the request   *)
(* under way, committed and not aborted, or aborted and not committed.     *)
StateMatchesServer ==
  \A s \in Sessions : status[s] = "live" /\ txnNumber[serverSession[s]] > 0 =>
    LET h == sent[serverSession[s]][txnNumber[serverSession[s]]]
        r == request[s]["call"]
    IN  /\ txn[s] \in {"STARTING_TRANSACTION", "TRANSACTION_COMMITTED_EMPTY"} =>
             h.writes = 0 /\ h.starts = 0 /\ h.ends = {}
        /\ txn[s] = "TRANSACTION_IN_PROGRESS" =>
             h.starts = 1 /\ h.ends \subseteq (IF r.step = "idle" THEN {} ELSE {r.kind})
        /\ txn[s] = "TRANSACTION_COMMITTED" => h.writes = 0 /\ "abort" \notin h.ends
        /\ txn[s] = "TRANSACTION_ABORTED" => "commit" \notin h.ends

(* The session, its numbers and what the server was told agree. *)
ServerAgrees == NumberUsedOnce /\ StateMatchesServer

(* A commit that is sent again, by the driver or by the client, has write  *)
(* concern majority (SPEC-1185): the first one may have been rolled back.  *)
MajorityOnRetry ==
  \A l \in ServerSessions, n \in 1..MaxNumber : sent[l][n].commits <= 1

(* The commands of a sharded transaction go to one mongos until one fails. *)
PinnedTogether ==
  Sharded => \A s \in Sessions : \A x, y \in visited[s] : x = y

(* A client that waits for its calls and does not use a session it ended   *)
(* meets no illegal transition, nor any other exception in a callback.     *)
ExceptionOnlyWhenEnded == thrown => \E s \in Sessions : status[s] = "ended"

(* What a session may send, where, and with which outcome. *)
CommandsSound == MajorityOnRetry /\ PinnedTogether /\ ExceptionOnlyWhenEnded

(* Server sessions go where the abstract pool lets them. *)
Place ==
  [l \in ServerSessions |->
    IF \E s \in Sessions : serverSession[s] = l
    THEN CHOOSE s \in Sessions : serverSession[s] = l
    ELSE IF l \in Range(pool) THEN "pooled"
    ELSE IF l \in born THEN "gone" ELSE "unborn"]

Lease == INSTANCE SessionLease WITH Clients <- Sessions, place <- Place

LeaseSpec == Lease!Spec

(* Each call is answered: there is one retry. *)
CallsEnd ==
  \A s \in Sessions :
    request[s]["call"].step # "idle" ~> request[s]["call"].step = "idle" \/ thrown
===============================================================================
