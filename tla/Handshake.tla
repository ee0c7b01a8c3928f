------------------------------- MODULE Handshake -------------------------------
(***************************************************************************)
(* An attempt to connect, lib/connection/connect.js: a socket by IPv6 or   *)
(* IPv4, isMaster, and the conversation of an authentication mechanism     *)
(* (lib/auth), all over the messages that MessageFraming cuts out.         *)
(*                                                                         *)
(* connect() listens to the connection while a command is under way, and   *)
(* only then.  A step of a mechanism that ends later (random bytes,        *)
(* Kerberos) leaves the connection without listeners: an event is missed,  *)
(* or, if it is an error, thrown.                                          *)
(***************************************************************************)
EXTENDS MessageFraming

CONSTANTS
  Mechanisms,    \* mechanisms of the credentials, "none" for no credentials or an arbiter
  FamilyGiven    \* whether the option family is set

(* The steps of a conversation: work of the client, or a command; one that *)
(* is checked ends it when refused, one that is careless does not even end *)
(* it when the connection fails.                                           *)
Steps == {"work", "checked", "unchecked", "careless"}

Plain == {<<"unchecked">>}

X509 == {<<"unchecked">>}

MongoCR == {<<"careless", "unchecked">>}

(* A server may ask for an empty message at the end.                       *)
ScramSHA ==
  {<<"work", "checked", "unchecked">>, <<"work", "checked", "unchecked", "unchecked">>}

GSSAPI == {<<"work", "unchecked", "work", "unchecked", "work", "unchecked", "work">>}

SSPI == GSSAPI

Conversations ==
  [none |-> {<<>>}, plain |-> Plain, x509 |-> X509, mongocr |-> MongoCR,
   scram |-> ScramSHA, gssapi |-> GSSAPI, sspi |-> SSPI]

Commands(steps) == Cardinality({i \in DOMAIN steps : steps[i] # "work"})

(* isMaster is asked first. *)
Exchange(steps) == <<"checked">> \o steps

ASSUME HandshakeAssumption ==
  /\ Mechanisms \subseteq DOMAIN Conversations
  /\ FamilyGiven \in BOOLEAN
  /\ \A k \in Mechanisms : \A steps \in Conversations[k] : Commands(Exchange(steps)) <= Messages

(* stage:    a socket is "opening", a command is under way ("asking"), the *)
(*           client is "working", or the attempt is "done"                 *)
(* untried:  address families that are left to try                         *)
(* socket:   "none", "opening", "open", "ended" by us, or "closed"         *)
(* timedOut: its timeout was reported, which happens once                  *)
(* todo:     the steps that are left, the current one first                *)
(* asked:    how many commands were sent                                   *)
(* refused:  the last answer was a refusal                                 *)
(* calls:    how the callback was called                                   *)
(* thrown:   an error was emitted that nobody listens to                   *)
VARIABLE attempt

vars == <<framingVars, attempt>>

-------------------------------------------------------------------------------
Handed == attempt.calls = <<"ok">>

(* Nothing of the driver is running. *)
Still == data = <<>> /\ ~attempt.thrown

(* performInitialHandshake's callback, which destroys the connection.      *)
Fail(a) ==
  [a EXCEPT !.stage = "done", !.calls = Append(@, "error"),
            !.socket = IF @ = "open" THEN "ended" ELSE @]

(* Mutant: what the last answer says is not looked at.                     *)
MutantUnread(a) ==
  [a EXCEPT !.stage = "done", !.calls = Append(@, "ok")]

(* The conversation is over: AuthProvider reads its last answer.           *)
Conclude(a) ==
  IF a.refused THEN Fail(a)
  ELSE [a EXCEPT !.stage = "done", !.calls = Append(@, "ok")]

(* What follows when the current step is done. *)
Proceed(a) ==
  LET rest == Tail(a.todo) IN
  CASE rest = <<>> -> Conclude([a EXCEPT !.todo = rest])
    [] rest # <<>> /\ Head(rest) = "work" -> [a EXCEPT !.stage = "working", !.todo = rest]
    [] OTHER -> [a EXCEPT !.stage = "asking", !.todo = rest, !.asked = @ + 1]

(* errorHandler of runCommand.                                             *)
Broken(a) == IF Head(a.todo) = "careless" THEN Proceed(a) ELSE Fail(a)

(* messageHandler of runCommand; the answer of isMaster is refused as well *)
(* when the server or the mechanism is not supported.                      *)
Answered(a, ok) ==
  LET b == [a EXCEPT !.refused = ~ok] IN
  IF ~ok /\ Head(a.todo) = "checked" THEN Fail(b) ELSE Proceed(b)

-------------------------------------------------------------------------------
(* The socket is connected, and trusted. *)
Connected ==
  /\ attempt.stage = "opening"
  /\ attempt' = [attempt EXCEPT !.stage = "asking", !.socket = "open", !.asked = 1]
  /\ UNCHANGED framingVars

(* Mutant: the failure of the first family is reported, too.               *)
MutantReportBoth ==
  /\ attempt.stage = "opening"
  /\ attempt' =
       IF attempt.untried = {}
       THEN [Fail(attempt) EXCEPT !.socket = "closed"]
       ELSE [attempt EXCEPT !.untried = {}, !.calls = Append(@, "error")]
  /\ UNCHANGED framingVars

(* Mutant: the other family is tried again and again.                      *)
MutantTryAgain ==
  /\ attempt.stage = "opening"
  /\ attempt' =
       IF FamilyGiven THEN [Fail(attempt) EXCEPT !.socket = "closed"]
       ELSE [attempt EXCEPT !.untried = {4, 6} \ @]
  /\ UNCHANGED framingVars

(* It errs, closes, is not trusted, or takes too long: makeConnection is   *)
(* called for the other family, unless the option family is set.           *)
OpenFails ==
  /\ attempt.stage = "opening"
  /\ attempt' =
       IF attempt.untried = {}
       THEN [Fail(attempt) EXCEPT !.socket = "closed"]
       ELSE [attempt EXCEPT !.untried = {}]
  /\ UNCHANGED framingVars

(* The client's work of the mechanism ends. *)
WorkEnds(ok) ==
  /\ Still /\ attempt.stage = "working"
  /\ attempt' = IF ok THEN Proceed(attempt) ELSE Fail(attempt)
  /\ UNCHANGED framingVars

(* The socket is closed, because of an error or not. *)
SocketCloses(error) ==
  /\ Still /\ attempt.socket \in {"open", "ended"}
  /\ LET closed == [attempt EXCEPT !.socket = "closed"] IN
     attempt' = CASE attempt.stage = "asking" -> Broken(closed)
                  [] attempt.stage # "asking" /\ ~error -> closed
                  [] OTHER -> [closed EXCEPT !.thrown = ~Handed]
  /\ UNCHANGED framingVars

(* Nothing came for socketTimeout.  In some versions of Node the timer of  *)
(* a closed socket can be set again.                                       *)
TimesOut ==
  /\ Still /\ attempt.stage \in {"asking", "working"} /\ ~attempt.timedOut
  /\ LET late == [attempt EXCEPT !.timedOut = TRUE] IN
     attempt' = IF attempt.stage = "asking" THEN Broken(late) ELSE late
  /\ UNCHANGED framingVars

(* The server answers what it was asked; once the connection is handed     *)
(* over, there are other requests.                                         *)
Arrives(n) ==
  /\ Still /\ attempt.socket \in {"open", "ended"}
  /\ received + n <= End[IF Handed THEN Messages ELSE attempt.asked]
  /\ Receive(n)
  /\ UNCHANGED attempt

(* What a message or a parse error means for the attempt; an answer to an  *)
(* earlier command is not looked at.                                       *)
Hears ==
  CASE attempt.stage = "asking" /\ failed' # failed -> attempt' = Broken(attempt)
    [] attempt.stage = "asking" /\ Len(emitted') > Len(emitted) ->
         IF Last(emitted') = attempt.asked
         THEN \E ok \in BOOLEAN : attempt' = Answered(attempt, ok)
         ELSE UNCHANGED attempt
    [] OTHER -> UNCHANGED attempt

Parses == ~attempt.thrown /\ Handle /\ Hears

Unpacks(m) == ~attempt.thrown /\ Decompressed(m) /\ Hears

-------------------------------------------------------------------------------
(* A message that cannot be read ends what is of interest; those after it  *)
(* are taken to be of one kind.  Only requests that were compressed have   *)
(* compressed answers, and those of the handshake are not; their size is   *)
(* the largest.                                                            *)
Relevant(commands) ==
  /\ \A m \in 1..commands :
       sent[m].kind \notin {"compressed", "corrupt"} /\ sent[m].size = Max(Sizes)
  /\ \A m \in 1..Messages, l \in 1..Messages :
       m < l /\ sent[m].kind \in {"undersized", "oversized"} =>
         sent[l] = [kind |-> "plain", size |-> Max(Sizes)]

Init ==
  /\ FramingInit
  /\ \E mechanism \in Mechanisms : \E steps \in Conversations[mechanism] :
       /\ Relevant(Commands(Exchange(steps)))
       /\ attempt = [stage |-> "opening", untried |-> IF FamilyGiven THEN {} ELSE {4},
                     socket |-> "opening", timedOut |-> FALSE,
                     todo |-> Exchange(steps), asked |-> 0, refused |-> FALSE,
                     calls |-> <<>>, thrown |-> FALSE]

Next ==
  \/ Connected \/ OpenFails
  \/ \E ok \in BOOLEAN : WorkEnds(ok)
  \/ \E error \in BOOLEAN : SocketCloses(error)
  \/ TimesOut
  \/ \E n \in 1..Total : Arrives(n)
  \/ Parses
  \/ \E m \in unpacking : Unpacks(m)

Spec == Init /\ [][Next]_vars

(* A function that runs goes on, timers of open sockets fire, the client's *)
(* work ends; nothing is assumed of the server.                            *)
FairSpec ==
  /\ Spec
  /\ WF_vars(Parses)
  /\ WF_vars(OpenFails)
  /\ WF_vars(TimesOut /\ attempt.socket = "open")
  /\ WF_vars(\E ok \in BOOLEAN : WorkEnds(ok))

-------------------------------------------------------------------------------
(* connect() calls back once at most: with a connection that has answered  *)
(* each command of the conversation and accepted the last; or with an      *)
(* error, and then its socket is not left open.                            *)
AttemptSound ==
  /\ Len(attempt.calls) <= 1
  /\ Handed => /\ attempt.todo = <<>> /\ ~attempt.refused
               /\ \A m \in 1..attempt.asked : m \in Range(emitted) \/ failed
  /\ attempt.calls = <<"error">> => attempt.socket \in {"ended", "closed"}

(* A command is under way on a connection of which nothing more is heard,  *)
(* whose timeout or end was missed or, with MONGODB-CR, disregarded.       *)
Deaf == attempt.stage = "asking" /\ (attempt.timedOut \/ attempt.socket = "closed")

(* An attempt ends, whatever the server does, or is deaf for ever.         *)
AttemptEnds == <>(attempt.stage = "done" \/ Deaf \/ attempt.thrown)
===============================================================================
