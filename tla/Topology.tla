------------------------------ MODULE Topology ------------------------------
(***************************************************************************)
(* The unified topology: its description, its servers, their monitors and  *)
(* the selections that wait for a server.  lib/sdam/topology.js, server.js *)
(* and monitoring.js.                                                      *)
(*                                                                         *)
(* Each server has a pool (see Pool), of which this module sees what the   *)
(* server hears: that it connected, that its only attempt failed, that it  *)
(* lost its connections, and that it was destroyed for want of answers.    *)
(*                                                                         *)
(* An action is one callback.  A description of a server that comes to the *)
(* topology does all it brings about at once: servers are made and removed *)
(* and waiting selections are tried again.                                 *)
(*                                                                         *)
(* destroyServer removes the topology's listeners, so what a removed       *)
(* server still does reaches nobody: it has no state here.                 *)
(***************************************************************************)
EXTENDS ServerSelection

CONSTANTS
  Selections,  \* calls of selectServer
  Preference   \* what each selects for

ASSUME TopologyAssumption ==
  /\ DOMAIN Preference = Selections
  /\ \A s \in Selections : IsPreference(Preference[s])

VARIABLES
  phase,      \* the client has not called connect, has, or has called close
  server,     \* Topology.s.servers, and the state of each
  called,     \* selections that were called
  listening,  \* selections with a listener for topologyDescriptionChanged
  timing,     \* selections whose iterationTimer is armed
  answers     \* how often the callback of each selection was called

selectionVars == <<called, listening, timing, answers>>
topologyVars  == <<description, believed, phase, server, selectionVars>>

(* A server is STATE_CONNECTING while its pool is "opening" and for ever   *)
(* when that "failed", STATE_CONNECTED, or STATE_DISCONNECTED after a      *)
(* parse error.                                                            *)
Links == {"none", "opening", "failed", "connected", "disconnected"}

(* The check of a server that is under way: server.s.monitoring says that  *)
(* there is one.  "lost" is a check whose callback is never called.        *)
Checks == {"none", "first", "second", "lost"}

ServerState ==
  [link  : Links,
   dead  : BOOLEAN,  \* its pool was destroyed
   check : Checks,
   timer : BOOLEAN,  \* monitorId is armed
   poked : BOOLEAN]  \* a timer of retrySelection is armed; several do the same

NoServer == [link |-> "none", dead |-> FALSE, check |-> "none", timer |-> FALSE, poked |-> FALSE]

(* createAndConnectServer *)
NewServer == [NoServer EXCEPT !.link = "opening"]

Servers == {a \in Addresses : server[a].link # "none"}

(***************************************************************************)
(* Server selection                                                        *)
(***************************************************************************)

(* What the selector of s chooses from td. *)
Chosen(td, s) == Suitable(td, Preference[s])

(* The callbacks of the selections in S are called. *)
Answered(S) == [s \in Selections |-> answers[s] + (IF s \in S THEN 1 ELSE 0)]

(* Mutants: the iterationTimer is not cleared; it is cleared and none is   *)
(* set for the next iteration.                                             *)
MutantTimersKept(S) == timing
MutantTimersLost(S) == {}

(* The timers that are left when the selections in S are over. *)
Timers(S) == timing \ S

(* Mutant: only the first selection that waits is tried again, as if the   *)
(* others were not listening.                                              *)
MutantAnyWoken(td) == IF listening = {} THEN {} ELSE {CHOOSE s \in listening : TRUE}

(* The selections that are tried again on a change of the description.     *)
Woken(td) == listening

(* topologyDescriptionChanged: the selections that wait fail if the update *)
(* came of an error, and are tried again otherwise.                        *)
SelectAgain(td) ==
  LET over == IF td.error THEN Woken(td)
              ELSE {s \in Woken(td) : Chosen(td, s) # {}}
  IN  /\ answers' = Answered(over)
      /\ listening' = listening \ over
      /\ timing' = Timers(over)

(***************************************************************************)
(* Updates of the description                                              *)
(***************************************************************************)

(* Mutant: servers are not told to check when a selection goes on waiting. *)
MutantNotPoked(s) == s

(* retrySelection: a timer that makes the server check is set. *)
Poked(s) == [s EXCEPT !.poked = TRUE]

(* Mutants: no server is made for a host that was discovered; a server     *)
(* that is removed leaves its timers.                                      *)
MutantKnownServers(td, now) ==
  [a \in Addresses |-> IF a \in DOMAIN td.servers THEN now[a] ELSE NoServer]
MutantTimersLeft(td, now) ==
  [a \in Addresses |-> IF a \notin DOMAIN td.servers THEN [now[a] EXCEPT !.link = "none"]
                       ELSE IF now[a].link = "none" THEN NewServer
                       ELSE now[a]]

(* updateServers, when the servers' states are now. *)
UpdateServers(td, now) ==
  [a \in Addresses |-> IF a \notin DOMAIN td.servers THEN NoServer
                       ELSE IF now[a].link = "none" THEN NewServer
                       ELSE now[a]]

(* All servers are told to check, if a selection waits. *)
PokeAll(servers, waiting) ==
  [a \in Addresses |-> IF waiting # {} /\ servers[a].link # "none"
                       THEN Poked(servers[a]) ELSE servers[a]]

(* serverUpdateHandler, for sd of a, when the servers' states are now.     *)
(* With a server that is not supported the error event is all there is.    *)
ServerUpdate(a, sd, now) ==
  IF a \notin DOMAIN description.servers
  THEN server' = now /\ UNCHANGED <<description, believed, listening, timing, answers>>
  ELSE /\ Receive(a, sd)
       /\ IF Compatible(description')
          THEN /\ SelectAgain(description')
               /\ server' = PokeAll(UpdateServers(description', now), listening')
          ELSE server' = now /\ UNCHANGED <<listening, timing, answers>>

(***************************************************************************)
(* What the client does                                                    *)
(***************************************************************************)

(* connect().  The selection it makes itself is one of Selections. *)
Connect ==
  /\ phase = "new"
  /\ phase' = "connected"
  /\ server' = [a \in Addresses |-> IF a \in DOMAIN description.servers
                                    THEN NewServer ELSE NoServer]
  /\ UNCHANGED <<description, believed, selectionVars>>

(* selectServer() of a topology that was connected. *)
Select(s) ==
  /\ phase = "connected"
  /\ s \notin called
  /\ called' = called \cup {s}
  /\ IF Chosen(description, s) # {}
     THEN answers' = Answered({s}) /\ UNCHANGED <<server, listening, timing>>
     ELSE /\ listening' = listening \cup {s}
          /\ timing' = timing \cup {s}
          /\ server' = PokeAll(server, {s})
          /\ UNCHANGED answers
  /\ UNCHANGED <<description, believed, phase>>

(* The iterationTimer: serverSelectionTimeoutMS is over. *)
TimesOut(s) ==
  /\ s \in timing
  /\ answers' = Answered({s})
  /\ listening' = listening \ {s}
  /\ timing' = timing \ {s}
  /\ UNCHANGED <<description, believed, phase, server, called>>

(* close(): the listeners of all servers are removed, and their timers.    *)
(* Selections that wait are left to their timers.                          *)
Close ==
  /\ phase = "connected"
  /\ phase' = "closed"
  /\ server' = [a \in Addresses |-> NoServer]
  /\ UNCHANGED <<description, believed, selectionVars>>

(***************************************************************************)
(* What servers hear of their pools                                        *)
(***************************************************************************)

(* connectEventHandler: the response of the handshake is the first the     *)
(* topology hears of the server, and monitoring is scheduled.              *)
PoolConnects(a, sd) ==
  /\ server[a].link = "opening"
  /\ ServerUpdate(a, sd, [server EXCEPT ![a].link = "connected", ![a].timer = TRUE])
  /\ UNCHANGED <<phase, called>>

(* The only attempt to connect fails: errorEventHandler.  The pool does    *)
(* not try again and the server stays STATE_CONNECTING.                    *)
PoolFails(a) ==
  /\ server[a].link = "opening"
  /\ ServerUpdate(a, UnknownServer, [server EXCEPT ![a].link = "failed"])
  /\ UNCHANGED <<phase, called>>

(* The pool lost its connections, and opens others by itself, or got a     *)
(* message it cannot parse.                                                *)
ServerErrors(a, link) ==
  /\ server[a].link \in {"connected", "disconnected"}
  /\ ~server[a].dead
  /\ link \in {server[a].link, "disconnected"}
  /\ ServerUpdate(a, UnknownServer, [server EXCEPT ![a].link = link])
  /\ UNCHANGED <<phase, called>>

(* The pool is destroyed after too many timeouts or failed reconnects.  A  *)
(* check that was in flight on one of its other connections is lost.       *)
PoolDies(a, check) ==
  /\ server[a].link \in {"connected", "disconnected"}
  /\ ~server[a].dead
  /\ check \in {"none", "lost"}
  /\ server[a].check = "none" => check = "none"
  /\ ServerUpdate(a, UnknownServer, [server EXCEPT ![a].dead = TRUE, ![a].check = check])
  /\ UNCHANGED <<phase, called>>

(***************************************************************************)
(* Monitoring                                                              *)
(***************************************************************************)

(* monitorServer, when the servers' states are now.  Both of its checks    *)
(* fail at once when the pool was destroyed.                               *)
MonitorServer(a, now) ==
  IF server[a].dead
  THEN ServerUpdate(a, UnknownServer, [now EXCEPT ![a].check = "none"])
  ELSE /\ server' = [now EXCEPT ![a].check = "first"]
       /\ UNCHANGED <<description, believed, listening, timing, answers>>

(* The timer monitorId. *)
TimerFires(a) ==
  /\ server[a].timer
  /\ MonitorServer(a, [server EXCEPT ![a].timer = FALSE])
  /\ UNCHANGED <<phase, called>>

(* monitor() does nothing for a server that is being checked. *)
MayMonitor(s) == s.link = "connected" /\ s.check = "none"

(* Mutant: the timer monitorId is not cleared, and monitors too. *)
MutantTimerKept(s) == [s EXCEPT !.poked = FALSE]

(* monitor() takes the place of the check that was scheduled. *)
Hurried(s) == [s EXCEPT !.poked = FALSE, !.timer = FALSE]

(* The timer of retrySelection calls monitor(). *)
Poke(a) ==
  /\ server[a].poked
  /\ IF MayMonitor(server[a])
     THEN MonitorServer(a, [server EXCEPT ![a] = Hurried(@)])
     ELSE /\ server' = [server EXCEPT ![a].poked = FALSE]
          /\ UNCHANGED <<description, believed, listening, timing, answers>>
  /\ UNCHANGED <<phase, called>>

(* successHandler *)
CheckSucceeds(a, sd) ==
  /\ server[a].check \in {"first", "second"}
  /\ ServerUpdate(a, sd, [server EXCEPT ![a].check = "none", ![a].timer = TRUE])
  /\ UNCHANGED <<phase, called>>

(* The first failure: the check is made again. *)
CheckFails(a) ==
  /\ server[a].check = "first"
  /\ server' = [server EXCEPT ![a].check = "second"]
  /\ UNCHANGED <<description, believed, phase, selectionVars>>

(* The second failure: "we do not reschedule monitoring in this case". *)
RecheckFails(a) ==
  /\ server[a].check = "second"
  /\ ServerUpdate(a, UnknownServer, [server EXCEPT ![a].check = "none"])
  /\ UNCHANGED <<phase, called>>

(***************************************************************************)
(* The specification                                                       *)
(***************************************************************************)

Init ==
  /\ DescriptionInit
  /\ phase = "new"
  /\ server = [a \in Addresses |-> NoServer]
  /\ called = {} /\ listening = {} /\ timing = {}
  /\ answers = [s \in Selections |-> 0]

Monitor(a) ==
  \/ TimerFires(a) \/ Poke(a) \/ CheckFails(a) \/ RecheckFails(a)
  \/ \E sd \in Replies \ {UnknownServer} : CheckSucceeds(a, sd)

PoolEvent(a) ==
  \/ \E sd \in Replies \ {UnknownServer} : PoolConnects(a, sd)
  \/ PoolFails(a)
  \/ \E link \in Links : ServerErrors(a, link)
  \/ \E check \in Checks : PoolDies(a, check)

Next ==
  \/ Connect \/ Close
  \/ \E s \in Selections : Select(s) \/ TimesOut(s)
  \/ \E a \in Addresses : Monitor(a) \/ PoolEvent(a)

Spec == Init /\ [][Next]_topologyVars

(* Node fires timers that are armed. *)
Fairness == \A s \in Selections : WF_topologyVars(TimesOut(s))

FairSpec == Spec /\ Fairness

(***************************************************************************)
(* Properties                                                              *)
(***************************************************************************)

TypeOK ==
  /\ DescriptionTypeOK
  /\ phase \in {"new", "connected", "closed"}
  /\ server \in [Addresses -> ServerState]
  /\ \A a \in Addresses : server[a].link = "none" => server[a] = NoServer
  /\ called \in SUBSET Selections
  /\ listening \in SUBSET called
  /\ timing \in SUBSET called
  /\ answers \in [Selections -> Nat]

(* Every server of the description has a Server object, which selectServers *)
(* takes from the map without a look, and no other server has one.  When   *)
(* an update is cut short because a server is not supported, this holds of *)
(* the servers that can be selected.                                       *)
ServersMatch ==
  phase = "connected" =>
    /\ Known(description) \subseteq Servers
    /\ Compatible(description) => Servers = DOMAIN description.servers

(* No selection waits for a server that is there: whatever changed the     *)
(* description, the selections that waited were tried again, and their     *)
(* selectors saw the server in whatever order they look at the mode, the   *)
(* tags and the staleness.  A preference with a second tag set and no      *)
(* fallback on the primary breaks it: tagSetReducer keeps the servers of   *)
(* the first tag set that any server has, before their types are looked at. *)
NoMissedServer ==
  Compatible(description) =>
    \A s \in listening : Chosen(description, s) = {} /\ Wanted(description, Preference[s]) = {}

(* While a selection waits, each connected server whose pool lives is      *)
(* being checked or will be, though its monitor stops after two failures:  *)
(* nothing else would bring the change the selection waits for.            *)
WatchedWhileWaiting ==
  phase = "connected" /\ Compatible(description) /\ listening # {} =>
    \A a \in Servers : server[a].link = "connected" /\ ~server[a].dead =>
      server[a].check \in {"first", "second"} \/ server[a].timer \/ server[a].poked

(* One monitor per server: no check is scheduled while one is under way,   *)
(* or each of the two would schedule the next.                             *)
OneMonitor == \A a \in Addresses : server[a].timer => server[a].check = "none"

(* The servers, their monitors, and whether a selection can rely on them.  *)
ServersSound == ServersMatch /\ OneMonitor /\ WatchedWhileWaiting

(* A selection is called back once: by its timer, or by a change of the    *)
(* description, neither of which is left to call it again.                 *)
AnsweredOnce ==
  \A s \in called : /\ answers[s] = (IF s \in listening THEN 0 ELSE 1)
                    /\ s \in timing <=> s \in listening

(* Waiting selections. *)
SelectionsSound == NoMissedServer /\ AnsweredOnce

(* Every selection ends, even of a topology that was closed. *)
SelectionEnds == \A s \in Selections : s \in called ~> answers[s] = 1
=============================================================================
