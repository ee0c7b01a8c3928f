------------------------------- MODULE ReplSet -------------------------------
(***************************************************************************)
(* The legacy topology of a replica set: lib/topologies/replset.js, over   *)
(* the member lists of ReplSetState and the choice of ReplSetSelection.    *)
(*                                                                         *)
(* It connects to its seeds; what they answer fills the lists, and the     *)
(* first primary makes it connected.  From then on an Interval per host    *)
(* pings the member that is listed, and a loop connects to the hosts that  *)
(* are not.  Members are elected, step down, crash and come back while     *)
(* answers and failures of connections arrive in any order.                *)
(*                                                                         *)
(* The topology is one record: a handler is an operator that takes it as   *)
(* it is and gives it as the handler leaves it.                            *)
(***************************************************************************)
EXTENDS ReplSetSelection

CONSTANTS
  Seeds,          \* the hosts of the seed list
  Me,             \* the name a host answers under, for seeds that are aliases
  SetName,        \* of the members
  NameOptions,    \* values of the option setName, or NoName
  Roles,          \* of members that can not be elected, at the start
  Troubles,       \* what becomes of a member in trouble
  SecondaryOnly,  \* the option secondaryOnlyConnectionAllowed
  ReadSecondary,  \* connect was given the read preference secondary
  MaxTerm,        \* bound on elections, of which the first is over at the start
  Preferences,    \* read preferences of operations; with none, no operation fails
  MaxFaults       \* bound on crashes, lost connections and failed operations

ASSUME SetAssumption ==
  /\ Seeds \subseteq Host
  /\ Me \in [Host -> Host]
  /\ SetName \in SetNames
  /\ NameOptions \subseteq SetNames \cup {NoName}
  /\ Roles \subseteq {"arbiter", "passive"}
  /\ Troubles \subseteq {"down", "other", "ghost"}
  /\ SecondaryOnly \in BOOLEAN /\ ReadSecondary \in BOOLEAN
  /\ \A pref \in Preferences : IsPreference(pref)
  /\ MaxTerm \in Nat \ {0} /\ MaxFaults \in Nat

VARIABLES
  top,     \* the topology
  role,    \* of each member of the set: its kind, or "down"
  term,    \* the last election
  faults   \* so far

worldVars == <<role, term, faults>>

vars == <<top, role, term, faults>>

Members == {Me[h] : h \in Host}

States == {"disconnected", "connecting", "connected", "destroyed"}

(* Whether the pool of a server object is connected.  A "stuck" one is,    *)
(* and its server takes itself for destroyed.                              *)
Pools == {"free", "open", "stuck", "closed", "destroyed"}

(* rs           s.replicaSetState                                          *)
(* up           the server objects                                         *)
(* pings        isMaster commands not answered yet, and who waits          *)
(* seeds        seeds whose connect waits for its timer                    *)
(* dialing      seeds that are connecting                                  *)
(* called       whether connect was called                                 *)
(* connecting   s.connectingServers, by name, as long as a seed reads it   *)
(* attempts     connections of connectNewServers, and for whom             *)
(* sweep        topologyMonitor with haInterval 1: it runs once            *)
(* monitors     the hosts with an Interval in intervalIds                  *)
(* loop         executeReconnect                                           *)
(* connects     how often connect was emitted                              *)
(* failed       error was emitted                                          *)
(* destroying   what destroy still waits for                               *)
(* doomed       seeds that were destroyed before they had a pool           *)
TypeOK ==
  /\ top.state \in States
  /\ IsState(top.rs)
  /\ top.up \in [Server -> Pools]
  /\ top.pings \subseteq [server : Server, by : {"interval", "sweep"}]
  /\ top.seeds \subseteq Seeds /\ top.dialing \subseteq Seeds
  /\ top.called \in BOOLEAN
  /\ top.doomed \subseteq Seeds /\ top.connecting \subseteq Host
  /\ top.attempts \subseteq [host : Host, by : {"loop", "sweep"}]
  /\ top.sweep \in [at : {"off", "connecting", "timers", "over"}, hosts : SUBSET Host,
                    failed : BOOLEAN]
  /\ top.monitors \subseteq Host
  /\ top.loop \in {"off", "timer", "connecting"}
  /\ top.connects \in Nat /\ top.failed \in BOOLEAN
  /\ top.destroying \subseteq {"lists", "dials"}
  /\ role \in [Members -> [kind : Kinds \cup {"down"}, electionId : 0..MaxTerm,
                           home : {"secondary", "arbiter", "passive"}]]
  /\ term \in 0..MaxTerm /\ faults \in 0..MaxFaults

Init ==
  /\ \E name \in NameOptions :
       top = [state |-> "disconnected", called |-> FALSE, rs |-> Empty(name),
              up |-> [s \in Server |-> "free"], pings |-> {}, seeds |-> {},
              dialing |-> {}, connecting |-> {}, attempts |-> {},
              sweep |-> [at |-> "off", hosts |-> {}, failed |-> FALSE],
              monitors |-> {}, loop |-> "off", connects |-> 0, failed |-> FALSE,
              destroying |-> {}, doomed |-> {}]
  /\ \E leader \in Members, kind \in Roles \cup {"secondary"} :
       role = [h \in Members |->
                 IF h = leader THEN [kind |-> "primary", electionId |-> 1, home |-> "secondary"]
                 ELSE [kind |-> kind, electionId |-> 0, home |-> kind]]
  /\ term = 1 /\ faults = 0

-------------------------------------------------------------------------------
(* The replica set *)
Leader ==
  LET elected == {h \in Members : role[h].kind = "primary" /\ role[h].electionId = term} IN
  IF elected = {} THEN NoHost ELSE CHOOSE h \in elected : TRUE

Reachable(h) == role[Me[h]].kind # "down"

Answer(h) ==
  [kind |-> role[Me[h]].kind, setName |-> SetName, me |-> Me[h], hosts |-> Members,
   others |-> {}, primary |-> Leader, electionId |-> role[Me[h]].electionId,
   setVersion |-> 1]

(* What goes wrong between the topology and a host: it is down, or the     *)
(* network fails once.                                                     *)
Fault(h) ==
  \/ ~Reachable(h) /\ UNCHANGED worldVars
  \/ /\ Reachable(h) /\ faults < MaxFaults
     /\ faults' = faults + 1
     /\ UNCHANGED <<role, term>>

(* A member is elected; the primary before it may not know yet. *)
Elect(h) ==
  /\ term < MaxTerm /\ top.state # "destroyed"
  /\ role[h].kind = "secondary"
  /\ term' = term + 1
  /\ role' = [role EXCEPT ![h].kind = "primary", ![h].electionId = term + 1]
  /\ UNCHANGED <<faults, top>>

(* A member is what it was before it was elected, or is in trouble. *)
ChangeRole(h, kind) ==
  /\ role[h].kind # kind /\ top.state # "destroyed"
  /\ \/ kind = role[h].home /\ faults' = faults
     \/ kind \in Troubles /\ faults < MaxFaults /\ faults' = faults + 1
  /\ role' = [role EXCEPT ![h].kind = kind, ![h].electionId = 0]
  /\ UNCHANGED <<term, top>>

-------------------------------------------------------------------------------
Gone(t) == t.state = "destroyed"

SweepIs(at, hosts) == [at |-> at, hosts |-> hosts, failed |-> FALSE]

Open(t) == {s \in Server : t.up[s] \in {"open", "stuck"}}

(* An object that is not listed, connected or waiting for an answer is no  *)
(* more, nor is what only seeds or the sweep read when they are through.   *)
Settled(t) ==
  LET used == Open(t) \cup Listed(t.rs) \cup {p.server : p \in t.pings} IN
  [t EXCEPT
     !.up = [s \in Server |-> IF s \in used THEN @[s] ELSE "free"],
     !.connecting = IF t.seeds \cup t.dialing = {} THEN {} ELSE @,
     !.sweep = IF @.at = "over" THEN SweepIs("over", {}) ELSE @]

(* The handler leaves the topology as t. *)
Becomes(t) == \E left \in {t} : top' = Settled(left)

(* A new Server for the host; the bound Copies may leave none. *)
Fresh(h) == {n \in 1..Copies : top.up[<<h, n>>] = "free"}

NewServer(h) == <<h, Min(Fresh(h))>>

(* server.destroy(), of each *)
DestroyServers(t, servers) ==
  [t EXCEPT !.up = [s \in Server |->
     IF s \in servers /\ @[s] # "stuck" THEN "destroyed" ELSE @[s]]]

(* What update made of the lists and the objects. *)
Updated(t, u) == [DestroyServers(t, u.destroyed) EXCEPT !.rs = u.rs]

Suffices(rs) == HasPrimary(rs) \/ (SecondaryOnly /\ HasSecondary(rs))

(* hasPrimary, or hasSecondary where secondaries are allowed *)
Found(rs) == IF SecondaryOnly THEN HasSecondary(rs) ELSE HasPrimary(rs)

(* Mutant: the loop is not started.                                        *)
MutantNoLoop(t) == [t EXCEPT !.monitors = @ \cup DOMAIN t.rs.set]

(* topologyMonitor(self, {}) *)
StartMonitors(t) ==
  [t EXCEPT !.monitors = @ \cup DOMAIN t.rs.set, !.loop = "timer"]

(* connectNewServers(self, unknownServers) *)
Dial(t, by) ==
  [t EXCEPT !.attempts = @ \cup {[host |-> h, by |-> by] : h \in t.rs.unknownServers}]

Connected(t) == [t EXCEPT !.state = "connected", !.connects = @ + 1]

(* What destroy does at once: the timers stop, the servers are destroyed.  *)
Ending(t) ==
  [DestroyServers(t, Listed(t.rs)) EXCEPT
     !.monitors = {},
     !.loop = IF @ = "timer" THEN "off" ELSE @,
     !.sweep.at = IF @ = "timers" THEN "over" ELSE @,
     !.dialing = {},
     !.doomed = @ \cup t.seeds]

(* replicaSetState.destroy, when its servers are destroyed. *)
Cleared(t) ==
  [t EXCEPT !.rs = [Empty(@.setName) EXCEPT !.maxElectionId = t.rs.maxElectionId,
                                            !.maxSetVersion = t.rs.maxSetVersion]]

(* destroy({ force: true }): no server lets wait. *)
ForceDestroyed(t) == [Cleared(Ending(t)) EXCEPT !.state = "destroyed"]

Destroy(force) ==
  LET waits == (IF Listed(top.rs) = {} THEN {} ELSE {"lists"})
                 \cup (IF top.dialing = {} THEN {} ELSE {"dials"})
  IN
  /\ top.called
  /\ ~Gone(top) /\ top.destroying = {}
  /\ Becomes(IF force \/ waits = {} THEN ForceDestroyed(top)
             ELSE IF "lists" \in waits THEN [Ending(top) EXCEPT !.destroying = waits]
             ELSE [Cleared(Ending(top)) EXCEPT !.destroying = waits])
  /\ UNCHANGED worldVars

DestroyAnswered(what) ==
  LET left == top.destroying \ {what}
      t == IF what = "lists" THEN Cleared(top) ELSE top
  IN
  /\ what \in top.destroying
  /\ Becomes([t EXCEPT !.destroying = left,
                       !.state = IF left = {} THEN "destroyed" ELSE @])
  /\ UNCHANGED worldVars

-------------------------------------------------------------------------------
(* connect() and its seeds *)
Connect ==
  /\ ~top.called
  /\ top' = [top EXCEPT !.called = TRUE, !.state = "connecting", !.seeds = Seeds, !.connecting = Seeds]
  /\ UNCHANGED worldVars

(* A timer of connectServers does not look whether the topology is gone. *)
StartSeed(h) ==
  /\ h \in top.seeds
  /\ top' = [top EXCEPT !.seeds = @ \ {h}, !.rs = Announced(@, h),
                        !.dialing = @ \cup {h}]
  /\ UNCHANGED worldVars

(* The end of handleInitialConnectEvent: after the last seed, a sweep if   *)
(* none has made the topology connected.                                   *)
SeedDone(t, h) ==
  LET left == [t EXCEPT !.connecting = @ \ {h}] IN
  IF left.connecting = {} /\ left.state = "connecting"
  THEN [Dial(left, "sweep") EXCEPT !.sweep = SweepIs("connecting", DOMAIN left.rs.set)]
  ELSE left

ShouldTriggerConnect(t) ==
  \/ /\ t.state = "connecting"
     /\ IF ReadSecondary THEN HasSecondary(t.rs) ELSE HasPrimary(t.rs)
  \/ SecondaryOnly /\ HasSecondary(t.rs)

(* update knows the seed as a member: it gets the handlers that stay. *)
SeedJoins(t, h, s, u) ==
  LET joined == Updated([t EXCEPT !.up[s] = IF h \in t.doomed THEN "stuck" ELSE "open"], u)
  IN SeedDone(IF ShouldTriggerConnect(joined) THEN StartMonitors(Connected(joined))
              ELSE joined, h)

(* handleInitialConnectEvent(self, 'connect').  A server that is destroyed *)
(* here was perhaps destroyed already, before it had a pool.               *)
SeedConnected(h) ==
  LET s == NewServer(h)
      t == [top EXCEPT !.dialing = @ \ {h}]
      dropped == [t EXCEPT !.up[s] = IF h \in t.doomed THEN "stuck" ELSE "free"]
  IN
  /\ h \in top.dialing /\ Reachable(h) /\ Fresh(h) # {}
  /\ \/ Gone(top) /\ top' = dropped
     \/ \E m \in {Answer(h)} : \E u \in {Update(top.rs, s, m)} :
          /\ ~Gone(top)
          /\ \/ u.result = "error" /\ Becomes([ForceDestroyed(dropped) EXCEPT !.failed = TRUE])
             \/ u.result = "kept" /\ Becomes(SeedDone(Updated(dropped, u), h))
             \/ u.result = "joined" /\ Becomes(SeedJoins(t, h, s, u))
  /\ UNCHANGED worldVars

(* handleInitialConnectEvent(self, 'error') and so on *)
SeedFailed(h) ==
  LET t == [top EXCEPT !.dialing = @ \ {h}] IN
  /\ h \in top.dialing
  /\ Becomes(IF Gone(top) THEN t
             ELSE SeedDone([t EXCEPT !.rs = Remove(@, h, Open(t), FALSE)], h))
  /\ Fault(h)

-------------------------------------------------------------------------------
(* Mutant: the loop does not set its timer again.                          *)
MutantLoopOnce(t, by) ==
  IF by = "loop" \/ \E a \in t.attempts : a.by = by THEN t
  ELSE IF Found(t.rs) THEN [t EXCEPT !.sweep.at = "timers"]
  ELSE LET over == [t EXCEPT !.sweep.at = "over", !.failed = TRUE] IN
       IF t.sweep.failed THEN over ELSE ForceDestroyed(over)

(* The callback of connectNewServers, when its last connection is there or *)
(* has failed: the loop sets its timer again; the sweep starts its pings,  *)
(* or fails without a primary.                                             *)
BatchDone(t, by) ==
  IF \E a \in t.attempts : a.by = by THEN t
  ELSE IF by = "loop" THEN [t EXCEPT !.loop = "timer"]
  ELSE IF Found(t.rs) THEN [t EXCEPT !.sweep.at = "timers"]
  ELSE LET over == [t EXCEPT !.sweep.at = "over", !.failed = TRUE] IN
       IF t.sweep.failed THEN over ELSE ForceDestroyed(over)

(* A connection of connectNewServers is there: connect of _handleEvent.    *)
(* An error of update counts as joining.                                   *)
Attempted(a) ==
  LET s == NewServer(a.host)
      t == [top EXCEPT !.attempts = @ \ {a}]
      joined(u) == [Updated([t EXCEPT !.up[s] = "open"], u) EXCEPT
                      !.monitors = @ \cup {Me[a.host]}]
  IN
  /\ a \in top.attempts /\ Reachable(a.host) /\ Fresh(a.host) # {}
  /\ \E m \in {Answer(a.host)} : \E u \in {Update(top.rs, s, m)} :
       Becomes(IF Gone(top) THEN t
               ELSE BatchDone(IF u.result = "kept" THEN Updated(t, u) ELSE joined(u), a.by))
  /\ UNCHANGED worldVars

AttemptFailed(a) ==
  LET t == [top EXCEPT !.attempts = @ \ {a},
                       !.sweep.failed = @ \/ a.by = "sweep"]
  IN
  /\ a \in top.attempts
  /\ Becomes(IF Gone(top) THEN t ELSE BatchDone(t, a.by))
  /\ Fault(a.host)

(* executeReconnect *)
Reconnect ==
  /\ top.loop = "timer" /\ ~Gone(top)
  /\ top.rs.unknownServers # {}
  /\ top' = [Dial(top, "loop") EXCEPT !.loop = "connecting"]
  /\ UNCHANGED worldVars

-------------------------------------------------------------------------------
(* The members listed for some hosts are pinged; without a connection the  *)
(* command fails at once.                                                  *)
Ping(t, hosts, by) ==
  LET listed == {h \in hosts : Get(t.rs, h) # NoServer}
      open == {h \in listed : Get(t.rs, h) \in Open(t)}
  IN
  [t EXCEPT
     !.pings = @ \cup {[server |-> Get(t.rs, h), by |-> by] : h \in open},
     !.rs = RemoveClosed(@, listed \ open, Open(t))]

(* An Interval. *)
Interval(h) ==
  /\ h \in top.monitors /\ ~Gone(top) /\ Get(top.rs, h) # NoServer
  /\ Becomes(Ping(top, {h}, "interval"))
  /\ UNCHANGED worldVars

(* The Timeouts of the sweep, all of one millisecond. *)
Sweep ==
  /\ top.sweep.at = "timers" /\ ~Gone(top)
  /\ Becomes(Ping([top EXCEPT !.sweep.at = "over"], top.sweep.hosts, "sweep"))
  /\ UNCHANGED worldVars

(* The rest of the callback of a ping: its answer can make the topology    *)
(* connected, for the first time after a sweep, or again.                  *)
Heard(t, by) ==
  IF ~Suffices(t.rs) THEN t
  ELSE IF by = "sweep" /\ t.state = "connecting" THEN StartMonitors(Connected(t))
  ELSE IF by = "interval" /\ t.state = "disconnected" THEN [t EXCEPT !.state = "connected"]
  ELSE t

(* The answer to a ping; a server that was destroyed still waits for it.   *)
PingAnswered(p) ==
  LET s == p.server
      t == [top EXCEPT !.pings = @ \ {p}]
  IN
  /\ p \in top.pings /\ Reachable(Name(s))
  /\ \E m \in {Answer(Name(s))} : \E u \in {Update(t.rs, s, m)} :
       Becomes(IF Gone(top) THEN DestroyServers(t, {s}) ELSE Heard(Updated(t, u), p.by))
  /\ UNCHANGED worldVars

(* The ping fails; its server may be connected all the same. *)
PingFailed(p) ==
  LET s == p.server
      t == [top EXCEPT !.pings = @ \ {p}]
  IN
  /\ p \in top.pings
  /\ Becomes(IF Gone(top) THEN DestroyServers(t, {s})
             ELSE [t EXCEPT !.rs = Remove(@, Name(s), Open(t), FALSE)])
  /\ IF top.up[s] = "destroyed" THEN UNCHANGED worldVars ELSE Fault(Name(s))

(* A server loses its last connection: the pings on it fail, then          *)
(* handleEvent.                                                            *)
Close(s) ==
  LET closed == [top EXCEPT !.up[s] = "closed", !.pings = {p \in @ : p.server # s}]
      left == [closed EXCEPT !.rs = Remove(@, Name(s), Open(closed), FALSE),
                             !.connecting = @ \cup {Name(s)}]
  IN
  /\ s \in Open(top)
  /\ Becomes(IF Gone(top) THEN closed
             ELSE IF HasPrimary(left.rs) THEN left
             ELSE [left EXCEPT !.state = "disconnected"])
  /\ Fault(Name(s))

(* An operation that was sent to a member fails, because the connection is *)
(* lost or the member is not a primary any more, and is not retried:       *)
(* whatever member it was sent to, the primary leaves the lists.  Nothing  *)
(* destroys its object, which stays connected.                             *)
OperationFails ==
  /\ HasPrimary(top.rs) /\ Open(top) # {}
  /\ Preferences # {} /\ faults < MaxFaults
  /\ faults' = faults + 1
  /\ Becomes([top EXCEPT !.rs = Remove(@, Name(@.primary), {}, TRUE)])
  /\ UNCHANGED <<role, term>>

-------------------------------------------------------------------------------
World ==
  \E h \in Members :
    Elect(h) \/ \E kind \in {role[h].home} \cup Troubles : ChangeRole(h, kind)

Topology ==
  \/ Connect \/ Reconnect \/ Sweep
  \/ \E force \in BOOLEAN : Destroy(force)
  \/ \E what \in top.destroying : DestroyAnswered(what)
  \/ \E h \in Seeds : StartSeed(h) \/ SeedConnected(h) \/ SeedFailed(h)
  \/ \E a \in top.attempts : Attempted(a) \/ AttemptFailed(a)
  \/ \E h \in Host : Interval(h)
  \/ \E p \in top.pings : PingAnswered(p) \/ PingFailed(p)
  \/ \E s \in Server : Close(s)
  \/ OperationFails

Next == World \/ Topology

Spec == Init /\ [][Next]_vars

(* Timers fire, connections end in one way or the other, a member that is  *)
(* listed is pinged again and again and answers or its ping fails, and the *)
(* connections to a host that is down are lost.  Actions that follow each  *)
(* other, or happen only so often, share a condition.                      *)
Fairness ==
  /\ WF_vars(\/ Sweep
             \/ \E h \in Seeds : StartSeed(h) \/ SeedConnected(h) \/ SeedFailed(h)
             \/ \E what \in top.destroying : DestroyAnswered(what))
  /\ WF_vars(Reconnect \/ \E a \in top.attempts : Attempted(a) \/ AttemptFailed(a))
  /\ WF_vars(\E s \in Server : ~Reachable(Name(s)) /\ Close(s))
  /\ \A h \in Host :
       WF_vars(Interval(h) \/ \E p \in top.pings : Name(p.server) = h /\ (PingAnswered(p) \/ PingFailed(p)))

FairSpec == Spec /\ Fairness

-------------------------------------------------------------------------------
(* The lists agree with each other and with "set": update would raise an   *)
(* exception where a host typed as the primary had no primary beside it,   *)
(* or the primary no entry.                                                *)
ListsAgree ==
  LET r == top.rs IN
  /\ HasPrimary(r) => Name(r.primary) \in DOMAIN r.set
  /\ \A h \in DOMAIN r.set : r.set[h].type = "RSPrimary" => IsPrimary(r, h)
  /\ \A s \in r.secondaries : ~IsPrimary(r, Name(s))
  /\ \A s, q \in r.secondaries \cup r.arbiters : Name(s) = Name(q) => s = q

(* An operation is sent to a member that its read preference asks for, and *)
(* to some member whenever there is one.                                   *)
PicksWanted ==
  \A pref \in Preferences :
    LET wanted == WantedServers(top.rs, pref)
        picked == PickServer(top.rs, pref)
    IN
    PickError(top.rs, pref) \/ (picked \subseteq wanted /\ (wanted # {} => picked # {}))

(* Elections are not undone: the greatest election id heard of never       *)
(* decreases, and a server becomes primary with that id.                   *)
ElectionsOrdered ==
  [][/\ top'.rs.maxElectionId >= top.rs.maxElectionId
     /\ (top'.rs.primary \notin {NoServer, top.rs.primary}
           => top'.rs.set[Name(top'.rs.primary)].electionId = top'.rs.maxElectionId)]_vars

(* connect is emitted once, and while it has been and the topology is not  *)
(* destroyed, a reconnect is scheduled or under way.                       *)
KeepsTrying ==
  /\ top.connects <= 1
  /\ (top.connects = 1 /\ top.state # "destroyed" /\ top.destroying = {})
       => top.loop # "off"

Calm ==
  /\ Leader # NoHost
  /\ \A h \in Members \ {Leader} : role[h].kind = role[h].home

(* However often elections, failures and recoveries made it lose its       *)
(* primary: a topology that was connected, is not destroyed and has a set  *)
(* that stays calm finds the leader again, and is connected to it.         *)
FindsPrimary ==
  LET found == /\ HasPrimary(top.rs) /\ Name(top.rs.primary) = Leader
               /\ top.rs.primary \in Open(top) /\ top.state = "connected"
  IN
  []<>(found \/ ~Calm \/ top.connects = 0 \/ Gone(top) \/ top.destroying # {})
=============================================================================
