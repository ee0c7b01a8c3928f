------------------------------- MODULE Mongos -------------------------------
(***************************************************************************)
(* The legacy topology of mongos proxies: lib/topologies/mongos.js.        *)
(*                                                                         *)
(* Every server object is in one of three lists.  Seeds go from connecting *)
(* to connected or disconnected; a monitor, which the last of them starts, *)
(* pings the connected ones, then makes a new object for each disconnected *)
(* one, and sets its timer again when all of these have connected or       *)
(* failed.  Connections are lost and hosts crash and come back meanwhile.  *)
(*                                                                         *)
(* The topology is one record: a handler is an operator that takes it as   *)
(* it is and gives it as the handler leaves it.                            *)
(***************************************************************************)
EXTENDS Integers, Sequences, FiniteSetsExt, SequencesExt

CONSTANTS
  Host,       \* names of hosts
  Copies,     \* bound on the live objects of a host
  SeedLists,  \* sequences of hosts
  Foreign,    \* hosts that may not be a mongos
  MaxLoops,   \* bound on monitors
  MaxFaults   \* bound on crashes and lost connections

ASSUME MongosAssumption ==
  /\ IsFiniteSet(Host) /\ Foreign \subseteq Host
  /\ SeedLists \subseteq Seq(Host)
  /\ \A list \in SeedLists : \A h \in Host :
       Cardinality({i \in DOMAIN list : list[i] = h}) <= Copies
  /\ Copies \in Nat /\ MaxLoops \in Nat /\ MaxFaults \in Nat

VARIABLES
  self,     \* the topology
  seedlist, \* its seeds
  foreign,  \* the hosts that are not a mongos
  down,     \* the hosts that are down
  faults    \* so far

worldVars == <<seedlist, foreign, down, faults>>

vars == <<self, seedlist, foreign, down, faults>>

Server == Host \X (1..Copies)

Name(s) == s[1]

Loops == 1..MaxLoops

(* A server is "new" before it connects; "draining" ones are destroyed and *)
(* finish what they do. *)
Pools == {"free", "new", "dialing", "open", "closed", "draining", "destroyed"}

(* Which handlers the events of a server have: those of the initial        *)
(* connect, those of a reconnect of a monitor, or the stable ones.         *)
Handlers == {"none", "initial", "reconnect", "stable"}

(* connecting..disconnected  the lists of proxies                          *)
(* pool, on, by, doomed      the server objects; "by" is the monitor that  *)
(*                           reconnects it, a doomed one is destroyed      *)
(*                           before it has a pool                          *)
(* seeds                     seeds whose connect waits for its timer       *)
(* loops                     the monitors; "first" is firstConnect,        *)
(*                           "idle" that no proxy was connected, "count"   *)
(*                           the proxies it waits for                      *)
(* haTimeout                 the monitor whose timer was set last, or 0    *)
(* pings                     monitors and the servers that they ping       *)
(* renewals                  monitors and the proxies that they replace    *)
(* connects                  how often connect was emitted                 *)
(* destroying                the servers that destroy waits for            *)
Proxies ==
  [state : {"disconnected", "connecting", "connected", "destroyed"},
   connecting : Seq(Server), connected : SUBSET Server, disconnected : SUBSET Server,
   pool : [Server -> Pools], on : [Server -> Handlers], by : [Server -> Loops \cup {0}],
   doomed : SUBSET Server, seeds : SUBSET Server,
   loops : [Loops -> [at : {"off", "timer", "pinging", "renewing"},
                      first : BOOLEAN, idle : BOOLEAN, count : Nat]],
   haTimeout : Loops \cup {0},
   pings : SUBSET (Loops \X Server), renewals : SUBSET (Loops \X Server),
   connects : Nat, destroying : SUBSET Server]

TypeOK ==
  /\ self \in Proxies
  /\ seedlist \in SeedLists /\ foreign \subseteq Foreign /\ down \subseteq Host
  /\ faults \in 0..MaxFaults

Idle == [at |-> "off", first |-> FALSE, idle |-> FALSE, count |-> 0]

Init ==
  /\ self = [state |-> "disconnected", connecting |-> <<>>, connected |-> {},
             disconnected |-> {}, pool |-> [s \in Server |-> "free"],
             on |-> [s \in Server |-> "none"], by |-> [s \in Server |-> 0], doomed |-> {}, seeds |-> {},
             loops |-> [n \in Loops |-> Idle], haTimeout |-> 0, pings |-> {},
             renewals |-> {}, connects |-> 0, destroying |-> {}]
  /\ seedlist \in SeedLists
  /\ foreign \in SUBSET Foreign
  /\ down \in {hosts \in SUBSET Host : Cardinality(hosts) <= MaxFaults}
  /\ faults = Cardinality(down)

-------------------------------------------------------------------------------
(* The proxies *)
Crash(h) ==
  /\ h \notin down /\ faults < MaxFaults /\ self.state # "destroyed"
  /\ down' = down \cup {h}
  /\ faults' = faults + 1
  /\ UNCHANGED <<self, seedlist, foreign>>

Recover(h) ==
  /\ h \in down /\ self.state # "destroyed"
  /\ down' = down \ {h}
  /\ UNCHANGED <<self, seedlist, foreign, faults>>

(* The host is down, or the network fails once. *)
Fault(h) ==
  \/ h \in down /\ UNCHANGED worldVars
  \/ /\ h \notin down /\ faults < MaxFaults
     /\ faults' = faults + 1
     /\ UNCHANGED <<seedlist, foreign, down>>

-------------------------------------------------------------------------------
(* The lists *)
Named(list, h) == {s \in list : Name(s) = h}

Unlist(list, h) == list \ Named(list, h)

(* A loop that splices the list it goes through: of two entries of one     *)
(* name in a row the second stays.                                         *)
Spliced(list, h) ==
  LET kept[i \in 0..Len(list)] ==
        IF i = 0 THEN [list |-> <<>>, skip |-> FALSE]
        ELSE IF Name(list[i]) = h /\ ~kept[i - 1].skip
        THEN [kept[i - 1] EXCEPT !.skip = TRUE]
        ELSE [list |-> Append(kept[i - 1].list, list[i]), skip |-> FALSE]
  IN kept[Len(list)].list

(* moveServerFrom(connectingProxies, to, s) *)
Settle(t, to, s) ==
  [t EXCEPT !.connecting = Spliced(@, Name(s)),
            ![to] = Unlist(@, Name(s)) \cup {s}]

(* Mutant: a proxy that is lost is not noted as disconnected.              *)
MutantForgotten(t, s) == [t EXCEPT !.connected = Unlist(@, Name(s))]

(* moveServerFrom(connectedProxies, disconnectedProxies, s) *)
Disconnect(t, s) ==
  [t EXCEPT !.connected = Unlist(@, Name(s)),
            !.disconnected = Unlist(@, Name(s)) \cup {s}]

(* An object that nothing refers to any more, without a connection, is no  *)
(* more.                                                                   *)
Referred(t) ==
  ToSet(t.connecting) \cup t.connected \cup t.disconnected \cup t.seeds
    \cup {p[2] : p \in t.pings \cup t.renewals}

Swept(t) ==
  LET gone == {s \in Server \ Referred(t) : t.pool[s] \in {"closed", "destroyed", "new"}} IN
  [t EXCEPT !.pool = [s \in Server |-> IF s \in gone THEN "free" ELSE @[s]],
            !.on = [s \in Server |-> IF s \in gone THEN "none" ELSE @[s]],
            !.by = [s \in Server |-> IF t.on[s] = "reconnect" THEN @[s] ELSE 0],
            !.doomed = @ \ gone]

(* The handler leaves the topology as t. *)
Becomes(t) == \E left \in {t} : self' = Swept(left)

(* A new Server for the host; the bound Copies may leave none. *)
Fresh(h) == {n \in 1..Copies : self.pool[<<h, n>>] = "free"}

NewServer(h) == <<h, Min(Fresh(h))>>

(* server.destroy(), which a doomed server takes for done *)
DestroyServers(t, gone) ==
  [t EXCEPT !.pool = [s \in Server |->
                        IF s \notin gone \ t.doomed THEN @[s]
                        ELSE IF @[s] \in {"open", "dialing", "draining"} THEN "draining"
                        ELSE "destroyed"],
            !.doomed = @ \cup {s \in gone : t.pool[s] = "new"},
            !.on = [s \in Server |-> IF s \in gone THEN "none" ELSE @[s]]]

DestroyServer(t, s) == DestroyServers(t, {s})

Gone(t) == t.state = "destroyed"

-------------------------------------------------------------------------------
(* Monitors that are over *)
Silenced(t, ns) == [t EXCEPT !.loops = [n \in Loops |-> IF n \in ns THEN Idle ELSE @[n]]]

(* topologyMonitor(self, options): a timer is set. *)
StartMonitor(t, n, first) ==
  [t EXCEPT !.loops[n] = [Idle EXCEPT !.at = "timer", !.first = first],
            !.haTimeout = n]

(* The bound MaxLoops allows a further monitor. *)
Spare == \E n \in Loops : self.loops[n].at = "off"

NewMonitor(t) ==
  LET n == Min({k \in Loops : t.loops[k].at = "off"}) IN StartMonitor(t, n, TRUE)

(* Mutant: the monitor does not set its timer again.                       *)
MutantMonitorOnce(t, n) == [t EXCEPT !.loops[n] = Idle]

(* The callback of reconnectProxies: a first monitor that found no proxy   *)
(* emits connect.                                                          *)
Renewed(t, n) ==
  LET loop == t.loops[n]
      told == [t EXCEPT !.connects = IF loop.idle /\ loop.first /\ t.state = "connecting"
                                     THEN @ + 1 ELSE @]
  IN
  IF Gone(t) THEN Silenced(t, {n}) ELSE StartMonitor(told, n, FALSE)

(* reconnectProxies, of some monitors, with proxies to reconnect *)
Renewing(t, ns) ==
  [t EXCEPT !.loops = [n \in Loops |->
                         IF n \in ns THEN [@[n] EXCEPT !.at = "renewing",
                                                     !.count = Cardinality(t.disconnected)]
                         ELSE @[n]],
            !.renewals = @ \cup (ns \X t.disconnected)]

Renew(t, n) == IF t.disconnected = {} THEN Renewed(t, n) ELSE Renewing(t, {n})

(* The timer of a monitor *)
Monitor(n) ==
  LET t == [self EXCEPT !.haTimeout = IF @ = n THEN 0 ELSE @] IN
  /\ self.loops[n].at = "timer"
  /\ Becomes(IF Gone(t) THEN Silenced(t, {n})
             ELSE IF t.connected # {}
             THEN [t EXCEPT !.loops[n].at = "pinging",
                            !.pings = @ \cup ({n} \X t.connected)]
             ELSE Renew([t EXCEPT !.loops[n].idle = TRUE], n))
  /\ UNCHANGED worldVars

(* The callback of a ping; the last one reconnects.                        *)
Pinged(t, n) ==
  IF \E p \in t.pings : p[1] = n THEN t
  ELSE IF Gone(t) THEN Silenced(t, {n})
  ELSE Renew(t, n)

PingAnswered(n, s) ==
  LET t == [self EXCEPT !.pings = @ \ {<<n, s>>}] IN
  /\ <<n, s>> \in self.pings /\ Name(s) \notin down
  /\ self.pool[s] \in {"open", "draining"}
  /\ Becomes(Pinged(IF Gone(t) THEN DestroyServer(Disconnect(t, s), s) ELSE t, n))
  /\ UNCHANGED worldVars

(* Pings fail with the connection they are on: the first callback moves    *)
(* the proxy, so that a monitor whose last ping it was finds it to renew.  *)
PingsLost(t, ns, s) ==
  LET left == Disconnect([t EXCEPT !.pings = @ \ (ns \X {s})], s)
      through == {n \in ns : \A p \in left.pings : p[1] # n}
  IN
  IF Gone(t) THEN Silenced(DestroyServer(left, s), through) ELSE Renewing(left, through)

PingFailed(n, s) ==
  /\ <<n, s>> \in self.pings /\ self.pool[s] \in {"open", "draining"}
  /\ Becomes(PingsLost(self, {n}, s))
  /\ Fault(Name(s))

(* execute of reconnectProxies: a new object takes the place of the old.   *)
Replace(n, old) ==
  LET h == Name(old)
      s == NewServer(h)
      t == [self EXCEPT !.renewals = @ \ {<<n, old>>}]
      replaced == [DestroyServer(t, old) EXCEPT
                     !.disconnected = Unlist(@, h),
                     !.connecting = Append(@, s),
                     !.pool[s] = "dialing", !.on[s] = "reconnect", !.by[s] = n]
  IN
  /\ <<n, old>> \in self.renewals
  /\ \/ Gone(self) /\ Becomes(t)
     \/ ~Gone(self) /\ Fresh(h) # {} /\ Becomes(replaced)
  /\ UNCHANGED worldVars

(* Mutant: the events error and close of one attempt are counted both.     *)
MutantCountedTwice(t, n) == [t EXCEPT !.loops[n].count = @ - 2]

(* _handleEvent of reconnectProxies: whether the host is a mongos is not   *)
(* looked at.                                                              *)
Counted(t, n) == [t EXCEPT !.loops[n].count = @ - 1]

Finished(t, n) == IF t.loops[n].count = 0 THEN Renewed(t, n) ELSE t

Reconnected(s) ==
  LET n == self.by[s]
      t == Counted([self EXCEPT !.pool[s] = "open"], n)
  IN
  /\ self.on[s] = "reconnect" /\ self.pool[s] = "dialing" /\ Name(s) \notin down
  /\ Becomes(IF Gone(t) THEN DestroyServer(Settle(t, "disconnected", s), s)
             ELSE Finished([Settle(t, "connected", s) EXCEPT !.on[s] = "stable"], n))
  /\ UNCHANGED worldVars

ReconnectFailed(s) ==
  LET n == self.by[s]
      t == DestroyServer(Settle(Counted(self, n), "disconnected", s), s)
  IN
  /\ self.on[s] = "reconnect" /\ self.pool[s] = "dialing"
  /\ Becomes(IF Gone(t) THEN t ELSE Finished(t, n))
  /\ Fault(Name(s))

-------------------------------------------------------------------------------
(* connect() *)
Connect ==
  LET servers == [i \in DOMAIN seedlist |->
                    <<seedlist[i], Cardinality({j \in 1..i : seedlist[j] = seedlist[i]})>>]
  IN
  /\ self.state = "disconnected"
  /\ self' = [self EXCEPT !.state = "connecting", !.connecting = servers,
                          !.seeds = ToSet(servers),
                          !.pool = [s \in Server |-> IF s \in ToSet(servers) THEN "new" ELSE @[s]]]
  /\ UNCHANGED worldVars

(* A timer of connectProxies does not look whether the topology is gone.   *)
StartSeed(s) ==
  /\ s \in self.seeds
  /\ self' = [self EXCEPT !.seeds = @ \ {s}, !.pool[s] = "dialing", !.on[s] = "initial"]
  /\ UNCHANGED worldVars

(* The end of handleInitialConnectEvent: when no seed is connecting any    *)
(* more the topology is connected, or not, and a monitor starts.           *)
InitialDone(t) ==
  IF t.connecting # <<>> THEN t
  ELSE IF t.connected # {} /\ t.state = "connecting"
  THEN NewMonitor([t EXCEPT !.state = "connected", !.connects = @ + 1])
  ELSE IF t.disconnected = {} THEN t
  ELSE NewMonitor(t)

(* handleInitialConnectEvent(self, 'connect').  A seed that is not a       *)
(* mongos is no longer listed, and keeps its connection and its handlers.  *)
SeedConnected(s) ==
  LET h == Name(s)
      t == [self EXCEPT !.pool[s] = "open"]
      twice == DestroyServer(Settle(t, "disconnected", s), s)
  IN
  /\ self.on[s] = "initial" /\ self.pool[s] = "dialing" /\ h \notin down
  /\ ~Gone(self) => Spare
  /\ Becomes(IF Gone(t) THEN twice
             ELSE IF h \in foreign
             THEN InitialDone([t EXCEPT !.connecting = Spliced(@, h)])
             ELSE IF Named(t.connected, h) # {} THEN twice
             ELSE InitialDone([Settle(t, "connected", s) EXCEPT !.on[s] = "stable"]))
  /\ UNCHANGED worldVars

(* handleInitialConnectEvent(self, 'error'), or 'close' of a seed that is  *)
(* not a mongos, which has a connection to lose.                           *)
SeedFailed(s) ==
  LET t == Settle([self EXCEPT !.pool[s] = "closed"], "disconnected", s) IN
  /\ self.on[s] = "initial" /\ self.pool[s] \in {"dialing", "open"}
  /\ ~Gone(self) => Spare
  /\ Becomes(IF Gone(t) THEN DestroyServer(t, s)
             ELSE InitialDone([t EXCEPT !.on[s] = "none"]))
  /\ Fault(Name(s))

-------------------------------------------------------------------------------
(* A server loses its last connection, and pings with it: handleEvent; one *)
(* without handlers does so unnoticed.                                     *)
Close(s) ==
  LET pinging == {n \in Loops : <<n, s>> \in self.pings}
      closed == [self EXCEPT !.pool[s] = "closed"]
      t == IF pinging = {} THEN closed ELSE PingsLost(closed, pinging, s)
  IN
  /\ self.pool[s] = "open" /\ self.on[s] \in {"stable", "none"}
  /\ Becomes(IF Gone(t) \/ t.on[s] = "none" THEN t ELSE Disconnect(t, s))
  /\ Fault(Name(s))

(* A list to which servers were moved, one at a time *)
Over(list, servers) == servers \cup {s \in list : Named(servers, Name(s)) = {}}

(* The last server of each name of a list *)
LastOf(list) ==
  {list[i] : i \in {j \in DOMAIN list :
                     \A k \in DOMAIN list : k > j => Name(list[k]) # Name(list[j])}}

(* destroy(): the timer that was set last is cleared, and what is          *)
(* connected, then what is connecting, is destroyed and moved.             *)
Destroy(force) ==
  LET servers == self.connected \cup ToSet(self.connecting)
      silent == [Silenced(self, {self.haTimeout}) EXCEPT !.haTimeout = 0]
      ended == [DestroyServers(silent, servers) EXCEPT
                  !.connected = {},
                  !.disconnected = Over(Over(@, self.connected), LastOf(self.connecting))]
      waits == {s \in servers : ended.pool[s] = "draining"}
      cut == [ended EXCEPT !.pool = [s \in Server |-> IF s \in waits THEN "destroyed" ELSE @[s]]]
  IN
  /\ ~Gone(self) /\ self.destroying = {}
  /\ Becomes(IF force \/ waits = {} THEN [cut EXCEPT !.state = "destroyed"]
             ELSE [ended EXCEPT !.destroying = waits])
  /\ UNCHANGED worldVars

(* The pool of a server has nothing left to do.                            *)
Drained(s) ==
  LET left == self.destroying \ {s} IN
  /\ self.pool[s] = "draining"
  /\ \A p \in self.pings : p[2] # s
  /\ Becomes([self EXCEPT !.pool[s] = "destroyed", !.destroying = left,
                          !.state = IF self.destroying # {} /\ left = {} THEN "destroyed" ELSE @])
  /\ UNCHANGED worldVars

-------------------------------------------------------------------------------
World == \E h \in Host : Crash(h) \/ Recover(h)

Topology ==
  \/ Connect
  \/ \E force \in BOOLEAN : Destroy(force)
  \/ \E n \in Loops : Monitor(n)
  \/ \E p \in self.pings : PingAnswered(p[1], p[2]) \/ PingFailed(p[1], p[2])
  \/ \E p \in self.renewals : Replace(p[1], p[2])
  \/ \E s \in Server :
       \/ StartSeed(s) \/ SeedConnected(s) \/ SeedFailed(s)
       \/ Reconnected(s) \/ ReconnectFailed(s)
       \/ Close(s) \/ Drained(s)

Next == World \/ Topology

Spec == Init /\ [][Next]_vars

(* Timers fire, connections end in one way or the other, pings are         *)
(* answered or fail, pools drain, and the connections to a host that is    *)
(* down are lost.                                                          *)
Fairness ==
  /\ \A n \in Loops :
       /\ WF_vars(Monitor(n))
       /\ WF_vars(\E s \in Server : PingAnswered(n, s) \/ PingFailed(n, s))
       /\ WF_vars(\E s \in Server : Replace(n, s))
  /\ \A s \in Server :
       /\ WF_vars(StartSeed(s))
       /\ WF_vars(SeedConnected(s) \/ (self.pool[s] = "dialing" /\ SeedFailed(s)))
       /\ WF_vars(Reconnected(s) \/ ReconnectFailed(s))
       /\ WF_vars(Name(s) \in down /\ (Close(s) \/ SeedFailed(s)))
       /\ WF_vars(Drained(s))

FairSpec == Spec /\ Fairness

-------------------------------------------------------------------------------
Live == self.state \in {"connecting", "connected"} /\ self.destroying = {}

(* No proxy is lost: a host of the seed list that is a mongos is always in *)
(* one of the lists, so that it is pinged or tried again; two objects of   *)
(* a host are never both connected, and what is listed as connected has a  *)
(* connection whose end will be noticed.                                   *)
NoneLost ==
  Live =>
    /\ self.state # "disconnected" => \A h \in ToSet(seedlist) \ foreign :
         Named(ToSet(self.connecting) \cup self.connected \cup self.disconnected, h) # {}
    /\ \A s, q \in self.connected : Name(s) = Name(q) => s = q
    /\ \A s \in self.connected : self.pool[s] = "open" /\ self.on[s] = "stable"

(* A topology whose seeds have all been tried keeps a monitor, and a       *)
(* monitor that is renewing has as many proxies left as it waits for.      *)
MonitorsCount ==
  \A n \in Loops :
    (self.loops[n].at = "renewing" /\ Live) =>
      self.loops[n].count =
        Cardinality({s \in Server : <<n, s>> \in self.renewals})
          + Cardinality({s \in Server : self.on[s] = "reconnect" /\ self.by[s] = n})

(* No proxy is lost, and no monitor stops for one that it waits for.      *)
ProxiesSound == NoneLost /\ MonitorsCount

Injective == \A i, j \in DOMAIN seedlist : seedlist[i] = seedlist[j] => i = j

(* A proxy that stays up is connected again, however it was lost.          *)
FindsProxies ==
  \A h \in Host :
    []<>(\/ Named(self.connected, h) # {}
         \/ h \in down \/ h \in foreign \/ ~Live
         \/ h \notin ToSet(seedlist) \/ ~Injective)
=============================================================================
