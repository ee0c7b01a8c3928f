---------------------------- MODULE ReplSetState ----------------------------
(***************************************************************************)
(* What the legacy ReplSet believes of its replica set:                    *)
(* lib/topologies/replset_state.js.                                        *)
(*                                                                         *)
(* A server object stands for one pool to one host; the lists of the state *)
(* compare servers by the name of their host, so two objects of one host   *)
(* are one entry to them.  update takes an object with its last isMaster   *)
(* response, changes the lists, and may destroy objects on the way.        *)
(***************************************************************************)
EXTENDS Integers

CONSTANTS
  Host,      \* names of members, in lower case
  Copies,    \* bound on the live objects of a host
  SetNames,  \* names of replica sets
  NoName,    \* no set name
  NoHost,    \* no member
  NoServer   \* no server object

ASSUME NonesAssumption ==
  /\ NoName \notin SetNames
  /\ NoHost \notin Host
  /\ NoServer \notin Host \X (1..Copies)

Server == Host \X (1..Copies)

Name(s) == s[1]

(* "secondary" and "passive" say secondary, "other" is a hidden member or  *)
(* one in no role, "starting" one of no set that takes no writes.          *)
Kinds ==
  {"mongos", "ghost", "other", "standalone", "starting", "primary", "secondary",
   "arbiter", "passive"}

SecondaryKinds == {"secondary", "passive"}

(* Election ids and set versions that are absent are 0; "others" are the   *)
(* arbiters and passives of the set, "primary" whom the member takes for   *)
(* one.                                                                    *)
IsAnswer(m) ==
  /\ m.kind \in Kinds
  /\ m.setName \in SetNames \cup {NoName}
  /\ m.me \in Host
  /\ m.hosts \subseteq Host /\ m.others \subseteq Host
  /\ m.primary \in Host \cup {NoHost}
  /\ m.electionId \in Nat /\ m.setVersion \in Nat

(* lastIsMaster() of an object that has not connected *)
NoAnswer == [kind |-> "none"]

EntryTypes ==
  {"Unknown", "PossiblePrimary", "RSPrimary", "RSSecondary", "RSArbiter", "RSOther",
   "RSGhost"}

Entry == [type : EntryTypes, setName : SetNames \cup {NoName}, electionId : Nat,
          setVersion : Nat]

(* An entry of the map "set" of the hosts heard of. *)
Plain(type, name) ==
  [type |-> type, setName |-> name, electionId |-> 0, setVersion |-> 0]

Unknown == Plain("Unknown", NoName)

(* Mutant: the kind of the response is taken for the type of the server.   *)
MutantKindForType(type, m) ==
  [type |-> m.kind, setName |-> m.setName, electionId |-> m.electionId,
   setVersion |-> m.setVersion]

EntryOf(type, m) ==
  [type |-> type, setName |-> m.setName, electionId |-> m.electionId,
   setVersion |-> m.setVersion]

IsState(rs) ==
  /\ rs.primary \in Server \cup {NoServer}
  /\ rs.secondaries \subseteq Server
  /\ rs.arbiters \subseteq Server
  /\ rs.passives \subseteq Server
  /\ rs.unknownServers \subseteq Host
  /\ DOMAIN rs.set \subseteq Host
  /\ \A h \in DOMAIN rs.set : rs.set[h] \in Entry
  /\ rs.setName \in SetNames \cup {NoName}
  /\ rs.maxElectionId \in Nat /\ rs.maxSetVersion \in Nat

Empty(name) ==
  [primary |-> NoServer, secondaries |-> {}, arbiters |-> {}, passives |-> {},
   unknownServers |-> {}, set |-> <<>>, setName |-> name, maxElectionId |-> 0,
   maxSetVersion |-> 0]

HasPrimary(rs) == rs.primary # NoServer

HasSecondary(rs) == rs.secondaries # {}

(* allServers *)
Listed(rs) ==
  ({rs.primary} \ {NoServer}) \cup rs.secondaries \cup rs.arbiters \cup rs.passives

Named(list, h) == {s \in list : Name(s) = h}

(* removeFrom *)
Unlist(list, h) == list \ Named(list, h)

IsPrimary(rs, h) == HasPrimary(rs) /\ Name(rs.primary) = h

(* get(host): the primary before the secondaries, and so on. *)
Get(rs, h) ==
  LET first(list, otherwise) ==
        IF Named(list, h) # {} THEN CHOOSE s \in Named(list, h) : TRUE ELSE otherwise
  IN
  first({rs.primary} \ {NoServer},
        first(rs.secondaries, first(rs.arbiters, first(rs.passives, NoServer))))

-------------------------------------------------------------------------------
(* Some hosts leave the lists, and are to be tried again. *)
Removed(rs, hosts) ==
  [rs EXCEPT
     !.primary = IF HasPrimary(rs) /\ Name(rs.primary) \in hosts THEN NoServer ELSE @,
     !.secondaries = {s \in @ : Name(s) \notin hosts},
     !.arbiters = {s \in @ : Name(s) \notin hosts},
     !.passives = {s \in @ : Name(s) \notin hosts},
     !.unknownServers = @ \cup hosts,
     !.set = [x \in DOMAIN @ |-> IF x \in hosts THEN Unknown ELSE @[x]]]

(* remove(server), one after the other: a host without a listed object     *)
(* whose pool is connected leaves the lists.  "open" are the objects that  *)
(* are connected.                                                          *)
RemoveClosed(rs, hosts, open) ==
  Removed(rs, {h \in hosts : Named(Listed(rs), h) \cap open = {}})

(* remove(server), and remove(server, { force: true }) *)
Remove(rs, h, open, force) ==
  IF force THEN Removed(rs, {h}) ELSE RemoveClosed(rs, {h}, open)

(* What update returns, TRUE as "joined", FALSE as "kept" or a MongoError  *)
(* as "error", and the objects it destroyed.                               *)
Kept(rs) == [rs |-> rs, result |-> "kept", destroyed |-> {}]

Joined(rs, destroyed) == [rs |-> rs, result |-> "joined", destroyed |-> destroyed]

SetEntry(rs, h, entry) ==
  [rs EXCEPT !.set = [x \in DOMAIN @ \cup {h} |-> IF x = h THEN entry ELSE @[x]]]

(* The hosts that a response names become known. *)
AddHosts(rs, hosts) ==
  [rs EXCEPT
     !.unknownServers =
        @ \cup {h \in hosts : h \notin DOMAIN rs.set \/ rs.set[h].type = "Unknown"},
     !.set = [h \in DOMAIN @ \cup hosts |-> IF h \in DOMAIN @ THEN @[h] ELSE Unknown]]

(* No response yet *)
Announced(rs, h) ==
  SetEntry([rs EXCEPT !.unknownServers = @ \cup {h}], h, Unknown)

WithoutPrimary(rs, h) ==
  [rs EXCEPT !.primary = IF IsPrimary(rs, h) THEN NoServer ELSE @]

TakeName(rs, m) ==
  [rs EXCEPT !.setName = IF m.setName = NoName THEN @ ELSE m.setName]

(* The host answers under another name. *)
Misnamed(rs, s, m) ==
  LET h == Name(s)
      gone == [rs EXCEPT !.set = [x \in DOMAIN @ \ {h} |-> @[x]],
                         !.unknownServers = @ \ {h}]
  IN
  [rs |-> IF HasPrimary(rs) \/ m.primary = NoHost THEN gone
          ELSE SetEntry(gone, m.primary, Plain("PossiblePrimary", NoName)),
   result |-> "kept", destroyed |-> {s}]

-------------------------------------------------------------------------------
(* JavaScript finds undefined less than nothing. *)
Less(a, b) == a # 0 /\ b # 0 /\ a < b

(* compareObjectIds, then the set versions of the same election. *)
OlderThan(m, electionId, setVersion) ==
  /\ m.electionId # 0 /\ electionId # 0
  /\ \/ m.electionId < electionId
     \/ m.electionId = electionId /\ Less(m.setVersion, setVersion)

(* Mutant: a secondary that is elected stays among the secondaries.        *)
MutantStaysSecondary(rs, s, m) ==
  LET h == Name(s) IN
  TakeName(SetEntry([rs EXCEPT
     !.primary = s,
     !.passives = Unlist(@, h),
     !.unknownServers = @ \ {h}], h, EntryOf("RSPrimary", m)), m)

(* The server takes the place of the primary. *)
Install(rs, s, m) ==
  LET h == Name(s) IN
  TakeName(SetEntry([rs EXCEPT
     !.primary = s,
     !.secondaries = Unlist(@, h),
     !.passives = Unlist(@, h),
     !.unknownServers = @ \ {h}], h, EntryOf("RSPrimary", m)), m)

(* Mutant: an election that is over is not told from the current one.      *)
MutantStaleElection(rs, s, m) ==
  IF rs.setName \notin {NoName, m.setName}
  THEN [Kept(rs) EXCEPT !.result = "error"]
  ELSE Joined(IF Name(s) \in m.hosts THEN Install(rs, s, m) ELSE rs, {})

(* The response of a primary while there is none. *)
FirstPrimary(rs, s, m) ==
  LET compared == rs.maxElectionId # 0 /\ m.electionId # 0
      noted == [rs EXCEPT
                  !.maxElectionId = IF m.electionId # 0 THEN m.electionId ELSE @,
                  !.maxSetVersion = IF compared THEN m.setVersion ELSE @]
  IN
  IF rs.setName \notin {NoName, m.setName}
  THEN [Kept(rs) EXCEPT !.result = "error"]
  ELSE IF OlderThan(m, rs.maxElectionId, rs.maxSetVersion)
  THEN Kept(rs)
  ELSE Joined(IF Name(s) \in m.hosts THEN Install(noted, s, m) ELSE noted, {})

(* Whether the primary there is stays, rather than the one that answers. *)
Outdated(rs, m) ==
  LET current == rs.set[Name(rs.primary)] IN
  \/ current.setName \notin {NoName, m.setName}
  \/ OlderThan(m, current.electionId, current.setVersion)
  \/ /\ current.electionId = 0 /\ m.electionId # 0
     /\ Less(m.setVersion, rs.maxSetVersion)
  \/ /\ rs.maxElectionId # 0 /\ m.electionId # 0
     /\ m.electionId < rs.maxElectionId \/ Less(m.setVersion, rs.maxSetVersion)

(* The response of a primary while there is one, that of another host or   *)
(* of the same. *)
NextPrimary(rs, s, m) ==
  LET old == Name(rs.primary)
      noted == [rs EXCEPT
                  !.maxElectionId = IF m.electionId # 0 THEN m.electionId ELSE @,
                  !.maxSetVersion = IF m.electionId # 0 /\ rs.maxElectionId = 0
                                    THEN @ ELSE m.setVersion]
  IN
  IF (old = Name(s) /\ rs.set[old].setName = m.setName) \/ Outdated(rs, m)
  THEN Kept(rs)
  ELSE Joined(Install(SetEntry(noted, old, Unknown), s, m), {rs.primary})

(* A secondary, arbiter or passive member joins the list it is not in.     *)
(* Where it was the primary, there is none now; the object that is         *)
(* destroyed is the one that answered, which is also the one listed.       *)
Join(rs, s, m, list, type) ==
  LET h == Name(s)
      listed == SetEntry([rs EXCEPT ![list] = @ \cup {s}, !.unknownServers = @ \ {h}],
                         h, EntryOf(type, m))
  IN
  IF type # "RSArbiter" /\ IsPrimary(rs, h)
  THEN Joined([listed EXCEPT !.primary = NoServer], {s})
  ELSE Joined(listed, {})

(* A member that neither joins nor is primary. *)
StepDown(rs, h) ==
  IF h \in DOMAIN rs.set /\ rs.set[h].type = "RSPrimary"
  THEN [rs |-> [rs EXCEPT !.primary = NoServer], result |-> "kept",
        destroyed |-> {rs.primary}]
  ELSE Kept(rs)

MayJoin(rs, m, list, h) == m.setName # NoName /\ rs.setName = m.setName /\ Named(list, h) = {}

Member(rs, s, m) ==
  LET h == Name(s)
      known == IF HasPrimary(rs) \/ m.primary = NoHost THEN rs
               ELSE SetEntry(rs, m.primary, Plain("PossiblePrimary", NoName))
  IN
  IF m.kind \in SecondaryKinds /\ MayJoin(rs, m, rs.secondaries, h)
  THEN Join(known, s, m, "secondaries", "RSSecondary")
  ELSE IF m.kind = "arbiter" /\ MayJoin(rs, m, rs.arbiters, h)
  THEN Join(known, s, m, "arbiters", "RSArbiter")
  ELSE IF m.kind = "passive" /\ MayJoin(rs, m, rs.passives, h)
  THEN Join(known, s, m, "passives", "RSSecondary")
  ELSE StepDown(known, h)

(* update(server), whose last response is m. *)
Answered(rs, s, m) ==
  LET h == Name(s) IN
  CASE m.kind = "mongos" -> Kept(WithoutPrimary(rs, h))
    [] m.kind = "ghost" ->
         Kept(TakeName(SetEntry(WithoutPrimary(rs, h), h, Plain("RSGhost", m.setName)), m))
    [] m.kind = "other" -> Kept(TakeName(SetEntry(rs, h, Plain("RSOther", m.setName)), m))
    [] m.kind \in {"standalone", "starting"} -> Kept(Remove(rs, h, {}, TRUE))
    [] m.kind \in {"primary", "secondary", "arbiter", "passive"} ->
         IF m.me # h THEN Misnamed(rs, s, m)
         ELSE IF m.kind # "primary" THEN Member(rs, s, m)
         ELSE IF HasPrimary(rs) THEN NextPrimary(rs, s, m)
         ELSE FirstPrimary(rs, s, m)

Update(rs, s, m) ==
  IF m = NoAnswer THEN Kept(Announced(rs, Name(s)))
  ELSE Answered(AddHosts(rs, m.hosts \cup m.others), s, m)
=============================================================================
