--------------------------- MODULE TopologyProofs ---------------------------
(* Theorems about TopologyDescription, for every set of servers and of     *)
(* responses, and about the Topology that keeps a description, for every   *)
(* set of selections.                                                      *)
EXTENDS Topology, FiniteSetTheorems, TLAPS

(***************************************************************************)
(* Types                                                                   *)
(***************************************************************************)

LEMMA UnknownServerType == UnknownServer \in ServerDescription
BY DescriptionAssumption DEF UnknownServer, ServerDescription, ServerTypes

LEMMA ReplyType ==
  ASSUME NEW sd \in Replies
  PROVE  /\ sd \in ServerDescription
         /\ sd.type \in ServerTypes
         /\ sd.setName \in SetNames \cup {NoName}
         /\ sd.setVersion \in 0..MaxVersion
         /\ sd.electionId \in 0..MaxVersion
         /\ sd.hosts \subseteq Addresses
BY DescriptionAssumption DEF ServerDescription

(* The Map's operations make Maps. *)
LEMMA MapType ==
  ASSUME NEW servers, IsServerMap(servers), NEW a \in Addresses,
         NEW sd \in ServerDescription, NEW hosts \in SUBSET Addresses
  PROVE  /\ IsServerMap(Set(servers, a, sd))
         /\ IsServerMap(Delete(servers, a))
         /\ IsServerMap(ResetOldPrimary(servers, a))
         /\ IsServerMap(Discover(servers, hosts))
         /\ IsServerMap(Replace(servers, hosts))
<1>1. IsServerMap(Set(servers, a, sd))
  BY DEF IsServerMap, Set
<1>2. IsServerMap(Delete(servers, a))
  BY DEF IsServerMap, Delete, Restrict
<1>3. IsServerMap(ResetOldPrimary(servers, a))
  <2> DEFINE old == Primaries(servers) \ {a}
  <2>1. CASE old = {}
    BY <2>1 DEF ResetOldPrimary
  <2>2. CASE old # {}
    <3> DEFINE b == CHOOSE x \in old : TRUE
    <3>1. ResetOldPrimary(servers, a) = [servers EXCEPT ![b] = UnknownServer]
      BY <2>2 DEF ResetOldPrimary
    <3> QED
      BY <3>1, UnknownServerType DEF IsServerMap
  <2> QED
    BY <2>1, <2>2
<1>4. \A h \in SUBSET Addresses : IsServerMap(Discover(servers, h))
  BY UnknownServerType DEF IsServerMap, Discover
<1>5. IsServerMap(Replace(servers, hosts))
  BY <1>4 DEF IsServerMap, Replace, Restrict, Discover
<1> QED
  BY <1>1, <1>2, <1>3, <1>4, <1>5

LEMMA WithServersType ==
  ASSUME NEW td, IsTopologyDescription(td), NEW servers, IsServerMap(servers)
  PROVE  IsTopologyDescription(WithServers(td, servers))
BY DEF IsTopologyDescription, WithServers, CheckHasPrimary, TopologyTypes

(* updateRsFromPrimary *)
LEMMA FromPrimaryType ==
  ASSUME NEW td, IsTopologyDescription(td), NEW a \in Addresses, NEW sd \in Replies
  PROVE  IsTopologyDescription(UpdateRsFromPrimary(td, a, sd))
<1> DEFINE named == [td EXCEPT !.setName = NameOr(td, sd)]
           heard == [named EXCEPT
                      !.maxElectionId = IF HasIds(sd.setVersion, sd.electionId)
                                        THEN sd.electionId ELSE @,
                      !.maxSetVersion = IF sd.setVersion > @ THEN sd.setVersion ELSE @]
<1>1. IsTopologyDescription(named)
  BY ReplyType DEF IsTopologyDescription, NameOr
<1>2. IsTopologyDescription(heard)
  BY <1>1, ReplyType DEF IsTopologyDescription
<1>3. IsServerMap(td.servers)
  BY DEF IsTopologyDescription
<1>4. IsTopologyDescription(WithServers(named, Delete(td.servers, a)))
  BY <1>1, <1>3, MapType, WithServersType, UnknownServerType
<1>5. IsTopologyDescription(WithServers(named, Set(td.servers, a, UnknownServer)))
  BY <1>1, <1>3, MapType, WithServersType, UnknownServerType
<1>6. IsTopologyDescription(WithServers(heard, Replace(ResetOldPrimary(td.servers, a), sd.hosts)))
  <2>1. IsServerMap(ResetOldPrimary(td.servers, a))
    BY <1>3, MapType, UnknownServerType
  <2>2. IsServerMap(Replace(ResetOldPrimary(td.servers, a), sd.hosts))
    BY <2>1, MapType, UnknownServerType, ReplyType
  <2> QED
    BY <1>2, <2>2, WithServersType
<1> HIDE DEF named, heard
<1> QED
  BY <1>4, <1>5, <1>6 DEF UpdateRsFromPrimary, named, heard

(* Each part of update(). *)
LEMMA PartsType ==
  ASSUME NEW td, IsTopologyDescription(td), NEW a \in Addresses, NEW sd \in Replies
  PROVE  /\ IsTopologyDescription(UpdateUnknown(td, a, sd))
         /\ IsTopologyDescription(UpdateSharded(td, a, sd))
         /\ IsTopologyDescription(UpdateNoPrimary(td, a, sd))
         /\ IsTopologyDescription(UpdateWithPrimary(td, a, sd))
<1>1. IsServerMap(td.servers)
  BY DEF IsTopologyDescription
<1>2. IsServerMap(Delete(td.servers, a)) /\ IsServerMap(Discover(td.servers, sd.hosts))
  BY <1>1, MapType, UnknownServerType, ReplyType
<1>3. IsTopologyDescription([td EXCEPT !.servers = Delete(@, a)])
  BY <1>2 DEF IsTopologyDescription
<1>4. IsTopologyDescription(UpdateUnknown(td, a, sd))
  <2>1. \A type \in TopologyTypes : IsTopologyDescription([td EXCEPT !.type = type])
    BY DEF IsTopologyDescription
  <2> QED
    BY <1>3, <2>1 DEF UpdateUnknown, TopologyTypes
<1>5. IsTopologyDescription(UpdateSharded(td, a, sd))
  BY <1>3 DEF UpdateSharded
<1>6. IsTopologyDescription(UpdateRsNoPrimaryFromMember(td, a, sd))
  <2>1. IsServerMap(Delete(Discover(td.servers, sd.hosts), a))
    BY <1>2, MapType, UnknownServerType
  <2>2. NameOr(td, sd) \in SetNames \cup {NoName}
    BY ReplyType DEF NameOr, IsTopologyDescription
  <2>3. \A servers : IsServerMap(servers) =>
          IsTopologyDescription([td EXCEPT !.setName = NameOr(td, sd), !.servers = servers])
    BY <2>2 DEF IsTopologyDescription
  <2> QED
    BY <1>1, <1>2, <2>1, <2>3 DEF UpdateRsNoPrimaryFromMember
<1>7. IsTopologyDescription(UpdateRsWithPrimaryFromMember(td, a, sd))
  BY <1>1, <1>2, WithServersType DEF UpdateRsWithPrimaryFromMember
<1>8. IsTopologyDescription(UpdateNoPrimary(td, a, sd))
  BY <1>3, <1>6, FromPrimaryType DEF UpdateNoPrimary, MemberTypes
<1>9. IsTopologyDescription(UpdateWithPrimary(td, a, sd))
  BY <1>1, <1>2, <1>7, FromPrimaryType, WithServersType DEF UpdateWithPrimary, MemberTypes
<1> QED
  BY <1>4, <1>5, <1>8, <1>9

LEMMA UpdateType ==
  ASSUME NEW td, IsTopologyDescription(td), NEW a \in Addresses, NEW sd \in Replies
  PROVE  IsTopologyDescription(Update(td, a, sd))
<1> DEFINE heard == [td EXCEPT !.servers = Set(@, a, sd), !.error = (sd.type = "Unknown")]
           u1 == UpdateUnknown(heard, a, sd)
           u2 == UpdateSharded(u1, a, sd)
           u3 == UpdateNoPrimary(u2, a, sd)
<1>1. IsTopologyDescription(heard)
  <2>1. IsServerMap(Set(td.servers, a, sd))
    BY MapType, ReplyType DEF IsTopologyDescription
  <2> QED
    BY <2>1 DEF IsTopologyDescription
<1> HIDE DEF heard
<1>2. IsTopologyDescription(u1)
  BY <1>1, PartsType
<1> HIDE DEF u1
<1>3. IsTopologyDescription(u2)
  BY <1>2, PartsType
<1> HIDE DEF u2
<1>4. IsTopologyDescription(u3)
  BY <1>3, PartsType
<1> HIDE DEF u3
<1>5. IsTopologyDescription(UpdateWithPrimary(u3, a, sd))
  BY <1>4, PartsType
<1> QED
  BY <1>1, <1>5 DEF Update, heard, u1, u2, u3

LEMMA BelievedType ==
  ASSUME NEW td, IsTopologyDescription(td)
  PROVE  BelievedIn(td) \subseteq (1..MaxVersion) \X (1..MaxVersion)
<1>1. \A x \in DOMAIN td.servers : /\ td.servers[x].setVersion \in 0..MaxVersion
                                   /\ td.servers[x].electionId \in 0..MaxVersion
  BY DEF IsTopologyDescription, IsServerMap, ServerDescription
<1>2. MaxVersion \in Nat
  BY DescriptionAssumption
<1> QED
  BY <1>1, <1>2 DEF BelievedIn, Primaries

(* Whatever the responses of servers, the description stays one: no update *)
(* leaves a type, a version or a server that is not of its kind.           *)
THEOREM TypeCorrect == DescriptionSpec => []DescriptionTypeOK
<1>1. DescriptionInit => DescriptionTypeOK
  <2> SUFFICES ASSUME DescriptionInit PROVE DescriptionTypeOK
    OBVIOUS
  <2>1. PICK seeds \in SUBSET Addresses, isSet \in BOOLEAN, name \in SetNames \cup {NoName} :
          description = [type |-> InitialType(seeds, isSet), setName |-> name,
                         maxSetVersion |-> 0, maxElectionId |-> 0,
                         servers |-> [a \in seeds |-> UnknownServer], error |-> FALSE]
    BY DEF DescriptionInit
  <2>2. InitialType(seeds, isSet) \in TopologyTypes
    BY DEF InitialType, TopologyTypes
  <2>3. IsServerMap([a \in seeds |-> UnknownServer])
    BY UnknownServerType DEF IsServerMap
  <2>4. MaxVersion \in Nat
    BY DescriptionAssumption
  <2>5. IsTopologyDescription(description)
    BY <2>1, <2>2, <2>3, <2>4 DEF IsTopologyDescription
  <2> QED
    BY <2>5 DEF DescriptionTypeOK, DescriptionInit
<1>2. DescriptionTypeOK /\ [DescriptionNext]_descriptionVars => DescriptionTypeOK'
  <2> SUFFICES ASSUME DescriptionTypeOK, [DescriptionNext]_descriptionVars
               PROVE  DescriptionTypeOK'
    OBVIOUS
  <2>1. ASSUME NEW a \in Addresses, NEW sd \in Replies, Receive(a, sd)
        PROVE  DescriptionTypeOK'
    <3>1. IsTopologyDescription(description')
      BY <2>1, UpdateType DEF Receive, DescriptionTypeOK
    <3>2. believed' \in SUBSET ((1..MaxVersion) \X (1..MaxVersion))
      BY <2>1, <3>1, BelievedType DEF Receive, DescriptionTypeOK
    <3> QED
      BY <3>1, <3>2 DEF DescriptionTypeOK, IsTopologyDescription, IsServerMap
  <2>2. CASE UNCHANGED descriptionVars
    BY <2>2 DEF descriptionVars, DescriptionTypeOK, IsTopologyDescription, IsServerMap
  <2> QED
    BY <2>1, <2>2 DEF DescriptionNext
<1> QED
  BY <1>1, <1>2, PTL DEF DescriptionSpec

(***************************************************************************)
(* The servers of a description fit its type.                              *)
(*                                                                         *)
(* update() puts the response into the description first, and then mends   *)
(* it part by part: in between, the server a that answered is an exception *)
(* to what holds of the others.                                            *)
(***************************************************************************)

(* The servers of a replica set. *)
MembersFit(servers) ==
  /\ \A x, y \in Primaries(servers) : x = y
  /\ \A x \in Primaries(servers) : DOMAIN servers \subseteq servers[x].hosts
  /\ \A x \in DOMAIN servers : servers[x].type # "Mongos"

(* The same of all but a, of which nothing is known but what sd says. *)
OthersFit(servers, a, sd) ==
  /\ a \in DOMAIN servers => servers[a] \in {sd, UnknownServer}
  /\ \A x, y \in Primaries(servers) \ {a} : x = y
  /\ \A x \in Primaries(servers) \ {a} : DOMAIN servers \cup {a} \subseteq servers[x].hosts
  /\ \A x \in DOMAIN servers \ {a} : servers[x].type # "Mongos"

(* The invariant. *)
Fits(td) ==
  /\ td.type \in ReplicaSetTypes =>
       MembersFit(td.servers) /\ td.type = CheckHasPrimary(td.servers)
  /\ td.type = "Sharded" =>
       \A x \in DOMAIN td.servers : td.servers[x].type \in {"Mongos", "Unknown"}
  /\ td.type = "Unknown" => \A x \in DOMAIN td.servers : td.servers[x].type = "Unknown"

LEMMA SameFit ==
  ASSUME NEW servers, NEW a, NEW sd, OthersFit(servers, a, sd),
         sd.type \notin {"RSPrimary", "Mongos"}
  PROVE  MembersFit(servers) /\ Primaries(servers) = Primaries(servers) \ {a}
BY DEF OthersFit, MembersFit, Primaries, UnknownServer

LEMMA DeletedFit ==
  ASSUME NEW servers, NEW a, NEW sd, OthersFit(servers, a, sd)
  PROVE  /\ MembersFit(Delete(servers, a))
         /\ Primaries(Delete(servers, a)) = Primaries(servers) \ {a}
BY DEF OthersFit, MembersFit, Delete, Restrict, Primaries

LEMMA UnknownFit ==
  ASSUME NEW servers, NEW a, NEW sd, OthersFit(servers, a, sd)
  PROVE  /\ MembersFit(Set(servers, a, UnknownServer))
         /\ Primaries(Set(servers, a, UnknownServer)) = Primaries(servers) \ {a}
BY DEF OthersFit, MembersFit, Set, Primaries, UnknownServer

(* The primary that answered is the only one left, and its hosts the only  *)
(* servers.                                                                *)
LEMMA ReplacedFit ==
  ASSUME NEW servers, NEW a, NEW sd, OthersFit(servers, a, sd), sd.type = "RSPrimary"
  PROVE  LET replaced == Replace(ResetOldPrimary(servers, a), sd.hosts)
         IN  /\ OthersFit(replaced, a, sd)
             /\ MembersFit(replaced)
             /\ Primaries(replaced) \subseteq {a}
<1> DEFINE old == Primaries(servers) \ {a}
           reset == ResetOldPrimary(servers, a)
           replaced == Replace(reset, sd.hosts)
<1>1. /\ DOMAIN reset = DOMAIN servers
      /\ \A x \in DOMAIN servers : reset[x] = IF x \in old THEN UnknownServer ELSE servers[x]
  <2>1. CASE old = {}
    BY <2>1 DEF ResetOldPrimary
  <2>2. CASE old # {}
    <3>1. PICK b \in old : b = CHOOSE x \in old : TRUE
      BY <2>2
    <3>2. old = {b}
      BY <3>1 DEF OthersFit
    <3>3. reset = [servers EXCEPT ![b] = UnknownServer]
      BY <2>2, <3>1 DEF ResetOldPrimary
    <3> QED
      BY <3>2, <3>3 DEF Primaries
  <2> QED
    BY <2>1, <2>2
<1> HIDE DEF reset
<1>2. /\ DOMAIN replaced = sd.hosts
      /\ \A x \in sd.hosts :
           replaced[x] = IF x \in DOMAIN servers /\ x \notin old THEN servers[x] ELSE UnknownServer
  BY <1>1 DEF Replace, Discover, Restrict
<1> HIDE DEF replaced
<1>3. Primaries(replaced) \subseteq {a}
  BY <1>2 DEF Primaries, UnknownServer
<1>4. \A x \in DOMAIN replaced : replaced[x].type # "Mongos"
  BY <1>2 DEF OthersFit, UnknownServer
<1>5. a \in DOMAIN replaced => replaced[a] \in {sd, UnknownServer}
  BY <1>2 DEF OthersFit
<1>6. \A x \in Primaries(replaced) : DOMAIN replaced \subseteq replaced[x].hosts
  BY <1>2, <1>3, <1>5 DEF Primaries, UnknownServer
<1> QED
  BY <1>3, <1>4, <1>5, <1>6 DEF OthersFit, MembersFit, replaced, reset

(* updateRsFromPrimary *)
LEMMA FromPrimaryFits ==
  ASSUME NEW td, IsTopologyDescription(td), NEW a, NEW sd,
         OthersFit(td.servers, a, sd), sd.type = "RSPrimary"
  PROVE  LET after == UpdateRsFromPrimary(td, a, sd)
         IN  /\ MembersFit(after.servers)
             /\ after.type = CheckHasPrimary(after.servers)
             /\ Primaries(td.servers) \ {a} = {} =>
                  OthersFit(after.servers, a, sd) /\ Primaries(after.servers) \subseteq {a}
<1> DEFINE named == [td EXCEPT !.setName = NameOr(td, sd)]
           heard == [named EXCEPT
                      !.maxElectionId = IF HasIds(sd.setVersion, sd.electionId)
                                        THEN sd.electionId ELSE @,
                      !.maxSetVersion = IF sd.setVersion > @ THEN sd.setVersion ELSE @]
           deleted == Delete(td.servers, a)
           unknown == Set(td.servers, a, UnknownServer)
           replaced == Replace(ResetOldPrimary(td.servers, a), sd.hosts)
<1>1. \A servers : /\ WithServers(named, servers).servers = servers
                   /\ WithServers(named, servers).type = CheckHasPrimary(servers)
                   /\ WithServers(heard, servers).servers = servers
                   /\ WithServers(heard, servers).type = CheckHasPrimary(servers)
  BY DEF IsTopologyDescription, WithServers
<1>2. \/ UpdateRsFromPrimary(td, a, sd) = WithServers(named, deleted)
      \/ UpdateRsFromPrimary(td, a, sd) = WithServers(named, unknown)
      \/ UpdateRsFromPrimary(td, a, sd) = WithServers(heard, replaced)
  BY DEF UpdateRsFromPrimary
<1> HIDE DEF named, heard
<1>3. MembersFit(deleted) /\ MembersFit(unknown) /\ MembersFit(replaced)
  BY DeletedFit, UnknownFit, ReplacedFit
<1>4. Primaries(td.servers) \ {a} = {} =>
        /\ OthersFit(deleted, a, sd) /\ Primaries(deleted) = {}
        /\ OthersFit(unknown, a, sd) /\ Primaries(unknown) = {}
        /\ OthersFit(replaced, a, sd) /\ Primaries(replaced) \subseteq {a}
  <2> SUFFICES ASSUME Primaries(td.servers) \ {a} = {}
               PROVE  /\ OthersFit(deleted, a, sd) /\ Primaries(deleted) = {}
                      /\ OthersFit(unknown, a, sd) /\ Primaries(unknown) = {}
                      /\ OthersFit(replaced, a, sd) /\ Primaries(replaced) \subseteq {a}
    OBVIOUS
  <2>1. Primaries(deleted) = {} /\ Primaries(unknown) = {}
    BY DeletedFit, UnknownFit
  <2>2. a \notin DOMAIN deleted /\ unknown[a] = UnknownServer
    BY DEF Delete, Restrict, Set
  <2>3. OthersFit(deleted, a, sd) /\ OthersFit(unknown, a, sd)
    BY <1>3, <2>1, <2>2 DEF OthersFit, MembersFit
  <2> QED
    BY <2>1, <2>3, ReplacedFit
<1> HIDE DEF deleted, unknown, replaced
<1> QED
  BY <1>1, <1>2, <1>3, <1>4

(* The part for ReplicaSetNoPrimary. *)
LEMMA NoPrimaryFits ==
  ASSUME NEW td, IsTopologyDescription(td), NEW a \in Addresses, NEW sd \in Replies,
         td.type = "ReplicaSetNoPrimary", OthersFit(td.servers, a, sd),
         Primaries(td.servers) \ {a} = {}
  PROVE  LET after == UpdateNoPrimary(td, a, sd)
         IN  /\ after.type \in ReplicaSetTypes
             /\ MembersFit(after.servers)
             /\ after.type = CheckHasPrimary(after.servers)
             /\ OthersFit(after.servers, a, sd)
<1> DEFINE after == UpdateNoPrimary(td, a, sd)
<1>1. CASE sd.type \in {"Mongos", "Unknown"}
  <2>1. after.servers = Delete(td.servers, a) /\ after.type = td.type
    BY <1>1 DEF UpdateNoPrimary, IsTopologyDescription, MemberTypes
  <2>2. MembersFit(after.servers) /\ Primaries(after.servers) = {}
    BY <2>1, DeletedFit
  <2>3. a \notin DOMAIN after.servers
    BY <2>1 DEF Delete, Restrict
  <2>4. OthersFit(after.servers, a, sd)
    BY <2>2, <2>3 DEF MembersFit, OthersFit
  <2>5. after.type = "ReplicaSetNoPrimary" /\ CheckHasPrimary(after.servers) = "ReplicaSetNoPrimary"
    BY <2>1, <2>2 DEF CheckHasPrimary
  <2> HIDE DEF after
  <2>6. /\ after.type \in ReplicaSetTypes
        /\ MembersFit(after.servers)
        /\ after.type = CheckHasPrimary(after.servers)
        /\ OthersFit(after.servers, a, sd)
    BY <2>2, <2>4, <2>5 DEF ReplicaSetTypes
  <2> QED
    BY <2>6 DEF after
<1>2. CASE sd.type = "RSPrimary"
  <2>1. after = UpdateRsFromPrimary(td, a, sd)
    BY <1>2 DEF UpdateNoPrimary
  <2>2. /\ MembersFit(after.servers)
        /\ after.type = CheckHasPrimary(after.servers)
        /\ OthersFit(after.servers, a, sd)
    BY <1>2, <2>1, FromPrimaryFits
  <2> QED
    BY <2>2 DEF CheckHasPrimary, ReplicaSetTypes
<1>3. CASE sd.type \in MemberTypes \ {"RSPrimary"}
  <2> DEFINE found == Discover(td.servers, sd.hosts)
  <2>1. /\ after.type = td.type
        /\ after.servers \in {Delete(td.servers, a), found, Delete(found, a)}
    BY <1>3 DEF UpdateNoPrimary, UpdateRsNoPrimaryFromMember, IsTopologyDescription, MemberTypes
  <2>2. Primaries(td.servers) = {} /\ MembersFit(td.servers)
    BY <1>3, SameFit DEF MemberTypes
  <2>3. Primaries(found) = {} /\ OthersFit(found, a, sd) /\ MembersFit(found)
    <3>1. Primaries(found) = {}
      BY <2>2 DEF Discover, Primaries, UnknownServer
    <3>2. \A x \in DOMAIN found : found[x].type # "Mongos"
      BY <2>2 DEF MembersFit, Discover, UnknownServer
    <3>3. a \in DOMAIN found => found[a] \in {sd, UnknownServer}
      BY DEF OthersFit, Discover
    <3> QED
      BY <3>1, <3>2, <3>3 DEF OthersFit, MembersFit
  <2> HIDE DEF found
  <2>4. \A servers \in {td.servers, found} :
          LET deleted == Delete(servers, a)
          IN  Primaries(deleted) = {} /\ MembersFit(deleted) /\ a \notin DOMAIN deleted
    <3>1. \A servers : a \notin DOMAIN Delete(servers, a)
      BY DEF Delete, Restrict
    <3> QED
      BY <2>2, <2>3, <3>1, DeletedFit
  <2>5. Primaries(after.servers) = {} /\ MembersFit(after.servers) /\ OthersFit(after.servers, a, sd)
    BY <2>1, <2>3, <2>4 DEF OthersFit, MembersFit
  <2> QED
    BY <2>1, <2>5 DEF CheckHasPrimary, ReplicaSetTypes
<1>4. CASE sd.type \notin {"Mongos", "Unknown", "RSPrimary"} \cup MemberTypes
  <2>1. after = td
    BY <1>4 DEF UpdateNoPrimary, MemberTypes
  <2> QED
    BY <1>4, <2>1, SameFit DEF CheckHasPrimary, ReplicaSetTypes
<1> QED
  BY <1>1, <1>2, <1>3, <1>4

(* The part for ReplicaSetWithPrimary. *)
LEMMA WithPrimaryFits ==
  ASSUME NEW td, IsTopologyDescription(td), NEW a \in Addresses, NEW sd \in Replies,
         td.type = "ReplicaSetWithPrimary", OthersFit(td.servers, a, sd)
  PROVE  LET after == UpdateWithPrimary(td, a, sd)
         IN  MembersFit(after.servers) /\ after.type = CheckHasPrimary(after.servers)
<1> DEFINE after == UpdateWithPrimary(td, a, sd)
<1>1. \A servers : /\ WithServers(td, servers).servers = servers
                   /\ WithServers(td, servers).type = CheckHasPrimary(servers)
  BY DEF IsTopologyDescription, WithServers
<1>2. CASE sd.type = "RSPrimary"
  <2>1. after = UpdateRsFromPrimary(td, a, sd)
    BY <1>2 DEF UpdateWithPrimary
  <2> QED
    BY <1>2, <2>1, FromPrimaryFits
<1>3. CASE sd.type # "RSPrimary"
  <2>1. \/ after = WithServers(td, Delete(td.servers, a))
        \/ after = WithServers(td, td.servers) /\ sd.type # "Mongos"
    BY <1>3 DEF UpdateWithPrimary, UpdateRsWithPrimaryFromMember, MemberTypes
  <2>2. MembersFit(Delete(td.servers, a))
    BY DeletedFit
  <2>3. sd.type # "Mongos" => MembersFit(td.servers)
    BY <1>3, SameFit
  <2>4. MembersFit(after.servers) /\ after.type = CheckHasPrimary(after.servers)
    <3> HIDE DEF after
    <3> QED
      BY <1>1, <2>1, <2>2, <2>3
  <2> QED
    BY <2>4
<1> QED
  BY <1>2, <1>3

LEMMA UpdateFits ==
  ASSUME NEW td, IsTopologyDescription(td), NEW a \in DOMAIN td.servers, NEW sd \in Replies,
         Fits(td)
  PROVE  Fits(Update(td, a, sd))
<1> DEFINE heard == [td EXCEPT !.servers = Set(@, a, sd), !.error = (sd.type = "Unknown")]
           u1 == UpdateUnknown(heard, a, sd)
           u2 == UpdateSharded(u1, a, sd)
           u3 == UpdateNoPrimary(u2, a, sd)
           u4 == UpdateWithPrimary(u3, a, sd)
<1>1. a \in Addresses
  BY DEF IsTopologyDescription, IsServerMap
<1>2. /\ IsTopologyDescription(heard)
      /\ heard.type = td.type
      /\ heard.servers = Set(td.servers, a, sd)
  <2>1. IsServerMap(Set(td.servers, a, sd))
    BY <1>1, MapType, ReplyType DEF IsTopologyDescription
  <2> QED
    BY <2>1 DEF IsTopologyDescription
<1>3. /\ DOMAIN heard.servers = DOMAIN td.servers
      /\ heard.servers[a] = sd
      /\ \A x \in DOMAIN td.servers \ {a} : heard.servers[x] = td.servers[x]
  BY <1>2 DEF Set
<1> HIDE DEF heard
<1>4. IsTopologyDescription(u1)
  BY <1>1, <1>2, PartsType
<1>5. IsTopologyDescription(u2)
  <2> HIDE DEF u1
  <2> QED
    BY <1>1, <1>4, PartsType
<1>6. IsTopologyDescription(u3)
  <2> HIDE DEF u2
  <2> QED
    BY <1>1, <1>5, PartsType
<1>7. CASE td.type = "Single"
  BY <1>7, <1>2 DEF Update, Fits, heard, ReplicaSetTypes
<1>8. CASE td.type # "Single"
  <2>1. Update(td, a, sd) = u4
    BY <1>8 DEF Update, heard
  (* What the first two parts leave. *)
  <2>2. /\ u2.type = "Sharded" => Fits(u2)
        /\ u2.type = "Unknown" => Fits(u2)
        /\ u2.type = "ReplicaSetNoPrimary" =>
             OthersFit(u2.servers, a, sd) /\ Primaries(u2.servers) \ {a} = {}
        /\ u2.type = "ReplicaSetWithPrimary" => OthersFit(u2.servers, a, sd)
        /\ u2.type # "Single"
    <3>1. CASE td.type = "Unknown"
      <4>1. \A x \in DOMAIN heard.servers \ {a} : heard.servers[x].type = "Unknown"
        BY <3>1, <1>3 DEF Fits
      <4>2. OthersFit(heard.servers, a, sd) /\ Primaries(heard.servers) \ {a} = {}
        BY <1>3, <4>1 DEF OthersFit, Primaries
      <4>3. CASE sd.type = "Standalone"
        <5>1. u1.type = "Unknown" /\ u1.servers = Delete(heard.servers, a)
          BY <3>1, <4>3, <1>2 DEF UpdateUnknown, IsTopologyDescription
        <5>2. u2 = u1
          BY <5>1 DEF UpdateSharded
        <5>3. \A x \in DOMAIN u1.servers : u1.servers[x].type = "Unknown"
          BY <5>1, <4>1 DEF Delete, Restrict
        <5> QED
          BY <5>1, <5>2, <5>3 DEF Fits, ReplicaSetTypes
      <4>4. CASE sd.type = "Mongos"
        <5>1. u1.type = "Sharded" /\ u1.servers = heard.servers
          BY <3>1, <4>4, <1>2 DEF UpdateUnknown, IsTopologyDescription
        <5>2. u2 = u1
          BY <4>4 DEF UpdateSharded
        <5>3. \A x \in DOMAIN u1.servers : u1.servers[x].type \in {"Mongos", "Unknown"}
          BY <5>1, <4>1, <4>4, <1>3
        <5> QED
          BY <5>1, <5>2, <5>3 DEF Fits, ReplicaSetTypes
      <4>5. CASE sd.type \notin {"Standalone", "Mongos"}
        <5>1. u1.type \in ReplicaSetTypes /\ u1.servers = heard.servers
          BY <3>1, <4>5, <1>2 DEF UpdateUnknown, IsTopologyDescription, ReplicaSetTypes
        <5>2. u2 = u1
          BY <5>1 DEF UpdateSharded, ReplicaSetTypes
        <5> QED
          BY <5>1, <5>2, <4>2 DEF ReplicaSetTypes
      <4> QED
        BY <4>3, <4>4, <4>5
    <3>2. CASE td.type = "Sharded"
      <4>1. u1 = heard
        BY <3>2, <1>2 DEF UpdateUnknown
      <4>2. \A x \in DOMAIN heard.servers \ {a} : heard.servers[x].type \in {"Mongos", "Unknown"}
        BY <3>2, <1>3 DEF Fits
      <4>3. u2.type = "Sharded"
        BY <4>1, <3>2, <1>2 DEF UpdateSharded, IsTopologyDescription
      <4>4. u2.servers = IF sd.type \in {"Mongos", "Unknown"} THEN heard.servers
                         ELSE Delete(heard.servers, a)
        BY <4>1, <3>2, <1>2 DEF UpdateSharded, IsTopologyDescription
      <4>5. \A x \in DOMAIN u2.servers : u2.servers[x].type \in {"Mongos", "Unknown"}
        BY <4>2, <4>4, <1>3 DEF Delete, Restrict
      <4> QED
        BY <4>3, <4>5 DEF Fits, ReplicaSetTypes
    <3>3. CASE td.type \in ReplicaSetTypes
      <4>1. u1 = heard /\ u2 = heard
        BY <3>3, <1>2 DEF UpdateUnknown, UpdateSharded, ReplicaSetTypes
      <4>2. OthersFit(heard.servers, a, sd)
        BY <3>3, <1>3 DEF Fits, MembersFit, OthersFit, Primaries
      <4>3. td.type = "ReplicaSetNoPrimary" => Primaries(heard.servers) \ {a} = {}
        BY <3>3, <1>3 DEF Fits, CheckHasPrimary, Primaries
      <4> QED
        BY <3>3, <4>1, <4>2, <4>3, <1>2 DEF ReplicaSetTypes
    <3> QED
      BY <1>8, <3>1, <3>2, <3>3 DEF IsTopologyDescription, TopologyTypes, ReplicaSetTypes
  <2>3. u2.type \in TopologyTypes
    BY <1>5 DEF IsTopologyDescription
  <2> HIDE DEF u2
  <2>4. CASE u2.type \in {"Sharded", "Unknown"}
    <3>1. u4 = u2
      BY <2>4 DEF UpdateNoPrimary, UpdateWithPrimary
    <3> QED
      BY <2>1, <2>2, <2>4, <3>1
  <2>5. CASE u2.type = "ReplicaSetNoPrimary"
    <3>1. /\ u3.type \in ReplicaSetTypes
          /\ MembersFit(u3.servers)
          /\ u3.type = CheckHasPrimary(u3.servers)
          /\ OthersFit(u3.servers, a, sd)
      BY <1>1, <1>5, <2>2, <2>5, NoPrimaryFits
    <3> HIDE DEF u3
    <3>2. CASE u3.type = "ReplicaSetNoPrimary"
      <4>1. u4 = u3
        BY <3>2 DEF UpdateWithPrimary
      <4> QED
        BY <2>1, <3>1, <3>2, <4>1 DEF Fits
    <3>3. CASE u3.type = "ReplicaSetWithPrimary"
      <4>1. MembersFit(u4.servers) /\ u4.type = CheckHasPrimary(u4.servers)
        BY <1>1, <1>6, <3>1, <3>3, WithPrimaryFits
      <4> HIDE DEF u4
      <4> QED
        BY <2>1, <4>1 DEF Fits, CheckHasPrimary
    <3> QED
      BY <3>1, <3>2, <3>3 DEF ReplicaSetTypes
  <2>6. CASE u2.type = "ReplicaSetWithPrimary"
    <3>1. u3 = u2
      BY <2>6 DEF UpdateNoPrimary
    <3>2. MembersFit(u4.servers) /\ u4.type = CheckHasPrimary(u4.servers)
      BY <1>1, <1>5, <2>2, <2>6, <3>1, WithPrimaryFits
    <3> HIDE DEF u4
    <3> QED
      BY <2>1, <3>2 DEF Fits, CheckHasPrimary
  <2> QED
    BY <2>2, <2>3, <2>4, <2>5, <2>6 DEF TopologyTypes
<1> QED
  BY <1>7, <1>8

(* The invariant, with the types it needs. *)
FitsInv == DescriptionTypeOK /\ Fits(description)

LEMMA FitsInvariant == DescriptionSpec => []FitsInv
<1>1. DescriptionInit => Fits(description)
  <2> SUFFICES ASSUME DescriptionInit PROVE Fits(description)
    OBVIOUS
  <2>1. PICK seeds \in SUBSET Addresses, isSet \in BOOLEAN, name \in SetNames \cup {NoName} :
          description = [type |-> InitialType(seeds, isSet), setName |-> name,
                         maxSetVersion |-> 0, maxElectionId |-> 0,
                         servers |-> [a \in seeds |-> UnknownServer], error |-> FALSE]
    BY DEF DescriptionInit
  <2>2. InitialType(seeds, isSet) \in {"ReplicaSetNoPrimary", "Single", "Unknown"}
    BY DEF InitialType
  <2>3. \A x \in DOMAIN description.servers : description.servers[x].type = "Unknown"
    BY <2>1 DEF UnknownServer
  <2>4. Primaries(description.servers) = {}
    BY <2>3 DEF Primaries
  <2> QED
    BY <2>1, <2>2, <2>3, <2>4 DEF Fits, MembersFit, CheckHasPrimary, ReplicaSetTypes
<1>2. DescriptionTypeOK /\ Fits(description) /\ [DescriptionNext]_descriptionVars
        => Fits(description)'
  <2> SUFFICES ASSUME DescriptionTypeOK, Fits(description), [DescriptionNext]_descriptionVars
               PROVE  Fits(description')
    BY DEF Fits
  <2>1. ASSUME NEW a \in Addresses, NEW sd \in Replies, Receive(a, sd)
        PROVE  Fits(description')
    BY <2>1, UpdateFits DEF Receive, DescriptionTypeOK
  <2>2. CASE UNCHANGED descriptionVars
    BY <2>2 DEF descriptionVars
  <2> QED
    BY <2>1, <2>2 DEF DescriptionNext
<1> QED
  BY <1>1, <1>2, TypeCorrect, PTL DEF DescriptionSpec, FitsInv

(* The type of the topology is that of its servers, whatever they answer   *)
(* and in which order: update() never leaves two primaries, a primary in a *)
(* set without one, or a server of another kind.                           *)
THEOREM TypeFitsCorrect == DescriptionSpec => []TypeFits
<1>1. FitsInv => TypeFits
  <2> SUFFICES ASSUME FitsInv PROVE TypeFits
    OBVIOUS
  <2> DEFINE servers == description.servers
             types == {servers[a].type : a \in DOMAIN servers}
  <2>1. CASE description.type = "ReplicaSetWithPrimary"
    <3>1. MembersFit(servers) /\ Primaries(servers) # {}
      BY <2>1 DEF FitsInv, Fits, CheckHasPrimary, ReplicaSetTypes
    <3>2. PICK x : Primaries(servers) = {x}
      BY <3>1 DEF MembersFit
    <3>3. Cardinality(Primaries(servers)) = 1
      BY <3>2, FS_Singleton
    <3>4. "Mongos" \notin types
      BY <3>1 DEF MembersFit
    <3> QED
      BY <2>1, <3>3, <3>4 DEF TypeFits
  <2>2. CASE description.type = "ReplicaSetNoPrimary"
    <3>1. MembersFit(servers) /\ Primaries(servers) = {}
      BY <2>2 DEF FitsInv, Fits, CheckHasPrimary, ReplicaSetTypes
    <3>2. types \cap {"RSPrimary", "Mongos"} = {}
      BY <3>1 DEF MembersFit, Primaries
    <3> QED
      BY <2>2, <3>2 DEF TypeFits
  <2>3. CASE description.type \in {"Sharded", "Unknown"}
    BY <2>3 DEF FitsInv, Fits, TypeFits
  <2>4. CASE description.type = "Single"
    BY <2>4 DEF TypeFits
  <2> QED
    BY <2>1, <2>2, <2>3, <2>4
       DEF FitsInv, DescriptionTypeOK, IsTopologyDescription, TopologyTypes
<1> QED
  BY <1>1, FitsInvariant, PTL

(* While there is a primary, the servers are among those it lists.         *)
THEOREM MembersOfPrimaryCorrect == DescriptionSpec => []MembersOfPrimary
<1>1. FitsInv => MembersOfPrimary
  BY DEF FitsInv, Fits, MembersFit, MembersOfPrimary, ReplicaSetTypes
<1> QED
  BY <1>1, FitsInvariant, PTL

(***************************************************************************)
(* Members are of one set.                                                 *)
(***************************************************************************)

NamedBy(sd, name) == sd.type \in MemberTypes => sd.setName = name /\ name # NoName

AllNamed(servers, name) == \A x \in DOMAIN servers : NamedBy(servers[x], name)

(* All but a, of which nothing is known but what sd says. *)
OthersNamed(servers, name, a, sd) ==
  /\ a \in DOMAIN servers => servers[a] \in {sd, UnknownServer}
  /\ \A x \in DOMAIN servers \ {a} : NamedBy(servers[x], name)

LEMMA UnknownNamed == \A name : NamedBy(UnknownServer, name)
BY DEF NamedBy, UnknownServer, MemberTypes

LEMMA MapNamed ==
  ASSUME NEW servers, NEW name, NEW a, NEW sd, OthersNamed(servers, name, a, sd)
  PROVE  /\ AllNamed(Delete(servers, a), name)
         /\ AllNamed(Set(servers, a, UnknownServer), name)
         /\ NamedBy(sd, name) => AllNamed(servers, name)
<1>1. AllNamed(Delete(servers, a), name)
  BY DEF OthersNamed, AllNamed, Delete, Restrict
<1>2. AllNamed(Set(servers, a, UnknownServer), name)
  BY UnknownNamed DEF OthersNamed, AllNamed, Set
<1>3. NamedBy(sd, name) => AllNamed(servers, name)
  BY UnknownNamed DEF OthersNamed, AllNamed
<1> QED
  BY <1>1, <1>2, <1>3

(* The first name a set gets is that of all its members: there were none. *)
LEMMA NameKept ==
  ASSUME NEW td, NEW a, NEW sd, OthersNamed(td.servers, td.setName, a, sd)
  PROVE  OthersNamed(td.servers, NameOr(td, sd), a, sd)
BY DEF OthersNamed, NamedBy, NameOr

(* updateRsFromPrimary *)
LEMMA FromPrimaryNamed ==
  ASSUME NEW td, IsTopologyDescription(td), NEW a, NEW sd \in Replies, sd.type = "RSPrimary",
         OthersNamed(td.servers, td.setName, a, sd)
  PROVE  LET after == UpdateRsFromPrimary(td, a, sd)
         IN  /\ AllNamed(after.servers, after.setName)
             /\ OthersNamed(after.servers, after.setName, a, sd)
<1> DEFINE named == [td EXCEPT !.setName = NameOr(td, sd)]
           heard == [named EXCEPT
                      !.maxElectionId = IF HasIds(sd.setVersion, sd.electionId)
                                        THEN sd.electionId ELSE @,
                      !.maxSetVersion = IF sd.setVersion > @ THEN sd.setVersion ELSE @]
           deleted == Delete(td.servers, a)
           unknown == Set(td.servers, a, UnknownServer)
           reset == ResetOldPrimary(td.servers, a)
           replaced == Replace(reset, sd.hosts)
           name == NameOr(td, sd)
<1>1. \A servers : /\ WithServers(named, servers).servers = servers
                   /\ WithServers(named, servers).setName = name
                   /\ WithServers(heard, servers).servers = servers
                   /\ WithServers(heard, servers).setName = name
  BY DEF IsTopologyDescription, WithServers
<1>2. \/ UpdateRsFromPrimary(td, a, sd) = WithServers(named, deleted)
      \/ UpdateRsFromPrimary(td, a, sd) = WithServers(named, unknown)
      \/ UpdateRsFromPrimary(td, a, sd) = WithServers(heard, replaced) /\ name = sd.setName
  BY DEF UpdateRsFromPrimary, IsTopologyDescription
<1> HIDE DEF named, heard
<1>3. /\ AllNamed(deleted, name) /\ AllNamed(unknown, name)
      /\ a \notin DOMAIN deleted /\ unknown[a] = UnknownServer
  <2>1. AllNamed(deleted, name) /\ AllNamed(unknown, name)
    BY NameKept, MapNamed
  <2>2. a \notin DOMAIN deleted /\ unknown[a] = UnknownServer
    BY DEF Delete, Restrict, Set
  <2> QED
    BY <2>1, <2>2
<1>4. \A x \in DOMAIN replaced :
         \/ replaced[x] = UnknownServer
         \/ x \in DOMAIN td.servers /\ replaced[x] = td.servers[x]
  <2>1. /\ DOMAIN reset = DOMAIN td.servers
        /\ \A x \in DOMAIN td.servers : reset[x] \in {td.servers[x], UnknownServer}
    <3>1. CASE Primaries(td.servers) \ {a} = {}
      BY <3>1 DEF ResetOldPrimary
    <3>2. CASE Primaries(td.servers) \ {a} # {}
      <4>1. reset = [td.servers EXCEPT
                      ![CHOOSE b \in Primaries(td.servers) \ {a} : TRUE] = UnknownServer]
        BY <3>2 DEF ResetOldPrimary
      <4> QED
        BY <4>1
    <3> QED
      BY <3>1, <3>2
  <2> HIDE DEF reset
  <2> QED
    BY <2>1 DEF Replace, Discover, Restrict
<1>5. name = sd.setName => AllNamed(replaced, name) /\ OthersNamed(replaced, name, a, sd)
  <2> SUFFICES ASSUME name = sd.setName
               PROVE  AllNamed(replaced, name) /\ OthersNamed(replaced, name, a, sd)
    OBVIOUS
  <2>1. NamedBy(sd, name)
    BY DescriptionAssumption DEF NamedBy
  <2>2. AllNamed(td.servers, name)
    BY <2>1, NameKept, MapNamed
  <2> QED
    BY <1>4, <2>2, UnknownNamed DEF AllNamed, OthersNamed
<1> HIDE DEF deleted, unknown, replaced, name
<1> QED
  BY <1>1, <1>2, <1>3, <1>5 DEF AllNamed, OthersNamed

(* The part for ReplicaSetNoPrimary. *)
LEMMA NoPrimaryNamed ==
  ASSUME NEW td, IsTopologyDescription(td), td.type = "ReplicaSetNoPrimary",
         NEW a \in Addresses, NEW sd \in Replies, OthersNamed(td.servers, td.setName, a, sd)
  PROVE  LET after == UpdateNoPrimary(td, a, sd)
         IN  /\ AllNamed(after.servers, after.setName)
             /\ OthersNamed(after.servers, after.setName, a, sd)
<1> DEFINE after == UpdateNoPrimary(td, a, sd)
           Goal == /\ AllNamed(after.servers, after.setName)
                   /\ OthersNamed(after.servers, after.setName, a, sd)
<1>1. \A servers, name : a \notin DOMAIN Delete(servers, a)
  BY DEF Delete, Restrict
<1>2. CASE sd.type \in {"Mongos", "Unknown"}
  <2>1. after.servers = Delete(td.servers, a) /\ after.setName = td.setName
    BY <1>2 DEF UpdateNoPrimary, IsTopologyDescription, MemberTypes
  <2>2. AllNamed(Delete(td.servers, a), td.setName)
    BY MapNamed
  <2>3. Goal
    <3> HIDE DEF after
    <3> QED
      BY <1>1, <2>1, <2>2 DEF AllNamed, OthersNamed
  <2> QED
    BY <2>3
<1>3. CASE sd.type = "RSPrimary"
  <2>1. after = UpdateRsFromPrimary(td, a, sd)
    BY <1>3 DEF UpdateNoPrimary
  <2> QED
    BY <1>3, <2>1, FromPrimaryNamed
<1>4. CASE sd.type \in MemberTypes \ {"RSPrimary"}
  <2> DEFINE found == Discover(td.servers, sd.hosts)
             name == NameOr(td, sd)
  <2>1. /\ after.setName = name
        /\ \/ after.servers = Delete(td.servers, a)
           \/ after.servers = Delete(found, a)
           \/ after.servers = found /\ name = sd.setName
    BY <1>4 DEF UpdateNoPrimary, UpdateRsNoPrimaryFromMember, IsTopologyDescription, MemberTypes
  <2>2. OthersNamed(td.servers, name, a, sd)
    BY NameKept
  <2>3. OthersNamed(found, name, a, sd)
    BY <2>2, UnknownNamed DEF OthersNamed, Discover
  <2>4. name = sd.setName => NamedBy(sd, name)
    BY <1>4, DescriptionAssumption DEF NamedBy
  <2> HIDE DEF found, name
  <2>5. /\ AllNamed(Delete(td.servers, a), name) /\ AllNamed(Delete(found, a), name)
        /\ name = sd.setName => AllNamed(found, name)
    BY <2>2, <2>3, <2>4, MapNamed
  <2>6. Goal
    <3> HIDE DEF after
    <3> QED
      BY <1>1, <2>1, <2>3, <2>5 DEF AllNamed, OthersNamed
  <2> QED
    BY <2>6
<1>5. CASE sd.type \notin {"Mongos", "Unknown", "RSPrimary"} \cup MemberTypes
  <2>1. after = td
    BY <1>5 DEF UpdateNoPrimary, MemberTypes
  <2>2. NamedBy(sd, td.setName)
    BY <1>5 DEF NamedBy
  <2> QED
    BY <2>1, <2>2, MapNamed
<1> QED
  BY <1>2, <1>3, <1>4, <1>5

(* The part for ReplicaSetWithPrimary. *)
LEMMA WithPrimaryNamed ==
  ASSUME NEW td, IsTopologyDescription(td), td.type = "ReplicaSetWithPrimary",
         NEW a \in Addresses, NEW sd \in Replies, OthersNamed(td.servers, td.setName, a, sd)
  PROVE  LET after == UpdateWithPrimary(td, a, sd)
         IN  AllNamed(after.servers, after.setName)
<1> DEFINE after == UpdateWithPrimary(td, a, sd)
<1>1. \A servers : /\ WithServers(td, servers).servers = servers
                   /\ WithServers(td, servers).setName = td.setName
  BY DEF IsTopologyDescription, WithServers
<1>2. CASE sd.type = "RSPrimary"
  <2>1. after = UpdateRsFromPrimary(td, a, sd)
    BY <1>2 DEF UpdateWithPrimary
  <2> QED
    BY <1>2, <2>1, FromPrimaryNamed
<1>3. CASE sd.type # "RSPrimary"
  <2>1. \/ after = WithServers(td, Delete(td.servers, a))
        \/ after = WithServers(td, td.servers) /\ (sd.type \in MemberTypes => sd.setName = td.setName)
    BY <1>3 DEF UpdateWithPrimary, UpdateRsWithPrimaryFromMember, MemberTypes
  <2>2. AllNamed(Delete(td.servers, a), td.setName)
    BY MapNamed
  <2>3. (sd.type \in MemberTypes => sd.setName = td.setName) => AllNamed(td.servers, td.setName)
    BY DescriptionAssumption, MapNamed DEF NamedBy
  <2>4. AllNamed(after.servers, after.setName)
    <3> HIDE DEF after
    <3> QED
      BY <1>1, <2>1, <2>2, <2>3
  <2> QED
    BY <2>4
<1> QED
  BY <1>2, <1>3

LEMMA UpdateNamed ==
  ASSUME NEW td, IsTopologyDescription(td), NEW a \in DOMAIN td.servers, NEW sd \in Replies,
         Fits(td), td.type \in ReplicaSetTypes => AllNamed(td.servers, td.setName)
  PROVE  LET after == Update(td, a, sd)
         IN  after.type \in ReplicaSetTypes => AllNamed(after.servers, after.setName)
<1> DEFINE heard == [td EXCEPT !.servers = Set(@, a, sd), !.error = (sd.type = "Unknown")]
           u1 == UpdateUnknown(heard, a, sd)
           u2 == UpdateSharded(u1, a, sd)
           u3 == UpdateNoPrimary(u2, a, sd)
           u4 == UpdateWithPrimary(u3, a, sd)
<1>1. a \in Addresses
  BY DEF IsTopologyDescription, IsServerMap
<1>2. /\ IsTopologyDescription(heard)
      /\ heard.type = td.type
      /\ heard.setName = td.setName
      /\ heard.servers = Set(td.servers, a, sd)
  <2>1. IsServerMap(Set(td.servers, a, sd))
    BY <1>1, MapType, ReplyType DEF IsTopologyDescription
  <2> QED
    BY <2>1 DEF IsTopologyDescription
<1>3. /\ DOMAIN heard.servers = DOMAIN td.servers
      /\ heard.servers[a] = sd
      /\ \A x \in DOMAIN td.servers \ {a} : heard.servers[x] = td.servers[x]
  BY <1>2 DEF Set
<1>4. CASE td.type = "Single"
  BY <1>4, <1>2 DEF Update, ReplicaSetTypes
<1> HIDE DEF heard
<1>5. IsTopologyDescription(u1)
  BY <1>1, <1>2, PartsType
<1>6. IsTopologyDescription(u2)
  <2> HIDE DEF u1
  <2> QED
    BY <1>1, <1>5, PartsType
<1>7. IsTopologyDescription(u3)
  <2> HIDE DEF u2
  <2> QED
    BY <1>1, <1>6, PartsType
<1>8. CASE td.type # "Single"
  <2>1. Update(td, a, sd) = u4
    BY <1>8 DEF Update, heard
  <2>2. u2.type \in ReplicaSetTypes => OthersNamed(u2.servers, u2.setName, a, sd)
    <3>1. td.type \in {"Unknown"} \cup ReplicaSetTypes =>
            OthersNamed(heard.servers, heard.setName, a, sd)
      BY <1>2, <1>3 DEF Fits, OthersNamed, AllNamed, NamedBy, MemberTypes, ReplicaSetTypes
    <3>2. u1.type \in ReplicaSetTypes =>
            /\ td.type \in {"Unknown"} \cup ReplicaSetTypes
            /\ u1.servers = heard.servers
            /\ u1.setName = heard.setName
      BY <1>2 DEF UpdateUnknown, IsTopologyDescription, ReplicaSetTypes
    <3>3. u2.type \in ReplicaSetTypes => u2 = u1
      BY <1>5 DEF UpdateSharded, IsTopologyDescription, ReplicaSetTypes
    <3> QED
      BY <3>1, <3>2, <3>3
  <2> HIDE DEF u2
  <2>3. CASE u2.type = "ReplicaSetNoPrimary"
    <3>1. AllNamed(u3.servers, u3.setName) /\ OthersNamed(u3.servers, u3.setName, a, sd)
      BY <1>1, <1>6, <2>2, <2>3, NoPrimaryNamed DEF ReplicaSetTypes
    <3> HIDE DEF u3
    <3>2. CASE u3.type = "ReplicaSetWithPrimary"
      BY <1>1, <1>7, <2>1, <3>1, <3>2, WithPrimaryNamed
    <3>3. CASE u3.type # "ReplicaSetWithPrimary"
      BY <2>1, <3>1, <3>3 DEF UpdateWithPrimary
    <3> QED
      BY <3>2, <3>3
  <2>4. CASE u2.type = "ReplicaSetWithPrimary"
    <3>1. u3 = u2
      BY <2>4 DEF UpdateNoPrimary
    <3> QED
      BY <1>1, <1>6, <2>1, <2>2, <2>4, <3>1, WithPrimaryNamed DEF ReplicaSetTypes
  <2>5. CASE u2.type \notin ReplicaSetTypes
    <3>1. u4 = u2
      BY <2>5 DEF UpdateNoPrimary, UpdateWithPrimary, ReplicaSetTypes
    <3> QED
      BY <2>1, <2>5, <3>1
  <2> QED
    BY <2>3, <2>4, <2>5 DEF ReplicaSetTypes
<1> QED
  BY <1>4, <1>8

(* Members of another set than the one first heard of, or asked for, are   *)
(* not believed, and a set with members has a name, which the update of a  *)
(* set with a primary would throw without.                                 *)
THEOREM OneSetCorrect == DescriptionSpec => []OneSet
<1>1. DescriptionInit => OneSet
  <2> SUFFICES ASSUME DescriptionInit PROVE OneSet
    OBVIOUS
  <2>1. PICK seeds \in SUBSET Addresses, isSet \in BOOLEAN, name \in SetNames \cup {NoName} :
          description = [type |-> InitialType(seeds, isSet), setName |-> name,
                         maxSetVersion |-> 0, maxElectionId |-> 0,
                         servers |-> [a \in seeds |-> UnknownServer], error |-> FALSE]
    BY DEF DescriptionInit
  <2> QED
    BY <2>1 DEF OneSet, UnknownServer, MemberTypes
<1>2. FitsInv /\ OneSet /\ [DescriptionNext]_descriptionVars => OneSet'
  <2> SUFFICES ASSUME FitsInv, OneSet, [DescriptionNext]_descriptionVars PROVE OneSet'
    OBVIOUS
  <2>1. description.type \in ReplicaSetTypes => AllNamed(description.servers, description.setName)
    BY DEF OneSet, AllNamed, NamedBy
  <2>2. description'.type \in ReplicaSetTypes =>
          AllNamed(description'.servers, description'.setName)
    <3>1. ASSUME NEW a \in Addresses, NEW sd \in Replies, Receive(a, sd)
          PROVE  description'.type \in ReplicaSetTypes =>
                   AllNamed(description'.servers, description'.setName)
      BY <2>1, <3>1, UpdateNamed DEF Receive, FitsInv, DescriptionTypeOK
    <3>2. CASE UNCHANGED descriptionVars
      BY <2>1, <3>2 DEF descriptionVars
    <3> QED
      BY <3>1, <3>2 DEF DescriptionNext
  <2> QED
    BY <2>2 DEF OneSet, AllNamed, NamedBy
<1> QED
  BY <1>1, <1>2, FitsInvariant, PTL DEF DescriptionSpec

(* The description is one of a single topology: for any answers of any     *)
(* servers in any order, the parts of DescriptionSound hold together.      *)
THEOREM SoundCorrect == DescriptionSpec => []DescriptionSound
<1>1. TypeFits /\ MembersOfPrimary /\ OneSet => DescriptionSound
  BY DEF DescriptionSound
<1> QED
  BY <1>1, TypeFitsCorrect, MembersOfPrimaryCorrect, OneSetCorrect, PTL

(***************************************************************************)
(* The primary is the newest.                                              *)
(*                                                                         *)
(* The comparison of updateRsFromPrimary uses the greatest ids alone, so   *)
(* the invariant bounds the ids that were believed by them, and those by   *)
(* the ids of the primary: version by version, and not only in the order   *)
(* of Older.                                                               *)
(***************************************************************************)

(* The ids td holds as greatest bound those in B. *)
Seen(td, B) == \A q \in B : q[1] <= td.maxSetVersion /\ q[2] <= td.maxElectionId

(* A primary with both ids has those in B behind it. *)
Newest(sd, td, B) ==
  sd.type = "RSPrimary" /\ sd.setVersion # 0 /\ sd.electionId # 0 =>
    /\ sd.setVersion <= td.maxSetVersion /\ sd.electionId <= td.maxElectionId
    /\ \A q \in B : q[1] <= sd.setVersion /\ q[2] <= sd.electionId

AllNewest(servers, td, B) == \A x \in DOMAIN servers : Newest(servers[x], td, B)

(* All but a, of which nothing is known but what sd says. *)
OthersNewest(servers, td, B, a, sd) ==
  /\ a \in DOMAIN servers => servers[a] \in {sd, UnknownServer}
  /\ \A x \in DOMAIN servers \ {a} : Newest(servers[x], td, B)

LEMMA UnknownNewest == \A td, B : Newest(UnknownServer, td, B)
BY DEF Newest, UnknownServer

LEMMA MapNewest ==
  ASSUME NEW servers, NEW td, NEW B, NEW a, NEW sd, OthersNewest(servers, td, B, a, sd)
  PROVE  /\ AllNewest(Delete(servers, a), td, B)
         /\ AllNewest(Set(servers, a, UnknownServer), td, B)
         /\ Newest(sd, td, B) => AllNewest(servers, td, B)
<1>1. AllNewest(Delete(servers, a), td, B)
  BY DEF OthersNewest, AllNewest, Delete, Restrict
<1>2. AllNewest(Set(servers, a, UnknownServer), td, B)
  BY UnknownNewest DEF OthersNewest, AllNewest, Set
<1>3. Newest(sd, td, B) => AllNewest(servers, td, B)
  BY UnknownNewest DEF OthersNewest, AllNewest
<1> QED
  BY <1>1, <1>2, <1>3

(* Every server left by the primary's list was there before, or is new.    *)
LEMMA ReplacedIs ==
  ASSUME NEW servers, NEW a, NEW hosts
  PROVE  LET replaced == Replace(ResetOldPrimary(servers, a), hosts)
         IN  \A x \in DOMAIN replaced :
                \/ replaced[x] = UnknownServer
                \/ x \in DOMAIN servers /\ replaced[x] = servers[x]
<1> DEFINE reset == ResetOldPrimary(servers, a)
<1>1. /\ DOMAIN reset = DOMAIN servers
      /\ \A x \in DOMAIN servers : reset[x] \in {servers[x], UnknownServer}
  <2>1. CASE Primaries(servers) \ {a} = {}
    BY <2>1 DEF ResetOldPrimary
  <2>2. CASE Primaries(servers) \ {a} # {}
    <3>1. reset = [servers EXCEPT ![CHOOSE b \in Primaries(servers) \ {a} : TRUE] = UnknownServer]
      BY <2>2 DEF ResetOldPrimary
    <3> QED
      BY <3>1
  <2> QED
    BY <2>1, <2>2
<1> HIDE DEF reset
<1>2. \A x \in DOMAIN Replace(reset, hosts) :
         \/ Replace(reset, hosts)[x] = UnknownServer
         \/ x \in DOMAIN servers /\ Replace(reset, hosts)[x] = servers[x]
  BY <1>1 DEF Replace, Discover, Restrict
<1> QED
  BY <1>2 DEF reset

(* updateRsFromPrimary, when election ids are compared. *)
LEMMA FromPrimaryNewest ==
  ASSUME OidsRead, NEW td, IsTopologyDescription(td), NEW a, NEW sd \in Replies,
         sd.type = "RSPrimary", NEW B \in SUBSET ((1..MaxVersion) \X (1..MaxVersion)),
         Seen(td, B), OthersNewest(td.servers, td, B, a, sd)
  PROVE  LET after == UpdateRsFromPrimary(td, a, sd)
         IN  /\ Seen(after, B)
             /\ AllNewest(after.servers, after, B)
             /\ OthersNewest(after.servers, after, B, a, sd)
<1> DEFINE named == [td EXCEPT !.setName = NameOr(td, sd)]
           heard == [named EXCEPT
                      !.maxElectionId = IF HasIds(sd.setVersion, sd.electionId)
                                        THEN sd.electionId ELSE @,
                      !.maxSetVersion = IF sd.setVersion > @ THEN sd.setVersion ELSE @]
           deleted == Delete(td.servers, a)
           unknown == Set(td.servers, a, UnknownServer)
           replaced == Replace(ResetOldPrimary(td.servers, a), sd.hosts)
<1>1. /\ MaxVersion \in Nat
      /\ td.maxSetVersion \in 0..MaxVersion /\ td.maxElectionId \in 0..MaxVersion
      /\ sd.setVersion \in 0..MaxVersion /\ sd.electionId \in 0..MaxVersion
  BY DescriptionAssumption, ReplyType DEF IsTopologyDescription
<1>2. /\ named.maxSetVersion = td.maxSetVersion /\ named.maxElectionId = td.maxElectionId
      /\ heard.maxSetVersion = IF sd.setVersion > td.maxSetVersion THEN sd.setVersion
                               ELSE td.maxSetVersion
      /\ heard.maxElectionId = IF sd.setVersion # 0 /\ sd.electionId # 0 THEN sd.electionId
                               ELSE td.maxElectionId
  BY <1>1 DEF IsTopologyDescription, HasIds, Oid
<1>3. \A servers :
        /\ WithServers(named, servers).servers = servers
        /\ WithServers(named, servers).maxSetVersion = td.maxSetVersion
        /\ WithServers(named, servers).maxElectionId = td.maxElectionId
        /\ WithServers(heard, servers).servers = servers
        /\ WithServers(heard, servers).maxSetVersion = heard.maxSetVersion
        /\ WithServers(heard, servers).maxElectionId = heard.maxElectionId
  BY DEF IsTopologyDescription, WithServers
<1>4. Stale(named, sd) <=> /\ sd.setVersion # 0 /\ sd.electionId # 0
                           /\ td.maxSetVersion # 0 /\ td.maxElectionId # 0
                           /\ td.maxSetVersion > sd.setVersion \/ td.maxElectionId > sd.electionId
  BY <1>1, <1>2 DEF Stale, HasIds, Oid
<1>5. \/ UpdateRsFromPrimary(td, a, sd) = WithServers(named, deleted)
      \/ UpdateRsFromPrimary(td, a, sd) = WithServers(named, unknown)
      \/ UpdateRsFromPrimary(td, a, sd) = WithServers(heard, replaced) /\ ~Stale(td, sd)
  BY DEF UpdateRsFromPrimary
<1>6. Stale(td, sd) <=> Stale(named, sd)
  BY <1>2 DEF Stale
<1> HIDE DEF named, heard
<1>7. /\ AllNewest(deleted, td, B) /\ AllNewest(unknown, td, B)
      /\ a \notin DOMAIN deleted /\ unknown[a] = UnknownServer
  <2>1. AllNewest(deleted, td, B) /\ AllNewest(unknown, td, B)
    BY MapNewest
  <2>2. a \notin DOMAIN deleted
    BY DEF Delete, Restrict
  <2>3. unknown[a] = UnknownServer
    BY DEF Set
  <2> QED
    BY <2>1, <2>2, <2>3
<1>8. \A n : /\ n.maxSetVersion = td.maxSetVersion /\ n.maxElectionId = td.maxElectionId
             => /\ Seen(n, B)
                /\ AllNewest(deleted, n, B) /\ OthersNewest(deleted, n, B, a, sd)
                /\ AllNewest(unknown, n, B) /\ OthersNewest(unknown, n, B, a, sd)
  <2> HIDE DEF deleted, unknown
  <2> QED
    BY <1>7 DEF Seen, AllNewest, OthersNewest, Newest
<1>9. ASSUME ~Stale(td, sd), NEW n, n.maxSetVersion = heard.maxSetVersion,
             n.maxElectionId = heard.maxElectionId
      PROVE  /\ Seen(n, B)
             /\ AllNewest(replaced, n, B)
             /\ OthersNewest(replaced, n, B, a, sd)
  <2>1. \A q \in B : q[1] \in 1..MaxVersion /\ q[2] \in 1..MaxVersion
    OBVIOUS
  <2>2. B # {} => td.maxSetVersion # 0 /\ td.maxElectionId # 0
    BY <1>1, <2>1 DEF Seen
  <2>3. Seen(n, B)
    <3> SUFFICES ASSUME NEW q \in B
                 PROVE  q[1] <= n.maxSetVersion /\ q[2] <= n.maxElectionId
      BY DEF Seen
    <3>1. q[1] <= td.maxSetVersion /\ q[2] <= td.maxElectionId
      BY DEF Seen
    <3>2. td.maxSetVersion <= n.maxSetVersion /\ td.maxElectionId <= n.maxElectionId
      BY <1>1, <1>2, <1>4, <1>6, <1>9, <2>2
    <3>3. n.maxSetVersion \in Nat /\ n.maxElectionId \in Nat
      BY <1>1, <1>2, <1>9
    <3> QED
      BY <1>1, <2>1, <3>1, <3>2, <3>3
  <2>4. Newest(sd, n, B)
    <3> SUFFICES ASSUME sd.setVersion # 0, sd.electionId # 0
                 PROVE  /\ sd.setVersion <= n.maxSetVersion /\ sd.electionId <= n.maxElectionId
                        /\ \A q \in B : q[1] <= sd.setVersion /\ q[2] <= sd.electionId
      BY DEF Newest
    <3>1. sd.setVersion <= n.maxSetVersion /\ sd.electionId <= n.maxElectionId
      BY <1>1, <1>2, <1>9
    <3>2. ASSUME NEW q \in B PROVE q[1] <= sd.setVersion /\ q[2] <= sd.electionId
      <4>1. q[1] <= td.maxSetVersion /\ q[2] <= td.maxElectionId
        BY DEF Seen
      <4>2. td.maxSetVersion <= sd.setVersion /\ td.maxElectionId <= sd.electionId
        BY <1>1, <1>4, <1>6, <1>9, <2>2
      <4> QED
        BY <1>1, <2>1, <4>1, <4>2
    <3> QED
      BY <3>1, <3>2
  <2>5. ASSUME NEW x \in DOMAIN td.servers \ {a} PROVE Newest(td.servers[x], n, B)
    <3> DEFINE o == td.servers[x]
    <3>1. Newest(o, td, B) /\ o.setVersion \in 0..MaxVersion /\ o.electionId \in 0..MaxVersion
      BY DEF OthersNewest, IsTopologyDescription, IsServerMap, ServerDescription
    <3> HIDE DEF o
    <3>2. ASSUME o.type = "RSPrimary", o.setVersion # 0, o.electionId # 0
          PROVE  o.setVersion <= n.maxSetVersion /\ o.electionId <= n.maxElectionId
      <4>1. o.setVersion <= td.maxSetVersion /\ o.electionId <= td.maxElectionId
        BY <3>1, <3>2 DEF Newest
      <4>2. td.maxSetVersion # 0 /\ td.maxElectionId # 0
        BY <1>1, <3>1, <3>2, <4>1
      <4>3. td.maxSetVersion <= n.maxSetVersion /\ td.maxElectionId <= n.maxElectionId
        BY <1>1, <1>2, <1>4, <1>6, <1>9, <4>2
      <4>4. n.maxSetVersion \in Nat /\ n.maxElectionId \in Nat
        BY <1>1, <1>2, <1>9
      <4> QED
        BY <1>1, <3>1, <4>1, <4>3, <4>4
    <3>3. Newest(o, n, B)
      BY <3>1, <3>2 DEF Newest
    <3> QED
      BY <3>3 DEF o
  <2>6. \A x \in DOMAIN replaced : /\ Newest(replaced[x], n, B)
                                   /\ x = a => replaced[x] \in {sd, UnknownServer}
    <3>1. \A x \in DOMAIN replaced :
            \/ replaced[x] = UnknownServer
            \/ x \in DOMAIN td.servers /\ replaced[x] = td.servers[x]
      BY ReplacedIs
    <3> HIDE DEF replaced
    <3> QED
      BY <2>4, <2>5, <3>1, UnknownNewest DEF OthersNewest
  <2> HIDE DEF replaced
  <2> QED
    BY <2>3, <2>6 DEF AllNewest, OthersNewest
<1> HIDE DEF deleted, unknown, replaced
<1> QED
  BY <1>3, <1>5, <1>8, <1>9

(* The parts of update() for replica sets. *)
LEMMA NoPrimaryNewest ==
  ASSUME OidsRead, NEW td, IsTopologyDescription(td), td.type = "ReplicaSetNoPrimary",
         NEW a \in Addresses, NEW sd \in Replies,
         NEW B \in SUBSET ((1..MaxVersion) \X (1..MaxVersion)),
         Seen(td, B), OthersNewest(td.servers, td, B, a, sd)
  PROVE  LET after == UpdateNoPrimary(td, a, sd)
         IN  /\ Seen(after, B)
             /\ AllNewest(after.servers, after, B)
             /\ OthersNewest(after.servers, after, B, a, sd)
<1> DEFINE after == UpdateNoPrimary(td, a, sd)
           found == Discover(td.servers, sd.hosts)
<1>1. CASE sd.type = "RSPrimary"
  <2>1. after = UpdateRsFromPrimary(td, a, sd)
    BY <1>1 DEF UpdateNoPrimary
  <2> QED
    BY <1>1, <2>1, FromPrimaryNewest
<1>2. CASE sd.type # "RSPrimary"
  <2>1. /\ after.maxSetVersion = td.maxSetVersion /\ after.maxElectionId = td.maxElectionId
        /\ after.servers \in {td.servers, Delete(td.servers, a), found, Delete(found, a)}
    BY <1>2 DEF UpdateNoPrimary, UpdateRsNoPrimaryFromMember, IsTopologyDescription, MemberTypes
  <2>2. OthersNewest(found, td, B, a, sd)
    BY UnknownNewest DEF OthersNewest, Discover
  <2>3. Newest(sd, td, B)
    BY <1>2 DEF Newest
  <2>4. \A servers \in {td.servers, found} :
          /\ AllNewest(servers, td, B) /\ AllNewest(Delete(servers, a), td, B)
          /\ a \notin DOMAIN Delete(servers, a)
    <3>1. \A servers : a \notin DOMAIN Delete(servers, a)
      BY DEF Delete, Restrict
    <3> HIDE DEF found
    <3> QED
      BY <2>2, <2>3, <3>1, MapNewest
  <2> HIDE DEF after, found
  <2>5. AllNewest(after.servers, td, B) /\ OthersNewest(after.servers, td, B, a, sd)
    BY <2>1, <2>2, <2>4 DEF OthersNewest, AllNewest
  <2>6. /\ Seen(after, B)
        /\ AllNewest(after.servers, after, B)
        /\ OthersNewest(after.servers, after, B, a, sd)
    BY <2>1, <2>5 DEF Seen, AllNewest, OthersNewest, Newest
  <2> QED
    BY <2>6 DEF after
<1> QED
  BY <1>1, <1>2

LEMMA WithPrimaryNewest ==
  ASSUME OidsRead, NEW td, IsTopologyDescription(td), td.type = "ReplicaSetWithPrimary",
         NEW a \in Addresses, NEW sd \in Replies,
         NEW B \in SUBSET ((1..MaxVersion) \X (1..MaxVersion)),
         Seen(td, B), OthersNewest(td.servers, td, B, a, sd)
  PROVE  LET after == UpdateWithPrimary(td, a, sd)
         IN  Seen(after, B) /\ AllNewest(after.servers, after, B)
<1> DEFINE after == UpdateWithPrimary(td, a, sd)
<1>1. \A servers : /\ WithServers(td, servers).servers = servers
                   /\ WithServers(td, servers).maxSetVersion = td.maxSetVersion
                   /\ WithServers(td, servers).maxElectionId = td.maxElectionId
  BY DEF IsTopologyDescription, WithServers
<1>2. CASE sd.type = "RSPrimary"
  <2>1. after = UpdateRsFromPrimary(td, a, sd)
    BY <1>2 DEF UpdateWithPrimary
  <2> QED
    BY <1>2, <2>1, FromPrimaryNewest
<1>3. CASE sd.type # "RSPrimary"
  <2>1. \/ after = WithServers(td, Delete(td.servers, a))
        \/ after = WithServers(td, td.servers)
    BY <1>3 DEF UpdateWithPrimary, UpdateRsWithPrimaryFromMember, MemberTypes
  <2>2. AllNewest(Delete(td.servers, a), td, B) /\ AllNewest(td.servers, td, B)
    <3>1. Newest(sd, td, B)
      BY <1>3 DEF Newest
    <3> QED
      BY <3>1, MapNewest
  <2>3. Seen(after, B) /\ AllNewest(after.servers, after, B)
    <3> HIDE DEF after
    <3> QED
      BY <1>1, <2>1, <2>2 DEF Seen, AllNewest, Newest
  <2> QED
    BY <2>3
<1> QED
  BY <1>2, <1>3

LEMMA UpdateNewest ==
  ASSUME OidsRead, NEW td, IsTopologyDescription(td), NEW a \in DOMAIN td.servers,
         NEW sd \in Replies, Fits(td),
         NEW B \in SUBSET ((1..MaxVersion) \X (1..MaxVersion)), Seen(td, B),
         td.type \in ReplicaSetTypes => AllNewest(td.servers, td, B)
  PROVE  LET after == Update(td, a, sd)
         IN  /\ Seen(after, B)
             /\ after.type \in ReplicaSetTypes => AllNewest(after.servers, after, B)
<1> DEFINE heard == [td EXCEPT !.servers = Set(@, a, sd), !.error = (sd.type = "Unknown")]
           u1 == UpdateUnknown(heard, a, sd)
           u2 == UpdateSharded(u1, a, sd)
           u3 == UpdateNoPrimary(u2, a, sd)
           u4 == UpdateWithPrimary(u3, a, sd)
<1>1. a \in Addresses
  BY DEF IsTopologyDescription, IsServerMap
<1>2. /\ IsTopologyDescription(heard)
      /\ heard.type = td.type
      /\ heard.maxSetVersion = td.maxSetVersion /\ heard.maxElectionId = td.maxElectionId
      /\ heard.servers = Set(td.servers, a, sd)
  <2>1. IsServerMap(Set(td.servers, a, sd))
    BY <1>1, MapType, ReplyType DEF IsTopologyDescription
  <2> QED
    BY <2>1 DEF IsTopologyDescription
<1>3. /\ DOMAIN heard.servers = DOMAIN td.servers
      /\ heard.servers[a] = sd
      /\ \A x \in DOMAIN td.servers \ {a} : heard.servers[x] = td.servers[x]
  BY <1>2 DEF Set
<1>4. Seen(heard, B)
  BY <1>2 DEF Seen
<1>5. CASE td.type = "Single"
  BY <1>4, <1>5, <1>2 DEF Update, ReplicaSetTypes
<1> HIDE DEF heard
<1>6. IsTopologyDescription(u1) /\ u1.maxSetVersion = heard.maxSetVersion
      /\ u1.maxElectionId = heard.maxElectionId
  <2>1. u1.maxSetVersion = heard.maxSetVersion /\ u1.maxElectionId = heard.maxElectionId
    BY <1>2 DEF UpdateUnknown, IsTopologyDescription
  <2> QED
    BY <1>1, <1>2, <2>1, PartsType
<1>7. IsTopologyDescription(u2) /\ Seen(u2, B)
  <2> HIDE DEF u1
  <2>1. u2.maxSetVersion = heard.maxSetVersion /\ u2.maxElectionId = heard.maxElectionId
    BY <1>6 DEF UpdateSharded, IsTopologyDescription
  <2>2. Seen(u2, B)
    BY <1>4, <2>1 DEF Seen
  <2> QED
    BY <1>1, <1>6, <2>2, PartsType
<1>8. IsTopologyDescription(u3)
  <2> HIDE DEF u2
  <2> QED
    BY <1>1, <1>7, PartsType
<1>9. CASE td.type # "Single"
  <2>1. Update(td, a, sd) = u4
    BY <1>9 DEF Update, heard
  <2>2. u2.type \in ReplicaSetTypes => OthersNewest(u2.servers, u2, B, a, sd)
    <3>1. td.type \in {"Unknown"} \cup ReplicaSetTypes =>
            \A x \in DOMAIN td.servers \ {a} : Newest(td.servers[x], td, B)
      BY DEF Fits, AllNewest, Newest, ReplicaSetTypes
    <3>2. td.type \in {"Unknown"} \cup ReplicaSetTypes =>
            OthersNewest(heard.servers, heard, B, a, sd)
      BY <1>2, <1>3, <3>1 DEF OthersNewest, Newest
    <3>3. u1.type \in ReplicaSetTypes =>
            /\ td.type \in {"Unknown"} \cup ReplicaSetTypes
            /\ u1.servers = heard.servers
      BY <1>2 DEF UpdateUnknown, IsTopologyDescription, ReplicaSetTypes
    <3>4. u2.type \in ReplicaSetTypes => u2 = u1
      BY <1>6 DEF UpdateSharded, IsTopologyDescription, ReplicaSetTypes
    <3> HIDE DEF u1, u2
    <3> QED
      BY <1>6, <3>2, <3>3, <3>4 DEF OthersNewest, Newest
  <2> HIDE DEF u2
  <2>3. CASE u2.type = "ReplicaSetNoPrimary"
    <3>1. /\ Seen(u3, B) /\ AllNewest(u3.servers, u3, B)
          /\ OthersNewest(u3.servers, u3, B, a, sd)
      BY <1>1, <1>7, <2>2, <2>3, NoPrimaryNewest DEF ReplicaSetTypes
    <3> HIDE DEF u3
    <3>2. CASE u3.type = "ReplicaSetWithPrimary"
      BY <1>1, <1>8, <2>1, <3>1, <3>2, WithPrimaryNewest
    <3>3. CASE u3.type # "ReplicaSetWithPrimary"
      BY <2>1, <3>1, <3>3 DEF UpdateWithPrimary
    <3> QED
      BY <3>2, <3>3
  <2>4. CASE u2.type = "ReplicaSetWithPrimary"
    <3>1. u3 = u2
      BY <2>4 DEF UpdateNoPrimary
    <3> QED
      BY <1>1, <1>7, <2>1, <2>2, <2>4, <3>1, WithPrimaryNewest DEF ReplicaSetTypes
  <2>5. CASE u2.type \notin ReplicaSetTypes
    <3>1. u4 = u2
      BY <2>5 DEF UpdateNoPrimary, UpdateWithPrimary, ReplicaSetTypes
    <3> QED
      BY <1>7, <2>1, <2>5, <3>1
  <2> QED
    BY <2>3, <2>4, <2>5 DEF ReplicaSetTypes
<1> QED
  BY <1>5, <1>9

(* The ids of the primaries that are believed. *)
LEMMA BelievedAre ==
  ASSUME NEW td, NEW p \in BelievedIn(td)
  PROVE  \E x \in Primaries(td.servers) :
           /\ td.type \in ReplicaSetTypes /\ x \in DOMAIN td.servers
           /\ td.servers[x].type = "RSPrimary"
           /\ td.servers[x].setVersion # 0 /\ td.servers[x].electionId # 0
           /\ p[1] = td.servers[x].setVersion /\ p[2] = td.servers[x].electionId
BY DEF BelievedIn, Primaries

NewestInv ==
  /\ Seen(description, believed)
  /\ description.type \in ReplicaSetTypes =>
       AllNewest(description.servers, description, believed)

(* No primary is older than one that was believed before ("this primary is *)
(* stale, we must remove it"), whatever the order the answers of all       *)
(* servers come in: when election ids have the property $oid.              *)
THEOREM NewestPrimaryCorrect == ASSUME OidsRead PROVE DescriptionSpec => []NewestPrimary
<1>1. DescriptionInit => NewestInv
  <2> SUFFICES ASSUME DescriptionInit PROVE NewestInv
    OBVIOUS
  <2>1. PICK seeds \in SUBSET Addresses, isSet \in BOOLEAN, name \in SetNames \cup {NoName} :
          description = [type |-> InitialType(seeds, isSet), setName |-> name,
                         maxSetVersion |-> 0, maxElectionId |-> 0,
                         servers |-> [a \in seeds |-> UnknownServer], error |-> FALSE]
    BY DEF DescriptionInit
  <2>2. believed = {}
    BY DEF DescriptionInit
  <2> QED
    BY <2>1, <2>2, UnknownNewest DEF NewestInv, Seen, AllNewest
<1>2. FitsInv /\ FitsInv' /\ NewestInv /\ [DescriptionNext]_descriptionVars => NewestInv'
  <2> SUFFICES ASSUME FitsInv, FitsInv', NewestInv, [DescriptionNext]_descriptionVars
               PROVE  NewestInv'
    OBVIOUS
  <2>1. ASSUME NEW a \in Addresses, NEW sd \in Replies, Receive(a, sd) PROVE NewestInv'
    <3>1. /\ Seen(description', believed)
          /\ description'.type \in ReplicaSetTypes =>
               AllNewest(description'.servers, description', believed)
          /\ believed' = believed \cup BelievedIn(description')
      <4>1. /\ IsTopologyDescription(description) /\ Fits(description)
            /\ believed \in SUBSET ((1..MaxVersion) \X (1..MaxVersion))
        BY DEF FitsInv, DescriptionTypeOK
      <4> QED
        BY <2>1, <4>1, UpdateNewest DEF Receive, NewestInv
    <3>2. Seen(description', believed')
      <4>1. ASSUME NEW q \in BelievedIn(description')
            PROVE  q[1] <= description'.maxSetVersion /\ q[2] <= description'.maxElectionId
        BY <3>1, <4>1, BelievedAre DEF AllNewest, Newest
      <4> QED
        BY <3>1, <4>1 DEF Seen
    <3>3. ASSUME description'.type \in ReplicaSetTypes, NEW x \in DOMAIN description'.servers
          PROVE  Newest(description'.servers[x], description', believed')
      <4> DEFINE o == description'.servers[x]
      <4>1. Newest(o, description', believed) /\ o \in ServerDescription
        BY <3>1, <3>3 DEF AllNewest, FitsInv, DescriptionTypeOK, IsTopologyDescription, IsServerMap
      <4>2. ASSUME o.type = "RSPrimary", NEW q \in BelievedIn(description')
            PROVE  q[1] = o.setVersion /\ q[2] = o.electionId
        <5>1. \A y, z \in Primaries(description'.servers) : y = z
          BY <3>3 DEF FitsInv, Fits, MembersFit
        <5>2. x \in Primaries(description'.servers)
          BY <3>3, <4>2 DEF Primaries
        <5> QED
          BY <4>2, <5>1, <5>2, BelievedAre
      <4>3. o.setVersion \in Nat /\ o.electionId \in Nat
        BY <4>1, DescriptionAssumption DEF ServerDescription
      <4> HIDE DEF o
      <4>4. Newest(o, description', believed')
        BY <3>1, <4>1, <4>2, <4>3 DEF Newest
      <4> QED
        BY <4>4 DEF o
    <3> QED
      BY <3>2, <3>3 DEF NewestInv, AllNewest, Seen, Newest
  <2>2. CASE UNCHANGED descriptionVars
    BY <2>2 DEF descriptionVars, NewestInv, Seen, AllNewest, Newest
  <2> QED
    BY <2>1, <2>2 DEF DescriptionNext
<1>3. FitsInv /\ NewestInv => NewestPrimary
  <2> SUFFICES ASSUME FitsInv, NewestInv, NEW p \in BelievedIn(description), NEW q \in believed
               PROVE  ~Older(p, q)
    BY DEF NewestPrimary
  <2>1. q[1] \in Nat /\ q[2] \in Nat
    BY DEF FitsInv, DescriptionTypeOK
  <2>2. p[1] \in Nat /\ p[2] \in Nat
    BY BelievedType, DescriptionAssumption DEF FitsInv, DescriptionTypeOK
  <2>3. q[1] <= p[1] /\ q[2] <= p[2]
    BY BelievedAre DEF NewestInv, AllNewest, Newest
  <2> QED
    BY <2>1, <2>2, <2>3 DEF Older
<1> QED
  BY <1>1, <1>2, <1>3, FitsInvariant, PTL DEF DescriptionSpec

(***************************************************************************)
(* The topology keeps a description                                        *)
(***************************************************************************)

(* An update of a server's description is a step of the description, or    *)
(* leaves it alone.                                                        *)
LEMMA ServerUpdateReceives ==
  ASSUME NEW a \in Addresses, NEW sd \in Replies, NEW now, ServerUpdate(a, sd, now)
  PROVE  [DescriptionNext]_descriptionVars
BY DEF ServerUpdate, DescriptionNext, descriptionVars

LEMMA MonitorReceives ==
  ASSUME NEW a \in Addresses, NEW now, MonitorServer(a, now)
  PROVE  [DescriptionNext]_descriptionVars
BY ServerUpdateReceives, DescriptionAssumption DEF MonitorServer, descriptionVars

(* What TopologyDescription says of a description holds of the one the     *)
(* topology keeps: serverUpdateHandler is all that changes it.             *)
THEOREM DescriptionImplemented == Spec => DescriptionSpec
<1>1. Init => DescriptionInit
  BY DEF Init
<1>2. ASSUME [Next]_topologyVars
      PROVE  [DescriptionNext]_descriptionVars
  <2>1. CASE UNCHANGED topologyVars
    BY <2>1 DEF topologyVars, descriptionVars
  <2>2. CASE Connect \/ Close
    BY <2>2 DEF Connect, Close, descriptionVars
  <2>3. ASSUME NEW s \in Selections, Select(s) \/ TimesOut(s)
        PROVE  UNCHANGED descriptionVars
    BY <2>3 DEF Select, TimesOut, descriptionVars
  <2>4. ASSUME NEW a \in Addresses, Monitor(a)
        PROVE  [DescriptionNext]_descriptionVars
    <3>1. CASE TimerFires(a)
      BY <3>1, MonitorReceives DEF TimerFires
    <3>2. CASE Poke(a)
      BY <3>2, MonitorReceives DEF Poke, descriptionVars
    <3>3. CASE CheckFails(a)
      BY <3>3 DEF CheckFails, descriptionVars
    <3>4. CASE RecheckFails(a)
      BY <3>4, ServerUpdateReceives, DescriptionAssumption DEF RecheckFails
    <3>5. CASE \E sd \in Replies \ {UnknownServer} : CheckSucceeds(a, sd)
      BY <3>5, ServerUpdateReceives DEF CheckSucceeds
    <3> QED
      BY <2>4, <3>1, <3>2, <3>3, <3>4, <3>5 DEF Monitor
  <2>5. ASSUME NEW a \in Addresses, PoolEvent(a)
        PROVE  [DescriptionNext]_descriptionVars
    <3>1. CASE \E sd \in Replies \ {UnknownServer} : PoolConnects(a, sd)
      BY <3>1, ServerUpdateReceives DEF PoolConnects
    <3>2. CASE PoolFails(a)
      BY <3>2, ServerUpdateReceives, DescriptionAssumption DEF PoolFails
    <3>3. CASE \E link \in Links : ServerErrors(a, link)
      BY <3>3, ServerUpdateReceives, DescriptionAssumption DEF ServerErrors
    <3>4. CASE \E check \in Checks : PoolDies(a, check)
      BY <3>4, ServerUpdateReceives, DescriptionAssumption DEF PoolDies
    <3> QED
      BY <2>5, <3>1, <3>2, <3>3, <3>4 DEF PoolEvent
  <2> QED
    BY <1>2, <2>1, <2>2, <2>3, <2>4, <2>5 DEF Next
<1> QED
  BY <1>1, <1>2, PTL DEF Spec, DescriptionSpec

(***************************************************************************)
(* What an update adds to what is known                                    *)
(***************************************************************************)

(* Of the servers other than a, those that are known are in K. *)
OnlyKnown(servers, K, a) ==
  \A x \in DOMAIN servers \ {a} : servers[x].type # "Unknown" => x \in K

LEMMA MapKnown ==
  ASSUME NEW servers, NEW K, NEW a, OnlyKnown(servers, K, a)
  PROVE  /\ \A sd : OnlyKnown(Set(servers, a, sd), K, a)
         /\ OnlyKnown(Delete(servers, a), K, a)
         /\ \A hosts : OnlyKnown(Discover(servers, hosts), K, a)
         /\ \A hosts : OnlyKnown(Delete(Discover(servers, hosts), a), K, a)
         /\ \A hosts : OnlyKnown(Replace(ResetOldPrimary(servers, a), hosts), K, a)
<1>1. \A sd : OnlyKnown(Set(servers, a, sd), K, a)
  BY DEF OnlyKnown, Set
<1>2. OnlyKnown(Delete(servers, a), K, a)
  BY DEF OnlyKnown, Delete, Restrict
<1>3. \A hosts : OnlyKnown(Discover(servers, hosts), K, a)
  BY DEF OnlyKnown, Discover, UnknownServer
<1>4. \A found : OnlyKnown(found, K, a) => OnlyKnown(Delete(found, a), K, a)
  BY DEF OnlyKnown, Delete, Restrict
<1>5. ASSUME NEW hosts
      PROVE  OnlyKnown(Replace(ResetOldPrimary(servers, a), hosts), K, a)
  <2> DEFINE replaced == Replace(ResetOldPrimary(servers, a), hosts)
  <2>1. \A x \in DOMAIN replaced : \/ replaced[x] = UnknownServer
                                   \/ x \in DOMAIN servers /\ replaced[x] = servers[x]
    BY ReplacedIs
  <2> HIDE DEF replaced
  <2>2. OnlyKnown(replaced, K, a)
    BY <2>1 DEF OnlyKnown, UnknownServer
  <2> QED
    BY <2>2 DEF replaced
<1> QED
  BY <1>1, <1>2, <1>3, <1>4, <1>5

LEMMA PartsKnown ==
  ASSUME NEW td, IsTopologyDescription(td), NEW a \in Addresses, NEW sd \in Replies,
         NEW K, OnlyKnown(td.servers, K, a)
  PROVE  /\ OnlyKnown(UpdateUnknown(td, a, sd).servers, K, a)
         /\ OnlyKnown(UpdateSharded(td, a, sd).servers, K, a)
         /\ OnlyKnown(UpdateNoPrimary(td, a, sd).servers, K, a)
         /\ OnlyKnown(UpdateWithPrimary(td, a, sd).servers, K, a)
<1>1. \A servers : /\ [td EXCEPT !.servers = servers].servers = servers
                   /\ WithServers(td, servers).servers = servers
  BY DEF IsTopologyDescription, WithServers
<1>2. [td EXCEPT !.servers = Delete(@, a)].servers = Delete(td.servers, a)
  BY <1>1
<1>3. \A type : [td EXCEPT !.type = type].servers = td.servers
  BY DEF IsTopologyDescription
<1>4. OnlyKnown(UpdateUnknown(td, a, sd).servers, K, a)
  BY <1>2, <1>3, MapKnown DEF UpdateUnknown
<1>5. OnlyKnown(UpdateSharded(td, a, sd).servers, K, a)
  BY <1>2, MapKnown DEF UpdateSharded
<1>6. OnlyKnown(UpdateRsFromPrimary(td, a, sd).servers, K, a)
  <2> DEFINE named == [td EXCEPT !.setName = NameOr(td, sd)]
             heard == [named EXCEPT
                        !.maxElectionId = IF HasIds(sd.setVersion, sd.electionId)
                                          THEN sd.electionId ELSE @,
                        !.maxSetVersion = IF sd.setVersion > @ THEN sd.setVersion ELSE @]
  <2>1. \A servers : /\ WithServers(named, servers).servers = servers
                     /\ WithServers(heard, servers).servers = servers
    BY DEF IsTopologyDescription, WithServers
  <2>2. UpdateRsFromPrimary(td, a, sd) \in
          {WithServers(named, Delete(td.servers, a)),
           WithServers(named, Set(td.servers, a, UnknownServer)),
           WithServers(heard, Replace(ResetOldPrimary(td.servers, a), sd.hosts))}
    BY DEF UpdateRsFromPrimary
  <2> HIDE DEF named, heard
  <2> QED
    BY <2>1, <2>2, MapKnown
<1>7. OnlyKnown(UpdateRsNoPrimaryFromMember(td, a, sd).servers, K, a)
  <2>1. UpdateRsNoPrimaryFromMember(td, a, sd).servers \in
          {Delete(td.servers, a), Delete(Discover(td.servers, sd.hosts), a),
           Discover(td.servers, sd.hosts)}
    BY DEF UpdateRsNoPrimaryFromMember, IsTopologyDescription
  <2> QED
    BY <2>1, MapKnown
<1>8. OnlyKnown(UpdateRsWithPrimaryFromMember(td, a, sd).servers, K, a)
  BY <1>1, MapKnown DEF UpdateRsWithPrimaryFromMember
<1>9. OnlyKnown(UpdateNoPrimary(td, a, sd).servers, K, a)
  BY <1>2, <1>6, <1>7, MapKnown DEF UpdateNoPrimary
<1>10. OnlyKnown(UpdateWithPrimary(td, a, sd).servers, K, a)
  BY <1>1, <1>6, <1>8, MapKnown DEF UpdateWithPrimary
<1> QED
  BY <1>4, <1>5, <1>9, <1>10

(* Of a server that was not known before nothing is known after another's  *)
(* response.                                                               *)
LEMMA UpdateKnown ==
  ASSUME NEW td, IsTopologyDescription(td), NEW a \in Addresses, NEW sd \in Replies
  PROVE  Known(Update(td, a, sd)) \subseteq Known(td) \cup {a}
<1> DEFINE heard == [td EXCEPT !.servers = Set(@, a, sd), !.error = (sd.type = "Unknown")]
           u1 == UpdateUnknown(heard, a, sd)
           u2 == UpdateSharded(u1, a, sd)
           u3 == UpdateNoPrimary(u2, a, sd)
           u4 == UpdateWithPrimary(u3, a, sd)
           K == Known(td)
<1>1. OnlyKnown(td.servers, K, a)
  BY DEF OnlyKnown, Known
<1> HIDE DEF K
<1>2. IsTopologyDescription(heard) /\ OnlyKnown(heard.servers, K, a)
  <2>1. IsServerMap(Set(td.servers, a, sd))
    BY MapType, ReplyType DEF IsTopologyDescription
  <2>2. OnlyKnown(Set(td.servers, a, sd), K, a)
    BY <1>1, MapKnown
  <2>3. heard.servers = Set(td.servers, a, sd)
    BY DEF IsTopologyDescription
  <2> QED
    BY <2>1, <2>2, <2>3 DEF IsTopologyDescription
<1> HIDE DEF heard
<1>3. IsTopologyDescription(u1) /\ OnlyKnown(u1.servers, K, a)
  BY <1>2, PartsType, PartsKnown
<1> HIDE DEF u1
<1>4. IsTopologyDescription(u2) /\ OnlyKnown(u2.servers, K, a)
  BY <1>3, PartsType, PartsKnown
<1> HIDE DEF u2
<1>5. IsTopologyDescription(u3) /\ OnlyKnown(u3.servers, K, a)
  BY <1>4, PartsType, PartsKnown
<1> HIDE DEF u3
<1>6. OnlyKnown(u4.servers, K, a)
  BY <1>5, PartsKnown
<1> HIDE DEF u4
<1>7. OnlyKnown(Update(td, a, sd).servers, K, a)
  BY <1>2, <1>6 DEF Update, heard, u1, u2, u3, u4
<1> QED
  BY <1>7 DEF OnlyKnown, Known, K

(***************************************************************************)
(* The inductive invariant                                                 *)
(***************************************************************************)

(* TypeOK, without the description's part. *)
StateOK ==
  /\ phase \in {"new", "connected", "closed"}
  /\ server \in [Addresses -> ServerState]
  /\ \A a \in Addresses : server[a].link = "none" => server[a] = NoServer
  /\ called \in SUBSET Selections
  /\ listening \in SUBSET called
  /\ timing \in SUBSET called
  /\ answers \in [Selections -> Nat]

(* A server is monitored from when it is connected, by one check or timer, *)
(* and a check is lost only with the pool.                                 *)
ServerFits(s) ==
  /\ s.link \in {"none", "opening", "failed"} => s.check = "none" /\ ~s.timer
  /\ s.timer => s.check = "none"
  /\ s.check = "lost" => s.dead

ServersFit == \A a \in Addresses : ServerFits(server[a])

(* There are servers, and selections, only as long as the phase allows.    *)
PhaseFits ==
  /\ phase = "new" => called = {}
  /\ phase # "connected" => Servers = {}

(* Selections that were not called yet. *)
Uncalled == \A s \in Selections \ called : answers[s] = 0

(* A waiting selection's own selector has nothing to choose. *)
ChosenNone == Compatible(description) => \A s \in listening : Chosen(description, s) = {}

WaitingFits == Uncalled /\ AnsweredOnce /\ ChosenNone

TopologyInv ==
  StateOK /\ ServersFit /\ PhaseFits /\ WaitingFits /\ ServersMatch /\ WatchedWhileWaiting

(***************************************************************************)
(* Selections                                                              *)
(***************************************************************************)

(* A change of the description: those that wait are answered, or wait on   *)
(* with nothing to choose.                                                 *)
LEMMA SelectAgainKeeps ==
  ASSUME StateOK, Uncalled, AnsweredOnce, NEW td, SelectAgain(td), called' = called
  PROVE  /\ answers' \in [Selections -> Nat]
         /\ listening' \in SUBSET called' /\ timing' \in SUBSET called'
         /\ Uncalled' /\ AnsweredOnce'
         /\ \A s \in listening' : Chosen(td, s) = {}
<1>1. PICK over \in SUBSET listening :
        /\ answers' = Answered(over)
        /\ listening' = listening \ over
        /\ timing' = timing \ over
        /\ \A s \in listening \ over : Chosen(td, s) = {}
  BY DEF SelectAgain, Woken, Timers
<1>2. /\ \A s \in Selections : answers[s] \in Nat
      /\ answers' = [s \in Selections |-> answers[s] + (IF s \in over THEN 1 ELSE 0)]
  BY <1>1 DEF StateOK, Answered
<1>3. answers' \in [Selections -> Nat]
  BY <1>2
<1>4. over \subseteq called /\ called \subseteq Selections
  BY <1>1 DEF StateOK
<1>5. Uncalled'
  BY <1>2, <1>4 DEF Uncalled
<1>6. AnsweredOnce'
  <2> SUFFICES ASSUME NEW s \in called
               PROVE  /\ answers'[s] = (IF s \in listening' THEN 0 ELSE 1)
                      /\ s \in timing' <=> s \in listening'
    BY DEF AnsweredOnce
  <2>1. /\ answers[s] = (IF s \in listening THEN 0 ELSE 1)
        /\ s \in timing <=> s \in listening
    BY DEF AnsweredOnce
  <2>2. answers'[s] = answers[s] + (IF s \in over THEN 1 ELSE 0)
    BY <1>2, <1>4
  <2> QED
    BY <1>1, <2>1, <2>2
<1> QED
  BY <1>1, <1>3, <1>5, <1>6 DEF StateOK

(***************************************************************************)
(* Updates                                                                 *)
(***************************************************************************)

(* What the servers' states are now, when something came of a's pool or    *)
(* monitor.                                                                *)
IsNow(now, a) ==
  /\ now \in [Addresses -> ServerState]
  /\ \A x \in Addresses \ {a} : now[x] = server[x]
  /\ now[a].link # "none"
  /\ ServerFits(now[a])

LEMMA NewServerFits ==
  /\ NoServer \in ServerState /\ ServerFits(NoServer) /\ NoServer.link = "none"
  /\ NewServer \in ServerState /\ ServerFits(NewServer) /\ NewServer.link = "opening"
BY DEF NoServer, NewServer, ServerState, Links, Checks, ServerFits

(* To be told to check changes nothing else. *)
LEMMA PokedFits ==
  ASSUME NEW s \in ServerState
  PROVE  /\ Poked(s) \in ServerState /\ Poked(s).poked
         /\ Poked(s).link = s.link /\ Poked(s).check = s.check
         /\ Poked(s).timer = s.timer /\ Poked(s).dead = s.dead
         /\ ServerFits(s) => ServerFits(Poked(s))
BY DEF Poked, ServerState, ServerFits

LEMMA PokeAllIs ==
  ASSUME NEW servers \in [Addresses -> ServerState], NEW waiting,
         \A x \in Addresses : ServerFits(servers[x]),
         \A x \in Addresses : servers[x].link = "none" => servers[x] = NoServer
  PROVE  LET poked == PokeAll(servers, waiting)
         IN  /\ poked \in [Addresses -> ServerState]
             /\ \A x \in Addresses :
                  /\ poked[x].link = servers[x].link
                  /\ ServerFits(poked[x])
                  /\ poked[x].link = "none" => poked[x] = NoServer
                  /\ waiting # {} /\ poked[x].link # "none" => poked[x].poked
<1> DEFINE poked == PokeAll(servers, waiting)
<1>1. \A x \in Addresses : poked[x] = IF waiting # {} /\ servers[x].link # "none"
                                      THEN Poked(servers[x]) ELSE servers[x]
  BY DEF PokeAll
<1>2. \A x \in Addresses : servers[x] \in ServerState
  OBVIOUS
<1>3. poked \in [Addresses -> ServerState]
  BY <1>2, PokedFits DEF PokeAll
<1> HIDE DEF poked
<1>4. ASSUME NEW x \in Addresses
      PROVE  /\ poked[x].link = servers[x].link
             /\ ServerFits(poked[x])
             /\ poked[x].link = "none" => poked[x] = NoServer
             /\ waiting # {} /\ poked[x].link # "none" => poked[x].poked
  <2>1. CASE waiting # {} /\ servers[x].link # "none"
    <3>1. poked[x] = Poked(servers[x])
      BY <1>1, <2>1
    <3> QED
      BY <1>2, <2>1, <3>1, PokedFits
  <2>2. CASE ~(waiting # {} /\ servers[x].link # "none")
    <3>1. poked[x] = servers[x]
      BY <1>1, <2>2
    <3> QED
      BY <2>2, <3>1
  <2> QED
    BY <2>1, <2>2
<1> QED
  BY <1>3, <1>4 DEF poked

LEMMA UpdateServersIs ==
  ASSUME NEW now \in [Addresses -> ServerState], NEW td,
         \A x \in Addresses : ServerFits(now[x])
  PROVE  LET updated == UpdateServers(td, now)
         IN  /\ updated \in [Addresses -> ServerState]
             /\ \A x \in Addresses :
                  /\ updated[x].link # "none" <=> x \in DOMAIN td.servers
                  /\ updated[x].link = "none" => updated[x] = NoServer
                  /\ ServerFits(updated[x])
<1> DEFINE updated == UpdateServers(td, now)
<1>1. \A x \in Addresses :
        updated[x] = IF x \notin DOMAIN td.servers THEN NoServer
                     ELSE IF now[x].link = "none" THEN NewServer ELSE now[x]
  BY DEF UpdateServers
<1>2. updated \in [Addresses -> ServerState]
  BY NewServerFits DEF UpdateServers
<1> HIDE DEF updated
<1>3. ASSUME NEW x \in Addresses
      PROVE  /\ updated[x].link # "none" <=> x \in DOMAIN td.servers
             /\ updated[x].link = "none" => updated[x] = NoServer
             /\ ServerFits(updated[x])
  BY <1>1, NewServerFits
<1> QED
  BY <1>2, <1>3 DEF updated

(* serverUpdateHandler keeps the invariant, if the server's own state does. *)
LEMMA ServerUpdateKeeps ==
  ASSUME TopologyInv, DescriptionTypeOK, DescriptionTypeOK', NEW a \in Addresses,
         server[a].link # "none", NEW sd \in Replies, NEW now, IsNow(now, a),
         ServerUpdate(a, sd, now), UNCHANGED <<phase, called>>
  PROVE  TopologyInv'
<1>1. /\ phase = "connected" /\ phase' = phase /\ called' = called
      /\ StateOK /\ ServersFit /\ PhaseFits /\ WaitingFits /\ ServersMatch
  BY DEF PhaseFits, Servers, TopologyInv
<1>2. /\ now \in [Addresses -> ServerState]
      /\ \A x \in Addresses : /\ ServerFits(now[x])
                              /\ now[x].link # "none" <=> server[x].link # "none"
                              /\ now[x].link = "none" => now[x] = NoServer
  BY <1>1 DEF IsNow, ServersFit, StateOK
<1>3. Servers \subseteq Addresses /\ Servers = {x \in Addresses : now[x].link # "none"}
  BY <1>2 DEF Servers
<1>4. CASE a \notin DOMAIN description.servers
  <2>1. /\ server' = now
        /\ UNCHANGED <<description, believed, listening, timing, answers>>
    BY <1>4 DEF ServerUpdate
  <2>2. ~Compatible(description')
    BY <1>1, <1>4, <2>1 DEF ServersMatch, Servers, Compatible
  <2>3. Servers' = Servers
    BY <1>3, <2>1 DEF Servers
  <2>4. StateOK' /\ ServersFit'
    BY <1>1, <1>2, <2>1 DEF StateOK, ServersFit
  <2>5. PhaseFits'
    BY <1>1 DEF PhaseFits
  <2>6. WaitingFits'
    BY <1>1, <2>1, <2>2 DEF WaitingFits, Uncalled, AnsweredOnce, ChosenNone
  <2>7. ServersMatch'
    BY <1>1, <2>1, <2>2, <2>3 DEF ServersMatch
  <2>8. WatchedWhileWaiting'
    BY <2>2 DEF WatchedWhileWaiting
  <2> QED
    BY <2>4, <2>5, <2>6, <2>7, <2>8 DEF TopologyInv
<1>5. CASE a \in DOMAIN description.servers
  <2>1. description' = Update(description, a, sd)
    BY <1>5 DEF ServerUpdate, Receive
  <2>2. Known(description') \subseteq Known(description) \cup {a}
    BY <2>1, UpdateKnown DEF DescriptionTypeOK
  <2>3. Known(description') \subseteq Servers
    BY <1>1, <2>2 DEF ServersMatch, Servers
  <2>4. DOMAIN description'.servers \subseteq Addresses
    BY DEF DescriptionTypeOK, IsTopologyDescription, IsServerMap
  <2>5. CASE ~Compatible(description')
    <3>1. server' = now /\ UNCHANGED <<listening, timing, answers>>
      BY <1>5, <2>5 DEF ServerUpdate
    <3>2. Servers' = Servers
      BY <1>3, <3>1 DEF Servers
    <3>3. StateOK' /\ ServersFit'
      BY <1>1, <1>2, <3>1 DEF StateOK, ServersFit
    <3>4. PhaseFits'
      BY <1>1 DEF PhaseFits
    <3>5. WaitingFits'
      BY <1>1, <2>5, <3>1 DEF WaitingFits, Uncalled, AnsweredOnce, ChosenNone
    <3>6. ServersMatch'
      BY <2>3, <2>5, <3>2 DEF ServersMatch
    <3>7. WatchedWhileWaiting'
      BY <2>5 DEF WatchedWhileWaiting
    <3> QED
      BY <3>3, <3>4, <3>5, <3>6, <3>7 DEF TopologyInv
  <2>6. CASE Compatible(description')
    <3> DEFINE updated == UpdateServers(description', now)
    <3>1. SelectAgain(description') /\ server' = PokeAll(updated, listening')
      BY <1>5, <2>6 DEF ServerUpdate
    <3>2. /\ answers' \in [Selections -> Nat]
          /\ listening' \in SUBSET called' /\ timing' \in SUBSET called'
          /\ Uncalled' /\ AnsweredOnce'
          /\ \A s \in listening' : Chosen(description', s) = {}
      BY <1>1, <3>1, SelectAgainKeeps DEF WaitingFits
    <3>3. /\ updated \in [Addresses -> ServerState]
          /\ \A x \in Addresses : /\ updated[x].link # "none" <=> x \in DOMAIN description'.servers
                                  /\ updated[x].link = "none" => updated[x] = NoServer
                                  /\ ServerFits(updated[x])
      BY <1>2, UpdateServersIs
    <3> HIDE DEF updated
    <3>4. /\ server' \in [Addresses -> ServerState]
          /\ \A x \in Addresses :
               /\ server'[x].link # "none" <=> x \in DOMAIN description'.servers
               /\ ServerFits(server'[x])
               /\ server'[x].link = "none" => server'[x] = NoServer
               /\ listening' # {} /\ server'[x].link # "none" => server'[x].poked
      <4>1. \A x \in Addresses : ServerFits(updated[x])
        BY <3>3
      <4>2. \A x \in Addresses : updated[x].link = "none" => updated[x] = NoServer
        BY <3>3
      <4>3. /\ server' \in [Addresses -> ServerState]
            /\ \A x \in Addresses :
                  /\ server'[x].link = updated[x].link
                  /\ ServerFits(server'[x])
                  /\ server'[x].link = "none" => server'[x] = NoServer
                  /\ listening' # {} /\ server'[x].link # "none" => server'[x].poked
        BY <3>1, <3>3, <4>1, <4>2, PokeAllIs
      <4> QED
        BY <3>3, <4>3
    <3>5. Servers' = DOMAIN description'.servers
      BY <2>4, <3>4 DEF Servers
    <3>6. StateOK' /\ ServersFit'
      BY <1>1, <3>2, <3>4 DEF StateOK, ServersFit
    <3>7. PhaseFits'
      BY <1>1 DEF PhaseFits
    <3>8. WaitingFits'
      BY <3>2 DEF WaitingFits, ChosenNone, Chosen
    <3>9. ServersMatch'
      BY <3>5 DEF ServersMatch, Known
    <3>10. WatchedWhileWaiting'
      BY <3>4 DEF WatchedWhileWaiting, Servers
    <3> QED
      BY <3>6, <3>7, <3>8, <3>9, <3>10 DEF TopologyInv
  <2> QED
    BY <2>5, <2>6
<1> QED
  BY <1>4, <1>5

(* A step that changes a's state alone. *)
LEMMA OneServerKeeps ==
  ASSUME TopologyInv, NEW a \in Addresses, server[a].link # "none",
         NEW now, IsNow(now, a),
         (* the monitor goes on, if it must *)
         \/ now[a].link # "connected"
         \/ now[a].dead
         \/ now[a].check \in {"first", "second"} \/ now[a].timer \/ now[a].poked,
         server' = now,
         UNCHANGED <<description, believed, phase, selectionVars>>
  PROVE  TopologyInv'
<1>1. \A x \in Addresses : /\ ServerFits(now[x])
                           /\ now[x].link # "none" <=> server[x].link # "none"
                           /\ now[x].link = "none" => now[x] = NoServer
  BY DEF IsNow, ServersFit, StateOK, TopologyInv
<1>2. Servers' = Servers
  BY <1>1 DEF Servers
<1>3. StateOK' /\ ServersFit'
  BY <1>1 DEF StateOK, ServersFit, IsNow, selectionVars, TopologyInv
<1>4. PhaseFits'
  BY <1>2 DEF PhaseFits, selectionVars, TopologyInv
<1>5. WaitingFits'
  BY DEF WaitingFits, Uncalled, AnsweredOnce, ChosenNone, selectionVars, TopologyInv
<1>6. ServersMatch'
  BY <1>2 DEF ServersMatch, TopologyInv
<1>7. WatchedWhileWaiting'
  BY <1>2 DEF WatchedWhileWaiting, Servers, IsNow, selectionVars, TopologyInv
<1> QED
  BY <1>3, <1>4, <1>5, <1>6, <1>7 DEF TopologyInv

(***************************************************************************)
(* Each action                                                             *)
(***************************************************************************)

LEMMA InitInv == Init => TopologyInv
<1> SUFFICES ASSUME Init PROVE TopologyInv
  OBVIOUS
<1>1. Servers = {}
  BY DEF Init, Servers, NoServer
<1>2. StateOK /\ ServersFit
  BY NewServerFits DEF Init, StateOK, ServersFit
<1>3. PhaseFits /\ WaitingFits
  BY <1>1 DEF Init, PhaseFits, WaitingFits, Uncalled, AnsweredOnce, ChosenNone
<1>4. ServersMatch /\ WatchedWhileWaiting
  BY DEF Init, ServersMatch, WatchedWhileWaiting
<1> QED
  BY <1>2, <1>3, <1>4 DEF TopologyInv

LEMMA ConnectKeeps ==
  ASSUME TopologyInv, DescriptionTypeOK, Connect
  PROVE  TopologyInv'
<1>1. /\ \A x \in Addresses : server'[x] = IF x \in DOMAIN description.servers
                                           THEN NewServer ELSE NoServer
      /\ server' \in [Addresses -> ServerState]
      /\ phase' = "connected" /\ UNCHANGED <<description, believed, selectionVars>>
  BY NewServerFits DEF Connect
<1>2. DOMAIN description.servers \subseteq Addresses
  BY DEF DescriptionTypeOK, IsTopologyDescription, IsServerMap
<1>3. Servers' = DOMAIN description.servers
  BY <1>1, <1>2, NewServerFits DEF Servers
<1>4. StateOK' /\ ServersFit'
  BY <1>1, NewServerFits DEF TopologyInv, StateOK, ServersFit, selectionVars
<1>5. PhaseFits' /\ WaitingFits'
  BY <1>1 DEF TopologyInv, PhaseFits, WaitingFits, Uncalled, AnsweredOnce, ChosenNone,
     selectionVars
<1>6. ServersMatch'
  BY <1>1, <1>3 DEF ServersMatch, Known
<1>7. listening' = {}
  BY <1>1 DEF TopologyInv, PhaseFits, StateOK, Connect, selectionVars
<1>8. WatchedWhileWaiting'
  BY <1>7 DEF WatchedWhileWaiting
<1> QED
  BY <1>4, <1>5, <1>6, <1>8 DEF TopologyInv

LEMMA CloseKeeps ==
  ASSUME TopologyInv, Close
  PROVE  TopologyInv'
<1>1. /\ \A x \in Addresses : server'[x] = NoServer
      /\ server' \in [Addresses -> ServerState]
      /\ phase' = "closed" /\ UNCHANGED <<description, believed, selectionVars>>
  BY NewServerFits DEF Close
<1>2. StateOK' /\ ServersFit'
  BY <1>1, NewServerFits DEF TopologyInv, StateOK, ServersFit, selectionVars
<1>3. Servers' = {}
  BY <1>1, NewServerFits DEF Servers
<1>4. PhaseFits' /\ WaitingFits'
  BY <1>1, <1>3 DEF TopologyInv, PhaseFits, WaitingFits, Uncalled, AnsweredOnce, ChosenNone,
     selectionVars
<1>5. ServersMatch' /\ WatchedWhileWaiting'
  BY <1>1 DEF ServersMatch, WatchedWhileWaiting
<1> QED
  BY <1>2, <1>4, <1>5 DEF TopologyInv

LEMMA SelectKeeps ==
  ASSUME TopologyInv, NEW s \in Selections, Select(s)
  PROVE  TopologyInv'
<1>1. /\ phase = "connected" /\ s \notin called
      /\ called' = called \cup {s} /\ UNCHANGED <<description, believed, phase>>
      /\ StateOK /\ ServersFit /\ PhaseFits /\ WaitingFits /\ ServersMatch
      /\ WatchedWhileWaiting
  BY DEF Select, TopologyInv
<1>2. s \notin listening /\ s \notin timing /\ answers[s] = 0
  BY <1>1 DEF StateOK, WaitingFits, Uncalled
<1>3. CASE Chosen(description, s) # {}
  <2>1. /\ answers' = Answered({s})
        /\ UNCHANGED <<server, listening, timing>>
    BY <1>3 DEF Select
  <2>2. /\ answers' \in [Selections -> Nat] /\ answers'[s] = 1
        /\ \A r \in Selections \ {s} : answers'[r] = answers[r]
    BY <1>1, <1>2, <2>1 DEF Answered, StateOK
  <2>3. StateOK' /\ ServersFit'
    BY <1>1, <2>1, <2>2 DEF StateOK, ServersFit
  <2>4. PhaseFits'
    BY <1>1 DEF PhaseFits
  <2>5. WaitingFits'
    BY <1>1, <1>2, <2>1, <2>2 DEF StateOK, WaitingFits, Uncalled, AnsweredOnce, ChosenNone
  <2>6. ServersMatch' /\ WatchedWhileWaiting'
    BY <1>1, <2>1 DEF ServersMatch, WatchedWhileWaiting, Servers
  <2> QED
    BY <2>3, <2>4, <2>5, <2>6 DEF TopologyInv
<1>4. CASE Chosen(description, s) = {}
  <2>1. /\ listening' = listening \cup {s} /\ timing' = timing \cup {s}
        /\ server' = PokeAll(server, {s}) /\ UNCHANGED answers
    BY <1>4 DEF Select
  <2>2. /\ server' \in [Addresses -> ServerState]
        /\ \A x \in Addresses : /\ server'[x].link = server[x].link
                                /\ ServerFits(server'[x])
                                /\ server'[x].link = "none" => server'[x] = NoServer
                                /\ server'[x].link # "none" => server'[x].poked
    <3>1. /\ server \in [Addresses -> ServerState]
          /\ \A x \in Addresses : ServerFits(server[x])
          /\ \A x \in Addresses : server[x].link = "none" => server[x] = NoServer
      BY <1>1 DEF StateOK, ServersFit
    <3> QED
      BY <2>1, <3>1, PokeAllIs
  <2>3. Servers' = Servers
    BY <2>2 DEF Servers
  <2>4. StateOK' /\ ServersFit'
    BY <1>1, <2>1, <2>2 DEF StateOK, ServersFit
  <2>5. PhaseFits'
    BY <1>1 DEF PhaseFits
  <2>6. WaitingFits'
    BY <1>1, <1>2, <1>4, <2>1 DEF StateOK, WaitingFits, Uncalled, AnsweredOnce, ChosenNone
  <2>7. ServersMatch'
    BY <1>1, <2>3 DEF ServersMatch
  <2>8. WatchedWhileWaiting'
    BY <2>2 DEF WatchedWhileWaiting, Servers
  <2> QED
    BY <2>4, <2>5, <2>6, <2>7, <2>8 DEF TopologyInv
<1> QED
  BY <1>3, <1>4

LEMMA TimesOutKeeps ==
  ASSUME TopologyInv, NEW s \in Selections, TimesOut(s)
  PROVE  TopologyInv'
<1>1. /\ s \in timing /\ answers' = Answered({s})
      /\ listening' = listening \ {s} /\ timing' = timing \ {s}
      /\ UNCHANGED <<description, believed, phase, server, called>>
      /\ StateOK /\ ServersFit /\ PhaseFits /\ WaitingFits /\ ServersMatch
      /\ WatchedWhileWaiting
  BY DEF TimesOut, TopologyInv
<1>2. s \in called /\ s \in listening /\ answers[s] = 0
  BY <1>1 DEF StateOK, WaitingFits, AnsweredOnce
<1>3. /\ answers' \in [Selections -> Nat] /\ answers'[s] = 1
      /\ \A r \in Selections \ {s} : answers'[r] = answers[r]
  BY <1>1, <1>2 DEF Answered, StateOK
<1>4. StateOK' /\ ServersFit'
  BY <1>1, <1>3 DEF StateOK, ServersFit
<1>5. PhaseFits'
  BY <1>1 DEF PhaseFits, Servers
<1>6. WaitingFits'
  BY <1>1, <1>2, <1>3 DEF StateOK, WaitingFits, Uncalled, AnsweredOnce, ChosenNone
<1>7. ServersMatch' /\ WatchedWhileWaiting'
  BY <1>1 DEF ServersMatch, WatchedWhileWaiting, Servers
<1> QED
  BY <1>4, <1>5, <1>6, <1>7 DEF TopologyInv

(* The states of servers that the callbacks make. *)
LEMMA NowFits ==
  ASSUME TopologyInv, NEW a \in Addresses, server[a].link # "none",
         NEW s \in ServerState, s.link # "none", ServerFits(s)
  PROVE  IsNow([server EXCEPT ![a] = s], a)
BY DEF IsNow, TopologyInv, StateOK

(* A pool that is dead is not asked; otherwise the check begins.           *)
LEMMA MonitorServerKeeps ==
  ASSUME TopologyInv, DescriptionTypeOK, DescriptionTypeOK', NEW a \in Addresses,
         server[a].link = "connected" \/ server[a].link = "disconnected",
         NEW now, NEW s \in ServerState, now = [server EXCEPT ![a] = s],
         s.link = server[a].link, s.dead = server[a].dead, ~s.timer,
         MonitorServer(a, now), UNCHANGED <<phase, called>>
  PROVE  TopologyInv'
<1>1. server \in [Addresses -> ServerState]
  BY DEF TopologyInv, StateOK
<1>2. CASE server[a].dead
  <2> DEFINE t == [s EXCEPT !.check = "none"]
  <2>1. t \in ServerState /\ t.link = s.link /\ t.check = "none" /\ ~t.timer
    BY DEF ServerState, Checks
  <2>2. [now EXCEPT ![a].check = "none"] = [server EXCEPT ![a] = t]
    BY <1>1
  <2>3. ServerUpdate(a, UnknownServer, [server EXCEPT ![a] = t])
    BY <1>2, <2>2 DEF MonitorServer
  <2> HIDE DEF t
  <2>4. IsNow([server EXCEPT ![a] = t], a)
    BY <2>1, NowFits DEF ServerFits
  <2> QED
    BY <2>3, <2>4, ServerUpdateKeeps, DescriptionAssumption
<1>3. CASE ~server[a].dead
  <2> DEFINE t == [s EXCEPT !.check = "first"]
  <2>1. t \in ServerState /\ t.link = s.link /\ t.check = "first" /\ ~t.timer
    BY DEF ServerState, Checks
  <2>2. [now EXCEPT ![a].check = "first"] = [server EXCEPT ![a] = t]
    BY <1>1
  <2>3. /\ server' = [server EXCEPT ![a] = t]
        /\ UNCHANGED <<description, believed, phase, selectionVars>>
    BY <1>3, <2>2 DEF MonitorServer, selectionVars
  <2> HIDE DEF t
  <2>4. IsNow([server EXCEPT ![a] = t], a)
    BY <2>1, NowFits DEF ServerFits
  <2>5. server'[a].check = "first"
    BY <1>1, <2>1, <2>3
  <2> QED
    BY <2>3, <2>4, <2>5, OneServerKeeps
<1> QED
  BY <1>2, <1>3

LEMMA MonitorKeeps ==
  ASSUME TopologyInv, DescriptionTypeOK, DescriptionTypeOK', NEW a \in Addresses, Monitor(a)
  PROVE  TopologyInv'
<1> DEFINE old == server[a]
<1>1. server \in [Addresses -> ServerState] /\ old \in ServerState /\ ServerFits(old)
  BY DEF TopologyInv, StateOK, ServersFit
<1>2. old.check # "none" \/ old.timer => old.link = "connected" \/ old.link = "disconnected"
  BY <1>1 DEF ServerFits, ServerState, Links
<1>3. old.poked => old.link # "none"
  BY DEF TopologyInv, StateOK, NoServer
<1>4. CASE TimerFires(a)
  <2> DEFINE s == [old EXCEPT !.timer = FALSE]
  <2>1. /\ s \in ServerState /\ s.link = old.link /\ s.dead = old.dead /\ ~s.timer
        /\ [server EXCEPT ![a].timer = FALSE] = [server EXCEPT ![a] = s]
    BY <1>1 DEF ServerState
  <2>2. /\ old.timer /\ MonitorServer(a, [server EXCEPT ![a] = s])
        /\ UNCHANGED <<phase, called>>
    BY <1>4, <2>1 DEF TimerFires
  <2> HIDE DEF s
  <2> QED
    BY <1>2, <2>1, <2>2, MonitorServerKeeps
<1>5. CASE Poke(a)
  <2>1. old.poked /\ UNCHANGED <<phase, called>>
    BY <1>5 DEF Poke
  <2>2. CASE MayMonitor(old)
    <3> DEFINE s == Hurried(old)
    <3>1. /\ s \in ServerState /\ s.link = old.link /\ s.dead = old.dead /\ ~s.timer
          /\ [server EXCEPT ![a] = Hurried(@)] = [server EXCEPT ![a] = s]
      BY <1>1 DEF ServerState, Hurried
    <3>2. MonitorServer(a, [server EXCEPT ![a] = s])
      BY <1>5, <2>2, <3>1 DEF Poke
    <3>3. old.link = "connected"
      BY <2>2 DEF MayMonitor
    <3> HIDE DEF s
    <3> QED
      BY <2>1, <3>1, <3>2, <3>3, MonitorServerKeeps
  <2>3. CASE ~MayMonitor(old)
    <3> DEFINE s == [old EXCEPT !.poked = FALSE]
    <3>1. /\ s \in ServerState /\ s.link = old.link /\ s.dead = old.dead
          /\ s.timer = old.timer /\ s.check = old.check
          /\ [server EXCEPT ![a].poked = FALSE] = [server EXCEPT ![a] = s]
      BY <1>1 DEF ServerState
    <3>2. /\ server' = [server EXCEPT ![a] = s]
          /\ UNCHANGED <<description, believed, phase, selectionVars>>
      BY <1>5, <2>1, <2>3, <3>1 DEF Poke, selectionVars
    <3> HIDE DEF s
    <3>3. IsNow([server EXCEPT ![a] = s], a)
      BY <1>1, <1>3, <2>1, <3>1, NowFits DEF ServerFits
    <3>4. [server EXCEPT ![a] = s][a] = s
      BY <1>1
    <3>5. s.link # "connected" \/ s.dead \/ s.check \in {"first", "second"}
      BY <1>1, <2>3, <3>1 DEF MayMonitor, ServerFits, ServerState, Checks
    <3> QED
      BY <1>3, <2>1, <3>2, <3>3, <3>4, <3>5, OneServerKeeps
  <2> QED
    BY <2>2, <2>3
<1>6. CASE CheckFails(a)
  <2> DEFINE s == [old EXCEPT !.check = "second"]
  <2>1. /\ s \in ServerState /\ s.link = old.link /\ s.timer = old.timer /\ s.check = "second"
        /\ [server EXCEPT ![a].check = "second"] = [server EXCEPT ![a] = s]
    BY <1>1 DEF ServerState, Checks
  <2>2. /\ old.check = "first" /\ server' = [server EXCEPT ![a] = s]
        /\ UNCHANGED <<description, believed, phase, selectionVars>>
    BY <1>6, <2>1 DEF CheckFails
  <2> HIDE DEF s
  <2>3. IsNow([server EXCEPT ![a] = s], a)
    BY <1>1, <1>2, <2>1, <2>2, NowFits DEF ServerFits
  <2>4. [server EXCEPT ![a] = s][a].check = "second"
    BY <1>1, <2>1
  <2> QED
    BY <1>2, <2>2, <2>3, <2>4, OneServerKeeps
<1>7. CASE RecheckFails(a)
  <2> DEFINE s == [old EXCEPT !.check = "none"]
  <2>1. /\ s \in ServerState /\ s.link = old.link /\ s.timer = old.timer /\ s.check = "none"
        /\ [server EXCEPT ![a].check = "none"] = [server EXCEPT ![a] = s]
    BY <1>1 DEF ServerState, Checks
  <2>2. /\ old.check = "second" /\ UNCHANGED <<phase, called>>
        /\ ServerUpdate(a, UnknownServer, [server EXCEPT ![a] = s])
    BY <1>7, <2>1 DEF RecheckFails
  <2> HIDE DEF s
  <2>3. IsNow([server EXCEPT ![a] = s], a)
    BY <1>1, <1>2, <2>1, <2>2, NowFits DEF ServerFits
  <2> QED
    BY <1>2, <2>2, <2>3, ServerUpdateKeeps, DescriptionAssumption
<1>8. CASE \E sd \in Replies \ {UnknownServer} : CheckSucceeds(a, sd)
  <2>1. PICK sd \in Replies : CheckSucceeds(a, sd)
    BY <1>8
  <2> DEFINE s == [old EXCEPT !.check = "none", !.timer = TRUE]
  <2>2. /\ s \in ServerState /\ s.link = old.link /\ s.timer /\ s.check = "none"
        /\ [server EXCEPT ![a].check = "none", ![a].timer = TRUE] = [server EXCEPT ![a] = s]
    BY <1>1 DEF ServerState, Checks
  <2>3. /\ old.check \in {"first", "second"} /\ UNCHANGED <<phase, called>>
        /\ ServerUpdate(a, sd, [server EXCEPT ![a] = s])
    BY <2>1, <2>2 DEF CheckSucceeds
  <2> HIDE DEF s
  <2>4. IsNow([server EXCEPT ![a] = s], a)
    BY <1>1, <1>2, <2>2, <2>3, NowFits DEF ServerFits
  <2> QED
    BY <1>2, <2>3, <2>4, ServerUpdateKeeps
<1> QED
  BY <1>4, <1>5, <1>6, <1>7, <1>8 DEF Monitor

LEMMA PoolEventKeeps ==
  ASSUME TopologyInv, DescriptionTypeOK, DescriptionTypeOK', NEW a \in Addresses, PoolEvent(a)
  PROVE  TopologyInv'
<1> DEFINE old == server[a]
<1>1. server \in [Addresses -> ServerState] /\ old \in ServerState /\ ServerFits(old)
  BY DEF TopologyInv, StateOK, ServersFit
<1>2. CASE \E sd \in Replies \ {UnknownServer} : PoolConnects(a, sd)
  <2>1. PICK sd \in Replies : PoolConnects(a, sd)
    BY <1>2
  <2> DEFINE s == [old EXCEPT !.link = "connected", !.timer = TRUE]
  <2>2. /\ s \in ServerState /\ s.link = "connected" /\ s.timer /\ s.check = old.check
        /\ [server EXCEPT ![a].link = "connected", ![a].timer = TRUE] = [server EXCEPT ![a] = s]
    BY <1>1 DEF ServerState, Links
  <2>3. /\ old.link = "opening" /\ UNCHANGED <<phase, called>>
        /\ ServerUpdate(a, sd, [server EXCEPT ![a] = s])
    BY <2>1, <2>2 DEF PoolConnects
  <2> HIDE DEF s
  <2>4. IsNow([server EXCEPT ![a] = s], a)
    BY <1>1, <2>2, <2>3, NowFits DEF ServerFits
  <2> QED
    BY <2>3, <2>4, ServerUpdateKeeps
<1>3. CASE PoolFails(a)
  <2> DEFINE s == [old EXCEPT !.link = "failed"]
  <2>1. /\ s \in ServerState /\ s.link = "failed" /\ s.timer = old.timer /\ s.check = old.check
        /\ s.dead = old.dead
        /\ [server EXCEPT ![a].link = "failed"] = [server EXCEPT ![a] = s]
    BY <1>1 DEF ServerState, Links
  <2>2. /\ old.link = "opening" /\ UNCHANGED <<phase, called>>
        /\ ServerUpdate(a, UnknownServer, [server EXCEPT ![a] = s])
    BY <1>3, <2>1 DEF PoolFails
  <2> HIDE DEF s
  <2>3. IsNow([server EXCEPT ![a] = s], a)
    BY <1>1, <2>1, <2>2, NowFits DEF ServerFits
  <2> QED
    BY <2>2, <2>3, ServerUpdateKeeps, DescriptionAssumption
<1>4. ASSUME NEW link \in Links, ServerErrors(a, link)
      PROVE  TopologyInv'
  <2> DEFINE s == [old EXCEPT !.link = link]
  <2>1. /\ s \in ServerState /\ s.link = link /\ s.timer = old.timer /\ s.check = old.check
        /\ s.dead = old.dead
        /\ [server EXCEPT ![a].link = link] = [server EXCEPT ![a] = s]
    BY <1>1 DEF ServerState
  <2>2. /\ old.link \in {"connected", "disconnected"} /\ link \in {"connected", "disconnected"}
        /\ UNCHANGED <<phase, called>>
        /\ ServerUpdate(a, UnknownServer, [server EXCEPT ![a] = s])
    BY <1>4, <2>1 DEF ServerErrors
  <2> HIDE DEF s
  <2>3. IsNow([server EXCEPT ![a] = s], a)
    BY <1>1, <2>1, <2>2, NowFits DEF ServerFits
  <2> QED
    BY <2>2, <2>3, ServerUpdateKeeps, DescriptionAssumption
<1>5. ASSUME NEW check \in Checks, PoolDies(a, check)
      PROVE  TopologyInv'
  <2> DEFINE s == [old EXCEPT !.dead = TRUE, !.check = check]
  <2>1. /\ s \in ServerState /\ s.link = old.link /\ s.timer = old.timer /\ s.check = check
        /\ s.dead
        /\ [server EXCEPT ![a].dead = TRUE, ![a].check = check] = [server EXCEPT ![a] = s]
    BY <1>1 DEF ServerState
  <2>2. /\ old.link \in {"connected", "disconnected"} /\ UNCHANGED <<phase, called>>
        /\ check \in {"none", "lost"} /\ (old.check = "none" => check = "none")
        /\ ServerUpdate(a, UnknownServer, [server EXCEPT ![a] = s])
    BY <1>5, <2>1 DEF PoolDies
  <2> HIDE DEF s
  <2>3. IsNow([server EXCEPT ![a] = s], a)
    BY <1>1, <2>1, <2>2, NowFits DEF ServerFits
  <2> QED
    BY <2>2, <2>3, ServerUpdateKeeps, DescriptionAssumption
<1> QED
  BY <1>2, <1>3, <1>4, <1>5 DEF PoolEvent

LEMMA StutterKeeps ==
  ASSUME TopologyInv, UNCHANGED topologyVars
  PROVE  TopologyInv'
BY DEF topologyVars, selectionVars, TopologyInv, StateOK, ServersFit, PhaseFits, WaitingFits,
   Uncalled, AnsweredOnce, ChosenNone, ServersMatch, WatchedWhileWaiting, Servers

(***************************************************************************)
(* Theorems                                                                *)
(***************************************************************************)

(* The invariant, by every callback of servers, monitors and timers.       *)
THEOREM TopologyInvariance == Spec => [](DescriptionTypeOK /\ TopologyInv)
<1>1. Spec => []DescriptionTypeOK
  BY DescriptionImplemented, TypeCorrect, PTL
<1>2. TopologyInv /\ DescriptionTypeOK /\ DescriptionTypeOK' /\ [Next]_topologyVars
        => TopologyInv'
  <2> SUFFICES ASSUME TopologyInv, DescriptionTypeOK, DescriptionTypeOK',
                      [Next]_topologyVars
               PROVE  TopologyInv'
    OBVIOUS
  <2>1. CASE UNCHANGED topologyVars
    BY <2>1, StutterKeeps
  <2>2. CASE Connect
    BY <2>2, ConnectKeeps
  <2>3. CASE Close
    BY <2>3, CloseKeeps
  <2>4. ASSUME NEW s \in Selections, Select(s) \/ TimesOut(s)
        PROVE  TopologyInv'
    BY <2>4, SelectKeeps, TimesOutKeeps
  <2>5. ASSUME NEW a \in Addresses, Monitor(a) \/ PoolEvent(a)
        PROVE  TopologyInv'
    BY <2>5, MonitorKeeps, PoolEventKeeps
  <2> QED
    BY <2>1, <2>2, <2>3, <2>4, <2>5 DEF Next
<1> QED
  BY <1>1, <1>2, InitInv, PTL DEF Spec

(* Whatever servers answer and whenever they fail, the state of the        *)
(* topology, its servers and selections keeps its shape.                   *)
THEOREM StatesCorrect == Spec => []TypeOK
<1>1. DescriptionTypeOK /\ TopologyInv => TypeOK
  BY DEF TypeOK, TopologyInv, StateOK
<1> QED
  BY <1>1, TopologyInvariance, PTL

(* Servers are made and removed as the description says, each has one      *)
(* monitor, and none that could change what a selection waits for is left  *)
(* unwatched: no interleaving of checks, hurried checks, dead pools and    *)
(* updates that end early leaves the topology without them.                *)
THEOREM ServersCorrect == Spec => []ServersSound
<1>1. TopologyInv => ServersSound
  BY DEF TopologyInv, ServersFit, ServerFits, OneMonitor, ServersSound
<1> QED
  BY <1>1, TopologyInvariance, PTL

(* A selection waits only while its selector finds nothing, and is called  *)
(* back once, by its timer or by a change of the description: for any      *)
(* preferences.                                                            *)
THEOREM SelectionsAnswered == Spec => [](ChosenNone /\ AnsweredOnce)
<1>1. TopologyInv => ChosenNone /\ AnsweredOnce
  BY DEF TopologyInv, WaitingFits
<1> QED
  BY <1>1, TopologyInvariance, PTL

(***************************************************************************)
(* What selectors miss                                                     *)
(***************************************************************************)

(* With one tag set, or none, the reducers leave what is fresh and tagged. *)
LEMMA ReducedIs ==
  ASSUME NEW td, NEW pref, IsPreference(pref), Len(pref.tags) <= 1
  PROVE  Reduced(td, pref) =
           {a \in MaxStalenessReducer(td, pref) :
              pref.tags = <<>> \/ \E i \in DOMAIN pref.tags : pref.tags[i] \subseteq TagsOf(td, a)}
<1> DEFINE fresh == MaxStalenessReducer(td, pref)
           matching(i) == {a \in fresh : pref.tags[i] \subseteq TagsOf(td, a)}
<1> HIDE DEF fresh
<1>1. CASE pref.tags = <<>>
  <2>1. Reduced(td, pref) = fresh
    BY <1>1 DEF Reduced, TagSetReducer, fresh
  <2> QED
    BY <1>1, <2>1 DEF fresh
<1>2. CASE pref.tags # <<>>
  <2>1. DOMAIN pref.tags = {1}
    <3>1. pref.tags \in Seq(SUBSET Tag)
      BY DEF IsPreference
    <3>2. Len(pref.tags) \in Nat /\ DOMAIN pref.tags = 1..Len(pref.tags) /\ Len(pref.tags) # 0
      BY <1>2, <3>1
    <3>3. \A n \in Nat : n # 0 /\ n <= 1 => n = 1
      OBVIOUS
    <3>4. Len(pref.tags) = 1
      BY <3>2, <3>3
    <3> QED
      BY <3>2, <3>4
  <2>2. CASE matching(1) = {}
    <3>1. {i \in DOMAIN pref.tags : matching(i) # {}} = {}
      BY <2>1, <2>2
    <3>2. TagSetReducer(td, pref, fresh) = {}
      BY <1>2, <3>1 DEF TagSetReducer
    <3> QED
      BY <1>2, <2>1, <2>2, <3>2 DEF Reduced, fresh
  <2>3. CASE matching(1) # {}
    <3>1. {i \in DOMAIN pref.tags : matching(i) # {}} = {1}
      BY <2>1, <2>3
    <3>2. Min({1}) = 1
      BY DEF Min
    <3>3. TagSetReducer(td, pref, fresh) = matching(1)
      BY <1>2, <3>1, <3>2 DEF TagSetReducer
    <3> QED
      BY <1>2, <2>1, <3>3 DEF Reduced, fresh
  <2> QED
    BY <2>2, <2>3
<1> QED
  BY <1>1, <1>2

(* Then a selector that finds nothing misses nothing.                      *)
LEMMA NothingWanted ==
  ASSUME NEW td, NEW pref, IsPreference(pref), Len(pref.tags) <= 1, Suitable(td, pref) = {}
  PROVE  Wanted(td, pref) = {}
<1> DEFINE tagged(a) == \/ pref.tags = <<>>
                        \/ \E i \in DOMAIN pref.tags : pref.tags[i] \subseteq TagsOf(td, a)
           fit(servers) == {a \in servers \cap MaxStalenessReducer(td, pref) : tagged(a)}
<1>1. pref.mode \in Modes \cup {"writable"}
  BY DEF IsPreference
<1>2. \A servers : fit(servers) \subseteq servers
  OBVIOUS
<1>3. \A servers : fit(servers) = Reduced(td, pref) \cap servers
  BY ReducedIs
<1>4. Wanted(td, pref) =
        CASE pref.mode = "writable" -> Writable(td)
          [] pref.mode = "primary" -> Primaries(td.servers)
          [] pref.mode \in {"primaryPreferred", "secondaryPreferred"} ->
               Primaries(td.servers) \cup fit(Secondaries(td))
          [] pref.mode = "secondary" -> fit(Secondaries(td))
          [] pref.mode = "nearest" -> fit(Secondaries(td) \cup Primaries(td.servers))
  BY DEF Wanted
<1> HIDE DEF fit
<1>5. CASE pref.mode = "writable"
  BY <1>4, <1>5 DEF Suitable
<1>6. CASE pref.mode # "writable" /\ td.type \in {"Single", "Sharded"}
  <2>1. Known(td) = {}
    BY <1>6 DEF Suitable
  <2>2. Primaries(td.servers) = {} /\ Secondaries(td) = {}
    BY <2>1 DEF Known, Primaries, Secondaries, OfType
  <2>3. fit(Secondaries(td)) = {} /\ fit(Secondaries(td) \cup Primaries(td.servers)) = {}
    BY <1>2, <2>2
  <2> QED
    BY <1>1, <1>4, <1>6, <2>2, <2>3 DEF Modes
<1>7. CASE pref.mode # "writable" /\ td.type \notin {"Single", "Sharded"}
  <2>1. Suitable(td, pref) =
          CASE pref.mode = "primary" -> Primaries(td.servers)
            [] pref.mode = "primaryPreferred" -> PrimaryPreferred(td, pref)
            [] pref.mode = "secondary" -> Reduced(td, pref) \cap Secondaries(td)
            [] pref.mode = "secondaryPreferred" -> SecondaryPreferred(td, pref)
            [] pref.mode = "nearest" ->
                 Reduced(td, pref) \cap (Secondaries(td) \cup Primaries(td.servers))
    BY <1>7 DEF Suitable
  <2>2. CASE pref.mode = "primary"
    BY <1>4, <2>1, <2>2
  <2>3. CASE pref.mode = "primaryPreferred"
    <3>1. Primaries(td.servers) = {} /\ Reduced(td, pref) \cap Secondaries(td) = {}
      BY <2>1, <2>3 DEF PrimaryPreferred
    <3> QED
      BY <1>3, <1>4, <2>3, <3>1
  <2>4. CASE pref.mode = "secondary"
    BY <1>3, <1>4, <2>1, <2>4
  <2>5. CASE pref.mode = "secondaryPreferred"
    <3>1. Primaries(td.servers) = {} /\ Reduced(td, pref) \cap Secondaries(td) = {}
      BY <2>1, <2>5 DEF SecondaryPreferred
    <3> QED
      BY <1>3, <1>4, <2>5, <3>1
  <2>6. CASE pref.mode = "nearest"
    BY <1>3, <1>4, <2>1, <2>6
  <2> QED
    BY <1>1, <1>7, <2>2, <2>3, <2>4, <2>5, <2>6 DEF Modes
<1> QED
  BY <1>5, <1>6, <1>7

(* The preferences have one tag set at most.  With several, tagSetReducer  *)
(* takes the first that any server has, of whatever type, and a server     *)
(* that fits a later one is missed.                                        *)
OneTagSet == \A s \in Selections : Len(Preference[s].tags) <= 1

(* No selection waits for a server that is there, and each is called back  *)
(* once, if its preference has no second tag set to fall back on.          *)
THEOREM SelectionsCorrect == ASSUME OneTagSet PROVE Spec => []SelectionsSound
<1>1. DescriptionTypeOK /\ TopologyInv => SelectionsSound
  <2> SUFFICES ASSUME TopologyInv, Compatible(description), NEW s \in listening
               PROVE  Chosen(description, s) = {} /\ Wanted(description, Preference[s]) = {}
    BY DEF SelectionsSound, NoMissedServer, TopologyInv, WaitingFits
  <2>1. s \in Selections /\ IsPreference(Preference[s]) /\ Len(Preference[s].tags) <= 1
    BY TopologyAssumption DEF OneTagSet, TopologyInv, StateOK
  <2>2. Chosen(description, s) = {}
    BY DEF TopologyInv, WaitingFits, ChosenNone
  <2> QED
    BY <2>1, <2>2, NothingWanted DEF Chosen
<1> QED
  BY <1>1, TopologyInvariance, PTL
=============================================================================
