------------------------- MODULE TopologyDescription -------------------------
(***************************************************************************)
(* What the unified topology believes of its deployment:                   *)
(* lib/sdam/topology_description.js, with the server descriptions of       *)
(* lib/sdam/server_description.js it is made from.                         *)
(*                                                                         *)
(* The answers of servers, isMaster responses, come in any order: old ones *)
(* late, several primaries, servers that changed their role or set.  Each  *)
(* replaces the description of the topology by an updated one.             *)
(***************************************************************************)
EXTENDS Naturals, FiniteSets, Functions

CONSTANTS
  Addresses,   \* of servers, in lower case
  SetNames,    \* names of replica sets
  NoName,      \* no set name
  MaxVersion,  \* bound on set versions and election ids
  Replies,     \* the server descriptions made of isMaster responses, and the
               \* UnknownServer that is made of a check that failed
  OidsRead     \* have election ids the property $oid, which the code compares:
               \* those of the repository's SDAM tests do, being extended JSON,
               \* the ObjectIDs that bson parses do not

TopologyTypes ==
  {"Single", "ReplicaSetNoPrimary", "ReplicaSetWithPrimary", "Sharded", "Unknown"}

ReplicaSetTypes == {"ReplicaSetNoPrimary", "ReplicaSetWithPrimary"}

ServerTypes ==
  {"Standalone", "Mongos", "RSPrimary", "RSSecondary", "RSArbiter", "RSOther",
   "RSGhost", "Unknown"}

(* The types a response with a set name has. *)
MemberTypes == {"RSPrimary", "RSSecondary", "RSArbiter", "RSOther"}

(* "moved" is that the response's "me" is another address than the one it  *)
(* came from, "compatible" that its wire versions are supported.  Set      *)
(* versions and election ids that are absent are 0.                        *)
ServerDescription ==
  [type : ServerTypes, setName : SetNames \cup {NoName}, setVersion : 0..MaxVersion,
   electionId : 0..MaxVersion, hosts : SUBSET Addresses, moved : BOOLEAN,
   compatible : BOOLEAN]

(* A Map of server descriptions. *)
IsServerMap(servers) ==
  /\ DOMAIN servers \subseteq Addresses
  /\ servers \in [DOMAIN servers -> ServerDescription]

(* "error" is that the last response was a failed check. *)
IsTopologyDescription(td) ==
  /\ td \in [type : TopologyTypes, setName : SetNames \cup {NoName},
             maxSetVersion : 0..MaxVersion, maxElectionId : 0..MaxVersion,
             servers : {td.servers}, error : BOOLEAN]
  /\ IsServerMap(td.servers)

(* new ServerDescription(address): a server nothing is known of, or whose  *)
(* check failed.                                                           *)
UnknownServer ==
  [type |-> "Unknown", setName |-> NoName, setVersion |-> 0, electionId |-> 0,
   hosts |-> {}, moved |-> FALSE, compatible |-> TRUE]

ASSUME DescriptionAssumption ==
  /\ NoName \notin SetNames
  /\ MaxVersion \in Nat
  /\ Replies \subseteq ServerDescription
  /\ UnknownServer \in Replies
  /\ \A sd \in Replies : /\ sd.type \in MemberTypes <=> sd.setName # NoName
                         /\ sd.type = "Unknown" => sd = UnknownServer
  /\ OidsRead \in BOOLEAN

VARIABLES
  description,  \* the TopologyDescription
  believed      \* history: set version and election id of the primaries it had

descriptionVars == <<description, believed>>

(***************************************************************************)
(* The Map of server descriptions                                          *)
(***************************************************************************)

Set(servers, a, sd) ==
  [b \in DOMAIN servers \cup {a} |-> IF b = a THEN sd ELSE servers[b]]

Delete(servers, a) == Restrict(servers, DOMAIN servers \ {a})

Primaries(servers) == {a \in DOMAIN servers : servers[a].type = "RSPrimary"}

(* Mutant: a server type where a topology type is meant. *)
MutantServerType(servers) ==
  IF Primaries(servers) # {} THEN "RSPrimary" ELSE "ReplicaSetNoPrimary"

CheckHasPrimary(servers) ==
  IF Primaries(servers) # {} THEN "ReplicaSetWithPrimary" ELSE "ReplicaSetNoPrimary"

(* The description td with other servers, and the type they give it. *)
WithServers(td, servers) ==
  [td EXCEPT !.servers = servers, !.type = CheckHasPrimary(servers)]

(* Mutant: the old primary is left as it is. *)
MutantTwoPrimaries(servers, a) == servers

(* A primary other than a, the first one found, is Unknown from now on. *)
ResetOldPrimary(servers, a) ==
  LET old == Primaries(servers) \ {a}
  IN  IF old = {} THEN servers
      ELSE [servers EXCEPT ![CHOOSE b \in old : TRUE] = UnknownServer]

(* Discovered hosts are added. *)
Discover(servers, hosts) ==
  [b \in DOMAIN servers \cup hosts |-> IF b \in DOMAIN servers THEN servers[b] ELSE UnknownServer]

(* Mutant: hosts the primary does not list stay. *)
MutantKeepUnlisted(servers, hosts) == Discover(servers, hosts)

(* Only the hosts of the primary's response are left. *)
Replace(servers, hosts) == Restrict(Discover(servers, hosts), hosts)

(***************************************************************************)
(* Responses of members                                                    *)
(***************************************************************************)

(* electionId.$oid *)
Oid(id) == IF OidsRead THEN id ELSE 0

HasIds(version, id) == version # 0 /\ Oid(id) # 0

(* Mutant: only the set version is compared. *)
MutantVersionOnly(td, sd) == HasIds(sd.setVersion, sd.electionId) /\ td.maxSetVersion > sd.setVersion

(* A primary older than one heard of before. *)
Stale(td, sd) ==
  /\ HasIds(sd.setVersion, sd.electionId)
  /\ HasIds(td.maxSetVersion, td.maxElectionId)
  /\ td.maxSetVersion > sd.setVersion \/ Oid(td.maxElectionId) > Oid(sd.electionId)

(* The set name, unless a server gives it first. *)
NameOr(td, sd) == IF td.setName = NoName THEN sd.setName ELSE td.setName

(* updateRsFromPrimary *)
UpdateRsFromPrimary(td, a, sd) ==
  LET named == [td EXCEPT !.setName = NameOr(td, sd)]
      heard == [named EXCEPT
                  !.maxElectionId = IF HasIds(sd.setVersion, sd.electionId)
                                    THEN sd.electionId ELSE @,
                  !.maxSetVersion = IF sd.setVersion > @ THEN sd.setVersion ELSE @]
  IN  IF named.setName # sd.setName
      THEN WithServers(named, Delete(td.servers, a))
      ELSE IF Stale(td, sd)
      THEN WithServers(named, Set(td.servers, a, UnknownServer))
      ELSE WithServers(heard, Replace(ResetOldPrimary(td.servers, a), sd.hosts))

(* Mutant: the set name is not compared. *)
MutantAnyName(td, a, sd) ==
  WithServers(td, IF sd.moved THEN Delete(td.servers, a) ELSE td.servers)

(* updateRsWithPrimaryFromMember *)
UpdateRsWithPrimaryFromMember(td, a, sd) ==
  WithServers(td, IF td.setName # sd.setName \/ sd.moved
                  THEN Delete(td.servers, a) ELSE td.servers)

(* updateRsNoPrimaryFromMember *)
UpdateRsNoPrimaryFromMember(td, a, sd) ==
  LET found == Discover(td.servers, sd.hosts)
  IN  [td EXCEPT !.setName = NameOr(td, sd),
                 !.servers = IF NameOr(td, sd) # sd.setName THEN Delete(@, a)
                             ELSE IF sd.moved THEN Delete(found, a) ELSE found]

(***************************************************************************)
(* update(), for the response sd of a, which is in td.servers already.     *)
(* Each of its parts looks at the type that the parts before it left: a    *)
(* primary found in ReplicaSetNoPrimary is taken into account twice.       *)
(***************************************************************************)

UpdateUnknown(td, a, sd) ==
  IF td.type # "Unknown" THEN td
  ELSE IF sd.type = "Standalone" THEN [td EXCEPT !.servers = Delete(@, a)]
  ELSE [td EXCEPT !.type = CASE sd.type = "Mongos"    -> "Sharded"
                             [] sd.type = "RSPrimary" -> "ReplicaSetWithPrimary"
                             [] OTHER                 -> "ReplicaSetNoPrimary"]

UpdateSharded(td, a, sd) ==
  IF td.type = "Sharded" /\ sd.type \notin {"Mongos", "Unknown"}
  THEN [td EXCEPT !.servers = Delete(@, a)]
  ELSE td

UpdateNoPrimary(td, a, sd) ==
  IF td.type # "ReplicaSetNoPrimary" THEN td
  ELSE CASE sd.type \in {"Mongos", "Unknown"} -> [td EXCEPT !.servers = Delete(@, a)]
         [] sd.type = "RSPrimary" -> UpdateRsFromPrimary(td, a, sd)
         [] sd.type \in MemberTypes \ {"RSPrimary"} -> UpdateRsNoPrimaryFromMember(td, a, sd)
         [] OTHER -> td

UpdateWithPrimary(td, a, sd) ==
  IF td.type # "ReplicaSetWithPrimary" THEN td
  ELSE CASE sd.type \in {"Standalone", "Mongos"} -> WithServers(td, Delete(td.servers, a))
         [] sd.type = "RSPrimary" -> UpdateRsFromPrimary(td, a, sd)
         [] sd.type \in MemberTypes \ {"RSPrimary"} -> UpdateRsWithPrimaryFromMember(td, a, sd)
         [] OTHER -> WithServers(td, td.servers)

Update(td, a, sd) ==
  LET heard == [td EXCEPT !.servers = Set(@, a, sd), !.error = (sd.type = "Unknown")]
  IN  IF td.type = "Single" THEN heard
      ELSE UpdateWithPrimary(
             UpdateNoPrimary(
               UpdateSharded(UpdateUnknown(heard, a, sd), a, sd), a, sd), a, sd)

(* The constructor: is every server that answered one the driver supports. *)
Compatible(td) == \A a \in DOMAIN td.servers : td.servers[a].compatible

(***************************************************************************)
(* The specification                                                       *)
(***************************************************************************)

(* The type the seeds and the option replicaSet give, setName and rs_name  *)
(* being its other names, which leave the set's name unknown.              *)
InitialType(seeds, isSet) ==
  CASE isSet                              -> "ReplicaSetNoPrimary"
    [] ~isSet /\ Cardinality(seeds) = 1 -> "Single"
    [] OTHER                              -> "Unknown"

DescriptionInit ==
  /\ \E seeds \in SUBSET Addresses \ {{}}, isSet \in BOOLEAN,
        name \in SetNames \cup {NoName} :
       /\ name # NoName => isSet
       /\ description = [type |-> InitialType(seeds, isSet), setName |-> name,
                         maxSetVersion |-> 0, maxElectionId |-> 0,
                         servers |-> [a \in seeds |-> UnknownServer], error |-> FALSE]
  /\ believed = {}

(* The ids of the primaries of a replica set that have both. *)
BelievedIn(td) ==
  IF td.type \notin ReplicaSetTypes THEN {}
  ELSE {<<sd.setVersion, sd.electionId>> : sd \in
         {td.servers[a] : a \in {b \in Primaries(td.servers) :
                                   /\ td.servers[b].setVersion # 0
                                   /\ td.servers[b].electionId # 0}}}

(* serverUpdateHandler: responses of other servers are ignored. *)
Receive(a, sd) ==
  /\ a \in DOMAIN description.servers
  /\ description' = Update(description, a, sd)
  /\ believed' = believed \cup BelievedIn(description')

DescriptionNext == \E a \in Addresses, sd \in Replies : Receive(a, sd)

DescriptionSpec == DescriptionInit /\ [][DescriptionNext]_descriptionVars

(***************************************************************************)
(* Properties                                                              *)
(***************************************************************************)

DescriptionTypeOK ==
  /\ IsTopologyDescription(description)
  /\ believed \in SUBSET ((1..MaxVersion) \X (1..MaxVersion))

(* The type of the topology is that of its servers: it has a primary when  *)
(* it says so, and one only; mongos proxies are in sharded topologies,     *)
(* nothing else is, and an unknown topology knows nothing.                 *)
TypeFits ==
  LET servers == description.servers
      types   == {servers[a].type : a \in DOMAIN servers}
  IN  CASE description.type = "ReplicaSetWithPrimary" ->
                 Cardinality(Primaries(servers)) = 1 /\ "Mongos" \notin types
        [] description.type = "ReplicaSetNoPrimary" ->
                 types \cap {"RSPrimary", "Mongos"} = {}
        [] description.type = "Sharded" -> types \subseteq {"Mongos", "Unknown"}
        [] description.type = "Unknown" -> types \subseteq {"Unknown"}
        [] OTHER -> TRUE

(* While there is a primary, the servers are among those it lists: what    *)
(* other members list does not count.                                      *)
MembersOfPrimary ==
  description.type = "ReplicaSetWithPrimary" =>
    \A a \in Primaries(description.servers) :
      DOMAIN description.servers \subseteq description.servers[a].hosts

(* Members of another set than the one first heard of, or asked for, are   *)
(* not believed, and a topology with a primary has a name:                 *)
(* updateRsWithPrimaryFromMember throws without.                           *)
OneSet ==
  description.type \in ReplicaSetTypes =>
    \A a \in DOMAIN description.servers :
      description.servers[a].type \in MemberTypes =>
        /\ description.servers[a].setName = description.setName
        /\ description.setName # NoName

(* The description is one of a single topology, whatever order the answers *)
(* came in. *)
DescriptionSound == TypeFits /\ MembersOfPrimary /\ OneSet

(* Set versions count first, then election ids. *)
Older(p, q) == p[1] < q[1] \/ (p[1] = q[1] /\ p[2] < q[2])

(* The primary is not older than one that was believed before: "this       *)
(* primary is stale, we must remove it" (topology_description.js:281).     *)
(* Holds when election ids have the property $oid.                         *)
NewestPrimary == \A p \in BelievedIn(description), q \in believed : ~Older(p, q)
=============================================================================
