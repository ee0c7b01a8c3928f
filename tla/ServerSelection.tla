--------------------------- MODULE ServerSelection ---------------------------
(***************************************************************************)
(* The selectors of servers: lib/sdam/server_selectors.js, for the read    *)
(* preferences of lib/topologies/read_preference.js.                       *)
(*                                                                         *)
(* Nothing in lib/sdam gives a ServerDescription the option roundTripTime, *)
(* so it is always 0 and the latency window holds every server.            *)
(***************************************************************************)
EXTENDS TopologyDescription, Sequences, FiniteSetsExt

CONSTANTS
  Tag,       \* key and value of a tag
  Tags,      \* of each server, as long as it is known
  Age,       \* of each server: seconds from its last write to its last answer
  Heartbeat  \* heartbeatFrequencyMS, in seconds

Modes == {"primary", "primaryPreferred", "secondary", "secondaryPreferred", "nearest"}

(* A read preference, or what writableServerSelector stands for.  No       *)
(* maxStalenessSeconds is 0.                                               *)
IsPreference(pref) ==
  /\ pref.mode \in Modes \cup {"writable"}
  /\ pref.tags \in Seq(SUBSET Tag)
  /\ pref.maxStaleness \in Nat
  /\ pref.maxStaleness # 0 => pref.maxStaleness >= Max({Heartbeat + 10, 90})
  /\ pref.mode = "primary" => pref.tags = <<>> /\ pref.maxStaleness = 0

ASSUME SelectionAssumption ==
  /\ Tags \in [Addresses -> SUBSET Tag]
  /\ Age \in [Addresses -> Nat]
  /\ Heartbeat \in Nat

Known(td) == {a \in DOMAIN td.servers : td.servers[a].type # "Unknown"}

OfType(td, types) == {a \in DOMAIN td.servers : td.servers[a].type \in types}

Writable(td) == OfType(td, {"RSPrimary", "Standalone", "Mongos"})

Secondaries(td) == OfType(td, {"RSSecondary"})

TagsOf(td, a) == IF a \in Known(td) THEN Tags[a] ELSE {}

(* maxStalenessReducer: how far a server is behind the primary, or behind  *)
(* the server with the last write, of whatever type.  What is not known of *)
(* a server counts as infinitely old.                                      *)
MaxStalenessReducer(td, pref) ==
  LET newest == IF Primaries(td.servers) # {} THEN Age[CHOOSE a \in Primaries(td.servers) : TRUE]
                ELSE Min({Age[a] : a \in Known(td)})
  IN
  IF pref.maxStaleness = 0 \/ td.type \notin ReplicaSetTypes THEN DOMAIN td.servers
  ELSE {a \in Known(td) : Age[a] + Heartbeat <= newest + pref.maxStaleness}

(* tagSetReducer: the servers of the first tag set that some server has,   *)
(* of whatever type.                                                       *)
TagSetReducer(td, pref, servers) ==
  LET matching(i) == {a \in servers : pref.tags[i] \subseteq TagsOf(td, a)}
      matched == {i \in DOMAIN pref.tags : matching(i) # {}}
  IN
  IF pref.tags = <<>> THEN servers
  ELSE IF matched = {} THEN {}
  ELSE matching(Min(matched))

Reduced(td, pref) == TagSetReducer(td, pref, MaxStalenessReducer(td, pref))

(* Mutant: secondaryPreferred does not fall back to the primary.           *)
MutantNoFallback(td, pref) == Reduced(td, pref) \cap Secondaries(td)

SecondaryPreferred(td, pref) ==
  LET reduced == Reduced(td, pref) \cap Secondaries(td) IN
  IF reduced = {} THEN Primaries(td.servers) ELSE reduced

PrimaryPreferred(td, pref) ==
  IF Primaries(td.servers) # {} THEN Primaries(td.servers)
  ELSE Reduced(td, pref) \cap Secondaries(td)

(* What the selector for the preference chooses. *)
Suitable(td, pref) ==
  CASE pref.mode = "writable" -> Writable(td)
    [] pref.mode # "writable" /\ td.type \in {"Single", "Sharded"} -> Known(td)
    [] OTHER ->
         CASE pref.mode = "primary" -> Primaries(td.servers)
           [] pref.mode = "primaryPreferred" -> PrimaryPreferred(td, pref)
           [] pref.mode = "secondary" -> Reduced(td, pref) \cap Secondaries(td)
           [] pref.mode = "secondaryPreferred" -> SecondaryPreferred(td, pref)
           [] pref.mode = "nearest" ->
                Reduced(td, pref) \cap (Secondaries(td) \cup Primaries(td.servers))

(* What a preference asks for, whatever the order of its conditions: a     *)
(* server of the mode, tagged as one of the tag sets says and not too      *)
(* stale; the preferred modes take the primary as it is.                   *)
Wanted(td, pref) ==
  LET tagged(a) == \/ pref.tags = <<>>
                   \/ \E i \in DOMAIN pref.tags : pref.tags[i] \subseteq TagsOf(td, a)
      fit(servers) == {a \in servers \cap MaxStalenessReducer(td, pref) : tagged(a)}
      primaries == Primaries(td.servers)
  IN
  CASE pref.mode = "writable" -> Writable(td)
    [] pref.mode = "primary" -> primaries
    [] pref.mode \in {"primaryPreferred", "secondaryPreferred"} ->
         primaries \cup fit(Secondaries(td))
    [] pref.mode = "secondary" -> fit(Secondaries(td))
    [] pref.mode = "nearest" -> fit(Secondaries(td) \cup primaries)
=============================================================================
