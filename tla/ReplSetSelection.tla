-------------------------- MODULE ReplSetSelection --------------------------
(***************************************************************************)
(* Which member the legacy ReplSet sends an operation to: pickServer of    *)
(* lib/topologies/replset_state.js, over the lists of ReplSetState.        *)
(*                                                                         *)
(* Nothing here asks whether the member is connected: the lists should not *)
(* hold one that is not.                                                   *)
(***************************************************************************)
EXTENDS ReplSetState, Sequences, FiniteSetsExt

CONSTANTS
  Tag,                \* key and value of a tag
  Tags,               \* of each member
  Latency,            \* lastIsMasterMS of each member
  Staleness,          \* of each member, in seconds
  Old,                \* members with a wire version below 5
  AcceptableLatency   \* the option acceptableLatency

Modes == {"primary", "primaryPreferred", "secondary", "secondaryPreferred", "nearest"}

(* A read preference; no tags is <<>>, no maxStalenessSeconds 0.           *)
IsPreference(pref) ==
  /\ pref.mode \in Modes
  /\ pref.tags \in Seq(SUBSET Tag)
  /\ pref.maxStaleness \in Nat
  /\ pref.mode = "primary" => pref.tags = <<>> /\ pref.maxStaleness = 0

(* A member keeps the staleness that its last ping as a secondary gave it, *)
(* also when it is elected; before there is one it is 0.                   *)
ASSUME SelectionAssumption ==
  /\ Tags \in [Host -> SUBSET Tag]
  /\ Latency \in [Host -> Nat] /\ Staleness \in [Host -> Nat]
  /\ Old \subseteq Host /\ AcceptableLatency \in Nat

ForSecondaries(pref) == pref.mode \in {"secondary", "secondaryPreferred"}

PrimaryOf(rs) == {rs.primary} \ {NoServer}

Tagged(s, tags) == tags = <<>> \/ \E i \in DOMAIN tags : tags[i] \subseteq Tags[Name(s)]

(* filterByTags *)
Candidates(rs, pref) ==
  {s \in rs.secondaries \cup (IF ForSecondaries(pref) THEN {} ELSE PrimaryOf(rs)) :
     Tagged(s, pref.tags)}

(* pickNearest and pickNearestMaxStalenessSeconds, which of the candidates *)
(* in turn; the latter looks at no latency.                                *)
PickNearest(rs, pref) ==
  LET servers == Candidates(rs, pref)
      lowest == Min({Latency[Name(s)] : s \in servers})
  IN
  IF pref.maxStaleness # 0
  THEN {s \in servers : Staleness[Name(s)] <= pref.maxStaleness}
  ELSE {s \in servers : Latency[Name(s)] <= lowest + AcceptableLatency}

(* The preference is refused. *)
PickError(rs, pref) ==
  /\ pref.maxStaleness # 0
  /\ \/ \E s \in PrimaryOf(rs) \cup rs.secondaries : Name(s) \in Old
     \/ /\ pref.maxStaleness < 90
        /\ \/ pref.mode = "nearest"
           \/ rs.secondaries # {} /\ (ForSecondaries(pref) \/ ~HasPrimary(rs))

(* Mutant: secondaryPreferred does not fall back to the primary.           *)
MutantNoPrimary(rs, pref) ==
  IF pref.mode = "primary" \/ (pref.mode = "primaryPreferred" /\ HasPrimary(rs))
  THEN PrimaryOf(rs) ELSE PickNearest(rs, pref)

(* pickServer, when the preference is not refused: the member is one of    *)
(* these; with none it returns an error, null, or a primary of null.       *)
PickServer(rs, pref) ==
  LET nearest == PickNearest(rs, pref) IN
  CASE pref.mode = "nearest" -> nearest
    [] pref.mode = "secondary" -> nearest
    [] pref.mode = "secondaryPreferred" -> IF nearest = {} THEN PrimaryOf(rs) ELSE nearest
    [] pref.mode = "primaryPreferred" -> IF HasPrimary(rs) THEN PrimaryOf(rs) ELSE nearest
    [] pref.mode = "primary" -> PrimaryOf(rs)

(* What a preference asks for, in terms of members: those of the mode,     *)
(* fit as to tags and staleness, where the preferred modes take the        *)
(* primary as it is.                                                       *)
WantedServers(rs, pref) ==
  LET fit(servers) ==
        {s \in servers :
           /\ Tagged(s, pref.tags)
           /\ pref.maxStaleness # 0 => Staleness[Name(s)] <= pref.maxStaleness}
      seconds == fit(rs.secondaries)
  IN
  CASE pref.mode = "primary" -> PrimaryOf(rs)
    [] pref.mode = "secondary" -> seconds
    [] pref.mode = "nearest" -> fit(PrimaryOf(rs) \cup rs.secondaries)
    [] OTHER -> PrimaryOf(rs) \cup seconds
=============================================================================
