----------------------------- MODULE ReplSetProofs -----------------------------
(* Theorems about ReplSet, for every set of members, seeds, aliases and     *)
(* roles, and every bound.                                                 *)
EXTENDS ReplSet, WellFoundedInduction, TLAPS

(***************************************************************************)
(* The invariant of the lists                                              *)
(*                                                                         *)
(* It is stated of a state r of the lists: handlers change them in steps.  *)
(***************************************************************************)

Maps == UNION {[D -> Entry] : D \in SUBSET Host}

StateType ==
  [primary : Server \cup {NoServer}, secondaries : SUBSET Server, arbiters : SUBSET Server,
   passives : SUBSET Server, unknownServers : SUBSET Host, set : Maps,
   setName : SetNames \cup {NoName}, maxElectionId : Nat, maxSetVersion : Nat]

(* ListsAgree, of any state. *)
Agree(r) ==
  /\ HasPrimary(r) => Name(r.primary) \in DOMAIN r.set
  /\ \A h \in DOMAIN r.set : r.set[h].type = "RSPrimary" => IsPrimary(r, h)
  /\ \A s \in r.secondaries : ~IsPrimary(r, Name(s))
  /\ \A s, q \in r.secondaries \cup r.arbiters : Name(s) = Name(q) => s = q

(* A member is listed under the name it answers under.  What it is listed  *)
(* as it can be: arbiters are not elected, and do not become secondaries.  *)
(* A primary has told the name of the set.                                 *)
Placed(r) ==
  /\ \A s \in Listed(r) : Me[Name(s)] = Name(s)
  /\ HasPrimary(r) => r.setName = SetName /\ role[Name(r.primary)].home = "secondary"
  /\ \A s \in r.arbiters : role[Name(s)].home = "arbiter"
  /\ \A s \in r.secondaries : role[Name(s)].home # "arbiter"

Sound(r) == r \in StateType /\ Agree(r) /\ Placed(r)

(* A member is what it was at the start, in trouble, or was elected.       *)
RolesOK ==
  \A h \in Members :
    /\ role[h].kind \in {"primary", role[h].home} \cup Troubles
    /\ role[h].home \in Roles \cup {"secondary"}
    /\ role[h].kind = "primary" => role[h].home = "secondary" /\ role[h].electionId >= 1

(* The elections heard of: q comes after r.                                *)
Later(r, q) ==
  /\ q.maxElectionId >= r.maxElectionId
  /\ q.primary \notin {NoServer, r.primary} =>
       q.set[Name(q.primary)].electionId = q.maxElectionId

(***************************************************************************)
(* What the operators on the lists do, field by field                      *)
(***************************************************************************)

LEMMA ServerIs == ASSUME NEW s \in Server PROVE Name(s) \in Host /\ s # NoServer
BY NonesAssumption DEF Server, Name

LEMMA PlainIs ==
  ASSUME NEW type \in EntryTypes, NEW name \in SetNames \cup {NoName}
  PROVE  Plain(type, name) \in Entry /\ Plain(type, name).type = type
BY DEF Plain, Entry

LEMMA EntryOfIs ==
  ASSUME NEW type \in EntryTypes, NEW m, IsAnswer(m)
  PROVE  /\ EntryOf(type, m) \in Entry /\ EntryOf(type, m).type = type
         /\ EntryOf(type, m).electionId = m.electionId
BY DEF EntryOf, Entry, IsAnswer

LEMMA UnknownIs == Unknown \in Entry /\ Unknown.type = "Unknown"
BY PlainIs DEF Unknown, EntryTypes

LEMMA MapIs ==
  ASSUME NEW f \in Maps
  PROVE  /\ DOMAIN f \subseteq Host
         /\ \A h \in DOMAIN f : f[h] \in Entry
         /\ f = [h \in DOMAIN f |-> f[h]]
BY DEF Maps

LEMMA MapMade ==
  ASSUME NEW D \in SUBSET Host, NEW f \in [D -> Entry]
  PROVE  f \in Maps /\ DOMAIN f = D
BY DEF Maps

LEMMA SetEntryIs ==
  ASSUME NEW r \in StateType, NEW h \in Host, NEW e \in Entry
  PROVE  LET t == SetEntry(r, h, e) IN
         /\ t \in StateType
         /\ t.primary = r.primary /\ t.secondaries = r.secondaries
         /\ t.arbiters = r.arbiters /\ t.passives = r.passives
         /\ t.unknownServers = r.unknownServers /\ t.setName = r.setName
         /\ t.maxElectionId = r.maxElectionId /\ t.maxSetVersion = r.maxSetVersion
         /\ DOMAIN t.set = DOMAIN r.set \cup {h} /\ t.set[h] = e
         /\ \A x \in DOMAIN r.set \ {h} : t.set[x] = r.set[x]
<1> DEFINE f == [x \in DOMAIN r.set \cup {h} |-> IF x = h THEN e ELSE r.set[x]]
<1>1. r.set \in Maps
  BY DEF StateType
<1>2. /\ DOMAIN r.set \cup {h} \subseteq Host
      /\ f \in [DOMAIN r.set \cup {h} -> Entry]
  BY <1>1, MapIs
<1>3. /\ f \in Maps /\ DOMAIN f = DOMAIN r.set \cup {h} /\ f[h] = e
      /\ \A x \in DOMAIN r.set \ {h} : f[x] = r.set[x]
  BY <1>2, MapMade
<1>4. SetEntry(r, h, e) = [r EXCEPT !.set = f]
  BY DEF SetEntry
<1> HIDE DEF f
<1> QED
  BY <1>3, <1>4 DEF StateType

LEMMA TakeNameIs ==
  ASSUME NEW r \in StateType, NEW m, IsAnswer(m)
  PROVE  LET t == TakeName(r, m) IN
         /\ t \in StateType
         /\ t.primary = r.primary /\ t.secondaries = r.secondaries
         /\ t.arbiters = r.arbiters /\ t.passives = r.passives
         /\ t.unknownServers = r.unknownServers /\ t.set = r.set
         /\ t.maxElectionId = r.maxElectionId /\ t.maxSetVersion = r.maxSetVersion
         /\ t.setName = IF m.setName = NoName THEN r.setName ELSE m.setName
BY DEF TakeName, StateType, IsAnswer

LEMMA WithoutPrimaryIs ==
  ASSUME NEW r \in StateType, NEW h
  PROVE  LET t == WithoutPrimary(r, h) IN
         /\ t \in StateType
         /\ t.primary = IF IsPrimary(r, h) THEN NoServer ELSE r.primary
         /\ t.secondaries = r.secondaries
         /\ t.arbiters = r.arbiters /\ t.passives = r.passives
         /\ t.unknownServers = r.unknownServers /\ t.set = r.set
         /\ t.maxElectionId = r.maxElectionId /\ t.maxSetVersion = r.maxSetVersion
         /\ t.setName = r.setName
BY DEF WithoutPrimary, StateType

LEMMA RemovedIs ==
  ASSUME NEW r \in StateType, NEW hosts \in SUBSET Host
  PROVE  LET t == Removed(r, hosts) IN
         /\ t \in StateType
         /\ t.primary = IF HasPrimary(r) /\ Name(r.primary) \in hosts THEN NoServer ELSE r.primary
         /\ t.secondaries = {s \in r.secondaries : Name(s) \notin hosts}
         /\ t.arbiters = {s \in r.arbiters : Name(s) \notin hosts}
         /\ t.passives = {s \in r.passives : Name(s) \notin hosts}
         /\ t.maxElectionId = r.maxElectionId /\ t.maxSetVersion = r.maxSetVersion
         /\ t.setName = r.setName
         /\ DOMAIN t.set = DOMAIN r.set
         /\ \A x \in DOMAIN r.set : t.set[x] = IF x \in hosts THEN Unknown ELSE r.set[x]
<1> DEFINE f == [x \in DOMAIN r.set |-> IF x \in hosts THEN Unknown ELSE r.set[x]]
           out(list) == {s \in list : Name(s) \notin hosts}
           p == IF HasPrimary(r) /\ Name(r.primary) \in hosts THEN NoServer ELSE r.primary
           known == r.unknownServers \cup hosts
<1>1. r.set \in Maps
  BY DEF StateType
<1>2. DOMAIN r.set \subseteq Host /\ f \in [DOMAIN r.set -> Entry]
  BY <1>1, MapIs, UnknownIs
<1>3. /\ f \in Maps /\ DOMAIN f = DOMAIN r.set
      /\ \A x \in DOMAIN r.set : f[x] = IF x \in hosts THEN Unknown ELSE r.set[x]
  BY <1>2, MapMade
<1>4. /\ p \in Server \cup {NoServer} /\ known \in SUBSET Host
      /\ out(r.secondaries) \in SUBSET Server /\ out(r.arbiters) \in SUBSET Server
      /\ out(r.passives) \in SUBSET Server
  BY DEF StateType
<1>5. Removed(r, hosts) = [r EXCEPT !.primary = p, !.secondaries = out(r.secondaries),
                                    !.arbiters = out(r.arbiters), !.passives = out(r.passives),
                                    !.unknownServers = known, !.set = f]
  BY DEF Removed
<1> DEFINE s1 == out(r.secondaries)
           s2 == out(r.arbiters)
           s3 == out(r.passives)
<1>6. /\ s1 \in SUBSET Server /\ s2 \in SUBSET Server /\ s3 \in SUBSET Server
      /\ Removed(r, hosts) = [r EXCEPT !.primary = p, !.secondaries = s1, !.arbiters = s2,
                                       !.passives = s3, !.unknownServers = known, !.set = f]
  BY <1>4, <1>5
<1>7. /\ s1 = {s \in r.secondaries : Name(s) \notin hosts}
      /\ s2 = {s \in r.arbiters : Name(s) \notin hosts}
      /\ s3 = {s \in r.passives : Name(s) \notin hosts}
  OBVIOUS
<1>8. p = IF HasPrimary(r) /\ Name(r.primary) \in hosts THEN NoServer ELSE r.primary
  OBVIOUS
<1> DEFINE t == Removed(r, hosts)
<1> HIDE DEF f, p, known, s1, s2, s3, t
<1>9. /\ t \in StateType /\ t.primary = p /\ t.secondaries = s1 /\ t.arbiters = s2
      /\ t.passives = s3 /\ t.set = f /\ t.setName = r.setName
      /\ t.maxElectionId = r.maxElectionId /\ t.maxSetVersion = r.maxSetVersion
  <2>1. t = [r EXCEPT !.primary = p, !.secondaries = s1, !.arbiters = s2,
                      !.passives = s3, !.unknownServers = known, !.set = f]
    BY <1>6 DEF t
  <2>2. t \in StateType
    BY <1>3, <1>4, <1>6, <2>1 DEF StateType
  <2>3. /\ t.primary = p /\ t.secondaries = s1 /\ t.arbiters = s2
        /\ t.passives = s3 /\ t.set = f
    BY <2>1 DEF StateType
  <2>4. /\ t.setName = r.setName
        /\ t.maxElectionId = r.maxElectionId /\ t.maxSetVersion = r.maxSetVersion
    BY <2>1 DEF StateType
  <2> QED
    BY <2>2, <2>3, <2>4
<1> QED
  BY <1>3, <1>7, <1>8, <1>9 DEF t

LEMMA AddHostsIs ==
  ASSUME NEW r \in StateType, NEW hosts \in SUBSET Host
  PROVE  LET t == AddHosts(r, hosts) IN
         /\ t \in StateType
         /\ t.primary = r.primary /\ t.secondaries = r.secondaries
         /\ t.arbiters = r.arbiters /\ t.passives = r.passives /\ t.setName = r.setName
         /\ t.maxElectionId = r.maxElectionId /\ t.maxSetVersion = r.maxSetVersion
         /\ DOMAIN t.set = DOMAIN r.set \cup hosts
         /\ \A x \in DOMAIN r.set : t.set[x] = r.set[x]
         /\ \A x \in hosts \ DOMAIN r.set : t.set[x] = Unknown
<1> DEFINE f == [h \in DOMAIN r.set \cup hosts |-> IF h \in DOMAIN r.set THEN r.set[h] ELSE Unknown]
           known == r.unknownServers
                      \cup {h \in hosts : h \notin DOMAIN r.set \/ r.set[h].type = "Unknown"}
           t == AddHosts(r, hosts)
<1>1. r.set \in Maps
  BY DEF StateType
<1>2. DOMAIN r.set \cup hosts \subseteq Host /\ f \in [DOMAIN r.set \cup hosts -> Entry]
  BY <1>1, MapIs, UnknownIs
<1>3. /\ f \in Maps /\ DOMAIN f = DOMAIN r.set \cup hosts
      /\ \A x \in DOMAIN r.set : f[x] = r.set[x]
      /\ \A x \in hosts \ DOMAIN r.set : f[x] = Unknown
  BY <1>2, MapMade
<1>4. known \in SUBSET Host
  BY DEF StateType
<1>5. t = [r EXCEPT !.unknownServers = known, !.set = f]
  BY DEF AddHosts
<1> HIDE DEF f, known, t
<1>6. /\ t \in StateType
      /\ t.primary = r.primary /\ t.secondaries = r.secondaries
      /\ t.arbiters = r.arbiters /\ t.passives = r.passives /\ t.setName = r.setName
      /\ t.maxElectionId = r.maxElectionId /\ t.maxSetVersion = r.maxSetVersion
      /\ t.set = f
  BY <1>3, <1>4, <1>5 DEF StateType
<1> QED
  BY <1>3, <1>6 DEF t

(***************************************************************************)
(* What an answer does to the lists                                        *)
(***************************************************************************)

(* The parts of Sound and Later depend on these fields. *)
SameLists(r, q) ==
  /\ q.primary = r.primary /\ q.secondaries = r.secondaries
  /\ q.arbiters = r.arbiters /\ q.passives = r.passives

(* A member m answers as host h; it is not down. *)
Answers(h, m) ==
  /\ IsAnswer(m) /\ m.me = Me[h] /\ m.setName = SetName
  /\ m.kind \in {"primary", "secondary", "arbiter", "passive", "other", "ghost"}
  /\ m.kind = "primary" => role[Me[h]].home = "secondary" /\ m.electionId >= 1
  /\ m.kind \in {"secondary", "arbiter", "passive"} => role[Me[h]].home = m.kind

(* The lists after an update of r. *)
Follows(r, q) == Sound(q) /\ Later(r, q)

LEMMA KeptPrimary ==
  ASSUME NEW r, NEW q, q.maxElectionId >= r.maxElectionId, q.primary \in {NoServer, r.primary}
  PROVE  Later(r, q)
BY DEF Later

LEMMA AddHostsSound ==
  ASSUME NEW r, Sound(r), NEW hosts \in SUBSET Host
  PROVE  /\ Sound(AddHosts(r, hosts)) /\ SameLists(r, AddHosts(r, hosts))
         /\ AddHosts(r, hosts).maxElectionId = r.maxElectionId
<1> DEFINE q == AddHosts(r, hosts)
<1>1. /\ q \in StateType
      /\ q.primary = r.primary /\ q.secondaries = r.secondaries
      /\ q.arbiters = r.arbiters /\ q.passives = r.passives /\ q.setName = r.setName
      /\ q.maxElectionId = r.maxElectionId
      /\ DOMAIN q.set = DOMAIN r.set \cup hosts
      /\ \A x \in DOMAIN r.set : q.set[x] = r.set[x]
      /\ \A x \in hosts \ DOMAIN r.set : q.set[x] = Unknown
  BY AddHostsIs DEF Sound
<1> HIDE DEF q
<1>2. Agree(q)
  BY <1>1, UnknownIs DEF Sound, Agree, HasPrimary, IsPrimary
<1>3. Placed(q)
  BY <1>1 DEF Sound, Placed, Listed, HasPrimary
<1>4. Sound(q) /\ SameLists(r, q) /\ q.maxElectionId = r.maxElectionId
  BY <1>1, <1>2, <1>3 DEF Sound, SameLists
<1> QED
  BY <1>4 DEF q

LEMMA RemovedSound ==
  ASSUME NEW r, Sound(r), NEW hosts \in SUBSET Host
  PROVE  Follows(r, Removed(r, hosts))
<1> DEFINE q == Removed(r, hosts)
<1>1. /\ q \in StateType
      /\ q.primary = IF HasPrimary(r) /\ Name(r.primary) \in hosts THEN NoServer ELSE r.primary
      /\ q.secondaries \subseteq r.secondaries /\ q.arbiters \subseteq r.arbiters
      /\ q.passives \subseteq r.passives
      /\ q.maxElectionId = r.maxElectionId /\ q.setName = r.setName
      /\ DOMAIN q.set = DOMAIN r.set
      /\ \A x \in DOMAIN r.set : q.set[x] = IF x \in hosts THEN Unknown ELSE r.set[x]
  BY RemovedIs DEF Sound
<1> HIDE DEF q
<1>2. Agree(q)
  BY <1>1, UnknownIs DEF Sound, Agree, HasPrimary, IsPrimary
<1>3. Placed(q)
  BY <1>1 DEF Sound, Placed, Listed, HasPrimary
<1>4. Later(r, q)
  BY <1>1, KeptPrimary DEF Sound, StateType
<1>5. Follows(r, q)
  BY <1>1, <1>2, <1>3, <1>4 DEF Sound, Follows
<1> QED
  BY <1>5 DEF q

LEMMA RemoveSound ==
  ASSUME NEW r, Sound(r), NEW h \in Host, NEW open, NEW force \in BOOLEAN
  PROVE  Follows(r, Remove(r, h, open, force))
BY RemovedSound DEF Remove, RemoveClosed

LEMMA RemoveClosedSound ==
  ASSUME NEW r, Sound(r), NEW hosts \in SUBSET Host, NEW open
  PROVE  Follows(r, RemoveClosed(r, hosts, open))
BY RemovedSound DEF RemoveClosed

(* An entry that says of no one that it is the primary. *)
LEMMA SetEntrySound ==
  ASSUME NEW r, Sound(r), NEW h \in Host, NEW e \in Entry, e.type # "RSPrimary"
  PROVE  /\ Sound(SetEntry(r, h, e)) /\ SameLists(r, SetEntry(r, h, e))
         /\ SetEntry(r, h, e).maxElectionId = r.maxElectionId
         /\ SetEntry(r, h, e).setName = r.setName
<1> DEFINE q == SetEntry(r, h, e)
<1>1. /\ q \in StateType
      /\ q.primary = r.primary /\ q.secondaries = r.secondaries
      /\ q.arbiters = r.arbiters /\ q.passives = r.passives
      /\ q.setName = r.setName /\ q.maxElectionId = r.maxElectionId
      /\ DOMAIN q.set = DOMAIN r.set \cup {h} /\ q.set[h] = e
      /\ \A x \in DOMAIN r.set \ {h} : q.set[x] = r.set[x]
  BY SetEntryIs DEF Sound
<1> HIDE DEF q
<1>2. Agree(q)
  BY <1>1 DEF Sound, Agree, HasPrimary, IsPrimary
<1>3. Placed(q)
  BY <1>1 DEF Sound, Placed, Listed, HasPrimary
<1>4. /\ Sound(q) /\ SameLists(r, q) /\ q.maxElectionId = r.maxElectionId
      /\ q.setName = r.setName
  BY <1>1, <1>2, <1>3 DEF Sound, SameLists
<1> QED
  BY <1>4 DEF q

LEMMA SetEntryFollows ==
  ASSUME NEW r, Sound(r), NEW h \in Host, NEW e \in Entry, e.type # "RSPrimary"
  PROVE  Follows(r, SetEntry(r, h, e))
<1>1. SetEntry(r, h, e).maxElectionId >= r.maxElectionId
  BY SetEntrySound DEF Sound, StateType
<1> QED
  BY <1>1, SetEntrySound, KeptPrimary DEF SameLists, Follows

LEMMA TakeNameSound ==
  ASSUME NEW r, Sound(r), NEW h, NEW m, Answers(h, m)
  PROVE  /\ Sound(TakeName(r, m)) /\ SameLists(r, TakeName(r, m))
         /\ TakeName(r, m).maxElectionId = r.maxElectionId
<1> DEFINE q == TakeName(r, m)
<1>1. /\ q \in StateType
      /\ q.primary = r.primary /\ q.secondaries = r.secondaries
      /\ q.arbiters = r.arbiters /\ q.passives = r.passives
      /\ q.set = r.set /\ q.maxElectionId = r.maxElectionId
      /\ q.setName = IF m.setName = NoName THEN r.setName ELSE m.setName
  BY TakeNameIs DEF Sound, Answers
<1> HIDE DEF q
<1>2. Agree(q)
  BY <1>1 DEF Sound, Agree, HasPrimary, IsPrimary
<1>3. Placed(q)
  BY <1>1 DEF Sound, Placed, Listed, HasPrimary, Answers
<1>4. Sound(q) /\ SameLists(r, q) /\ q.maxElectionId = r.maxElectionId
  BY <1>1, <1>2, <1>3 DEF Sound, SameLists
<1> QED
  BY <1>4 DEF q

LEMMA WithoutPrimarySound ==
  ASSUME NEW r, Sound(r), NEW h \in Host, NEW e \in Entry, e.type # "RSPrimary"
  PROVE  /\ Sound(SetEntry(WithoutPrimary(r, h), h, e))
         /\ SetEntry(WithoutPrimary(r, h), h, e).primary \in {NoServer, r.primary}
         /\ SetEntry(WithoutPrimary(r, h), h, e).maxElectionId = r.maxElectionId
<1> DEFINE w == WithoutPrimary(r, h)
           q == SetEntry(w, h, e)
<1>1. /\ w \in StateType
      /\ w.primary = IF IsPrimary(r, h) THEN NoServer ELSE r.primary
      /\ w.secondaries = r.secondaries
      /\ w.arbiters = r.arbiters /\ w.passives = r.passives
      /\ w.set = r.set /\ w.maxElectionId = r.maxElectionId /\ w.setName = r.setName
  BY WithoutPrimaryIs DEF Sound
<1> HIDE DEF w
<1>2. /\ q \in StateType
      /\ q.primary = w.primary /\ q.secondaries = w.secondaries
      /\ q.arbiters = w.arbiters /\ q.passives = w.passives
      /\ q.setName = w.setName /\ q.maxElectionId = w.maxElectionId
      /\ DOMAIN q.set = DOMAIN w.set \cup {h} /\ q.set[h] = e
      /\ \A x \in DOMAIN w.set \ {h} : q.set[x] = w.set[x]
  BY <1>1, SetEntryIs
<1> HIDE DEF q
<1>3. Agree(q)
  BY <1>1, <1>2 DEF Sound, Agree, HasPrimary, IsPrimary
<1>4. Placed(q)
  BY <1>1, <1>2 DEF Sound, Placed, Listed, HasPrimary
<1>5. Sound(q) /\ q.primary \in {NoServer, r.primary} /\ q.maxElectionId = r.maxElectionId
  BY <1>1, <1>2, <1>3, <1>4 DEF Sound
<1> QED
  BY <1>5 DEF q, w

(* A ghost, and a member in no role. *)
LEMMA RolelessSound ==
  ASSUME NEW r, Sound(r), NEW h \in Host, NEW m, Answers(h, m),
         NEW e \in Entry, e.type # "RSPrimary"
  PROVE  /\ Follows(r, TakeName(SetEntry(WithoutPrimary(r, h), h, e), m))
         /\ Follows(r, TakeName(SetEntry(r, h, e), m))
<1>1. ASSUME NEW t, Sound(t), t.primary \in {NoServer, r.primary},
             t.maxElectionId = r.maxElectionId
      PROVE  Follows(r, TakeName(t, m))
  <2>1. /\ Sound(TakeName(t, m)) /\ TakeName(t, m).primary = t.primary
        /\ TakeName(t, m).maxElectionId = r.maxElectionId
    BY <1>1, TakeNameSound DEF SameLists
  <2>2. r.maxElectionId >= r.maxElectionId
    BY DEF Sound, StateType
  <2> QED
    BY <1>1, <2>1, <2>2, KeptPrimary DEF Follows
<1> QED
  BY <1>1, WithoutPrimarySound, SetEntrySound DEF SameLists

(* The server takes the place of the primary that there was, if any.       *)
LEMMA InstallSound ==
  ASSUME NEW r \in StateType, Placed(r), NEW s \in Server, NEW m, Answers(Name(s), m),
         m.me = Name(s), m.kind = "primary", r.maxElectionId = m.electionId,
         \A x \in DOMAIN r.set : r.set[x].type = "RSPrimary" => x = Name(s),
         \A a, b \in r.secondaries \cup r.arbiters : Name(a) = Name(b) => a = b
  PROVE  /\ Sound(Install(r, s, m))
         /\ Install(r, s, m).maxElectionId = m.electionId
         /\ Install(r, s, m).primary = s
         /\ Install(r, s, m).set[Name(s)].electionId = m.electionId
<1> DEFINE h == Name(s)
           out(list) == Unlist(list, h)
           e == EntryOf("RSPrimary", m)
           p == [r EXCEPT !.primary = s, !.secondaries = Unlist(@, h),
                          !.passives = Unlist(@, h), !.unknownServers = @ \ {h}]
           w == SetEntry(p, h, e)
           q == TakeName(w, m)
<1>1. /\ h \in Host /\ s # NoServer /\ IsAnswer(m)
      /\ e \in Entry /\ e.type = "RSPrimary" /\ e.electionId = m.electionId
  BY ServerIs, EntryOfIs DEF Answers, EntryTypes
<1>2. /\ Unlist(r.secondaries, h) \in SUBSET Server
      /\ Unlist(r.passives, h) \in SUBSET Server
      /\ Unlist(r.secondaries, h) \subseteq r.secondaries
      /\ Unlist(r.passives, h) \subseteq r.passives
      /\ \A x \in Unlist(r.secondaries, h) : Name(x) # h
  BY DEF StateType, Unlist, Named
<1>3. /\ p \in StateType /\ p.primary = s /\ p.secondaries = Unlist(r.secondaries, h)
      /\ p.passives = Unlist(r.passives, h) /\ p.arbiters = r.arbiters
      /\ p.set = r.set /\ p.maxElectionId = r.maxElectionId /\ p.setName = r.setName
  BY <1>2 DEF StateType
<1>4. Install(r, s, m) = q
  BY DEF Install
<1> HIDE DEF p, e
<1>5. /\ w \in StateType
      /\ w.primary = p.primary /\ w.secondaries = p.secondaries
      /\ w.arbiters = p.arbiters /\ w.passives = p.passives
      /\ w.setName = p.setName /\ w.maxElectionId = p.maxElectionId
      /\ DOMAIN w.set = DOMAIN p.set \cup {h} /\ w.set[h] = e
      /\ \A x \in DOMAIN p.set \ {h} : w.set[x] = p.set[x]
  BY <1>1, <1>3, SetEntryIs
<1> HIDE DEF w
<1>6. /\ q \in StateType
      /\ q.primary = w.primary /\ q.secondaries = w.secondaries
      /\ q.arbiters = w.arbiters /\ q.passives = w.passives
      /\ q.set = w.set /\ q.maxElectionId = w.maxElectionId
      /\ q.setName = IF m.setName = NoName THEN w.setName ELSE m.setName
  BY <1>1, <1>5, TakeNameIs
<1> HIDE DEF q, h
<1>7. q.setName = SetName
  BY <1>6, SetAssumption, NonesAssumption DEF Answers
<1>8. /\ q.primary = s /\ DOMAIN q.set = DOMAIN r.set \cup {h} /\ q.set[h] = e
      /\ q.secondaries \subseteq r.secondaries /\ q.passives \subseteq r.passives
      /\ q.arbiters = r.arbiters /\ q.maxElectionId = m.electionId
      /\ \A x \in DOMAIN r.set \ {h} : q.set[x] = r.set[x]
      /\ \A x \in q.secondaries : Name(x) # h
  BY <1>2, <1>3, <1>5, <1>6
<1>9. Agree(q)
  BY <1>1, <1>8 DEF Agree, HasPrimary, IsPrimary, h
<1>10. Placed(q)
  <2>1. Me[Name(s)] = Name(s) /\ role[Name(s)].home = "secondary"
    BY <1>1 DEF Answers, h
  <2>2. \A x \in Listed(q) : x = s \/ x \in Listed(r)
    BY <1>8 DEF Listed, HasPrimary
  <2> QED
    BY <1>7, <1>8, <2>1, <2>2 DEF Placed
<1>11. Sound(q)
  BY <1>6, <1>9, <1>10 DEF Sound
<1> QED
  BY <1>1, <1>4, <1>8, <1>11 DEF h

(* The elections that are noted do not change the lists. *)
LEMMA NotedSound ==
  ASSUME NEW r, Sound(r), NEW q \in StateType, SameLists(r, q), q.set = r.set,
         q.setName = r.setName
  PROVE  Sound(q)
<1>1. Agree(q) /\ Placed(q)
  BY DEF Sound, Agree, Placed, Listed, HasPrimary, IsPrimary, SameLists
<1> QED
  BY <1>1 DEF Sound

(* What Update may do to the lists and the objects. *)
Fine(r, u) ==
  /\ Follows(r, u.rs) /\ u.destroyed \subseteq Server
  /\ u.result \in {"kept", "joined", "error"}

LEMMA FollowsItself == ASSUME NEW r, Sound(r) PROVE Follows(r, r)
<1>1. r.maxElectionId >= r.maxElectionId
  BY DEF Sound, StateType
<1> QED
  BY <1>1 DEF Follows, Later

LEMMA KeptFine == ASSUME NEW r, NEW q, Follows(r, q) PROVE Fine(r, Kept(q))
BY DEF Fine, Kept

LEMMA JoinedFine ==
  ASSUME NEW r, NEW q, Follows(r, q), NEW D \in SUBSET Server
  PROVE  Fine(r, Joined(q, D))
BY DEF Fine, Joined

LEMMA FirstPrimaryFine ==
  ASSUME NEW r, Sound(r), NEW s \in Server, NEW m, Answers(Name(s), m), m.me = Name(s),
         m.kind = "primary", ~HasPrimary(r)
  PROVE  Fine(r, FirstPrimary(r, s, m))
<1> DEFINE compared == r.maxElectionId # 0 /\ m.electionId # 0
           e == IF m.electionId # 0 THEN m.electionId ELSE r.maxElectionId
           v == IF compared THEN m.setVersion ELSE r.maxSetVersion
           noted == [r EXCEPT !.maxElectionId = e, !.maxSetVersion = v]
<1>1. /\ r \in StateType /\ m.electionId \in Nat /\ m.setVersion \in Nat
      /\ m.electionId >= 1 /\ r.maxElectionId \in Nat /\ r.maxSetVersion \in Nat
  BY DEF Answers, IsAnswer, Sound, StateType
<1>2. e = m.electionId /\ v \in Nat
  BY <1>1
<1>3. noted = [r EXCEPT !.maxElectionId = IF m.electionId # 0 THEN m.electionId ELSE @,
                        !.maxSetVersion = IF compared THEN m.setVersion ELSE @]
  BY <1>1 DEF StateType
<1>5. FirstPrimary(r, s, m) \in
        {[Kept(r) EXCEPT !.result = "error"], Kept(r)}
          \cup (IF OlderThan(m, r.maxElectionId, r.maxSetVersion) THEN {}
                ELSE {Joined(noted, {}), Joined(Install(noted, s, m), {})})
  BY <1>3 DEF FirstPrimary
<1>8. noted = [r EXCEPT !.maxElectionId = e, !.maxSetVersion = v]
  OBVIOUS
<1> HIDE DEF e, v, noted
<1>9. /\ noted \in StateType /\ SameLists(r, noted) /\ noted.set = r.set
      /\ noted.setName = r.setName /\ noted.maxElectionId = e
  BY <1>1, <1>2, <1>8 DEF StateType, SameLists
<1>4. /\ Sound(noted) /\ SameLists(r, noted) /\ noted.set = r.set
      /\ noted.maxElectionId = e
  BY <1>9, NotedSound
<1>6. Fine(r, [Kept(r) EXCEPT !.result = "error"]) /\ Fine(r, Kept(r))
  BY FollowsItself DEF Fine, Kept
<1>7. ASSUME ~OlderThan(m, r.maxElectionId, r.maxSetVersion)
      PROVE  Fine(r, Joined(noted, {})) /\ Fine(r, Joined(Install(noted, s, m), {}))
  <2>1. m.electionId >= r.maxElectionId
    BY <1>1, <1>7 DEF OlderThan
  <2>2. Follows(r, noted)
    BY <1>2, <1>4, <2>1, KeptPrimary DEF Follows, SameLists
  <2>3. \A x \in DOMAIN noted.set : noted.set[x].type = "RSPrimary" => x = Name(s)
    BY <1>4 DEF Sound, Agree, IsPrimary, HasPrimary, SameLists
  <2>4. /\ Sound(Install(noted, s, m))
        /\ Install(noted, s, m).maxElectionId = m.electionId
        /\ Install(noted, s, m).primary = s
        /\ Install(noted, s, m).set[Name(s)].electionId = m.electionId
    BY <1>2, <1>4, <2>3, InstallSound DEF Sound, Agree
  <2>5. Follows(r, Install(noted, s, m))
    BY <2>1, <2>4 DEF Follows, Later
  <2> QED
    BY <2>2, <2>5, JoinedFine
<1> QED
  BY <1>5, <1>6, <1>7

LEMMA NextPrimaryFine ==
  ASSUME NEW r, Sound(r), NEW s \in Server, NEW m, Answers(Name(s), m), m.me = Name(s),
         m.kind = "primary", HasPrimary(r)
  PROVE  Fine(r, NextPrimary(r, s, m))
<1> DEFINE old == Name(r.primary)
           e == IF m.electionId # 0 THEN m.electionId ELSE r.maxElectionId
           v == IF m.electionId # 0 /\ r.maxElectionId = 0
                THEN r.maxSetVersion ELSE m.setVersion
           noted == [r EXCEPT !.maxElectionId = e, !.maxSetVersion = v]
           left == SetEntry(noted, old, Unknown)
           next == Install(left, s, m)
<1>1. /\ r \in StateType /\ m.electionId \in Nat /\ m.setVersion \in Nat
      /\ m.electionId >= 1 /\ r.maxElectionId \in Nat /\ r.maxSetVersion \in Nat
      /\ r.primary \in Server /\ old \in Host
  BY ServerIs DEF Answers, IsAnswer, Sound, StateType, HasPrimary
<1>2. e = m.electionId /\ v \in Nat
  BY <1>1
<1>3. noted = [r EXCEPT !.maxElectionId = IF m.electionId # 0 THEN m.electionId ELSE @,
                        !.maxSetVersion = IF m.electionId # 0 /\ r.maxElectionId = 0
                                          THEN @ ELSE m.setVersion]
  BY <1>1 DEF StateType
<1>4. \/ NextPrimary(r, s, m) = Kept(r)
      \/ ~Outdated(r, m) /\ NextPrimary(r, s, m) = Joined(next, {r.primary})
  BY <1>3 DEF NextPrimary
<1>5. noted = [r EXCEPT !.maxElectionId = e, !.maxSetVersion = v]
  OBVIOUS
<1> HIDE DEF e, v, noted
<1>6. /\ noted \in StateType /\ SameLists(r, noted) /\ noted.set = r.set
      /\ noted.setName = r.setName /\ noted.maxElectionId = e
  BY <1>1, <1>2, <1>5 DEF StateType, SameLists
<1>7. Sound(noted)
  BY <1>6, NotedSound
<1>8. /\ left \in StateType
      /\ left.primary = noted.primary /\ left.secondaries = noted.secondaries
      /\ left.arbiters = noted.arbiters /\ left.passives = noted.passives
      /\ left.maxElectionId = noted.maxElectionId
      /\ DOMAIN left.set = DOMAIN noted.set \cup {old} /\ left.set[old] = Unknown
      /\ \A x \in DOMAIN noted.set \ {old} : left.set[x] = noted.set[x]
  BY <1>1, <1>6, SetEntryIs, UnknownIs
<1>9. Sound(left)
  BY <1>1, <1>7, UnknownIs, SetEntrySound
<1>10. \A x \in DOMAIN left.set : left.set[x].type = "RSPrimary" => x = Name(s)
  BY <1>6, <1>8, UnknownIs DEF Sound, Agree, IsPrimary, HasPrimary, SameLists
<1> HIDE DEF left
<1>11. /\ Sound(next) /\ next.maxElectionId = m.electionId /\ next.primary = s
       /\ next.set[Name(s)].electionId = m.electionId
  BY <1>2, <1>6, <1>8, <1>9, <1>10, InstallSound DEF Sound, Agree
<1> HIDE DEF next
<1>12. ASSUME ~Outdated(r, m) PROVE Fine(r, Joined(next, {r.primary}))
  <2>1. m.electionId >= r.maxElectionId
    BY <1>1, <1>12 DEF Outdated
  <2>2. Follows(r, next)
    BY <1>11, <2>1 DEF Follows, Later
  <2> QED
    BY <1>1, <2>2, JoinedFine
<1> QED
  BY <1>4, <1>12, FollowsItself, KeptFine

(* A member that is in none of its list's entries joins it. *)
LEMMA JoinFine ==
  ASSUME NEW r, Sound(r), NEW s \in Server, NEW m, Answers(Name(s), m), m.me = Name(s),
         NEW list, NEW type,
         \/ /\ list = "secondaries" /\ type = "RSSecondary" /\ m.kind \in SecondaryKinds
            /\ Named(r.secondaries, Name(s)) = {}
         \/ /\ list = "arbiters" /\ type = "RSArbiter" /\ m.kind = "arbiter"
            /\ Named(r.arbiters, Name(s)) = {}
         \/ list = "passives" /\ type = "RSSecondary" /\ m.kind = "passive"
  PROVE  Fine(r, Join(r, s, m, list, type))
<1> DEFINE h == Name(s)
           e == EntryOf(type, m)
           p == [r EXCEPT ![list] = @ \cup {s}, !.unknownServers = @ \ {h}]
           q == SetEntry(p, h, e)
           z == [q EXCEPT !.primary = NoServer]
<1>1. /\ h \in Host /\ IsAnswer(m) /\ e \in Entry /\ e.type = type
  BY ServerIs, EntryOfIs DEF Answers, EntryTypes
<1>2. /\ p \in StateType /\ p.primary = r.primary
      /\ p.secondaries = IF list = "secondaries" THEN r.secondaries \cup {s} ELSE r.secondaries
      /\ p.arbiters = IF list = "arbiters" THEN r.arbiters \cup {s} ELSE r.arbiters
      /\ p.passives = IF list = "passives" THEN r.passives \cup {s} ELSE r.passives
      /\ p.set = r.set /\ p.maxElectionId = r.maxElectionId /\ p.setName = r.setName
  <2>1. r \in StateType
    BY DEF Sound
  <2>2. CASE list = "secondaries"
    BY <2>1, <2>2 DEF StateType
  <2>3. CASE list = "arbiters"
    BY <2>1, <2>3 DEF StateType
  <2>4. CASE list = "passives"
    BY <2>1, <2>4 DEF StateType
  <2> QED
    BY <2>2, <2>3, <2>4
<1>3. Join(r, s, m, list, type) = IF type # "RSArbiter" /\ IsPrimary(r, h)
                                  THEN Joined(z, {s}) ELSE Joined(q, {})
  BY DEF Join
<1> HIDE DEF p, e
<1>4. /\ q \in StateType
      /\ q.primary = r.primary /\ q.secondaries = p.secondaries
      /\ q.arbiters = p.arbiters /\ q.passives = p.passives
      /\ q.setName = r.setName /\ q.maxElectionId = r.maxElectionId
      /\ DOMAIN q.set = DOMAIN r.set \cup {h} /\ q.set[h] = e
      /\ \A x \in DOMAIN r.set \ {h} : q.set[x] = r.set[x]
  BY <1>1, <1>2, SetEntryIs
<1> HIDE DEF q
<1>5. /\ z \in StateType
      /\ z.primary = NoServer /\ z.secondaries = p.secondaries
      /\ z.arbiters = p.arbiters /\ z.passives = p.passives
      /\ z.setName = r.setName /\ z.maxElectionId = r.maxElectionId
      /\ z.set = q.set
  BY <1>4 DEF StateType
<1> HIDE DEF z, h
<1>6. /\ Me[h] = h
      /\ list = "arbiters" => role[h].home = "arbiter" /\ ~IsPrimary(r, h)
      /\ list = "secondaries" => role[h].home # "arbiter"
  BY DEF Answers, SecondaryKinds, Sound, Placed, IsPrimary, h
<1>7. \A a, b \in p.secondaries \cup p.arbiters : Name(a) = Name(b) => a = b
  BY <1>2, <1>6 DEF Sound, Agree, Placed, Named, h
<1>8. ASSUME NEW t \in {q, z}
      PROVE  Placed(t)
  <2>1. /\ \A x \in Listed(t) : x \in Listed(r) \/ x = s
        /\ t.primary \in {NoServer, r.primary} /\ t.setName = r.setName
        /\ t.arbiters = p.arbiters /\ t.secondaries = p.secondaries
    BY <1>2, <1>4, <1>5 DEF Listed
  <2> QED
    BY <1>2, <1>6, <2>1 DEF Sound, Placed, HasPrimary, h
<1>9. (IsPrimary(r, h) => Agree(z)) /\ (~IsPrimary(r, h) => Agree(q)) /\ (type = "RSArbiter" => ~IsPrimary(r, h))
  <2>1. type # "RSPrimary" /\ (type = "RSArbiter" => list = "arbiters")
    OBVIOUS
  <2>2. \A x \in p.secondaries : x \in r.secondaries \/ Name(x) = h
    BY <1>2 DEF h
  <2>3. IsPrimary(r, h) => Agree(z)
    BY <1>1, <1>4, <1>5, <1>7, <2>1 DEF Sound, Agree, IsPrimary, HasPrimary
  <2> QED
    BY <1>1, <1>4, <1>5, <1>6, <1>7, <2>1, <2>2 DEF Sound, Agree, IsPrimary, HasPrimary
<1>10. /\ IsPrimary(r, h) => Follows(r, z)
       /\ ~IsPrimary(r, h) => Follows(r, q)
  <2>1. r.maxElectionId \in Nat
    BY DEF Sound, StateType
  <2> QED
    BY <1>4, <1>5, <1>8, <1>9, <2>1, KeptPrimary DEF Sound, Follows
<1> QED
  BY <1>3, <1>9, <1>10, JoinedFine

(* The member tells who its primary is. *)
LEMMA PossibleIs == Plain("PossiblePrimary", NoName) \in Entry
                    /\ Plain("PossiblePrimary", NoName).type = "PossiblePrimary"
BY PlainIs DEF EntryTypes

LEMMA MemberFine ==
  ASSUME NEW r, Sound(r), NEW s \in Server, NEW m, Answers(Name(s), m), m.me = Name(s),
         m.kind \in {"secondary", "arbiter", "passive"}
  PROVE  Fine(r, Member(r, s, m))
<1> DEFINE h == Name(s)
           known == IF HasPrimary(r) \/ m.primary = NoHost THEN r
                    ELSE SetEntry(r, m.primary, Plain("PossiblePrimary", NoName))
<1>1. /\ h \in Host /\ IsAnswer(m) /\ r.maxElectionId \in Nat
  BY ServerIs DEF Answers, Sound, StateType
<1>2. /\ Sound(known) /\ SameLists(r, known) /\ known.maxElectionId = r.maxElectionId
      /\ \A x \in DOMAIN known.set : known.set[x].type = "RSPrimary" => IsPrimary(r, x)
  <2>1. CASE known = r
    BY <2>1 DEF SameLists, Sound, Agree
  <2>2. CASE known # r
    <3>1. known = SetEntry(r, m.primary, Plain("PossiblePrimary", NoName)) /\ m.primary \in Host
      BY <1>1, <2>2 DEF IsAnswer
    <3> HIDE DEF known
    <3>2. /\ Sound(known) /\ SameLists(r, known) /\ known.maxElectionId = r.maxElectionId
      BY <3>1, SetEntrySound, PossibleIs
    <3> QED
      BY <3>2 DEF Sound, Agree, SameLists, IsPrimary, HasPrimary
  <2> QED
    BY <2>1, <2>2
<1>3. \A u : Fine(known, u) => Fine(r, u)
  BY <1>2 DEF Fine, Follows, Later, SameLists
<1>4. Member(r, s, m) =
        IF m.kind \in SecondaryKinds /\ MayJoin(r, m, r.secondaries, h)
        THEN Join(known, s, m, "secondaries", "RSSecondary")
        ELSE IF m.kind = "arbiter" /\ MayJoin(r, m, r.arbiters, h)
        THEN Join(known, s, m, "arbiters", "RSArbiter")
        ELSE IF m.kind = "passive" /\ MayJoin(r, m, r.passives, h)
        THEN Join(known, s, m, "passives", "RSSecondary")
        ELSE StepDown(known, h)
  BY DEF Member
<1> HIDE DEF known
<1>5. ASSUME m.kind \in SecondaryKinds, MayJoin(r, m, r.secondaries, h)
      PROVE  Fine(r, Join(known, s, m, "secondaries", "RSSecondary"))
  BY <1>2, <1>3, <1>5, JoinFine DEF MayJoin, SameLists
<1>6. ASSUME m.kind = "arbiter", MayJoin(r, m, r.arbiters, h)
      PROVE  Fine(r, Join(known, s, m, "arbiters", "RSArbiter"))
  BY <1>2, <1>3, <1>6, JoinFine DEF MayJoin, SameLists
<1>7. ASSUME m.kind = "passive"
      PROVE  Fine(r, Join(known, s, m, "passives", "RSSecondary"))
  BY <1>2, <1>3, <1>7, JoinFine
<1>8. ASSUME ~(m.kind \in SecondaryKinds /\ MayJoin(r, m, r.secondaries, h))
      PROVE  Fine(r, StepDown(known, h))
  <2>1. ASSUME h \in DOMAIN known.set, known.set[h].type = "RSPrimary"
        PROVE  FALSE
    <3>1. IsPrimary(r, h)
      BY <1>2, <2>1
    <3>2. m.kind = "secondary" /\ r.setName = m.setName /\ m.setName # NoName
      BY <3>1, SetAssumption, NonesAssumption DEF Answers, Sound, Placed, IsPrimary
    <3>3. Named(r.secondaries, h) = {}
      BY <3>1 DEF Sound, Agree, Named
    <3> QED
      BY <1>8, <3>2, <3>3 DEF MayJoin, SecondaryKinds
  <2>2. StepDown(known, h) = Kept(known)
    BY <2>1 DEF StepDown
  <2>3. Fine(known, Kept(known))
    BY <1>2, FollowsItself, KeptFine
  <2> QED
    BY <1>3, <2>2, <2>3
<1> QED
  BY <1>4, <1>5, <1>6, <1>7, <1>8

LEMMA MisnamedFine ==
  ASSUME NEW r, Sound(r), NEW s \in Server, NEW m, Answers(Name(s), m), m.me # Name(s)
  PROVE  Fine(r, Misnamed(r, s, m))
<1> DEFINE h == Name(s)
           f == [x \in DOMAIN r.set \ {h} |-> r.set[x]]
           gone == [r EXCEPT !.set = f, !.unknownServers = @ \ {h}]
           q == IF HasPrimary(r) \/ m.primary = NoHost THEN gone
                ELSE SetEntry(gone, m.primary, Plain("PossiblePrimary", NoName))
<1>1. /\ r \in StateType /\ h \in Host /\ IsAnswer(m) /\ r.maxElectionId \in Nat
      /\ ~IsPrimary(r, h)
  BY ServerIs DEF Answers, Sound, Placed, Listed, StateType, IsPrimary, HasPrimary
<1>2. r.set \in Maps
  BY <1>1 DEF StateType
<1>3. /\ f \in Maps /\ DOMAIN f = DOMAIN r.set \ {h}
      /\ \A x \in DOMAIN f : f[x] = r.set[x]
  <2>1. DOMAIN r.set \ {h} \in SUBSET Host /\ f \in [DOMAIN r.set \ {h} -> Entry]
    BY <1>2, MapIs
  <2> QED
    BY <2>1, MapMade
<1>4. Misnamed(r, s, m) = [rs |-> q, result |-> "kept", destroyed |-> {s}]
  BY DEF Misnamed
<1> HIDE DEF f
<1>5. /\ gone \in StateType /\ SameLists(r, gone) /\ gone.set = f
      /\ gone.setName = r.setName /\ gone.maxElectionId = r.maxElectionId
  BY <1>1, <1>3 DEF StateType, SameLists
<1> HIDE DEF gone
<1>6. Sound(gone)
  <2>1. Agree(gone)
    BY <1>1, <1>3, <1>5 DEF Sound, Agree, SameLists, IsPrimary, HasPrimary
  <2>2. Placed(gone)
    BY <1>5 DEF Sound, Placed, Listed, SameLists, HasPrimary
  <2> QED
    BY <1>5, <2>1, <2>2 DEF Sound
<1>7. Sound(q) /\ SameLists(r, q) /\ q.maxElectionId = r.maxElectionId
  <2>1. m.primary \in Host \/ m.primary = NoHost
    BY <1>1 DEF IsAnswer
  <2>2. m.primary \in Host =>
          LET t == SetEntry(gone, m.primary, Plain("PossiblePrimary", NoName)) IN
          Sound(t) /\ SameLists(gone, t) /\ t.maxElectionId = gone.maxElectionId
    BY <1>6, SetEntrySound, PossibleIs
  <2> QED
    BY <1>5, <1>6, <2>1, <2>2 DEF SameLists
<1> HIDE DEF q, h
<1>8. Follows(r, q)
  BY <1>1, <1>7, KeptPrimary DEF Follows, SameLists
<1> QED
  BY <1>4, <1>8 DEF Fine

(* An answer of a member that is not down keeps the lists in agreement and *)
(* its elections in order.                                                 *)
LEMMA UpdateFine ==
  ASSUME NEW r, Sound(r), NEW s \in Server, NEW m, Answers(Name(s), m)
  PROVE  Fine(r, Update(r, s, m))
<1> DEFINE h == Name(s)
           q == AddHosts(r, m.hosts \cup m.others)
<1>1. /\ h \in Host /\ IsAnswer(m) /\ m # NoAnswer
  BY ServerIs DEF Answers, NoAnswer
<1>2. Update(r, s, m) = Answered(q, s, m)
  BY <1>1 DEF Update
<1>3. Sound(q) /\ SameLists(r, q) /\ q.maxElectionId = r.maxElectionId
  BY <1>1, AddHostsSound DEF IsAnswer
<1> HIDE DEF q
<1>4. \A u : Fine(q, u) => Fine(r, u)
  BY <1>3 DEF Fine, Follows, Later, SameLists
<1>5. CASE m.kind = "ghost"
  <2>1. Answered(q, s, m) =
          Kept(TakeName(SetEntry(WithoutPrimary(q, h), h, Plain("RSGhost", m.setName)), m))
    BY <1>5 DEF Answered
  <2>2. Plain("RSGhost", m.setName) \in Entry /\ Plain("RSGhost", m.setName).type = "RSGhost"
    BY <1>1, PlainIs DEF IsAnswer, EntryTypes
  <2> QED
    BY <1>1, <1>2, <1>3, <1>4, <2>1, <2>2, RolelessSound, KeptFine
<1>6. CASE m.kind = "other"
  <2>1. Answered(q, s, m) = Kept(TakeName(SetEntry(q, h, Plain("RSOther", m.setName)), m))
    BY <1>6 DEF Answered
  <2>2. Plain("RSOther", m.setName) \in Entry /\ Plain("RSOther", m.setName).type = "RSOther"
    BY <1>1, PlainIs DEF IsAnswer, EntryTypes
  <2> QED
    BY <1>1, <1>2, <1>3, <1>4, <2>1, <2>2, RolelessSound, KeptFine
<1>7. CASE m.kind \in {"primary", "secondary", "arbiter", "passive"}
  <2>1. Answered(q, s, m) = IF m.me # h THEN Misnamed(q, s, m)
                            ELSE IF m.kind # "primary" THEN Member(q, s, m)
                            ELSE IF HasPrimary(q) THEN NextPrimary(q, s, m)
                            ELSE FirstPrimary(q, s, m)
    BY <1>7 DEF Answered
  <2>2. Fine(q, Answered(q, s, m))
    BY <1>3, <1>7, <2>1, MisnamedFine, MemberFine, NextPrimaryFine, FirstPrimaryFine
  <2> QED
    BY <1>2, <1>4, <2>2
<1> QED
  BY <1>5, <1>6, <1>7 DEF Answers

LEMMA AnnouncedFollows ==
  ASSUME NEW r, Sound(r), NEW h \in Host
  PROVE  Follows(r, Announced(r, h))
<1> DEFINE p == [r EXCEPT !.unknownServers = @ \cup {h}]
<1>1. /\ p \in StateType /\ SameLists(r, p) /\ p.set = r.set /\ p.setName = r.setName
      /\ p.maxElectionId = r.maxElectionId
  BY DEF Sound, StateType, SameLists
<1>2. Announced(r, h) = SetEntry(p, h, Unknown)
  BY DEF Announced
<1> HIDE DEF p
<1>3. Sound(p)
  BY <1>1, NotedSound
<1>4. Follows(p, SetEntry(p, h, Unknown))
  BY <1>3, SetEntryFollows, UnknownIs
<1> QED
  BY <1>1, <1>2, <1>4 DEF Follows, Later, SameLists

(***************************************************************************)
(* The invariant of the topology                                           *)
(***************************************************************************)

TopType ==
  [state : States, called : BOOLEAN, rs : StateType, up : [Server -> Pools],
   pings : SUBSET [server : Server, by : {"interval", "sweep"}],
   seeds : SUBSET Seeds, dialing : SUBSET Seeds, connecting : SUBSET Host,
   attempts : SUBSET [host : Host, by : {"loop", "sweep"}],
   sweep : [at : {"off", "connecting", "timers", "over"}, hosts : SUBSET Host,
            failed : BOOLEAN],
   monitors : SUBSET Host, loop : {"off", "timer", "connecting"}, connects : Nat,
   failed : BOOLEAN, destroying : SUBSET {"lists", "dials"}, doomed : SUBSET Seeds]

(* KeepsTrying, of any topology, and what makes it hold: connect is        *)
(* emitted when the state leaves "connecting", where it is but once.       *)
Tries(t) ==
  /\ t.connects <= 1
  /\ t.connects = 1 /\ t.state # "destroyed" /\ t.destroying = {} => t.loop # "off"
  /\ t.state = "connecting" => t.called /\ t.connects = 0
  /\ ~t.called => t.connects = 0

RoleInv ==
  /\ role \in [Members -> [kind : Kinds \cup {"down"}, electionId : 0..MaxTerm,
                           home : {"secondary", "arbiter", "passive"}]]
  /\ term \in 0..MaxTerm /\ faults \in 0..MaxFaults
  /\ RolesOK

ReplSetInv == RoleInv /\ top \in TopType /\ Sound(top.rs)

(* What an operator on the topology leaves of it: the lists as they were,  *)
(* or the lists after an update.                                           *)
Trying(t, q) == ~SecondaryOnly /\ Tries(t) => Tries(q)

Keeps(t, q) == q \in TopType /\ q.rs = t.rs /\ Trying(t, q)

Goes(t, q) == q \in TopType /\ Follows(t.rs, q.rs) /\ Trying(t, q)

Alike(t, q) ==
  /\ q.state = t.state /\ q.called = t.called /\ q.connects = t.connects
  /\ q.loop = t.loop /\ q.destroying = t.destroying

LEMMA AlikeKeeps ==
  ASSUME NEW t, NEW q \in TopType, q.rs = t.rs, Alike(t, q)
  PROVE  Keeps(t, q)
BY DEF Keeps, Alike, Trying, Tries

LEMMA AlikeGoes ==
  ASSUME NEW t, NEW q \in TopType, Follows(t.rs, q.rs), Alike(t, q)
  PROVE  Goes(t, q)
BY DEF Goes, Alike, Trying, Tries

LEMMA KeepsGoes ==
  ASSUME NEW t \in TopType, Sound(t.rs), NEW q, Keeps(t, q)
  PROVE  Goes(t, q)
BY FollowsItself DEF Keeps, Goes

LEMMA KeepsKeeps ==
  ASSUME NEW t, NEW q, Keeps(t, q), NEW z, Keeps(q, z)
  PROVE  Keeps(t, z)
BY DEF Keeps, Trying

LEMMA GoesKeeps ==
  ASSUME NEW t, NEW q, Goes(t, q), NEW z, Keeps(q, z)
  PROVE  Goes(t, z)
BY DEF Keeps, Goes, Trying

LEMMA KeepsThenGoes ==
  ASSUME NEW t, NEW q, Keeps(t, q), NEW z, Goes(q, z)
  PROVE  Goes(t, z)
BY DEF Keeps, Goes, Trying

(***************************************************************************)
(* What the operators on the topology do                                   *)
(***************************************************************************)

LEMMA SettledKeeps == ASSUME NEW t \in TopType PROVE Keeps(t, Settled(t))
<1> DEFINE used == Open(t) \cup Listed(t.rs) \cup {p.server : p \in t.pings}
           u == [s \in Server |-> IF s \in used THEN t.up[s] ELSE "free"]
           c == IF t.seeds \cup t.dialing = {} THEN {} ELSE t.connecting
           w == IF t.sweep.at = "over" THEN SweepIs("over", {}) ELSE t.sweep
           q == [t EXCEPT !.up = u, !.connecting = c, !.sweep = w]
<1>1. u \in [Server -> Pools]
  BY DEF TopType, Pools
<1>2. c \in SUBSET Host
  BY DEF TopType
<1>3. w \in [at : {"off", "connecting", "timers", "over"}, hosts : SUBSET Host, failed : BOOLEAN]
  BY DEF TopType, SweepIs
<1>4. Settled(t) = q
  BY DEF Settled
<1> HIDE DEF u, c, w
<1>5. q \in TopType /\ q.rs = t.rs /\ Alike(t, q)
  BY <1>1, <1>2, <1>3 DEF TopType, Alike
<1> QED
  BY <1>4, <1>5, AlikeKeeps

LEMMA UpKeeps ==
  ASSUME NEW t \in TopType, NEW u \in [Server -> Pools]
  PROVE  Keeps(t, [t EXCEPT !.up = u])
<1> DEFINE q == [t EXCEPT !.up = u]
<1>1. q \in TopType /\ q.rs = t.rs /\ Alike(t, q)
  BY DEF TopType, Alike
<1> HIDE DEF q
<1>2. Keeps(t, q)
  BY <1>1, AlikeKeeps
<1> QED
  BY <1>2 DEF q

(* One object *)
LEMMA OneUpKeeps ==
  ASSUME NEW t \in TopType, NEW s \in Server, NEW pool \in Pools
  PROVE  Keeps(t, [t EXCEPT !.up[s] = pool])
<1>1. [t.up EXCEPT ![s] = pool] \in [Server -> Pools]
  BY DEF TopType
<1>2. [t EXCEPT !.up[s] = pool] = [t EXCEPT !.up = [t.up EXCEPT ![s] = pool]]
  BY DEF TopType
<1> QED
  BY <1>1, <1>2, UpKeeps

LEMMA DestroyServersKeeps ==
  ASSUME NEW t \in TopType, NEW servers
  PROVE  Keeps(t, DestroyServers(t, servers))
<1> DEFINE u == [s \in Server |-> IF s \in servers /\ t.up[s] # "stuck"
                                  THEN "destroyed" ELSE t.up[s]]
<1>1. u \in [Server -> Pools]
  BY DEF TopType, Pools
<1>2. DestroyServers(t, servers) = [t EXCEPT !.up = u]
  BY DEF DestroyServers
<1> HIDE DEF u
<1> QED
  BY <1>1, <1>2, UpKeeps

LEMMA ListsGo ==
  ASSUME NEW t \in TopType, NEW r, Follows(t.rs, r)
  PROVE  Goes(t, [t EXCEPT !.rs = r])
<1> DEFINE q == [t EXCEPT !.rs = r]
<1>1. q \in TopType /\ q.rs = r /\ Alike(t, q)
  BY DEF TopType, Alike, Follows, Sound
<1> HIDE DEF q
<1>2. Goes(t, q)
  BY <1>1, AlikeGoes
<1> QED
  BY <1>2 DEF q

LEMMA UpdatedGoes ==
  ASSUME NEW t \in TopType, NEW u, Fine(t.rs, u)
  PROVE  Goes(t, Updated(t, u))
<1> DEFINE d == DestroyServers(t, u.destroyed)
<1>1. Keeps(t, d)
  BY DestroyServersKeeps
<1>2. Updated(t, u) = [d EXCEPT !.rs = u.rs]
  BY DEF Updated
<1> HIDE DEF d
<1>3. Goes(d, [d EXCEPT !.rs = u.rs])
  BY <1>1, ListsGo DEF Keeps, Fine
<1> QED
  BY <1>1, <1>2, <1>3, KeepsThenGoes

(* connect is emitted, and the loop is started with it. *)
LEMMA ConnectedKeeps ==
  ASSUME NEW t \in TopType, t.state = "connecting" \/ SecondaryOnly
  PROVE  Keeps(t, StartMonitors(Connected(t)))
<1> DEFINE n == t.connects + 1
           c == [t EXCEPT !.state = "connected", !.connects = n]
           q == StartMonitors(c)
<1>7. n \in Nat /\ Connected(t) = c
  BY DEF TopType, Connected
<1>1. DOMAIN t.rs.set \subseteq Host
  BY MapIs DEF TopType, StateType
<1> HIDE DEF n
<1>2. /\ c \in TopType /\ c.rs = t.rs /\ c.state = "connected" /\ c.connects = n
      /\ c.called = t.called
  BY <1>7 DEF TopType, States
<1> HIDE DEF c
<1>3. /\ q \in TopType /\ q.rs = t.rs /\ q.loop = "timer" /\ q.state = "connected"
      /\ q.connects = n /\ q.called = t.called
  BY <1>1, <1>2 DEF StartMonitors, TopType
<1> HIDE DEF q
<1>4. t.connects \in Nat
  BY DEF TopType
<1>5. Trying(t, q)
  BY <1>3, <1>4 DEF Trying, Tries, n
<1>6. Keeps(t, q)
  BY <1>3, <1>5 DEF Keeps
<1> QED
  BY <1>6, <1>7 DEF q

LEMMA DialKeeps ==
  ASSUME NEW t \in TopType, NEW by \in {"loop", "sweep"}
  PROVE  Keeps(t, Dial(t, by))
<1> DEFINE a == t.attempts \cup {[host |-> h, by |-> by] : h \in t.rs.unknownServers}
           q == [t EXCEPT !.attempts = a]
<1>1. a \in SUBSET [host : Host, by : {"loop", "sweep"}]
  BY DEF TopType, StateType
<1>2. Dial(t, by) = q
  BY DEF Dial
<1> HIDE DEF a
<1>3. q \in TopType /\ q.rs = t.rs /\ Alike(t, q)
  BY <1>1 DEF TopType, Alike
<1> HIDE DEF q
<1> QED
  BY <1>2, <1>3, AlikeKeeps

LEMMA EmptyIs == 
  ASSUME NEW name \in SetNames \cup {NoName}
  PROVE  Empty(name) \in StateType /\ Empty(name).set = <<>> /\ DOMAIN Empty(name).set = {}
<1>1. <<>> \in [{} -> Entry] /\ DOMAIN <<>> = {}
  OBVIOUS
<1>2. <<>> \in Maps
  BY <1>1, MapMade
<1> QED
  BY <1>1, <1>2 DEF Empty, StateType

LEMMA ClearedGoes ==
  ASSUME NEW t \in TopType, Sound(t.rs)
  PROVE  Goes(t, Cleared(t)) /\ Cleared(t).rs.primary = NoServer
<1> DEFINE e == Empty(t.rs.setName)
           r == [e EXCEPT !.maxElectionId = t.rs.maxElectionId,
                          !.maxSetVersion = t.rs.maxSetVersion]
<1>1. /\ t.rs.setName \in SetNames \cup {NoName} /\ t.rs.maxElectionId \in Nat
      /\ t.rs.maxSetVersion \in Nat /\ e \in StateType /\ DOMAIN e.set = {}
      /\ e.primary = NoServer /\ e.secondaries = {} /\ e.arbiters = {} /\ e.passives = {}
  BY EmptyIs DEF Sound, StateType, Empty
<1>2. Cleared(t) = [t EXCEPT !.rs = r]
  BY DEF Cleared
<1> HIDE DEF e
<1>3. /\ r \in StateType /\ DOMAIN r.set = {} /\ r.primary = NoServer
      /\ r.secondaries = {} /\ r.arbiters = {} /\ r.passives = {}
      /\ r.maxElectionId = t.rs.maxElectionId
  BY <1>1 DEF StateType
<1> HIDE DEF r
<1>4. Agree(r) /\ Placed(r)
  BY <1>3 DEF Agree, Placed, Listed, HasPrimary
<1>5. Follows(t.rs, r)
  BY <1>1, <1>3, <1>4, KeptPrimary DEF Follows, Sound
<1>6. Goes(t, [t EXCEPT !.rs = r]) /\ [t EXCEPT !.rs = r].rs.primary = NoServer
  BY <1>3, <1>5, ListsGo DEF TopType
<1> QED
  BY <1>2, <1>6

(* Ending is followed by a state or a wait in which the loop may be off. *)
LEMMA EndingIs ==
  ASSUME NEW t \in TopType
  PROVE  /\ Ending(t) \in TopType /\ Ending(t).rs = t.rs
         /\ Ending(t).state = t.state /\ Ending(t).called = t.called
         /\ Ending(t).connects = t.connects
<1> DEFINE d == DestroyServers(t, Listed(t.rs))
           l == IF d.loop = "timer" THEN "off" ELSE d.loop
           w == [d.sweep EXCEPT !.at = IF @ = "timers" THEN "over" ELSE @]
           q == [d EXCEPT !.monitors = {}, !.loop = l, !.sweep = w, !.dialing = {},
                          !.doomed = @ \cup t.seeds]
<1>1. d \in TopType /\ d.rs = t.rs /\ Alike(t, d)
  <2>1. Keeps(t, d)
    BY DestroyServersKeeps
  <2>2. Alike(t, d)
    BY DEF DestroyServers, TopType, Alike
  <2> QED
    BY <2>1, <2>2 DEF Keeps
<1>2. Ending(t) = q
  BY <1>1 DEF Ending, TopType
<1> HIDE DEF d
<1>3. w \in [at : {"off", "connecting", "timers", "over"}, hosts : SUBSET Host, failed : BOOLEAN]
      /\ l \in {"off", "timer", "connecting"}
  BY <1>1 DEF TopType
<1> HIDE DEF w, l
<1>4. q \in TopType /\ q.rs = t.rs /\ q.state = t.state /\ q.called = t.called
      /\ q.connects = t.connects
  BY <1>1, <1>3 DEF TopType, Alike
<1> HIDE DEF q
<1> QED
  BY <1>2, <1>4

LEMMA ForceDestroyedGoes ==
  ASSUME NEW t \in TopType, Sound(t.rs)
  PROVE  Goes(t, ForceDestroyed(t)) /\ ForceDestroyed(t).rs.primary = NoServer
<1> DEFINE e == Ending(t)
           c == Cleared(e)
           q == [c EXCEPT !.state = "destroyed"]
<1>1. /\ e \in TopType /\ e.rs = t.rs /\ e.called = t.called /\ e.connects = t.connects
  BY EndingIs
<1>2. ForceDestroyed(t) = q
  BY DEF ForceDestroyed
<1> HIDE DEF e
<1>3. /\ c \in TopType /\ Follows(t.rs, c.rs) /\ c.called = t.called
      /\ c.connects = t.connects /\ c.rs.primary = NoServer
  <2>1. Goes(e, c) /\ c.rs.primary = NoServer
    BY <1>1, ClearedGoes
  <2>2. c.called = e.called /\ c.connects = e.connects
    BY <1>1 DEF Cleared, TopType
  <2> QED
    BY <1>1, <2>1, <2>2 DEF Goes
<1> HIDE DEF c
<1>4. /\ q \in TopType /\ q.rs = c.rs /\ q.called = t.called /\ q.connects = t.connects
      /\ q.state = "destroyed"
  BY <1>3 DEF TopType, States
<1> HIDE DEF q
<1>5. Trying(t, q)
  BY <1>4 DEF Trying, Tries
<1> QED
  BY <1>2, <1>3, <1>4, <1>5 DEF Goes

LEMMA SeedDoneKeeps ==
  ASSUME NEW t \in TopType, NEW h
  PROVE  Keeps(t, SeedDone(t, h))
<1> DEFINE c == t.connecting \ {h}
           left == [t EXCEPT !.connecting = c]
           d == Dial(left, "sweep")
           w == SweepIs("connecting", DOMAIN left.rs.set)
           q == [d EXCEPT !.sweep = w]
<1>1. SeedDone(t, h) = left \/ SeedDone(t, h) = q
  BY DEF SeedDone
<1>2. c \in SUBSET Host /\ DOMAIN t.rs.set \subseteq Host
  BY MapIs DEF TopType, StateType
<1> HIDE DEF c
<1>3. Keeps(t, left) /\ left.rs = t.rs
  <2>1. left \in TopType /\ left.rs = t.rs /\ Alike(t, left)
    BY <1>2 DEF TopType, Alike
  <2> HIDE DEF left
  <2> QED
    BY <2>1, AlikeKeeps
<1> HIDE DEF left
<1>4. Keeps(left, d)
  BY <1>3, DialKeeps DEF Keeps
<1>5. w \in [at : {"off", "connecting", "timers", "over"}, hosts : SUBSET Host, failed : BOOLEAN]
  BY <1>2, <1>3 DEF SweepIs
<1> HIDE DEF w, d
<1>6. Keeps(d, q)
  <2>1. d \in TopType
    BY <1>4 DEF Keeps
  <2>2. q \in TopType /\ q.rs = d.rs /\ Alike(d, q)
    BY <1>5, <2>1 DEF TopType, Alike
  <2> HIDE DEF q
  <2> QED
    BY <2>2, AlikeKeeps
<1> HIDE DEF q
<1> QED
  BY <1>1, <1>3, <1>4, <1>6, KeepsKeeps

LEMMA SeedJoinsGoes ==
  ASSUME NEW t \in TopType, NEW h, NEW s \in Server, NEW u, Fine(t.rs, u)
  PROVE  Goes(t, SeedJoins(t, h, s, u))
<1> DEFINE pool == IF h \in t.doomed THEN "stuck" ELSE "open"
           o == [t EXCEPT !.up[s] = pool]
           joined == Updated(o, u)
           c == StartMonitors(Connected(joined))
           q == IF ShouldTriggerConnect(joined) THEN c ELSE joined
<1>1. pool \in Pools
  BY DEF Pools
<1>2. SeedJoins(t, h, s, u) = SeedDone(q, h)
  BY DEF SeedJoins
<1> HIDE DEF pool
<1>3. Keeps(t, o)
  BY <1>1, OneUpKeeps
<1> HIDE DEF o
<1>4. Goes(o, joined)
  BY <1>3, UpdatedGoes DEF Keeps
<1> HIDE DEF joined
<1>5. joined \in TopType
  BY <1>4 DEF Goes
<1>6. ShouldTriggerConnect(joined) => joined.state = "connecting" \/ SecondaryOnly
  BY DEF ShouldTriggerConnect
<1>7. ShouldTriggerConnect(joined) => Keeps(joined, c)
  BY <1>5, <1>6, ConnectedKeeps
<1>8. Goes(t, joined)
  BY <1>3, <1>4, KeepsThenGoes
<1> HIDE DEF c
<1>9. Goes(t, q)
  BY <1>7, <1>8, GoesKeeps
<1> HIDE DEF q
<1>10. Keeps(q, SeedDone(q, h))
  BY <1>9, SeedDoneKeeps DEF Goes
<1> QED
  BY <1>2, <1>9, <1>10, GoesKeeps

LEMMA BatchDoneGoes ==
  ASSUME NEW t \in TopType, Sound(t.rs), NEW by \in {"loop", "sweep"}
  PROVE  /\ Goes(t, BatchDone(t, by))
         /\ BatchDone(t, by).rs = t.rs \/ BatchDone(t, by).rs.primary = NoServer
<1> DEFINE l == [t EXCEPT !.loop = "timer"]
           w(at) == [t.sweep EXCEPT !.at = at]
           m == [t EXCEPT !.sweep = w("timers")]
           over == [t EXCEPT !.sweep = w("over"), !.failed = TRUE]
<1>1. BatchDone(t, by) \in {t, l, m, over, ForceDestroyed(over)}
  BY DEF BatchDone
<1>2. ASSUME NEW at \in {"timers", "over"}
      PROVE  w(at) \in [at : {"off", "connecting", "timers", "over"}, hosts : SUBSET Host,
                        failed : BOOLEAN]
  BY DEF TopType
<1> HIDE DEF w
<1>3. l \in TopType /\ l.rs = t.rs /\ Trying(t, l)
  <2>1. /\ l \in TopType /\ l.rs = t.rs /\ l.state = t.state /\ l.called = t.called
        /\ l.connects = t.connects /\ l.destroying = t.destroying /\ l.loop = "timer"
    BY DEF TopType
  <2> HIDE DEF l
  <2> QED
    BY <2>1 DEF Trying, Tries
<1>4. m \in TopType /\ m.rs = t.rs /\ Alike(t, m)
  BY <1>2 DEF TopType, Alike
<1>5. over \in TopType /\ over.rs = t.rs /\ Alike(t, over)
  BY <1>2 DEF TopType, Alike
<1> HIDE DEF l, m, over
<1>6. Keeps(t, t) /\ Keeps(t, l) /\ Keeps(t, m) /\ Keeps(t, over)
  BY <1>3, <1>4, <1>5, AlikeKeeps DEF Keeps, Trying
<1>7. Goes(over, ForceDestroyed(over)) /\ ForceDestroyed(over).rs.primary = NoServer
  BY <1>5, ForceDestroyedGoes
<1>8. Goes(t, ForceDestroyed(over))
  BY <1>6, <1>7, KeepsThenGoes
<1>9. t.rs = l.rs /\ t.rs = m.rs /\ t.rs = over.rs
  BY <1>3, <1>4, <1>5
<1> QED
  BY <1>1, <1>6, <1>7, <1>8, <1>9, KeepsGoes

(* get(host) gives an object of the host. *)
LEMMA GetIs ==
  ASSUME NEW r \in StateType, NEW h
  PROVE  Get(r, h) = NoServer \/ (Get(r, h) \in Server /\ Name(Get(r, h)) = h)
<1> DEFINE fits(s) == s = NoServer \/ (s \in Server /\ Name(s) = h)
           first(list, otherwise) ==
             IF Named(list, h) # {} THEN CHOOSE s \in Named(list, h) : TRUE ELSE otherwise
           passive == first(r.passives, NoServer)
           arbiter == first(r.arbiters, passive)
           secondary == first(r.secondaries, arbiter)
<1>1. \A list \in SUBSET Server : \A otherwise :
        fits(otherwise) => fits(first(list, otherwise))
  BY DEF Named
<1>2. /\ r.passives \in SUBSET Server /\ r.arbiters \in SUBSET Server
      /\ r.secondaries \in SUBSET Server /\ {r.primary} \ {NoServer} \in SUBSET Server
  BY DEF StateType
<1>3. Get(r, h) = first({r.primary} \ {NoServer}, secondary)
  BY DEF Get
<1> HIDE DEF first
<1>4. fits(passive) /\ fits(arbiter) /\ fits(secondary)
  BY <1>1, <1>2
<1> HIDE DEF secondary
<1> QED
  BY <1>1, <1>2, <1>3, <1>4

LEMMA PingGoes ==
  ASSUME NEW t \in TopType, Sound(t.rs), NEW hosts \in SUBSET Host,
         NEW by \in {"interval", "sweep"}
  PROVE  Goes(t, Ping(t, hosts, by))
<1> DEFINE listed == {h \in hosts : Get(t.rs, h) # NoServer}
           open == {h \in listed : Get(t.rs, h) \in Open(t)}
           p == t.pings \cup {[server |-> Get(t.rs, h), by |-> by] : h \in open}
           r == RemoveClosed(t.rs, listed \ open, Open(t))
           q == [t EXCEPT !.pings = p, !.rs = r]
<1>1. Ping(t, hosts, by) = q
  BY DEF Ping
<1>2. \A h \in open : Get(t.rs, h) \in Server
  BY DEF Open
<1>3. p \in SUBSET [server : Server, by : {"interval", "sweep"}]
  BY <1>2 DEF TopType
<1>4. listed \ open \in SUBSET Host
  OBVIOUS
<1>5. Follows(t.rs, r)
  BY <1>4, RemoveClosedSound
<1> HIDE DEF p, r
<1>6. q \in TopType /\ q.rs = r /\ Alike(t, q)
  BY <1>3, <1>5 DEF TopType, Alike, Follows, Sound
<1> HIDE DEF q
<1> QED
  BY <1>1, <1>5, <1>6, AlikeGoes

LEMMA HeardKeeps ==
  ASSUME NEW t \in TopType, NEW by
  PROVE  Keeps(t, Heard(t, by))
<1> DEFINE c == StartMonitors(Connected(t))
           q == [t EXCEPT !.state = "connected"]
<1>1. \/ Heard(t, by) = t
      \/ t.state = "connecting" /\ Heard(t, by) = c
      \/ t.state = "disconnected" /\ Heard(t, by) = q
  BY DEF Heard
<1>2. Keeps(t, t)
  BY AlikeKeeps DEF Alike
<1>3. t.state = "connecting" => Keeps(t, c)
  BY ConnectedKeeps
<1>4. t.state = "disconnected" => Keeps(t, q)
  <2>1. /\ q \in TopType /\ q.rs = t.rs /\ q.state = "connected" /\ q.called = t.called
        /\ q.connects = t.connects /\ q.destroying = t.destroying /\ q.loop = t.loop
    BY DEF TopType, States
  <2> HIDE DEF q
  <2>2. t.state = "disconnected" => Trying(t, q)
    BY <2>1 DEF Trying, Tries
  <2> QED
    BY <2>1, <2>2 DEF Keeps
<1> HIDE DEF c, q
<1> QED
  BY <1>1, <1>2, <1>3, <1>4

(***************************************************************************)
(* The handlers                                                            *)
(***************************************************************************)

(* The least number of a set. *)
LEMMA MinIs ==
  ASSUME NEW S \in SUBSET Nat, S # {}
  PROVE  Min(S) \in S
<1>1. PICK x \in S : \A y \in S : <<y, x>> \notin OpToRel(<, Nat)
  BY NatLessThanWellFounded, WFMin
<1>2. \A y \in S : ~(y < x)
  BY <1>1, Zenon DEF OpToRel
<1>3. \A y \in S : x <= y
  BY <1>2
<1> QED
  BY <1>1, <1>3 DEF Min

LEMMA NewServerIs ==
  ASSUME NEW h \in Host, Fresh(h) # {}
  PROVE  NewServer(h) \in Server /\ Name(NewServer(h)) = h
<1>1. Fresh(h) \subseteq 1..Copies /\ Fresh(h) \in SUBSET Nat
  BY DEF Fresh
<1>2. Min(Fresh(h)) \in 1..Copies
  BY <1>1, MinIs
<1> QED
  BY <1>2 DEF NewServer, Server, Name

LEMMA AnswerIs ==
  ASSUME RoleInv, NEW h \in Host, Reachable(h)
  PROVE  Answers(h, Answer(h))
<1>1. Me[h] \in Members /\ Members \subseteq Host
  BY SetAssumption DEF Members
<1>2. Leader \in Host \cup {NoHost}
  BY <1>1 DEF Leader
<1>3. /\ role[Me[h]].kind \in Kinds \cup {"down"} /\ role[Me[h]].kind # "down"
      /\ role[Me[h]].electionId \in Nat
      /\ role[Me[h]].kind \in {"primary", role[Me[h]].home} \cup Troubles
      /\ role[Me[h]].home \in {"secondary", "arbiter", "passive"}
      /\ role[Me[h]].kind = "primary"
           => role[Me[h]].home = "secondary" /\ role[Me[h]].electionId >= 1
  BY <1>1, SetAssumption DEF RoleInv, RolesOK, Reachable
<1>4. IsAnswer(Answer(h))
  BY <1>1, <1>2, <1>3, SetAssumption DEF IsAnswer, Answer
<1> QED
  BY <1>3, <1>4, SetAssumption DEF Answers, Answer

LEMMA BecomesGoes ==
  ASSUME NEW t, Goes(top, t), Becomes(t)
  PROVE  Goes(top, top')
<1>1. top' = Settled(t)
  BY DEF Becomes
<1>2. Keeps(t, Settled(t))
  BY SettledKeeps DEF Goes
<1> QED
  BY <1>1, <1>2, GoesKeeps

LEMMA Itself == ASSUME ReplSetInv PROVE Goes(top, top) /\ Keeps(top, top)
BY FollowsItself DEF ReplSetInv, Goes, Keeps, Trying

LEMMA InvSound ==
  ASSUME ReplSetInv, NEW t, Keeps(top, t)
  PROVE  t \in TopType /\ Sound(t.rs) /\ Goes(top, t)
BY KeepsGoes DEF ReplSetInv, Keeps

LEMMA ConnectGoes == ASSUME ReplSetInv, Connect PROVE Goes(top, top')
<1>1. /\ top' \in TopType /\ top'.rs = top.rs /\ top'.called /\ top'.state = "connecting"
      /\ top'.connects = top.connects /\ ~top.called
  BY SetAssumption DEF Connect, ReplSetInv, TopType, States
<1>2. Trying(top, top')
  BY <1>1 DEF Trying, Tries
<1>3. Keeps(top, top')
  BY <1>1, <1>2 DEF Keeps
<1> QED
  BY <1>3, KeepsGoes DEF ReplSetInv

LEMMA StartSeedGoes ==
  ASSUME ReplSetInv, NEW h \in Seeds, StartSeed(h)
  PROVE  Goes(top, top')
<1> DEFINE r == Announced(top.rs, h)
<1>1. Follows(top.rs, r)
  BY AnnouncedFollows, SetAssumption DEF ReplSetInv
<1>2. top' = [top EXCEPT !.seeds = @ \ {h}, !.rs = r, !.dialing = @ \cup {h}]
  BY DEF StartSeed, ReplSetInv, TopType
<1> HIDE DEF r
<1>3. top \in TopType /\ r \in StateType
  BY <1>1 DEF ReplSetInv, Follows, Sound
<1>4. top' \in TopType
  <2> DEFINE S == top.seeds \ {h}
             D == top.dialing \cup {h}
  <2>1. S \in SUBSET Seeds /\ D \in SUBSET Seeds
    BY <1>3 DEF TopType
  <2>2. top' = [top EXCEPT !.seeds = S, !.rs = r, !.dialing = D]
    BY <1>2
  <2> HIDE DEF S, D
  <2> QED
    BY <1>3, <2>1, <2>2 DEF TopType
<1>5. top'.rs = r /\ Alike(top, top')
  BY <1>2, <1>3 DEF TopType, Alike
<1> QED
  BY <1>1, <1>4, <1>5, AlikeGoes

(* One seed less is connecting. *)
LEMMA DialedKeeps ==
  ASSUME ReplSetInv, NEW h
  PROVE  Keeps(top, [top EXCEPT !.dialing = @ \ {h}])
<1> DEFINE t == [top EXCEPT !.dialing = @ \ {h}]
<1>1. t \in TopType /\ t.rs = top.rs /\ Alike(top, t)
  BY DEF ReplSetInv, TopType, Alike
<1> HIDE DEF t
<1>2. Keeps(top, t)
  BY <1>1, AlikeKeeps
<1> QED
  BY <1>2 DEF t

LEMMA SeedConnectedGoes ==
  ASSUME ReplSetInv, NEW h \in Seeds, SeedConnected(h)
  PROVE  Goes(top, top')
<1> DEFINE s == NewServer(h)
           t == [top EXCEPT !.dialing = @ \ {h}]
           pool == IF h \in t.doomed THEN "stuck" ELSE "free"
           dropped == [t EXCEPT !.up[s] = pool]
           u == Update(top.rs, s, Answer(h))
           destroyed == ForceDestroyed(dropped)
           failed == [destroyed EXCEPT !.failed = TRUE]
           updated == Updated(dropped, u)
<1>1. h \in Host /\ s \in Server /\ Name(s) = h /\ Reachable(h)
  BY NewServerIs, SetAssumption DEF SeedConnected
<1>2. Fine(top.rs, u)
  BY <1>1, AnswerIs, UpdateFine DEF ReplSetInv
<1>3. \/ top' = dropped
      \/ Becomes(failed)
      \/ Becomes(SeedDone(updated, h))
      \/ Becomes(SeedJoins(t, h, s, u))
  BY DEF SeedConnected
<1>4. Keeps(top, t)
  BY DialedKeeps
<1>5. pool \in Pools
  BY DEF Pools
<1> HIDE DEF t, pool, s, u
<1>6. Keeps(top, dropped)
  BY <1>1, <1>4, <1>5, OneUpKeeps, KeepsKeeps DEF Keeps
<1> HIDE DEF dropped
<1>7. dropped \in TopType /\ Sound(dropped.rs) /\ dropped.rs = top.rs
  BY <1>6 DEF Keeps, ReplSetInv
<1>8. Goes(top, failed)
  <2>1. Goes(top, destroyed)
    BY <1>6, <1>7, ForceDestroyedGoes, KeepsThenGoes
  <2> HIDE DEF destroyed
  <2>2. failed \in TopType /\ failed.rs = destroyed.rs /\ Alike(destroyed, failed)
    BY <2>1 DEF Goes, TopType, Alike
  <2> HIDE DEF failed
  <2> QED
    BY <2>1, <2>2, AlikeKeeps, GoesKeeps
<1>9. Goes(top, SeedDone(updated, h))
  <2>1. Goes(top, updated)
    BY <1>2, <1>6, <1>7, UpdatedGoes, KeepsThenGoes
  <2> HIDE DEF updated
  <2> QED
    BY <2>1, SeedDoneKeeps, GoesKeeps DEF Goes
<1>10. Goes(top, SeedJoins(t, h, s, u))
  BY <1>1, <1>2, <1>4, SeedJoinsGoes, KeepsThenGoes DEF Keeps
<1>11. Goes(top, dropped)
  BY <1>6, KeepsGoes DEF ReplSetInv
<1> QED
  BY <1>3, <1>8, <1>9, <1>10, <1>11, BecomesGoes

LEMMA SeedFailedGoes ==
  ASSUME ReplSetInv, NEW h \in Seeds, SeedFailed(h)
  PROVE  Goes(top, top')
<1> DEFINE t == [top EXCEPT !.dialing = @ \ {h}]
           r == Remove(t.rs, h, Open(t), FALSE)
           left == [t EXCEPT !.rs = r]
<1>1. Keeps(top, t)
  BY DialedKeeps
<1>2. Becomes(IF Gone(top) THEN t ELSE SeedDone([t EXCEPT !.rs = Remove(@, h, Open(t), FALSE)], h))
  BY DEF SeedFailed
<1> HIDE DEF t
<1>3. Becomes(t) \/ Becomes(SeedDone(left, h))
  BY <1>2
<1>4. t \in TopType /\ Sound(t.rs) /\ h \in Host
  BY <1>1, SetAssumption DEF Keeps, ReplSetInv
<1>5. Goes(t, left)
  BY <1>4, RemoveSound, ListsGo
<1> HIDE DEF left
<1>6. Goes(top, SeedDone(left, h))
  BY <1>1, <1>5, SeedDoneKeeps, KeepsThenGoes, GoesKeeps DEF Goes
<1> QED
  BY <1>1, <1>3, <1>6, InvSound, BecomesGoes

(* After an update the lists stay, or are emptied. *)
LEMMA GoesGoes ==
  ASSUME NEW t \in TopType, NEW q, Goes(t, q), NEW z, Goes(q, z),
         z.rs = q.rs \/ z.rs.primary = NoServer
  PROVE  Goes(t, z)
<1>1. /\ t.rs.maxElectionId \in Nat /\ q.rs.maxElectionId \in Nat
      /\ z.rs.maxElectionId \in Nat
  BY DEF Goes, TopType, StateType
<1>2. z.rs.maxElectionId >= t.rs.maxElectionId
  BY <1>1 DEF Goes, Follows, Later
<1>3. Later(t.rs, z.rs)
  BY <1>2 DEF Goes, Follows, Later
<1> QED
  BY <1>3 DEF Goes, Follows, Trying

(* An attempt less is under way. *)
LEMMA AttemptKeeps ==
  ASSUME ReplSetInv, NEW a
  PROVE  Keeps(top, [top EXCEPT !.attempts = @ \ {a}])
<1> DEFINE t == [top EXCEPT !.attempts = @ \ {a}]
<1>1. t \in TopType /\ t.rs = top.rs /\ Alike(top, t)
  BY DEF ReplSetInv, TopType, Alike
<1> HIDE DEF t
<1>2. Keeps(top, t)
  BY <1>1, AlikeKeeps
<1> QED
  BY <1>2 DEF t

LEMMA AttemptedGoes ==
  ASSUME ReplSetInv, NEW a \in top.attempts, Attempted(a)
  PROVE  Goes(top, top')
<1> DEFINE s == NewServer(a.host)
           t == [top EXCEPT !.attempts = @ \ {a}]
           u == Update(top.rs, s, Answer(a.host))
           o == [t EXCEPT !.up[s] = "open"]
           updated == Updated(o, u)
           ms == updated.monitors \cup {Me[a.host]}
           joined == [updated EXCEPT !.monitors = ms]
<1>1. a.host \in Host /\ a.by \in {"loop", "sweep"}
  BY DEF ReplSetInv, TopType
<1>2. s \in Server /\ Name(s) = a.host /\ Reachable(a.host)
  BY <1>1, NewServerIs DEF Attempted
<1>3. Fine(top.rs, u)
  BY <1>1, <1>2, AnswerIs, UpdateFine DEF ReplSetInv
<1>4. \/ Becomes(t)
      \/ Becomes(BatchDone(Updated(t, u), a.by))
      \/ Becomes(BatchDone(joined, a.by))
  BY DEF Attempted
<1>5. Keeps(top, t)
  BY AttemptKeeps
<1> HIDE DEF t, s, u
<1>6. t \in TopType /\ t.rs = top.rs
  BY <1>5 DEF Keeps
<1>7. Goes(top, Updated(t, u))
  BY <1>3, <1>5, <1>6, UpdatedGoes, KeepsThenGoes
<1>8. Keeps(t, o) /\ "open" \in Pools
  BY <1>2, <1>6, OneUpKeeps DEF Pools
<1> HIDE DEF o
<1>9. Goes(top, updated)
  BY <1>3, <1>5, <1>6, <1>8, UpdatedGoes, KeepsKeeps, KeepsThenGoes DEF Keeps
<1> HIDE DEF updated
<1>10. Goes(top, joined)
  <2>1. ms \in SUBSET Host
    BY <1>1, <1>9, SetAssumption DEF Goes, TopType
  <2> HIDE DEF ms
  <2>2. joined \in TopType /\ joined.rs = updated.rs /\ Alike(updated, joined)
    BY <1>9, <2>1 DEF Goes, TopType, Alike
  <2> HIDE DEF joined
  <2> QED
    BY <1>9, <2>2, AlikeKeeps, GoesKeeps
<1> HIDE DEF joined
<1>11. ASSUME NEW q, Goes(top, q) PROVE Goes(top, BatchDone(q, a.by))
  <2>1. /\ Goes(q, BatchDone(q, a.by))
        /\ BatchDone(q, a.by).rs = q.rs \/ BatchDone(q, a.by).rs.primary = NoServer
    BY <1>1, <1>11, BatchDoneGoes DEF Goes, Follows
  <2> QED
    BY <1>11, <2>1, GoesGoes DEF ReplSetInv
<1> QED
  BY <1>4, <1>5, <1>7, <1>10, <1>11, InvSound, BecomesGoes

LEMMA AttemptFailedGoes ==
  ASSUME ReplSetInv, NEW a \in top.attempts, AttemptFailed(a)
  PROVE  Goes(top, top')
<1> DEFINE f == top.sweep.failed \/ a.by = "sweep"
           w == [top.sweep EXCEPT !.failed = f]
           left == top.attempts \ {a}
           t == [top EXCEPT !.attempts = left, !.sweep = w]
<1>1. a.by \in {"loop", "sweep"} /\ left \in SUBSET [host : Host, by : {"loop", "sweep"}]
  BY DEF ReplSetInv, TopType
<1>2. w \in [at : {"off", "connecting", "timers", "over"}, hosts : SUBSET Host,
             failed : BOOLEAN]
  BY DEF ReplSetInv, TopType
<1>3. Becomes(t) \/ Becomes(BatchDone(t, a.by))
  BY DEF AttemptFailed, ReplSetInv, TopType
<1> HIDE DEF w, left
<1>4. t \in TopType /\ t.rs = top.rs /\ Alike(top, t)
  BY <1>1, <1>2 DEF ReplSetInv, TopType, Alike
<1> HIDE DEF t
<1>5. Keeps(top, t)
  BY <1>4, AlikeKeeps
<1>6. Goes(top, BatchDone(t, a.by))
  BY <1>1, <1>5, InvSound, BatchDoneGoes, KeepsThenGoes
<1> QED
  BY <1>3, <1>5, <1>6, InvSound, BecomesGoes

LEMMA ReconnectGoes == ASSUME ReplSetInv, Reconnect PROVE Goes(top, top')
<1> DEFINE d == Dial(top, "loop")
<1>1. Keeps(top, d) /\ Alike(top, d)
  BY DialKeeps DEF ReplSetInv, Dial, TopType, Alike
<1>2. top' = [d EXCEPT !.loop = "connecting"]
  BY DEF Reconnect
<1> HIDE DEF d
<1>3. /\ top' \in TopType /\ top'.rs = top.rs /\ top'.state = top.state
      /\ top'.called = top.called /\ top'.connects = top.connects
      /\ top'.loop = "connecting" /\ top'.destroying = top.destroying
  BY <1>1, <1>2 DEF Keeps, TopType, Alike
<1>4. Trying(top, top')
  BY <1>3 DEF Trying, Tries
<1> QED
  BY <1>3, <1>4, KeepsGoes DEF Keeps, ReplSetInv

LEMMA IntervalGoes ==
  ASSUME ReplSetInv, NEW h \in Host, Interval(h)
  PROVE  Goes(top, top')
<1>1. Becomes(Ping(top, {h}, "interval"))
  BY DEF Interval
<1> QED
  BY <1>1, PingGoes, BecomesGoes DEF ReplSetInv

LEMMA SweepGoes == ASSUME ReplSetInv, Sweep PROVE Goes(top, top')
<1> DEFINE w == [top.sweep EXCEPT !.at = "over"]
           t == [top EXCEPT !.sweep = w]
<1>1. w \in [at : {"off", "connecting", "timers", "over"}, hosts : SUBSET Host,
             failed : BOOLEAN]
      /\ top.sweep.hosts \in SUBSET Host
  BY DEF ReplSetInv, TopType
<1>2. Becomes(Ping(t, top.sweep.hosts, "sweep"))
  BY DEF Sweep, ReplSetInv, TopType
<1> HIDE DEF w
<1>3. t \in TopType /\ t.rs = top.rs /\ Alike(top, t)
  BY <1>1 DEF ReplSetInv, TopType, Alike
<1> HIDE DEF t
<1>4. Goes(top, Ping(t, top.sweep.hosts, "sweep"))
  BY <1>1, <1>3, AlikeKeeps, PingGoes, KeepsThenGoes DEF ReplSetInv
<1> QED
  BY <1>2, <1>4, BecomesGoes

(* A ping less waits for its answer. *)
LEMMA PingedKeeps ==
  ASSUME ReplSetInv, NEW p
  PROVE  Keeps(top, [top EXCEPT !.pings = @ \ {p}])
<1> DEFINE t == [top EXCEPT !.pings = @ \ {p}]
<1>1. t \in TopType /\ t.rs = top.rs /\ Alike(top, t)
  BY DEF ReplSetInv, TopType, Alike
<1> HIDE DEF t
<1>2. Keeps(top, t)
  BY <1>1, AlikeKeeps
<1> QED
  BY <1>2 DEF t

LEMMA PingAnsweredGoes ==
  ASSUME ReplSetInv, NEW p \in top.pings, PingAnswered(p)
  PROVE  Goes(top, top')
<1> DEFINE s == p.server
           t == [top EXCEPT !.pings = @ \ {p}]
           u == Update(t.rs, s, Answer(Name(s)))
<1>1. s \in Server /\ Name(s) \in Host /\ Reachable(Name(s))
  BY ServerIs DEF PingAnswered, ReplSetInv, TopType
<1>2. \/ Becomes(DestroyServers(t, {s}))
      \/ Becomes(Heard(Updated(t, u), p.by))
  BY DEF PingAnswered
<1>3. Keeps(top, t) /\ t \in TopType /\ t.rs = top.rs /\ Sound(t.rs)
  BY PingedKeeps DEF Keeps, ReplSetInv
<1> HIDE DEF t, s
<1>4. Fine(t.rs, u)
  BY <1>1, <1>3, AnswerIs, UpdateFine DEF ReplSetInv
<1> HIDE DEF u
<1>5. Goes(top, Updated(t, u))
  BY <1>3, <1>4, UpdatedGoes, KeepsThenGoes
<1>6. Goes(top, Heard(Updated(t, u), p.by))
  BY <1>5, HeardKeeps, GoesKeeps DEF Goes
<1>7. Goes(top, DestroyServers(t, {s}))
  BY <1>3, DestroyServersKeeps, KeepsKeeps, InvSound
<1> QED
  BY <1>2, <1>6, <1>7, BecomesGoes

LEMMA PingFailedGoes ==
  ASSUME ReplSetInv, NEW p \in top.pings, PingFailed(p)
  PROVE  Goes(top, top')
<1> DEFINE s == p.server
           t == [top EXCEPT !.pings = @ \ {p}]
           r == Remove(t.rs, Name(s), Open(t), FALSE)
<1>1. s \in Server /\ Name(s) \in Host
  BY ServerIs DEF ReplSetInv, TopType
<1>2. \/ Becomes(DestroyServers(t, {s}))
      \/ Becomes([t EXCEPT !.rs = r])
  BY DEF PingFailed
<1>3. Keeps(top, t) /\ t \in TopType /\ t.rs = top.rs /\ Sound(t.rs)
  BY PingedKeeps DEF Keeps, ReplSetInv
<1> HIDE DEF t, s
<1>6. Follows(t.rs, r)
  BY <1>1, <1>3, RemoveSound
<1> HIDE DEF r
<1>4. Goes(top, [t EXCEPT !.rs = r])
  BY <1>3, <1>6, ListsGo, KeepsThenGoes
<1>5. Goes(top, DestroyServers(t, {s}))
  BY <1>3, DestroyServersKeeps, KeepsKeeps, InvSound
<1> QED
  BY <1>2, <1>4, <1>5, BecomesGoes

LEMMA CloseGoes ==
  ASSUME ReplSetInv, NEW s \in Server, Close(s)
  PROVE  Goes(top, top')
<1> DEFINE o == [top EXCEPT !.up[s] = "closed"]
           p == {x \in top.pings : x.server # s}
           closed == [o EXCEPT !.pings = p]
           r == Remove(closed.rs, Name(s), Open(closed), FALSE)
           removed == [closed EXCEPT !.rs = r]
           c == removed.connecting \cup {Name(s)}
           left == [removed EXCEPT !.connecting = c]
           off == [left EXCEPT !.state = "disconnected"]
<1>1. Name(s) \in Host /\ "closed" \in Pools
  BY ServerIs DEF Pools
<1>2. /\ Becomes(closed) \/ (~Gone(top) /\ (Becomes(left) \/ Becomes(off)))
      /\ closed.state = top.state /\ left.state = top.state
  BY DEF Close, ReplSetInv, TopType
<1>3. Keeps(top, o) /\ o.rs = top.rs /\ o \in TopType /\ o.pings = top.pings
  BY <1>1, OneUpKeeps DEF ReplSetInv, Keeps, TopType
<1>4. p \in SUBSET [server : Server, by : {"interval", "sweep"}]
  BY DEF ReplSetInv, TopType
<1> HIDE DEF o, p
<1>5. closed \in TopType /\ closed.rs = o.rs /\ Alike(o, closed)
  BY <1>3, <1>4 DEF TopType, Alike
<1> HIDE DEF closed
<1>6. Keeps(top, closed) /\ Sound(closed.rs)
  BY <1>3, <1>5, AlikeKeeps, KeepsKeeps DEF ReplSetInv
<1>7. Follows(closed.rs, r)
  BY <1>1, <1>6, RemoveSound
<1> HIDE DEF r
<1>8. Goes(top, removed)
  BY <1>5, <1>6, <1>7, ListsGo, KeepsThenGoes
<1> HIDE DEF removed
<1>9. c \in SUBSET Host
  BY <1>1, <1>8 DEF Goes, TopType
<1> HIDE DEF c
<1>10. left \in TopType /\ left.rs = removed.rs /\ Alike(removed, left)
  BY <1>8, <1>9 DEF Goes, TopType, Alike
<1> HIDE DEF left
<1>11. Goes(top, left)
  BY <1>8, <1>10, AlikeKeeps, GoesKeeps
<1>12. ASSUME ~Gone(top) PROVE Goes(top, off)
  <2>1. /\ off \in TopType /\ off.rs = left.rs /\ off.state = "disconnected"
        /\ off.called = left.called /\ off.connects = left.connects
        /\ off.loop = left.loop /\ off.destroying = left.destroying
    BY <1>10 DEF TopType, States
  <2> HIDE DEF off
  <2>2. Trying(left, off)
    BY <1>2, <1>12, <2>1 DEF Trying, Tries, Gone
  <2>3. Keeps(left, off)
    BY <2>1, <2>2 DEF Keeps
  <2> QED
    BY <1>11, <2>3, GoesKeeps
<1> HIDE DEF off
<1> QED
  BY <1>2, <1>6, <1>11, <1>12, InvSound, BecomesGoes

LEMMA OperationFailsGoes == ASSUME ReplSetInv, OperationFails PROVE Goes(top, top')
<1> DEFINE r == Remove(top.rs, Name(top.rs.primary), {}, TRUE)
<1>1. Name(top.rs.primary) \in Host
  BY ServerIs DEF OperationFails, HasPrimary, ReplSetInv, TopType, StateType
<1>2. Becomes([top EXCEPT !.rs = r])
  BY DEF OperationFails
<1>3. Follows(top.rs, r)
  BY <1>1, RemoveSound DEF ReplSetInv
<1> HIDE DEF r
<1> QED
  BY <1>2, <1>3, ListsGo, BecomesGoes DEF ReplSetInv

LEMMA DestroyGoes ==
  ASSUME ReplSetInv, NEW force \in BOOLEAN, Destroy(force)
  PROVE  Goes(top, top')
<1> DEFINE waits == (IF Listed(top.rs) = {} THEN {} ELSE {"lists"})
                      \cup (IF top.dialing = {} THEN {} ELSE {"dials"})
           e == Ending(top)
           c == Cleared(e)
           el == [e EXCEPT !.destroying = waits]
           cl == [c EXCEPT !.destroying = waits]
<1>1. waits \in SUBSET {"lists", "dials"}
  OBVIOUS
<1>2. \/ Becomes(ForceDestroyed(top))
      \/ waits # {} /\ (Becomes(el) \/ Becomes(cl))
  BY DEF Destroy
<1> HIDE DEF waits
<1>3. /\ e \in TopType /\ e.rs = top.rs /\ e.state = top.state /\ e.called = top.called
      /\ e.connects = top.connects
  BY EndingIs DEF ReplSetInv
<1> HIDE DEF e
<1>4. /\ c \in TopType /\ Follows(top.rs, c.rs) /\ c.state = top.state
      /\ c.called = top.called /\ c.connects = top.connects
  <2>1. Goes(e, c)
    BY <1>3, ClearedGoes DEF ReplSetInv
  <2>2. c.state = e.state /\ c.called = e.called /\ c.connects = e.connects
    BY <1>3 DEF Cleared, TopType
  <2> QED
    BY <1>3, <2>1, <2>2 DEF Goes
<1> HIDE DEF c
<1>5. ASSUME waits # {} PROVE Goes(top, el) /\ Goes(top, cl)
  <2>1. /\ el \in TopType /\ el.rs = top.rs /\ el.state = top.state
        /\ el.called = top.called /\ el.connects = top.connects /\ el.destroying = waits
    BY <1>1, <1>3 DEF TopType
  <2>2. /\ cl \in TopType /\ cl.rs = c.rs /\ cl.state = top.state
        /\ cl.called = top.called /\ cl.connects = top.connects /\ cl.destroying = waits
    BY <1>1, <1>4 DEF TopType
  <2> HIDE DEF el, cl
  <2>3. Trying(top, el) /\ Trying(top, cl)
    BY <1>5, <2>1, <2>2 DEF Trying, Tries
  <2> QED
    BY <1>4, <2>1, <2>2, <2>3, FollowsItself DEF Goes, ReplSetInv
<1>6. Goes(top, ForceDestroyed(top))
  BY ForceDestroyedGoes DEF ReplSetInv
<1> QED
  BY <1>2, <1>5, <1>6, BecomesGoes

LEMMA DestroyAnsweredGoes ==
  ASSUME ReplSetInv, NEW what, DestroyAnswered(what)
  PROVE  Goes(top, top')
<1> DEFINE left == top.destroying \ {what}
           t == IF what = "lists" THEN Cleared(top) ELSE top
           state == IF left = {} THEN "destroyed" ELSE t.state
           q == [t EXCEPT !.destroying = left, !.state = state]
<1>1. Becomes(q) /\ left \in SUBSET {"lists", "dials"}
  BY DEF DestroyAnswered, ReplSetInv, TopType
<1>2. Goes(top, t) /\ t \in TopType /\ t.connects = top.connects /\ t.state = top.state
      /\ t.called = top.called
  <2>1. /\ Cleared(top).connects = top.connects /\ Cleared(top).state = top.state
        /\ Cleared(top).called = top.called
    BY DEF Cleared, ReplSetInv, TopType
  <2> QED
    BY <2>1, Itself, ClearedGoes DEF ReplSetInv, Goes
<1>3. state \in States /\ (state = "connecting" => t.state = "connecting")
      /\ (left = {} => state = "destroyed")
  BY <1>2 DEF States, TopType
<1> HIDE DEF t, state, left
<1>4. /\ q \in TopType /\ q.rs = t.rs /\ q.state = state /\ q.called = top.called
      /\ q.connects = top.connects /\ q.destroying = left
  BY <1>1, <1>2, <1>3 DEF TopType
<1> HIDE DEF q
<1>5. Trying(top, q)
  BY <1>2, <1>3, <1>4 DEF Trying, Tries
<1>6. Goes(top, q)
  BY <1>2, <1>4, <1>5 DEF Goes
<1> QED
  BY <1>1, <1>6, BecomesGoes

LEMMA TopologyGoes == ASSUME ReplSetInv, Topology PROVE Goes(top, top')
BY ConnectGoes, ReconnectGoes, SweepGoes, DestroyGoes, DestroyAnsweredGoes, StartSeedGoes,
   SeedConnectedGoes, SeedFailedGoes, AttemptedGoes, AttemptFailedGoes, IntervalGoes,
   PingAnsweredGoes, PingFailedGoes, CloseGoes, OperationFailsGoes DEF Topology

(***************************************************************************)
(* The replica set                                                         *)
(***************************************************************************)

(* The handlers of the topology leave the members what they are. *)
LEMMA WorldStays ==
  ASSUME ReplSetInv, Topology
  PROVE  role' = role /\ term' = term /\ faults' \in 0..MaxFaults
<1>1. \A h : Fault(h) => role' = role /\ term' = term /\ faults' \in 0..MaxFaults
  BY SetAssumption DEF Fault, worldVars, ReplSetInv, RoleInv
<1>2. UNCHANGED worldVars => role' = role /\ term' = term /\ faults' \in 0..MaxFaults
  BY DEF worldVars, ReplSetInv, RoleInv
<1>3. OperationFails => role' = role /\ term' = term /\ faults' \in 0..MaxFaults
  BY SetAssumption DEF OperationFails, ReplSetInv, RoleInv
<1> QED
  BY <1>1, <1>2, <1>3
     DEF Topology, Connect, Reconnect, Sweep, Destroy, DestroyAnswered, StartSeed,
         SeedConnected, SeedFailed, Attempted, AttemptFailed, Interval, PingAnswered,
         PingFailed, Close

(* Members are elected and fall, but what they were at the start stays. *)
LEMMA WorldRoles ==
  ASSUME ReplSetInv, World
  PROVE  RoleInv' /\ top' = top /\ \A h \in Members : role'[h].home = role[h].home
<1>1. ASSUME NEW h \in Members, Elect(h)
      PROVE  RoleInv' /\ top' = top /\ \A x \in Members : role'[x].home = role[x].home
  <2> DEFINE n == term + 1
             e == [role[h] EXCEPT !.kind = "primary", !.electionId = n]
  <2>1. /\ n \in 0..MaxTerm /\ n >= 1 /\ term' = n /\ faults' = faults /\ top' = top
        /\ role' = [role EXCEPT ![h].kind = "primary", ![h].electionId = n]
    BY <1>1, SetAssumption DEF Elect, ReplSetInv, RoleInv
  <2> HIDE DEF n
  <2>2. role' = [role EXCEPT ![h] = e]
    BY <2>1 DEF ReplSetInv, RoleInv
  <2>3. role[h].home = "secondary"
    BY <1>1, SetAssumption DEF Elect, ReplSetInv, RoleInv, RolesOK
  <2>4. /\ e \in [kind : Kinds \cup {"down"}, electionId : 0..MaxTerm,
                  home : {"secondary", "arbiter", "passive"}]
        /\ e.kind = "primary" /\ e.electionId = n /\ e.home = role[h].home
    BY <2>1 DEF ReplSetInv, RoleInv, Kinds
  <2> HIDE DEF e
  <2>5. \A x \in Members : role'[x] = IF x = h THEN e ELSE role[x]
    BY <2>2 DEF ReplSetInv, RoleInv
  <2>6. role' \in [Members -> [kind : Kinds \cup {"down"}, electionId : 0..MaxTerm,
                               home : {"secondary", "arbiter", "passive"}]]
    BY <2>2, <2>4 DEF ReplSetInv, RoleInv
  <2>7. RolesOK'
    BY <2>1, <2>3, <2>4, <2>5 DEF ReplSetInv, RoleInv, RolesOK, Members
  <2> QED
    BY <2>1, <2>4, <2>5, <2>6, <2>7 DEF ReplSetInv, RoleInv, Members
<1>2. ASSUME NEW h \in Members, NEW kind \in {role[h].home} \cup Troubles, ChangeRole(h, kind)
      PROVE  RoleInv' /\ top' = top /\ \A x \in Members : role'[x].home = role[x].home
  <2> DEFINE e == [role[h] EXCEPT !.kind = kind, !.electionId = 0]
  <2>1. term' = term /\ top' = top /\ faults' \in 0..MaxFaults
    BY <1>2, SetAssumption DEF ChangeRole, ReplSetInv, RoleInv
  <2>2. role' = [role EXCEPT ![h] = e]
    BY <1>2 DEF ChangeRole, ReplSetInv, RoleInv
  <2>3. kind \in Kinds \cup {"down"} /\ kind # "primary"
    BY <1>2, SetAssumption DEF ReplSetInv, RoleInv, Kinds
  <2>8. 0 \in 0..MaxTerm
    BY SetAssumption
  <2>9. role[h] \in [kind : Kinds \cup {"down"}, electionId : 0..MaxTerm,
                     home : {"secondary", "arbiter", "passive"}]
    BY DEF ReplSetInv, RoleInv
  <2>4. /\ e \in [kind : Kinds \cup {"down"}, electionId : 0..MaxTerm,
                  home : {"secondary", "arbiter", "passive"}]
        /\ e.kind = kind /\ e.home = role[h].home
    BY <2>3, <2>8, <2>9
  <2> HIDE DEF e
  <2>5. \A x \in Members : role'[x] = IF x = h THEN e ELSE role[x]
    BY <2>2 DEF ReplSetInv, RoleInv
  <2>6. role' \in [Members -> [kind : Kinds \cup {"down"}, electionId : 0..MaxTerm,
                               home : {"secondary", "arbiter", "passive"}]]
    BY <2>2, <2>4 DEF ReplSetInv, RoleInv
  <2>7. RolesOK'
    BY <2>3, <2>4, <2>5 DEF ReplSetInv, RoleInv, RolesOK, Members
  <2> QED
    BY <2>1, <2>4, <2>5, <2>6, <2>7 DEF ReplSetInv, RoleInv, Members
<1> QED
  BY <1>1, <1>2 DEF World

LEMMA Initially == Init => ReplSetInv /\ Tries(top)
<1> SUFFICES ASSUME Init PROVE ReplSetInv /\ Tries(top)
  OBVIOUS
<1>1. PICK name \in NameOptions :
        top = [state |-> "disconnected", called |-> FALSE, rs |-> Empty(name),
               up |-> [s \in Server |-> "free"], pings |-> {}, seeds |-> {},
               dialing |-> {}, connecting |-> {}, attempts |-> {},
               sweep |-> [at |-> "off", hosts |-> {}, failed |-> FALSE],
               monitors |-> {}, loop |-> "off", connects |-> 0, failed |-> FALSE,
               destroying |-> {}, doomed |-> {}]
  BY DEF Init
<1>2. PICK leader \in Members, kind \in Roles \cup {"secondary"} :
        role = [h \in Members |->
                  IF h = leader
                  THEN [kind |-> "primary", electionId |-> 1, home |-> "secondary"]
                  ELSE [kind |-> kind, electionId |-> 0, home |-> kind]]
  BY DEF Init
<1>3. term = 1 /\ faults = 0
  BY DEF Init
<1>4. /\ Empty(name) \in StateType /\ DOMAIN Empty(name).set = {}
      /\ Empty(name).primary = NoServer /\ Empty(name).secondaries = {}
      /\ Empty(name).arbiters = {} /\ Empty(name).passives = {}
  BY EmptyIs, SetAssumption DEF Empty
<1>5. Sound(Empty(name))
  BY <1>4 DEF Sound, Agree, Placed, Listed, HasPrimary
<1>6. [s \in Server |-> "free"] \in [Server -> Pools]
  BY DEF Pools
<1>7. [at |-> "off", hosts |-> {}, failed |-> FALSE]
        \in [at : {"off", "connecting", "timers", "over"}, hosts : SUBSET Host,
             failed : BOOLEAN]
  OBVIOUS
<1>8. top \in TopType
  BY <1>1, <1>4, <1>6, <1>7 DEF TopType, States
<1>9. Tries(top) /\ Sound(top.rs)
  BY <1>1, <1>5 DEF Tries
<1>10. kind \in {"secondary", "arbiter", "passive"} /\ kind \in Kinds
  BY SetAssumption DEF Kinds
<1>11. 0 \in 0..MaxTerm /\ 1 \in 0..MaxTerm /\ 0 \in 0..MaxFaults /\ "primary" \in Kinds
  BY SetAssumption DEF Kinds
<1>12. role \in [Members -> [kind : Kinds \cup {"down"}, electionId : 0..MaxTerm,
                             home : {"secondary", "arbiter", "passive"}]]
  BY <1>2, <1>10, <1>11
<1>13. RolesOK
  <2>1. ASSUME NEW h \in Members
        PROVE  /\ role[h].kind \in {"primary", role[h].home} \cup Troubles
               /\ role[h].home \in Roles \cup {"secondary"}
               /\ role[h].kind = "primary"
                    => role[h].home = "secondary" /\ role[h].electionId >= 1
    <3>1. CASE h = leader
      BY <1>2, <3>1
    <3>2. CASE h # leader
      BY <1>2, <1>10, <3>2
    <3> QED
      BY <3>1, <3>2
  <2> QED
    BY <2>1 DEF RolesOK
<1> QED
  BY <1>3, <1>8, <1>9, <1>11, <1>12, <1>13 DEF ReplSetInv, RoleInv

(* What each step keeps: the invariant, the order of elections, and that   *)
(* the topology goes on trying.                                            *)
LEMMA StepKeeps ==
  ASSUME ReplSetInv, [Next]_vars
  PROVE  ReplSetInv' /\ Later(top.rs, top'.rs) /\ Trying(top, top')
<1>1. CASE Topology
  <2>1. Goes(top, top') /\ role' = role /\ term' = term /\ faults' \in 0..MaxFaults
    BY <1>1, TopologyGoes, WorldStays
  <2>2. RoleInv'
    BY <2>1 DEF ReplSetInv, RoleInv, RolesOK, Members
  <2>3. Sound(top.rs)'
    BY <2>1 DEF Goes, Follows, Sound, Placed
  <2> QED
    BY <2>1, <2>2, <2>3 DEF ReplSetInv, Goes, Follows
<1>2. CASE World
  <2>1. RoleInv' /\ top' = top /\ \A h \in Members : role'[h].home = role[h].home
    BY <1>2, WorldRoles
  <2>2. \A s \in Listed(top.rs) : Name(s) \in Members
    BY ServerIs, SetAssumption DEF ReplSetInv, Sound, StateType, Listed, Placed, Members
  <2>3. Sound(top.rs)'
    BY <2>1, <2>2 DEF ReplSetInv, Sound, Placed, Listed, HasPrimary
  <2> QED
    BY <2>1, <2>3, Itself DEF ReplSetInv, Goes, Follows
<1>3. CASE UNCHANGED vars
  <2>1. top' = top /\ role' = role /\ term' = term /\ faults' = faults
    BY <1>3 DEF vars
  <2>2. ReplSetInv'
    BY <2>1 DEF ReplSetInv, RoleInv, RolesOK, Members, Sound, Placed
  <2> QED
    BY <2>1, <2>2, Itself DEF Goes, Follows
<1> QED
  BY <1>1, <1>2, <1>3 DEF Next

(***************************************************************************)
(* Theorems                                                                *)
(***************************************************************************)

(* The invariant holds, whatever the members do and in whatever order      *)
(* answers and failures of connections arrive.                             *)
THEOREM ReplSetInvariance == Spec => []ReplSetInv
<1>1. ReplSetInv /\ [Next]_vars => ReplSetInv'
  BY StepKeeps
<1> QED
  BY Initially, <1>1, PTL DEF Spec

(* The lists, the objects, timers and attempts keep their types, and so do *)
(* the members.                                                            *)
THEOREM TypeCorrect == Spec => []TypeOK
<1>1. ReplSetInv => TypeOK
  <2> SUFFICES ASSUME ReplSetInv PROVE TypeOK
    OBVIOUS
  <2>1. IsState(top.rs)
    BY MapIs DEF ReplSetInv, TopType, StateType, IsState
  <2> QED
    BY <2>1 DEF ReplSetInv, RoleInv, TopType, TypeOK
<1> QED
  BY <1>1, ReplSetInvariance, PTL

(* update finds what it relies on: a member is in one list, the primary    *)
(* has its entry, and no entry is left of a primary that is none.          *)
THEOREM ListsCorrect == Spec => []ListsAgree
<1>1. ReplSetInv => ListsAgree
  BY DEF ReplSetInv, Sound, Agree, ListsAgree
<1> QED
  BY <1>1, ReplSetInvariance, PTL

(* No answer, however late, undoes an election that was heard of.          *)
THEOREM ElectionsKept == Spec => ElectionsOrdered
<1>1. ReplSetInv /\ [Next]_vars => [Later(top.rs, top'.rs)]_vars
  BY StepKeeps
<1>2. Spec => [][Later(top.rs, top'.rs)]_vars
  BY <1>1, ReplSetInvariance, PTL DEF Spec
<1> QED
  BY <1>2 DEF ElectionsOrdered, Later

(* Without secondaryOnlyConnectionAllowed connect is emitted once, and the *)
(* loop that looks for members is never lost.  (With it connect is emitted *)
(* for each seed that joins while there is a secondary.)                   *)
THEOREM TriesForEver == ASSUME ~SecondaryOnly PROVE Spec => []KeepsTrying
<1>1. Init => Tries(top)
  BY Initially
<1>2. ReplSetInv /\ Tries(top) /\ [Next]_vars => Tries(top)'
  BY StepKeeps DEF Trying, Tries
<1>3. Tries(top) => KeepsTrying
  BY DEF Tries, KeepsTrying
<1> QED
  BY <1>1, <1>2, <1>3, ReplSetInvariance, PTL DEF Spec

(* The nearest of some candidates. *)
LEMMA NearestIs ==
  ASSUME NEW r \in StateType, NEW pref, IsPreference(pref)
  PROVE  /\ \A s \in PickNearest(r, pref) :
              /\ s \in Candidates(r, pref)
              /\ pref.maxStaleness # 0 => Staleness[Name(s)] <= pref.maxStaleness
         /\ \A s \in Candidates(r, pref) :
              (pref.maxStaleness # 0 => Staleness[Name(s)] <= pref.maxStaleness)
                => PickNearest(r, pref) # {}
<1> DEFINE servers == Candidates(r, pref)
           latencies == {Latency[Name(s)] : s \in servers}
           lowest == Min(latencies)
<1>1. PickNearest(r, pref) =
        IF pref.maxStaleness # 0
        THEN {s \in servers : Staleness[Name(s)] <= pref.maxStaleness}
        ELSE {s \in servers : Latency[Name(s)] <= lowest + AcceptableLatency}
  BY DEF PickNearest
<1>2. \A s \in servers : Name(s) \in Host
  BY ServerIs DEF StateType, Candidates, PrimaryOf
<1>3. latencies \in SUBSET Nat
  BY <1>2, SelectionAssumption
<1>4. servers # {} => \E s \in servers : Latency[Name(s)] = lowest
  BY <1>3, MinIs
<1> HIDE DEF servers, latencies, lowest
<1>5. servers # {} => \E s \in servers : Latency[Name(s)] <= lowest + AcceptableLatency
  <2> SUFFICES ASSUME servers # {}
               PROVE  \E s \in servers : Latency[Name(s)] <= lowest + AcceptableLatency
    OBVIOUS
  <2>1. PICK s \in servers : Latency[Name(s)] = lowest
    BY <1>4
  <2>2. Latency[Name(s)] \in Nat /\ AcceptableLatency \in Nat
    BY <1>2, SelectionAssumption
  <2> QED
    BY <2>1, <2>2
<1> QED
  BY <1>1, <1>5 DEF servers

(* pickServer finds a member that fits the preference exactly if one is    *)
(* listed, whatever the preferences, latencies, tags and staleness.        *)
THEOREM PicksCorrect == Spec => []PicksWanted
<1>1. ReplSetInv => PicksWanted
  <2> SUFFICES ASSUME ReplSetInv, NEW pref \in Preferences, ~PickError(top.rs, pref)
               PROVE  LET wanted == WantedServers(top.rs, pref)
                          picked == PickServer(top.rs, pref)
                      IN  picked \subseteq wanted /\ (wanted # {} => picked # {})
    BY DEF PicksWanted
  <2> DEFINE r == top.rs
             nearest == PickNearest(r, pref)
             fit(s) == /\ Tagged(s, pref.tags)
                       /\ pref.maxStaleness # 0 => Staleness[Name(s)] <= pref.maxStaleness
             seconds == {s \in r.secondaries : fit(s)}
  <2>1. r \in StateType /\ IsPreference(pref)
    BY SetAssumption DEF ReplSetInv, Sound
  <2>2. /\ nearest \subseteq {s \in Candidates(r, pref) : fit(s)}
        /\ {s \in Candidates(r, pref) : fit(s)} # {} => nearest # {}
    BY <2>1, NearestIs DEF Candidates
  <2>3. /\ pref.mode = "primary" => PickServer(r, pref) = PrimaryOf(r)
        /\ pref.mode \in {"nearest", "secondary"} => PickServer(r, pref) = nearest
        /\ pref.mode = "secondaryPreferred"
             => PickServer(r, pref) = IF nearest = {} THEN PrimaryOf(r) ELSE nearest
        /\ pref.mode = "primaryPreferred"
             => PickServer(r, pref) = IF HasPrimary(r) THEN PrimaryOf(r) ELSE nearest
    BY DEF PickServer
  <2>4. /\ pref.mode = "primary" => WantedServers(r, pref) = PrimaryOf(r)
        /\ pref.mode = "secondary" => WantedServers(r, pref) = seconds
        /\ pref.mode = "nearest"
             => WantedServers(r, pref) = {s \in PrimaryOf(r) \cup r.secondaries : fit(s)}
        /\ pref.mode \in {"secondaryPreferred", "primaryPreferred"}
             => WantedServers(r, pref) = PrimaryOf(r) \cup seconds
    BY DEF WantedServers
  <2>5. Candidates(r, pref) =
          {s \in r.secondaries \cup (IF ForSecondaries(pref) THEN {} ELSE PrimaryOf(r)) :
             Tagged(s, pref.tags)}
    BY DEF Candidates
  <2>6. ~HasPrimary(r) <=> PrimaryOf(r) = {}
    BY DEF HasPrimary, PrimaryOf
  <2>7. pref.mode \in Modes
    BY <2>1 DEF IsPreference
  <2> HIDE DEF nearest, r
  <2>8. /\ PickServer(r, pref) \subseteq WantedServers(r, pref)
        /\ WantedServers(r, pref) # {} => PickServer(r, pref) # {}
    <3>1. CASE pref.mode = "primary"
      BY <2>3, <2>4, <3>1
    <3>2. CASE pref.mode = "secondary"
      BY <2>2, <2>3, <2>4, <2>5, <3>2 DEF ForSecondaries
    <3>3. CASE pref.mode = "nearest"
      BY <2>2, <2>3, <2>4, <2>5, <3>3 DEF ForSecondaries
    <3>4. CASE pref.mode = "secondaryPreferred"
      BY <2>2, <2>3, <2>4, <2>5, <3>4 DEF ForSecondaries
    <3>5. CASE pref.mode = "primaryPreferred"
      BY <2>2, <2>3, <2>4, <2>5, <2>6, <3>5 DEF ForSecondaries
    <3> QED
      BY <2>7, <3>1, <3>2, <3>3, <3>4, <3>5 DEF Modes
  <2> QED
    BY <2>8 DEF r
<1> QED
  BY <1>1, ReplSetInvariance, PTL
===============================================================================
