----------------------------- MODULE MCTopology -----------------------------
(* Topology, with two servers. *)
EXTENDS Topology, TLC

CONSTANTS a, b, rs, w, p, east

Reply(type, name, hosts) ==
  [UnknownServer EXCEPT !.type = type, !.setName = name, !.hosts = hosts]

(* Primaries of one and of two servers, one of them too old, a secondary   *)
(* that was moved, and servers that are no members.                        *)
MCReplies ==
  {UnknownServer,
   Reply("RSPrimary", rs, {a, b}),
   [Reply("RSPrimary", rs, {a, b}) EXCEPT !.compatible = FALSE],
   Reply("RSPrimary", rs, {b}),
   Reply("RSSecondary", rs, {a, b}),
   [Reply("RSSecondary", rs, {a, b}) EXCEPT !.moved = TRUE],
   Reply("Mongos", NoName, {}),
   Reply("Standalone", NoName, {})}

MCPreference ==
  [s \in {w, p} |->
     IF s = w THEN [mode |-> "writable", tags |-> <<>>, maxStaleness |-> 0]
     ELSE [mode |-> "secondaryPreferred", tags |-> <<{east}, {}>>, maxStaleness |-> 90]]

MCTags == [h \in {a, b} |-> IF h = a THEN {east} ELSE {}]

MCAge == [h \in {a, b} |-> IF h = a THEN 0 ELSE 100]
=============================================================================
