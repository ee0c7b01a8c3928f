----------------------- MODULE MCTopologyDescription -----------------------
(* TopologyDescription, on a few servers and responses. *)
EXTENDS TopologyDescription, TLC

CONSTANTS a, b, c, rs, other

Reply(type, name, version, id, hosts) ==
  [UnknownServer EXCEPT !.type = type, !.setName = name, !.setVersion = version,
                        !.electionId = id, !.hosts = hosts]

Moved(sd) == [sd EXCEPT !.moved = TRUE]

(* Primaries before and after a reconfiguration and an election, two      *)
(* without ids, members of both sets, and what is not a member.            *)
MCReplies ==
  {UnknownServer,
   Reply("Standalone", NoName, 0, 0, {}),
   Reply("Mongos", NoName, 0, 0, {}),
   Reply("RSGhost", NoName, 0, 0, {}),
   Reply("RSPrimary", rs, 1, 1, {a, b}),
   Reply("RSPrimary", rs, 1, 2, {a, b}),
   Reply("RSPrimary", rs, 2, 1, {a, c}),
   Reply("RSPrimary", rs, 2, 0, {a, b}),
   Reply("RSPrimary", rs, 0, 0, {a, b, c}),
   Reply("RSPrimary", other, 1, 1, {a, b}),
   Reply("RSSecondary", rs, 1, 0, {a, b, c}),
   Moved(Reply("RSSecondary", rs, 1, 0, {b, c})),
   Reply("RSArbiter", other, 1, 0, {a, c})}
=============================================================================
