----------------------------- MODULE MCReplSet -----------------------------
(* ReplSet, with two members. *)
EXTENDS ReplSet

CONSTANTS a, b, x

MCMe == [h \in Host |-> IF h = x THEN a ELSE h]

MCTags == [h \in Host |-> IF h = b THEN {"east", "ssd"} ELSE {"east"}]

MCLatency == [h \in Host |-> IF h = b THEN 30 ELSE 5]

MCStaleness == [h \in Host |-> IF h = b THEN 100 ELSE 0]

(* Each mode, without tags and with every staleness: none, one that is     *)
(* refused, one that excludes a member; with tag sets of which the second  *)
(* is of a member, and with one that is of none.                           *)
MCPreferences ==
  {[mode |-> "primary", tags |-> <<>>, maxStaleness |-> 0]}
    \cup [mode : Modes \ {"primary"}, tags : {<<>>}, maxStaleness : {0, 30, 90}]
    \cup [mode : Modes \ {"primary"}, tags : {<<{"west"}, {"ssd"}>>}, maxStaleness : {0, 90}]
    \cup [mode : Modes \ {"primary"}, tags : {<<{"west"}>>}, maxStaleness : {0}]

(* No operations. *)
MCNone == {}
=============================================================================
