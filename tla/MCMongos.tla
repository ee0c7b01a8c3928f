----------------------------- MODULE MCMongos -----------------------------
(* Mongos, with two hosts. *)
EXTENDS Mongos

CONSTANTS a, b

MCSeedLists == {<<a, b>>, <<a, a>>}
=============================================================================
