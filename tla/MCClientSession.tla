--------------------------- MODULE MCClientSession ----------------------------
(* Instance of ClientSession for model checking. *)
EXTENDS ClientSession

CONSTANTS s1, s2, l1, x1, x2
===============================================================================
