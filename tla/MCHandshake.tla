------------------------------ MODULE MCHandshake ------------------------------
(* Instance of Handshake for model checking: all ways to cut four messages *)
(* into chunks, of which the first ones are answers of the handshake.      *)
EXTENDS Handshake
===============================================================================
