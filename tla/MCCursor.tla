------------------------------- MODULE MCCursor -------------------------------
(* Instance of Cursor for model checking.                                  *)
EXTENDS Cursor

CONSTANTS c1, c2
===============================================================================
