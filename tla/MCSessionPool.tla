---------------------------- MODULE MCSessionPool -----------------------------
(* Instance of SessionPool for model checking.  The timeout is the default *)
(* one of the server, 30 minutes, or unknown; the lengths of time that     *)
(* pass reach both sides of the 29th minute and of the hour.               *)
EXTENDS SessionPool

CONSTANTS c1, c2, l1, l2, l3
===============================================================================
