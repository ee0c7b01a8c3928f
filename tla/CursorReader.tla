---------------------------- MODULE CursorReader ------------------------------
(***************************************************************************)
(* What a cursor promises to the application that reads it (Cursor,        *)
(* lib/cursor.js): the documents that match the query, each of them once   *)
(* and in order, no more of them than the limit, and the news that they    *)
(* are over only when they are.                                            *)
(***************************************************************************)
EXTENDS Naturals, Sequences

VARIABLES
  matched,   \* how many documents match the query: they are 1, 2, ...
  limit,     \* the limit of the cursor, 0 for none
  read,      \* the documents the application was given, since the start or a rewind
  status     \* reading, over, killed by the application, or misused by it

vars == <<matched, limit, read, status>>

Allowed == IF limit > 0 /\ limit < matched THEN limit ELSE matched
FirstDocuments(n) == [k \in 1..n |-> k]

Init ==
  /\ matched \in Nat /\ limit \in Nat
  /\ read = <<>>
  /\ status \in {"reading", "misused"}

(* One document of next, or several of readBufferedDocuments. *)
Read ==
  /\ status = "reading"
  /\ \E n \in (Len(read) + 1)..Allowed : read' = FirstDocuments(n)
  /\ UNCHANGED status

Finish == status = "reading" /\ Len(read) = Allowed /\ status' = "over" /\ UNCHANGED read
Kill == status \in {"reading", "over"} /\ status' = "killed" /\ UNCHANGED read
Rewind == status # "misused" /\ status' = "reading" /\ read' = <<>>

(* Calls of next that overlap: nothing more is promised. *)
Misuse == status' = "misused"

Next ==
  /\ Read \/ Finish \/ Kill \/ Rewind \/ Misuse
  /\ UNCHANGED <<matched, limit>>

Spec == Init /\ [][Next]_vars
===============================================================================
