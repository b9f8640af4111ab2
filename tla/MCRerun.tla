------------------------------- MODULE MCRerun ------------------------------
(* Instances of Rerun for TLC. *)
EXTENDS Rerun

CONSTANTS x, e1, e2, f1, f2, r1, r2, r3, q1, q2, q3

\* f1 holds every entity, f2 is registered without any
InF1 == [e \in Entities |-> f1]
OwnId == [e \in Entities |-> e]

\* two files that hold an entity of the same id
FileEach == [e \in Entities |-> IF e = e1 THEN f1 ELSE f2]
OneId == [e \in Entities |-> x]

OwnRerun == [q \in Requests |-> CASE q = q1 -> r1 [] q = q2 -> r2 [] OTHER -> r3]
NotSyncedNever == [q \in Requests |-> FALSE]
OneNotSynced == [q \in Requests |-> q = q2]
=============================================================================
