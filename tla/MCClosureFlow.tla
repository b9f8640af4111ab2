--------------------------- MODULE MCClosureFlow ----------------------------
(* Instances of ClosureFlow for TLC. *)
EXTENDS ClosureFlow

CONSTANTS c1, c2, c3, e1, e2, e3, f1, f2, s1, r1, wc, wf, wg, ws

\* f1 holds e1 and e2, f2 holds e3
Spread == [e \in Entities |-> IF e = e3 THEN f2 ELSE f1]
OneSync == [f \in Files |-> s1]
WithRerun == [s \in Syncs |-> IF s = r1 THEN s1 ELSE NoSync]
Queues == [w \in Workers |-> CASE w = wc -> "changesets" [] w = ws -> "syncs" [] OTHER -> "files"]
=============================================================================
