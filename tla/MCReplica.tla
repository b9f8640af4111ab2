----------------------------- MODULE MCReplica ------------------------------
(* Instances of Replica for TLC. *)
EXTENDS Replica

CONSTANTS c1, e1, f1, s1, wc, wf, ws

OneFile == [e \in Entities |-> f1]
OneSync == [f \in Files |-> s1]
NoReruns == [s \in Syncs |-> NoSync]
Queues == [w \in Workers |-> CASE w = wc -> "changesets" [] w = ws -> "syncs" [] OTHER -> "files"]
=============================================================================
