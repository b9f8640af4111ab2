----------------------------- MODULE MCRegistry -----------------------------
(* Instances of Registry for TLC. *)
EXTENDS Registry, TLC

CONSTANTS s1, s2, s3, f1, f2, e1, e2, c1, q1, q2, q3

AnyRequest == Permutations(Requests)

SyncOf(base, full) == [base |-> base, full |-> full, layer |-> 1, meta |-> {}]

\* s1 is a sync, s2 its rerun if there is one, s3 is not registered
SyncTables ==
  {[s \in SyncIds |-> CASE s = s1 -> SyncOf(NoSync, FALSE)
                        [] s = s2 /\ rerun -> SyncOf(s1, FALSE)
                        [] OTHER -> NoRow] : rerun \in BOOLEAN}

\* f1 may be registered on s1, f2 is not registered
FileTables ==
  {[f \in FileIds |-> IF f = f1 /\ known THEN [sync |-> s1, total |-> 2] ELSE NoRow] : known \in BOOLEAN}

\* e1 is in any state, e2 is not registered
EntityTables ==
  {[x \in Rows |-> IF x = <<f1, e1>> THEN st ELSE NoRow] : st \in EntityStatus \cup {NoRow}}

SyncBodies ==
  {[op |-> "createSync", sync |-> s, full |-> TRUE, layer |-> 1] : s \in {s2, s3}}
  \cup {[op |-> "createSync", sync |-> s3, full |-> FALSE, layer |-> 1]}
  \cup {[op |-> "updateSync", sync |-> s, meta |-> {k}] : s \in {s1, s3}, k \in {1, 2}}

FileBodies ==
  {[op |-> "createFile", sync |-> s, file |-> f, total |-> n] : s \in SyncIds, f \in FileIds, n \in {1, 2}}
  \cup {[op |-> "createFiles", sync |-> s, files |-> fs, total |-> 2] :
          s \in SyncIds, fs \in {<<f2>>, <<f1, f2>>, <<f2, f2>>}}
  \cup {[op |-> "updateFile", sync |-> s1, file |-> f, total |-> 1] : f \in FileIds}

EntityBodies ==
  {[op |-> "createEntity", file |-> f, entity |-> e, status |-> "unset"] : f \in FileIds, e \in EntityIds}
  \cup {[op |-> "createEntities", file |-> f1, entities |-> es, status |-> st] :
          es \in {<<e2>>, <<e1, e2>>, <<e1, e1>>}, st \in {"unset", "failed"}}
  \cup {[op |-> "createEntities", file |-> f2, entities |-> <<e1>>, status |-> "unset"]}
  \cup {[op |-> "updateEntity", file |-> f, entity |-> e1, status |-> "completed"] : f \in FileIds}
  \cup {[op |-> "updateEntities", rows |-> xs, status |-> "not_synced"] :
          xs \in {<<<<f1, e1>>>>, <<<<f1, e1>>, <<f1, e2>>>>, <<<<f1, e1>>, <<f2, e1>>>>}}

ChangesetBodies ==
  {[op |-> op, changeset |-> c1, osm |-> n] : op \in {"createChangeset", "updateChangeset"}, n \in {1, 2}}

AllBodies == SyncBodies \cup FileBodies \cup EntityBodies \cup ChangesetBodies
=============================================================================
