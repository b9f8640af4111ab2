----------------------------- MODULE TrackerDb -----------------------------
(***************************************************************************)
(* The tables the closure mechanism reads and writes, and the statements   *)
(* that do so.  Rows are created before the closure starts, so ids and     *)
(* foreign keys are constants and the mutable columns are variables.  Each *)
(* statement runs in a SERIALIZABLE transaction or as one autocommitted    *)
(* UPDATE: it is one atomic step.                                          *)
(***************************************************************************)
EXTENDS Integers, FiniteSets

CONSTANTS
  Entities, Files, Syncs, Changesets,  \* ids of the rows of the four tables
  FileOf,        \* entity.file_id
  SyncOf,        \* file.sync_id
  BaseOf,        \* sync.base_sync_id, NoSync for a base sync
  NoSync, NoChangeset,
  Null           \* total_files / total_entities not set yet

ASSUME TablesAssumption ==
  /\ IsFiniteSet(Entities) /\ IsFiniteSet(Files) /\ IsFiniteSet(Changesets)
  /\ FileOf \in [Entities -> Files]
  /\ SyncOf \in [Files -> Syncs]
  /\ BaseOf \in [Syncs -> Syncs \cup {NoSync}]
  /\ NoSync \notin Syncs /\ NoChangeset \notin Changesets /\ Null \notin Nat
  /\ Changesets \cap Files = {} /\ Changesets \cap Syncs = {} /\ Files \cap Syncs = {}

Status == {"inprogress", "completed", "failed"}
EntityStatus == {"inprogress", "completed", "not_synced", "failed", "inrerun"}
ClosedEntityStatus == {"completed", "not_synced"}

VARIABLES
  entityStatus, changesetOf,     \* entity: status, changeset_id
  fileStatus, totalEntities,     \* file: status, total_entities
  syncStatus, totalFiles         \* sync: status, total_files

db == <<entityStatus, changesetOf, fileStatus, totalEntities, syncStatus, totalFiles>>

DbTypeOK ==
  /\ entityStatus \in [Entities -> EntityStatus]
  /\ changesetOf \in [Entities -> Changesets \cup {NoChangeset}]
  /\ fileStatus \in [Files -> Status]
  /\ totalEntities \in [Files -> Nat \cup {Null}]
  /\ syncStatus \in [Syncs -> Status]
  /\ totalFiles \in [Syncs -> Nat \cup {Null}]

-----------------------------------------------------------------------------
(* Queries *)

\* the in-progress files that have an entity in one of the changesets
findFilesByChangesets(C) ==
  {FileOf[e] : e \in {x \in Entities : /\ changesetOf[x] \in C
                                       /\ fileStatus[FileOf[x]] = "inprogress"}}

ClosedEntities(f) == {e \in Entities : FileOf[e] = f /\ entityStatus[e] \in ClosedEntityStatus}
ClosedFiles(s) == {f \in Files : SyncOf[f] = s /\ fileStatus[f] = "completed"}

\* mutation: the status filter of the COUNT subquery is lost
FileIsClosableUnfiltered(f) ==
  /\ fileStatus[f] # "completed"
  /\ totalEntities[f] = Cardinality({e \in Entities : FileOf[e] = f})

\* the WHERE clause of attemptFileClosure
FileIsClosable(f) ==
  /\ fileStatus[f] # "completed"
  /\ totalEntities[f] = Cardinality(ClosedEntities(f))

\* mutation: reruns are closed whatever the number of closed files
SyncsToCloseRerunUnchecked(s) ==
  {t \in Syncs : \/ t = s /\ syncStatus[t] # "completed" /\ totalFiles[t] = Cardinality(ClosedFiles(s))
                 \/ BaseOf[t] = s /\ syncStatus[t] = "inprogress"}

\* mutation: the branch of the WHERE clause for the reruns is lost
SyncsToCloseBaseOnly(s) ==
  {t \in Syncs : /\ t = s /\ syncStatus[t] # "completed"
                 /\ totalFiles[t] = Cardinality(ClosedFiles(s))}

\* the WHERE clause of attemptSyncClosure: the sync itself and its running reruns
SyncsToClose(s) ==
  {t \in Syncs : /\ \/ t = s /\ syncStatus[t] # "completed"
                    \/ BaseOf[t] = s /\ syncStatus[t] = "inprogress"
                 /\ totalFiles[t] = Cardinality(ClosedFiles(s))}

-----------------------------------------------------------------------------
(* Statements *)

attemptFileClosure(f) ==
  /\ fileStatus' = IF FileIsClosable(f) THEN [fileStatus EXCEPT ![f] = "completed"] ELSE fileStatus
  /\ UNCHANGED <<entityStatus, changesetOf, totalEntities, syncStatus, totalFiles>>

attemptSyncClosure(s) ==
  /\ syncStatus' = [t \in Syncs |-> IF t \in SyncsToClose(s) THEN "completed" ELSE syncStatus[t]]
  /\ UNCHANGED <<entityStatus, changesetOf, fileStatus, totalEntities, totalFiles>>

\* mutation: a body without a status overwrites the column with NULL
updateEntityNulling(e, st, c) ==
  /\ entityStatus' = [entityStatus EXCEPT ![e] = IF st = @ THEN Null ELSE st]
  /\ changesetOf' = [changesetOf EXCEPT ![e] = c]
  /\ UNCHANGED <<fileStatus, totalEntities, syncStatus, totalFiles>>

\* PATCH entity: a body may carry a status, a changeset id or both
updateEntity(e, st, c) ==
  /\ entityStatus' = [entityStatus EXCEPT ![e] = st]
  /\ changesetOf' = [changesetOf EXCEPT ![e] = c]
  /\ UNCHANGED <<fileStatus, totalEntities, syncStatus, totalFiles>>

\* PUT changeset entities: every entity of the changeset, whatever its status
updateEntitiesOfChangesetAsCompleted(c) ==
  /\ entityStatus' = [e \in Entities |-> IF changesetOf[e] = c THEN "completed" ELSE entityStatus[e]]
  /\ UNCHANGED <<changesetOf, fileStatus, totalEntities, syncStatus, totalFiles>>

\* PATCH file
updateFile(f, n) ==
  /\ totalEntities' = [totalEntities EXCEPT ![f] = n]
  /\ UNCHANGED <<entityStatus, changesetOf, fileStatus, syncStatus, totalFiles>>

\* PATCH sync
updateSync(s, st, n) ==
  /\ syncStatus' = [syncStatus EXCEPT ![s] = st]
  /\ totalFiles' = [totalFiles EXCEPT ![s] = n]
  /\ UNCHANGED <<entityStatus, changesetOf, fileStatus, totalEntities>>
=============================================================================
