---------------------------- MODULE SyncProgress ----------------------------
(***************************************************************************)
(* What closing promises to a client, without queues, workers or retries:  *)
(* entities are reported, a file is closed at some time after the last of  *)
(* its entities, and a sync or a rerun at some time after the last of its  *)
(* files.  ClosureFlow implements this specification.                      *)
(***************************************************************************)
CONSTANTS
  Entities, Files, Syncs,
  FileOf,        \* entity -> its file
  FilesOf(_)     \* sync or rerun -> the files it waits for

VARIABLES
  closed,        \* the entities that are completed or not synced
  closedFiles,   \* the completed files
  closedSyncs    \* the completed syncs and reruns

vars == <<closed, closedFiles, closedSyncs>>

Init == closed = {} /\ closedFiles = {} /\ closedSyncs = {}

\* the entities of one request, or of one changeset, are reported together
Report(E) ==
  /\ closed' = closed \cup E
  /\ UNCHANGED <<closedFiles, closedSyncs>>

CloseFile(f) ==
  /\ f \notin closedFiles
  /\ \A e \in Entities : FileOf[e] = f => e \in closed
  /\ closedFiles' = closedFiles \cup {f}
  /\ UNCHANGED <<closed, closedSyncs>>

\* a sync and its reruns may be closed together
CloseSyncs(S) ==
  /\ \A s \in S : FilesOf(s) \subseteq closedFiles
  /\ closedSyncs' = closedSyncs \cup S
  /\ UNCHANGED <<closed, closedFiles>>

Next ==
  \/ \E E \in SUBSET Entities : Report(E)
  \/ \E f \in Files : CloseFile(f)
  \/ \E S \in SUBSET Syncs : CloseSyncs(S)

Safety == Init /\ [][Next]_vars

\* what is whole does not stay open
Fairness ==
  /\ \A f \in Files : WF_vars(CloseFile(f))
  /\ \A s \in Syncs : WF_vars(\E S \in SUBSET Syncs : s \in S \ closedSyncs /\ CloseSyncs(S))

Spec == Safety /\ Fairness
=============================================================================
