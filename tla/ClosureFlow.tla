---------------------------- MODULE ClosureFlow -----------------------------
(***************************************************************************)
(* The closure mechanism under the client it is made for: every entity is  *)
(* in a changeset; once a changeset is uploaded its entities are marked    *)
(* completed (PUT .../entities) and its closure is requested               *)
(* (POST /changeset/closure), several changesets at a time or one by one.  *)
(***************************************************************************)
EXTENDS Closure

VARIABLE asked      \* the changesets whose closure was requested

flowVars == <<vars, asked>>

Uploaded(c) == \A e \in Entities : changesetOf[e] = c => entityStatus[e] = "completed"

FlowInit ==
  /\ Init
  /\ \A e \in Entities : changesetOf[e] # NoChangeset
  /\ \A f \in Files : totalEntities[f] # Null
  /\ asked = {}

Upload(c) ==
  /\ ~Uploaded(c)
  /\ UpdateChangesetEntities(c)
  /\ UNCHANGED asked

RequestClosure(ids) ==
  /\ \A c \in Range(ids) : Uploaded(c) /\ c \notin asked
  /\ CreateClosures(ids)
  /\ asked' = asked \cup Range(ids)

FlowClient ==
  \/ \E c \in Changesets : Upload(c)
  \/ \E ids \in Arrays(Changesets) : RequestClosure(ids)

FlowNext ==
  \/ FlowClient
  \/ (Broker \/ (\E w \in Workers : Work(w)) \/ Failures) /\ UNCHANGED asked

FlowSpec ==
  /\ FlowInit /\ [][FlowNext]_flowVars
  /\ Fairness
  /\ WF_flowVars(FlowClient)

-----------------------------------------------------------------------------
(* What the flow implements *)

Progress == INSTANCE SyncProgress WITH
  closed <- {e \in Entities : entityStatus[e] \in ClosedEntityStatus},
  closedFiles <- {f \in Files : fileStatus[f] = "completed"},
  closedSyncs <- {s \in Syncs : syncStatus[s] = "completed"}

\* Behind the queues, batches, retries and overlapping workers a client sees files
\* that close once, after the last of their entities, and syncs and reruns that
\* close after the last of their files, and nothing that is whole stays open.
ImplementsProgress == Progress!Spec

-----------------------------------------------------------------------------
\* Once every changeset is uploaded and its closure requested, every file and
\* every sync, running reruns included, ends up completed and stays so: no order
\* of uploads, requests, overlapping batches and failures leaves one open.
EverythingCloses ==
  <>[](/\ \A f \in Files : fileStatus[f] = "completed"
       /\ \A s \in Syncs : syncStatus[s] = "completed")

\* A sync or a rerun is completed only when each of its files is, and a file only
\* when each of its entities is closed: no closure overtakes an upload.
ClosedIsWhole ==
  /\ \A f \in Files : fileStatus[f] = "completed" =>
       \A e \in EntitiesOf(f) : entityStatus[e] \in ClosedEntityStatus
  /\ \A s \in Syncs : syncStatus[s] = "completed" =>
       \A f \in FilesOf(s) : fileStatus[f] = "completed"
=============================================================================
