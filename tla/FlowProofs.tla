---------------------------- MODULE FlowProofs ------------------------------
(***************************************************************************)
(* Proofs about ClosureFlow, for any tables, workers, queue options and    *)
(* faults: nothing is closed before it is whole, and every step is a step  *)
(* of SyncProgress or leaves alone what a client sees.                     *)
(***************************************************************************)
EXTENDS ClosureFlow, ClosureProofs

-----------------------------------------------------------------------------
(* The flow is a behaviour of Closure *)

LEMMA FlowStepIsStep == [FlowNext]_flowVars => [Next]_vars
<1> SUFFICES ASSUME [FlowNext]_flowVars PROVE [Next]_vars
  OBVIOUS
<1>1. CASE UNCHANGED flowVars
  BY <1>1 DEF flowVars
<1>2. CASE \E c \in Changesets : Upload(c)
  BY <1>2 DEF Upload, Next, Client
<1>3. CASE \E ids \in Arrays(Changesets) : RequestClosure(ids)
  BY <1>3 DEF RequestClosure, Next, Client
<1>4. CASE (Broker \/ (\E w \in Workers : Work(w)) \/ Failures) /\ UNCHANGED asked
  BY <1>4 DEF Next
<1> QED BY <1>1, <1>2, <1>3, <1>4 DEF FlowNext, FlowClient

\* whatever holds of every behaviour of Closure holds of the flow
THEOREM FlowIsClosure == FlowSpec => Spec
<1>1. FlowInit => Init
  BY DEF FlowInit
<1> QED BY <1>1, FlowStepIsStep, PTL DEF FlowSpec, Spec

-----------------------------------------------------------------------------
(* What a step of the flow does to the tables *)

\* the totals are what the ingestion left: nothing in the flow patches them
TotalsOK ==
  /\ \A f \in Files : totalEntities[f] = Cardinality(EntitiesOf(f))
  /\ \A s \in Syncs : totalFiles[s] = Cardinality(FilesOf(s))

WholeOK == TotalsOK /\ ClosedIsWhole

DbStep ==
  \/ UNCHANGED db
  \/ \E c \in Changesets : updateEntitiesOfChangesetAsCompleted(c)
  \/ \E f : attemptFileClosure(f)
  \/ \E s : attemptSyncClosure(s)

LEMMA FlowDbStep == [FlowNext]_flowVars => DbStep
<1> SUFFICES ASSUME [FlowNext]_flowVars PROVE DbStep
  OBVIOUS
<1>1. CASE UNCHANGED flowVars
  BY <1>1 DEF flowVars, vars, DbStep
<1>2. CASE \E c \in Changesets : Upload(c)
  BY <1>2 DEF Upload, UpdateChangesetEntities, DbStep
<1>3. CASE \E ids \in Arrays(Changesets) : RequestClosure(ids)
  BY <1>3 DEF RequestClosure, CreateClosures, DbStep
<1>4. CASE Broker
  BY <1>4 DEF Broker, KeepRest, StallOrphan, DbStep
<1>5. CASE \E w \in Workers : Work(w)
  <2>1. PICK w \in Workers : Work(w)
    BY <1>5
  <2>2. CASE \E sl \in Slots : Take(w, sl)
    BY <2>2 DEF Take, DbStep
  <2>3. CASE ProcessChangesets(w) \/ PushNext(w) \/ Complete(w)
    BY <2>3 DEF ProcessChangesets, PushNext, Complete, DbStep
  <2>4. CASE ProcessFile(w)
    BY <2>4 DEF ProcessFile, DbStep
  <2>5. CASE ProcessSync(w)
    BY <2>5 DEF ProcessSync, DbStep
  <2> QED BY <2>1, <2>2, <2>3, <2>4, <2>5 DEF Work
<1>6. CASE Failures
  BY <1>6 DEF Failures, TransactionFailure, ProcessError, Crash, StallSlow, LoseEvent, DbStep
<1> QED BY <1>1, <1>2, <1>3, <1>4, <1>5, <1>6 DEF FlowNext, FlowClient

\* a file that attemptFileClosure closes has all its entities closed: as many
\* closed entities as entities are all of them
LEMMA ClosableIsWhole ==
  ASSUME TotalsOK, NEW f \in Files, FileIsClosable(f)
  PROVE  \A e \in EntitiesOf(f) : entityStatus[e] \in ClosedEntityStatus
<1>1. IsFiniteSet(EntitiesOf(f))
  BY TablesAssumption, FS_Subset DEF EntitiesOf
<1>2. ClosedEntities(f) \in SUBSET EntitiesOf(f)
  BY DEF ClosedEntities, EntitiesOf
<1>3. Cardinality(EntitiesOf(f)) = Cardinality(ClosedEntities(f))
  BY DEF TotalsOK, FileIsClosable
<1>4. EntitiesOf(f) = ClosedEntities(f)
  BY <1>1, <1>2, <1>3, FS_Subset
<1> QED BY <1>4 DEF ClosedEntities

\* a sync or rerun that attemptSyncClosure closes has all its files completed,
\* although a rerun is compared with the files of its base sync
LEMMA SyncsToCloseAreWhole ==
  ASSUME TotalsOK, NEW s, NEW t \in SyncsToClose(s)
  PROVE  \A f \in FilesOf(t) : fileStatus[f] = "completed"
<1>1. t \in Syncs /\ (t = s \/ BaseOf[t] = s)
  BY DEF SyncsToClose
<1>2. IsFiniteSet(FilesOf(t))
  BY TablesAssumption, FS_Subset DEF FilesOf
<1>3. ClosedFiles(s) \in SUBSET FilesOf(t)
  BY <1>1 DEF ClosedFiles, FilesOf
<1>4. Cardinality(FilesOf(t)) = Cardinality(ClosedFiles(s))
  BY <1>1 DEF TotalsOK, SyncsToClose
<1>5. FilesOf(t) = ClosedFiles(s)
  BY <1>2, <1>3, <1>4, FS_Subset
<1> QED BY <1>5 DEF ClosedFiles

-----------------------------------------------------------------------------
(* Nothing is closed before it is whole *)

LEMMA WholeInit == FlowInit => WholeOK
<1> SUFFICES ASSUME FlowInit PROVE WholeOK
  OBVIOUS
<1>1. TotalsOK
  BY DEF FlowInit, Init, TotalsOK
<1>2. ClosedIsWhole
  BY DEF FlowInit, Init, ClosedIsWhole
<1> QED BY <1>1, <1>2 DEF WholeOK

LEMMA WholeStep ==
  ASSUME TypeOK, WholeOK, DbStep
  PROVE  WholeOK'
<1> USE DEF WholeOK
<1>0. /\ entityStatus \in [Entities -> EntityStatus]
      /\ fileStatus \in [Files -> Status] /\ syncStatus \in [Syncs -> Status]
  BY DEF TypeOK, DbTypeOK
<1>1. TotalsOK'
  BY DEF DbStep, db, TotalsOK, updateEntitiesOfChangesetAsCompleted, attemptFileClosure,
         attemptSyncClosure, EntitiesOf, FilesOf
<1>2. CASE UNCHANGED db
  BY <1>1, <1>2 DEF db, ClosedIsWhole, EntitiesOf, FilesOf
<1>3. CASE \E c \in Changesets : updateEntitiesOfChangesetAsCompleted(c)
  <2>1. PICK c \in Changesets : updateEntitiesOfChangesetAsCompleted(c)
    BY <1>3
  <2>2. \A e \in Entities : entityStatus[e] \in ClosedEntityStatus => entityStatus'[e] \in ClosedEntityStatus
    BY <1>0, <2>1 DEF updateEntitiesOfChangesetAsCompleted, ClosedEntityStatus
  <2>3. UNCHANGED <<fileStatus, syncStatus>>
    BY <2>1 DEF updateEntitiesOfChangesetAsCompleted
  <2> QED BY <1>1, <2>2, <2>3 DEF ClosedIsWhole, EntitiesOf, FilesOf
<1>4. CASE \E f : attemptFileClosure(f)
  <2>1. PICK f : attemptFileClosure(f)
    BY <1>4
  <2>2. \A g \in Files : fileStatus'[g] = "completed" =>
          fileStatus[g] = "completed" \/ (g = f /\ FileIsClosable(f))
    BY <1>0, <2>1 DEF attemptFileClosure
  <2>3. \A g \in Files : fileStatus[g] = "completed" => fileStatus'[g] = "completed"
    BY <1>0, <2>1 DEF attemptFileClosure
  <2>4. UNCHANGED <<entityStatus, syncStatus>>
    BY <2>1 DEF attemptFileClosure
  <2>5. \A g \in Files : fileStatus'[g] = "completed" =>
          \A e \in EntitiesOf(g) : entityStatus[e] \in ClosedEntityStatus
    BY <2>2, ClosableIsWhole DEF ClosedIsWhole
  <2> QED BY <1>1, <2>3, <2>4, <2>5 DEF ClosedIsWhole, EntitiesOf, FilesOf
<1>5. CASE \E s : attemptSyncClosure(s)
  <2>1. PICK s : attemptSyncClosure(s)
    BY <1>5
  <2>2. \A t \in Syncs : syncStatus'[t] = "completed" => syncStatus[t] = "completed" \/ t \in SyncsToClose(s)
    BY <2>1 DEF attemptSyncClosure
  <2>3. UNCHANGED <<entityStatus, fileStatus>>
    BY <2>1 DEF attemptSyncClosure
  <2>4. \A t \in Syncs : syncStatus'[t] = "completed" => \A f \in FilesOf(t) : fileStatus[f] = "completed"
    BY <2>2, SyncsToCloseAreWhole DEF ClosedIsWhole
  <2> QED BY <1>1, <2>3, <2>4 DEF ClosedIsWhole, EntitiesOf, FilesOf
<1> QED BY <1>2, <1>3, <1>4, <1>5 DEF DbStep

\* the invariant behind both results
THEOREM WholeCorrect == FlowSpec => [](TypeOK /\ WholeOK)
<1>1. FlowSpec => []TypeOK
  BY FlowIsClosure, TypeCorrect, PTL
<1>2. TypeOK /\ WholeOK /\ [FlowNext]_flowVars => WholeOK'
  BY WholeStep, FlowDbStep
<1> QED BY <1>1, <1>2, WholeInit, PTL DEF FlowSpec

\* A sync or a rerun is completed only when each of its files is, and a file only
\* when each of its entities is closed, whatever the workers, retries and faults.
THEOREM NothingClosesEarly == FlowSpec => []ClosedIsWhole
<1>1. WholeOK => ClosedIsWhole
  BY DEF WholeOK
<1> QED BY <1>1, WholeCorrect, PTL

-----------------------------------------------------------------------------
(* The flow implements SyncProgress *)

ClosedE == {e \in Entities : entityStatus[e] \in ClosedEntityStatus}
ClosedF == {f \in Files : fileStatus[f] = "completed"}
ClosedS == {s \in Syncs : syncStatus[s] = "completed"}

LEMMA ProgressInit == FlowInit => Progress!Init
  BY DEF FlowInit, Init, Progress!Init, ClosedEntityStatus

\* a changeset's report is a report, a file closure that finds its file whole is a
\* CloseFile, a sync closure a CloseSyncs of what it closes; the rest stutters
LEMMA ProgressStep ==
  ASSUME TypeOK, WholeOK, DbStep
  PROVE  [Progress!Next]_(Progress!vars)
<1>0. /\ entityStatus \in [Entities -> EntityStatus]
      /\ fileStatus \in [Files -> Status] /\ syncStatus \in [Syncs -> Status]
  BY DEF TypeOK, DbTypeOK
<1>1. CASE UNCHANGED db
  BY <1>1 DEF db, Progress!vars
<1>2. CASE \E c \in Changesets : updateEntitiesOfChangesetAsCompleted(c)
  <2>1. PICK c \in Changesets : updateEntitiesOfChangesetAsCompleted(c)
    BY <1>2
  <2> DEFINE E == {e \in Entities : changesetOf[e] = c}
  <2>2. ClosedE' = ClosedE \cup E
    BY <1>0, <2>1 DEF updateEntitiesOfChangesetAsCompleted, ClosedE, ClosedEntityStatus
  <2>3. ClosedF' = ClosedF /\ ClosedS' = ClosedS
    BY <2>1 DEF updateEntitiesOfChangesetAsCompleted, ClosedF, ClosedS
  <2>4. E \in SUBSET Entities
    OBVIOUS
  <2> HIDE DEF E
  <2>5. \E X \in SUBSET Entities : Progress!Report(X)
    BY <2>2, <2>3, <2>4 DEF Progress!Report, ClosedE, ClosedF, ClosedS
  <2> QED BY <2>5 DEF Progress!Next
<1>3. CASE \E f : attemptFileClosure(f)
  <2>1. PICK f : attemptFileClosure(f)
    BY <1>3
  <2>2. ClosedE' = ClosedE /\ ClosedS' = ClosedS
    BY <2>1 DEF attemptFileClosure, ClosedE, ClosedS
  <2>3. CASE f \in Files /\ FileIsClosable(f)
    <3>1. f \notin ClosedF
      BY <2>3 DEF FileIsClosable, ClosedF
    <3>2. \A e \in Entities : FileOf[e] = f => e \in ClosedE
      BY <2>3, ClosableIsWhole DEF WholeOK, EntitiesOf, ClosedE
    <3>3. ClosedF' = ClosedF \cup {f}
      BY <1>0, <2>1, <2>3 DEF attemptFileClosure, ClosedF
    <3>4. Progress!CloseFile(f)
      BY <2>2, <3>1, <3>2, <3>3 DEF Progress!CloseFile, ClosedE, ClosedF, ClosedS
    <3> QED BY <2>3, <3>4 DEF Progress!Next
  <2>4. CASE ~(f \in Files /\ FileIsClosable(f))
    <3>1. ClosedF' = ClosedF
      BY <1>0, <2>1, <2>4 DEF attemptFileClosure, ClosedF
    <3> QED BY <2>2, <3>1 DEF Progress!vars, ClosedE, ClosedF, ClosedS
  <2> QED BY <2>3, <2>4
<1>4. CASE \E s : attemptSyncClosure(s)
  <2>1. PICK s : attemptSyncClosure(s)
    BY <1>4
  <2>2. ClosedE' = ClosedE /\ ClosedF' = ClosedF
    BY <2>1 DEF attemptSyncClosure, ClosedE, ClosedF
  <2>3. SyncsToClose(s) \in SUBSET Syncs
    BY DEF SyncsToClose
  <2>4. ClosedS' = ClosedS \cup SyncsToClose(s)
    BY <2>1, <2>3 DEF attemptSyncClosure, ClosedS
  <2>5. \A t \in SyncsToClose(s) : FilesOf(t) \subseteq ClosedF
    BY SyncsToCloseAreWhole DEF WholeOK, FilesOf, ClosedF
  <2>6. \E S \in SUBSET Syncs : Progress!CloseSyncs(S)
    BY <2>2, <2>3, <2>4, <2>5 DEF Progress!CloseSyncs, ClosedE, ClosedF, ClosedS
  <2> QED BY <2>6 DEF Progress!Next
<1> QED BY <1>1, <1>2, <1>3, <1>4 DEF DbStep

\* Every behaviour of the flow is, to a client, a behaviour of SyncProgress: files
\* close once and after their entities, syncs and reruns after their files.
THEOREM FlowImplementsProgress == FlowSpec => Progress!Safety
<1>1. TypeOK /\ WholeOK /\ [FlowNext]_flowVars => [Progress!Next]_(Progress!vars)
  BY ProgressStep, FlowDbStep
<1> QED BY <1>1, WholeCorrect, ProgressInit, PTL DEF FlowSpec, Progress!Safety
=============================================================================
