------------------------------- MODULE Rerun --------------------------------
(***************************************************************************)
(* POST /sync/{syncId}/rerun: how a failed base sync is prepared for       *)
(* another run, by any number of concurrent requests, while clients go on  *)
(* reporting entities and the workers go on closing files and syncs.       *)
(*                                                                         *)
(* The request checks the sync table, then runs one SERIALIZABLE           *)
(* transaction on file, entity and entity_history.  Two statements inside  *)
(* the transaction callback go through `this`, that is through another     *)
(* connection: the second look at the latest rerun and the INSERT of the   *)
(* rerun.  They read and write the sync table at once, whatever becomes of *)
(* the transaction, and they wait for a second connection of the pool      *)
(* while the transaction keeps the first.                                  *)
(*                                                                         *)
(* PostgreSQL is external: a transaction works on its snapshot, keeps the  *)
(* rows it wrote locked, fails on a row changed since its snapshot, and    *)
(* may fail with a serialization failure at any statement or at COMMIT.    *)
(***************************************************************************)
EXTENDS Integers, FiniteSets

CONSTANTS
  Base, Reruns,       \* the base sync and the ids of its possible reruns
  Files, Entities, FileOf,
  IdOf,               \* entity.entity_id: unique within a file only
  Requests,           \* the rerun requests
  RerunOf,            \* request -> rerunId of its body
  NotSyncedToo,       \* request -> shouldRerunNotSynced of its body
  Absent,             \* the row does not exist
  NoTables,
  PoolSize,           \* the connections of the data source's pool
  MaxClientOps        \* bound: what clients and workers do meanwhile

Status == {"inprogress", "completed", "failed"}
EntityStatus == {"inprogress", "completed", "not_synced", "failed", "inrerun"}
ClosedEntityStatus == {"completed", "not_synced"}
Runs == Reruns \cup {Base}

ASSUME RerunAssumption ==
  /\ Base \notin Reruns /\ Absent \notin Status \cup EntityStatus
  /\ IsFiniteSet(Files) /\ IsFiniteSet(Entities) /\ IsFiniteSet(Reruns)
  /\ FileOf \in [Entities -> Files] /\ DOMAIN IdOf = Entities
  /\ \A d, e \in Entities : FileOf[d] = FileOf[e] /\ IdOf[d] = IdOf[e] => d = e
  /\ PoolSize \in Nat
  /\ RerunOf \in [Requests -> Reruns] /\ NotSyncedToo \in [Requests -> BOOLEAN]
  /\ MaxClientOps \in Nat

VARIABLES
  syncs,        \* run -> sync.status
  runNumber,    \* run -> sync.run_number
  db,           \* the tables of the transaction: files, entities, history
  req,          \* request -> where its handler is
  clientOps     \* counter for the bound

vars == <<syncs, runNumber, db, req, clientOps>>

History == [run : Runs, entity : Entities, status : EntityStatus]
Tables == [files : [Files -> Status \cup {Absent}],
           entities : [Entities -> EntityStatus \cup {Absent}],
           history : SUBSET History]

EntitiesOf(f) == {e \in Entities : FileOf[e] = f}
TotalEntities(f) == Cardinality(EntitiesOf(f))
\* what the client announces: the files that carry entities
TotalFiles == Cardinality({f \in Files : EntitiesOf(f) # {}})

ClosedEntities(t, f) == {e \in EntitiesOf(f) : t.entities[e] \in ClosedEntityStatus}
ClosedFiles(t) == {f \in Files : t.files[f] = "completed"}

-----------------------------------------------------------------------------
(* Requests and their transactions *)

Phases == {"check", "base", "begin", "delete", "latest", "prepare", "insert", "commit", "done"}
InTransaction == {"delete", "latest", "prepare", "insert", "commit"}
Answers == {"none", "200", "201", "409", "500"}

\* view: the snapshot with the transaction's own writes; files and entities: the
\* rows it wrote; added: the history rows; closes: it completed the base sync;
\* staleFiles and staleEntities: the rows other reruns have written since the snapshot
Transaction == [view : Tables \cup {NoTables}, files : SUBSET Files, entities : SUBSET Entities,
                added : SUBSET History, closes : BOOLEAN,
                staleFiles : SUBSET Files, staleEntities : SUBSET Entities]
NoTransaction == [view |-> NoTables, files |-> {}, entities |-> {}, added |-> {}, closes |-> FALSE,
                  staleFiles |-> {}, staleEntities |-> {}]

Request == [phase : Phases, answer : Answers, number : Nat, latest : Runs, tx : Transaction]
At(ph, n, l, tx) == [phase |-> ph, answer |-> "none", number |-> n, latest |-> l, tx |-> tx]
Answered(ans) == [phase |-> "done", answer |-> ans, number |-> 0, latest |-> Base, tx |-> NoTransaction]

\* mutation: the queries beside the transaction take two connections
FreeConnectionForTwo ==
  Cardinality({q \in Requests : req[q].phase \in InTransaction}) + 1 < PoolSize

\* a transaction keeps its connection from BEGIN to its end, a query of its own takes
\* one for its time
FreeConnection ==
  Cardinality({q \in Requests : req[q].phase \in InTransaction}) < PoolSize

\* every table and every request holds values of its kind
TypeOK ==
  /\ syncs \in [Runs -> Status \cup {Absent}]
  /\ runNumber \in [Runs -> Nat]
  /\ db \in Tables
  /\ req \in [Requests -> Request]
  /\ clientOps \in 0..MaxClientOps

LockedFiles == UNION {req[q].tx.files : q \in Requests}
LockedEntities == UNION {req[q].tx.entities : q \in Requests}
BaseLocked == \E q \in Requests : req[q].tx.closes

\* a run that failed, at any point of its life: files that are whole may be
\* still open, empty files may be registered, entities may be missing
Init ==
  /\ syncs = [r \in Runs |-> IF r = Base THEN "failed" ELSE Absent]
  /\ runNumber = [r \in Runs |-> 0]
  /\ db \in {t \in [files : [Files -> {"inprogress", "completed", Absent}],
                    entities : [Entities -> {"inprogress", "completed", "not_synced", "failed", Absent}],
                    history : {{}}] :
               /\ \A e \in Entities : t.files[FileOf[e]] = Absent => t.entities[e] = Absent
               /\ \A f \in ClosedFiles(t) : EntitiesOf(f) # {} /\ ClosedEntities(t, f) = EntitiesOf(f)}
  /\ req = [q \in Requests |-> At("check", 0, Base, NoTransaction)]
  /\ clientOps = 0

-----------------------------------------------------------------------------
(* rerunSyncIfNeeded *)

\* ORDER BY rerun.run_number DESC LIMIT 1: any of the reruns with the highest number
LatestReruns ==
  {r \in Reruns : /\ syncs[r] # Absent
                  /\ \A s \in Reruns : syncs[s] # Absent => runNumber[s] <= runNumber[r]}
LatestRuns == IF LatestReruns = {} THEN {Base} ELSE LatestReruns

\* findOneSync(rerunId)
Check(q) ==
  /\ req[q].phase = "check" /\ FreeConnection
  /\ req' = [req EXCEPT ![q] = IF syncs[RerunOf[q]] # Absent THEN Answered("409")
                               ELSE At("base", 0, Base, NoTransaction)]
  /\ UNCHANGED <<syncs, runNumber, db, clientOps>>

\* mutation: the run number goes down from the latest one
CheckBaseDescending(q) ==
  /\ req[q].phase = "base" /\ FreeConnection
  /\ \E l \in LatestRuns :
       req' = [req EXCEPT ![q] = IF syncs[Base] # "failed" \/ syncs[l] # "failed" THEN Answered("409")
                                 ELSE At("begin", runNumber[l] - 1, Base, NoTransaction)]
  /\ UNCHANGED <<syncs, runNumber, db, clientOps>>

\* findOneSyncWithLastRerun and the checks on what it returns
CheckBase(q) ==
  /\ req[q].phase = "base" /\ FreeConnection
  /\ \E l \in LatestRuns :
       req' = [req EXCEPT ![q] = IF syncs[Base] # "failed" \/ syncs[l] # "failed" THEN Answered("409")
                                 ELSE At("begin", runNumber[l] + 1, Base, NoTransaction)]
  /\ UNCHANGED <<syncs, runNumber, db, clientOps>>

-----------------------------------------------------------------------------
(* createRerun *)

\* connection.transaction: BEGIN
Begin(q) ==
  /\ req[q].phase = "begin" /\ FreeConnection
  /\ req' = [req EXCEPT ![q] = At("delete", req[q].number, Base, NoTransaction)]
  /\ UNCHANGED <<syncs, runNumber, db, clientOps>>

EmptyFiles(t) ==
  {f \in Files : t.files[f] # Absent /\ \A e \in EntitiesOf(f) : t.entities[e] = Absent}

Without(t, fs) ==
  [files |-> [f \in Files |-> IF f \in fs THEN Absent ELSE t.files[f]],
   entities |-> t.entities, history |-> t.history]

\* the transaction that has deleted the files fs
Deleted(fs, closes) ==
  [view |-> Without(db, fs), files |-> fs, entities |-> {}, added |-> {}, closes |-> closes,
   staleFiles |-> {}, staleEntities |-> {}]

\* mutation: the answer of tryClosingSync is not looked at
DeleteEmptyFilesAlwaysClosing(q) ==
  LET empty == EmptyFiles(db)
      closes == empty # {} IN
    /\ req[q].phase = "delete"
    /\ empty \cap LockedFiles = {} /\ ~(closes /\ BaseLocked)
    /\ req' = [req EXCEPT ![q] = At(IF closes THEN "commit" ELSE "latest", req[q].number, Base,
         Deleted(empty, closes /\ TotalFiles = Cardinality(ClosedFiles(Without(db, empty)))))]
    /\ UNCHANGED <<syncs, runNumber, db, clientOps>>

\* the snapshot is taken: deleteEmptyFiles and, if it deleted any, tryClosingSync
DeleteEmptyFiles(q) ==
  LET empty == EmptyFiles(db)
      closes == empty # {} /\ TotalFiles = Cardinality(ClosedFiles(Without(db, empty))) IN
    /\ req[q].phase = "delete"
    /\ empty \cap LockedFiles = {} /\ ~(closes /\ BaseLocked)
    /\ req' = [req EXCEPT ![q] = At(IF closes THEN "commit" ELSE "latest", req[q].number, Base,
                                    Deleted(empty, closes))]
    /\ UNCHANGED <<syncs, runNumber, db, clientOps>>

\* findOneSyncWithLastRerun again, outside the transaction
ReadLatest(q) ==
  /\ req[q].phase = "latest" /\ FreeConnection
  /\ \E l \in LatestRuns : req' = [req EXCEPT ![q] = At("prepare", req[q].number, l, req[q].tx)]
  /\ UNCHANGED <<syncs, runNumber, db, clientOps>>

\* mutation: an entity is recorded in its first run only
HistoryRowsOnce(t, run) ==
  {[run |-> run, entity |-> e, status |-> t.entities[e]] :
     e \in {x \in Entities : /\ t.entities[x] \notin {Absent, "inrerun"}
                             /\ \A h \in t.history : h.entity # x}}

\* createEntityHistory: the entities of this run, less those a former run completed;
\* the join with the history compares the entity_id only
HistoryRows(t, run) ==
  {[run |-> run, entity |-> e, status |-> t.entities[e]] :
     e \in {x \in Entities : /\ t.entities[x] \notin {Absent, "inrerun"}
                             /\ \A h \in t.history : IdOf[h.entity] = IdOf[x] => h.status # "completed"}}

\* updateDanglingFilesAsCompleted: the open files whose entities are all closed
DanglingFiles(t) ==
  {f \in Files : /\ t.files[f] = "inprogress" /\ ClosedEntities(t, f) # {}
                 /\ TotalEntities(f) = Cardinality(ClosedEntities(t, f))}

\* mutation: the files of not synced entities are not opened again
FilesToPrepareDanglingOnly(t, notSyncedToo) == IF notSyncedToo THEN {} ELSE DanglingFiles(t)

\* prepareIncompleteFiles: the files with an entity to sync again
FilesToPrepare(t, notSyncedToo) ==
  IF notSyncedToo
  THEN {f \in Files : \E e \in EntitiesOf(f) : t.entities[e] = "not_synced"}
  ELSE DanglingFiles(t)

\* mutation: completed entities are run again too
StatusesForRerunAll(notSyncedToo) ==
  {"inprogress", "failed", "completed"} \cup (IF notSyncedToo THEN {"not_synced"} ELSE {})

\* entityStatusesForRerun
StatusesForRerun(notSyncedToo) ==
  {"inprogress", "failed"} \cup (IF notSyncedToo THEN {"not_synced"} ELSE {})

\* prepareIncompleteEntities: the entities to run again
EntitiesToPrepare(t, notSyncedToo) ==
  {e \in Entities : t.entities[e] \in StatusesForRerun(notSyncedToo)}

\* the files fs get the status st and the entities es are to be run again
Prepared(t, fs, st, es) ==
  [files |-> [f \in Files |-> IF f \in fs THEN st ELSE t.files[f]],
   entities |-> [e \in Entities |-> IF e \in es THEN "inrerun" ELSE t.entities[e]],
   history |-> t.history]

\* an UPDATE fails on a row that was written after the snapshot, an INSERT on a
\* history row that exists already
Conflict(tx, fs, es, rows) ==
  \/ \E f \in fs : f \in tx.staleFiles \/ db.files[f] # tx.view.files[f]
  \/ \E e \in es : e \in tx.staleEntities \/ db.entities[e] # tx.view.entities[e]
  \/ \E h \in rows, g \in tx.view.history : h.run = g.run /\ h.entity = g.entity

\* createEntityHistory, prepareIncompleteFiles or updateDanglingFilesAsCompleted,
\* prepareIncompleteEntities: they wait for locked rows
Prepare(q) ==
  LET tx == req[q].tx
      flag == NotSyncedToo[q]
      rows == HistoryRows(tx.view, req[q].latest)
      fs == FilesToPrepare(tx.view, flag)
      es == EntitiesToPrepare(tx.view, flag)
      done == [view |-> Prepared(tx.view, fs, IF flag THEN "inprogress" ELSE "completed", es),
               files |-> tx.files \cup fs, entities |-> es, added |-> rows, closes |-> FALSE,
               staleFiles |-> {}, staleEntities |-> {}] IN
    /\ req[q].phase = "prepare"
    /\ fs \cap LockedFiles = {} /\ es \cap LockedEntities = {}
    /\ req' = [req EXCEPT ![q] = IF Conflict(tx, fs, es, rows) THEN Answered("500")
                                 ELSE At("insert", req[q].number, req[q].latest, done)]
    /\ UNCHANGED <<syncs, runNumber, db, clientOps>>

\* createSync, outside the transaction; a duplicate id rolls the transaction back
InsertRerun(q) ==
  LET r == RerunOf[q] IN
    /\ req[q].phase = "insert" /\ FreeConnection
    /\ IF syncs[r] # Absent
       THEN req' = [req EXCEPT ![q] = Answered("500")] /\ UNCHANGED <<syncs, runNumber>>
       ELSE /\ syncs' = [syncs EXCEPT ![r] = "inprogress"]
            /\ runNumber' = [runNumber EXCEPT ![r] = req[q].number]
            /\ req' = [req EXCEPT ![q] = At("commit", req[q].number, req[q].latest, req[q].tx)]
    /\ UNCHANGED <<db, clientOps>>

\* two transactions that both read and wrote the history are not serializable
Serializable(tx) == tx.closes \/ db.history = tx.view.history

\* the tables with what tx wrote
Written(tx) ==
  [files |-> [f \in Files |-> IF f \in tx.files THEN tx.view.files[f] ELSE db.files[f]],
   entities |-> [e \in Entities |-> IF e \in tx.entities THEN tx.view.entities[e] ELSE db.entities[e]],
   history |-> db.history \cup tx.added]

\* another request whose updates are still to come now has an old version of these rows
Overtaken(rq, tx) ==
  IF rq.phase \in {"latest", "prepare"}
  THEN At(rq.phase, rq.number, rq.latest,
          [view |-> rq.tx.view, files |-> rq.tx.files, entities |-> rq.tx.entities,
           added |-> rq.tx.added, closes |-> rq.tx.closes,
           staleFiles |-> rq.tx.staleFiles \cup tx.files,
           staleEntities |-> rq.tx.staleEntities \cup tx.entities])
  ELSE rq

Commit(q) ==
  LET tx == req[q].tx IN
    /\ req[q].phase = "commit"
    /\ Serializable(tx)
    /\ db' = Written(tx)
    /\ syncs' = IF tx.closes THEN [syncs EXCEPT ![Base] = "completed"] ELSE syncs
    /\ req' = [p \in Requests |-> IF p = q THEN Answered(IF tx.closes THEN "200" ELSE "201")
                                  ELSE Overtaken(req[p], tx)]
    /\ UNCHANGED <<runNumber, clientOps>>

\* COMMIT is refused
CommitFails(q) ==
  /\ req[q].phase = "commit" /\ ~Serializable(req[q].tx)
  /\ req' = [req EXCEPT ![q] = Answered("500")]
  /\ UNCHANGED <<syncs, runNumber, db, clientOps>>

\* a serialization failure, a deadlock or any other error: rolled back
Rollback(q) ==
  /\ req[q].tx # NoTransaction
  /\ req' = [req EXCEPT ![q] = Answered("500")]
  /\ UNCHANGED <<syncs, runNumber, db, clientOps>>

-----------------------------------------------------------------------------
(* What clients and workers do meanwhile *)

ClientOp == clientOps < MaxClientOps /\ clientOps' = clientOps + 1 /\ UNCHANGED <<runNumber, req>>

\* createFile on the base sync, createRerunFile on a rerun
CreateFile(f) ==
  /\ ClientOp
  /\ db.files[f] = Absent /\ f \notin LockedFiles
  /\ db' = [db EXCEPT !.files[f] = "inprogress"]
  /\ UNCHANGED syncs

\* createEntities: an entity that is already there keeps its status.  The foreign
\* key makes it wait for a transaction that deletes the file
CreateEntity(e) ==
  /\ ClientOp
  /\ db.files[FileOf[e]] # Absent /\ db.entities[e] = Absent
  /\ \A q \in Requests : FileOf[e] \in req[q].tx.files => req[q].tx.view.files[FileOf[e]] # Absent
  /\ db' = [db EXCEPT !.entities[e] = "inprogress"]
  /\ UNCHANGED syncs

\* an entity is reported once in a run: completed, not synced or failed
UpdateEntity(e, st) ==
  /\ ClientOp
  /\ db.entities[e] \in {"inprogress", "inrerun"} /\ e \notin LockedEntities
  /\ db' = [db EXCEPT !.entities[e] = st]
  /\ UNCHANGED syncs

\* attemptFileClosure; a file that is never given entities has no total_entities
CloseFile(f) ==
  /\ ClientOp
  /\ db.files[f] \in {"inprogress", "failed"} /\ f \notin LockedFiles
  /\ EntitiesOf(f) # {} /\ TotalEntities(f) = Cardinality(ClosedEntities(db, f))
  /\ db' = [db EXCEPT !.files[f] = "completed"]
  /\ UNCHANGED syncs

\* attemptSyncClosure of the base sync
CloseSync ==
  /\ ClientOp
  /\ TotalFiles = Cardinality(ClosedFiles(db)) /\ ~BaseLocked
  /\ syncs' = [r \in Runs |-> IF \/ r = Base /\ syncs[r] # "completed"
                                 \/ r # Base /\ syncs[r] = "inprogress" THEN "completed" ELSE syncs[r]]
  /\ UNCHANGED db

\* PATCH sync: a rerun has failed
FailRerun(r) ==
  /\ ClientOp
  /\ syncs[r] = "inprogress" /\ syncs' = [syncs EXCEPT ![r] = "failed"]
  /\ UNCHANGED db

Handle(q) ==
  \/ Check(q) \/ CheckBase(q) \/ Begin(q) \/ DeleteEmptyFiles(q) \/ ReadLatest(q)
  \/ Prepare(q) \/ InsertRerun(q) \/ Commit(q) \/ CommitFails(q)

Client ==
  \/ \E f \in Files : CreateFile(f) \/ CloseFile(f)
  \/ \E e \in Entities : CreateEntity(e)
  \/ \E e \in Entities, st \in {"completed", "not_synced", "failed"} : UpdateEntity(e, st)
  \/ CloseSync
  \/ \E r \in Reruns : FailRerun(r)

Next == (\E q \in Requests : Handle(q) \/ Rollback(q)) \/ Client

Spec == Init /\ [][Next]_vars

\* the event loop goes on with every handler whose query has been answered
FairSpec == Spec /\ \A q \in Requests : WF_vars(Handle(q))

-----------------------------------------------------------------------------
(* Properties *)

\* A completed file has all its entities closed, although reruns reset entities and
\* files while workers close them (attemptFileClosure, updateDanglingFilesAsCompleted).
ClosedIsWhole == \A f \in ClosedFiles(db) : ClosedEntities(db, f) = EntitiesOf(f)

\* What a client reported as completed is never reset by a rerun, even when the report
\* comes while the rerun is being created (prepareIncompleteEntities: "if its status
\* is not completed or inrerun already").
UploadSurvives ==
  [][\A e \in Entities : db.entities[e] = "completed" => db'.entities[e] = "completed"]_vars

\* Whatever a rerun resets is kept: the step that makes an entity inrerun adds its last
\* status to entity_history, in the first rerun and in every later one
\* (createEntityHistory: "copies the entities who were affected on the current sync run").
ResetHasHistory ==
  [][\A e \in Entities : db'.entities[e] = "inrerun" /\ db.entities[e] # "inrerun" =>
       \E h \in db'.history \ db.history : h.entity = e /\ h.status = db.entities[e]]_vars

\* The answer tells the truth: 201 means the rerun exists, 200 means that "the rerun was
\* not created due to the sync closing successfuly" (openapi3.yaml), so the base sync
\* is completed.
AnswerHolds ==
  \A q \in Requests :
    /\ req[q].answer = "201" => syncs[RerunOf[q]] # Absent
    /\ req[q].answer = "200" => syncs[Base] = "completed"

\* Every rerun request is answered: row locks, refused commits and the second
\* connection that a request waits for inside its transaction never leave one
\* hanging, as long as the pool is larger than the number of such requests.
EveryRequestAnswered == \A q \in Requests : <>(req[q].phase = "done")

\* syncManager.spec.ts: "rejects if the sync for rerun already has a rerun which is in
\* progress": no two reruns of a base sync are in progress.
SingleRerun ==
  \A r, s \in Reruns : syncs[r] = "inprogress" /\ syncs[s] = "inprogress" => r = s

\* syncRepository.ts: "rerun creation has failed": a request that failed has created no
\* rerun (each rerun id being requested once).
FailedRequestCreatesNothing ==
  \A q \in Requests : req[q].answer = "500" => syncs[RerunOf[q]] = Absent
=============================================================================
