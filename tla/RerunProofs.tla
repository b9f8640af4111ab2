---------------------------- MODULE RerunProofs -----------------------------
(***************************************************************************)
(* Proofs about Rerun, for any tables, any number of requests and reruns,  *)
(* and any pool: types, that no closed file has an open entity, that no    *)
(* upload is undone, that what is reset is recorded, and that the answers  *)
(* are true.                                                               *)
(***************************************************************************)
EXTENDS Rerun, FiniteSetTheorems, TLAPS

-----------------------------------------------------------------------------
(* The inductive invariant *)

\* a request whose snapshot is taken and whose updates are still to come, and one
\* whose updates are done and hold their locks
Reading == {"latest", "prepare"}
Writing == {"insert", "commit"}

\* the transaction of a request fits its phase
TxOK(q) ==
  LET tx == req[q].tx IN
    /\ req[q].phase \in Reading \cup Writing => tx.view \in Tables
    /\ req[q].phase \notin Reading \cup Writing => tx = NoTransaction
    /\ req[q].phase \in Reading \/ tx.closes => tx.entities = {} /\ tx.added = {}
    /\ req[q].phase # "done" => req[q].answer = "none"

\* the snapshot is behind the tables: history only grows, and what was completed
\* then is completed still
ViewOK(q) ==
  req[q].phase \in Reading \cup Writing =>
    /\ req[q].tx.view.history \subseteq db.history
    /\ \A e \in Entities : req[q].tx.view.entities[e] = "completed" => db.entities[e] = "completed"

\* what was closed in the snapshot is closed still, unless another rerun has
\* written the file since: whoever resets a not synced entity writes its file too
ReadOK(q) ==
  req[q].phase \in Reading =>
    \A e \in Entities :
      /\ FileOf[e] \notin req[q].tx.staleFiles
      /\ req[q].tx.view.entities[e] \in ClosedEntityStatus
      => db.entities[e] \in ClosedEntityStatus

\* the entities a transaction has reset are as it found them, and the file of a not
\* synced one is opened in the same transaction
ResetOK(q) ==
  \A e \in req[q].tx.entities :
    /\ req[q].tx.view.entities[e] = "inrerun"
    /\ db.entities[e] \in {"inprogress", "failed", "not_synced"}
    /\ db.entities[e] = "not_synced" =>
         FileOf[e] \in req[q].tx.files /\ req[q].tx.view.files[FileOf[e]] = "inprogress"

\* a file that a transaction is about to close is whole in the tables
CloseOK(q) ==
  \A f \in req[q].tx.files :
    req[q].tx.view.files[f] = "completed" =>
      \A e \in EntitiesOf(f) : db.entities[e] \in ClosedEntityStatus

\* what a transaction is about to record as completed is completed
AddedOK(q) ==
  \A h \in req[q].tx.added : h.status = "completed" => db.entities[h.entity] = "completed"

\* the join of createEntityHistory compares entity ids across files, so the history
\* is complete only when no two files hold entities of one id
UniqueIds == \A d, e \in Entities : IdOf[d] = IdOf[e] => d = e

\* every entity a transaction resets has a new history row with its last status
RecordedOK(q) ==
  UniqueIds =>
    \A e \in req[q].tx.entities :
      \E h \in req[q].tx.added \ req[q].tx.view.history : h.entity = e /\ h.status = db.entities[e]

RequestOK(q) ==
  /\ TxOK(q) /\ ViewOK(q) /\ ReadOK(q)
  /\ ResetOK(q) /\ CloseOK(q) /\ AddedOK(q) /\ RecordedOK(q)

\* row locks are exclusive
LocksOK ==
  \A p, q \in Requests : p # q =>
    /\ req[p].tx.files \cap req[q].tx.files = {}
    /\ req[p].tx.entities \cap req[q].tx.entities = {}

HistoryOK ==
  \A h \in db.history : h.status = "completed" => db.entities[h.entity] = "completed"

\* ClosedIsWhole, entity by entity
WholeOK ==
  \A e \in Entities : db.files[FileOf[e]] = "completed" => db.entities[e] \in ClosedEntityStatus

RerunOK ==
  TypeOK /\ LocksOK /\ HistoryOK /\ WholeOK /\ \A q \in Requests : RequestOK(q)

-----------------------------------------------------------------------------
(* Facts about requests and their transactions *)

\* a request without a transaction holds no row
LEMMA NoTransactionFacts ==
  /\ NoTransaction \in Transaction
  /\ NoTransaction.files = {} /\ NoTransaction.entities = {} /\ NoTransaction.added = {}
  /\ NoTransaction.closes = FALSE
  BY DEF NoTransaction, Transaction

\* a request on its way has not been answered
LEMMA AtFacts ==
  ASSUME NEW ph \in Phases, NEW n \in Nat, NEW l \in Runs, NEW tx \in Transaction
  PROVE  /\ At(ph, n, l, tx) \in Request
         /\ At(ph, n, l, tx).phase = ph /\ At(ph, n, l, tx).tx = tx
         /\ At(ph, n, l, tx).answer = "none"
  BY DEF At, Request, Answers

\* an answered request has given its transaction up
LEMMA AnsweredFacts ==
  ASSUME NEW ans \in Answers
  PROVE  /\ Answered(ans) \in Request
         /\ Answered(ans).phase = "done" /\ Answered(ans).tx = NoTransaction
         /\ Answered(ans).answer = ans
  BY NoTransactionFacts DEF Answered, Request, Phases, Runs

\* the parts of a well-typed request
LEMMA RequestFacts ==
  ASSUME TypeOK, NEW q \in Requests
  PROVE  /\ req[q] \in Request /\ req[q].phase \in Phases /\ req[q].number \in Nat
         /\ req[q].latest \in Runs /\ req[q].tx \in Transaction
         /\ req[q].tx.files \subseteq Files /\ req[q].tx.entities \subseteq Entities
         /\ req[q].tx.added \subseteq History
  BY DEF TypeOK, Request, Transaction

\* the parts of well-typed tables
LEMMA TablesFacts ==
  ASSUME NEW t \in Tables
  PROVE  /\ t.files \in [Files -> Status \cup {Absent}]
         /\ t.entities \in [Entities -> EntityStatus \cup {Absent}]
         /\ t.history \in SUBSET History
  BY DEF Tables

\* deleting files changes neither entities nor history
LEMMA WithoutFacts ==
  ASSUME NEW t \in Tables, NEW fs \in SUBSET Files
  PROVE  /\ Without(t, fs) \in Tables
         /\ Without(t, fs).entities = t.entities /\ Without(t, fs).history = t.history
         /\ \A f \in fs : Without(t, fs).files[f] = Absent
  BY DEF Without, Tables

\* the prepared tables are well-typed
LEMMA PreparedFacts ==
  ASSUME NEW t \in Tables, NEW fs \in SUBSET Files, NEW es \in SUBSET Entities, NEW st \in Status
  PROVE  Prepared(t, fs, st, es) \in Tables
<1>1. Prepared(t, fs, st, es).files \in [Files -> Status \cup {Absent}]
  BY TablesFacts DEF Prepared
<1>2. Prepared(t, fs, st, es).entities \in [Entities -> EntityStatus \cup {Absent}]
  BY TablesFacts DEF Prepared, EntityStatus
<1>3. Prepared(t, fs, st, es).history \in SUBSET History
  BY TablesFacts DEF Prepared
<1> QED BY <1>1, <1>2, <1>3 DEF Prepared, Tables

\* a commit replaces the rows its transaction wrote and adds its history rows
LEMMA WrittenFacts ==
  ASSUME db \in Tables, NEW tx \in Transaction, tx.view \in Tables
  PROVE  /\ Written(tx) \in Tables
         /\ Written(tx).history = db.history \cup tx.added
         /\ \A f \in Files :
              Written(tx).files[f] = IF f \in tx.files THEN tx.view.files[f] ELSE db.files[f]
         /\ \A e \in Entities :
              Written(tx).entities[e] = IF e \in tx.entities THEN tx.view.entities[e] ELSE db.entities[e]
<1>1. Written(tx).files \in [Files -> Status \cup {Absent}]
  BY TablesFacts DEF Written
<1>2. Written(tx).entities \in [Entities -> EntityStatus \cup {Absent}]
  BY TablesFacts DEF Written
<1>3. Written(tx).history \in SUBSET History
  BY TablesFacts DEF Written, Transaction
<1>4. Written(tx) \in Tables
  BY <1>1, <1>2, <1>3 DEF Written, Tables
<1> QED BY <1>4 DEF Written

\* the history rows of a snapshot record its statuses
LEMMA HistoryRowsFacts ==
  ASSUME NEW t \in Tables, NEW l \in Runs
  PROVE  /\ HistoryRows(t, l) \subseteq History
         /\ \A h \in HistoryRows(t, l) : h.status = t.entities[h.entity]
  BY TablesFacts DEF HistoryRows, History

\* only the rows that are stale change for a request that another one overtakes
LEMMA OvertakenFacts ==
  ASSUME NEW rq \in Request, NEW tx \in Transaction, rq.phase \in Reading => rq.answer = "none"
  PROVE  /\ Overtaken(rq, tx) \in Request
         /\ Overtaken(rq, tx).phase = rq.phase /\ Overtaken(rq, tx).answer = rq.answer
         /\ Overtaken(rq, tx).tx.view = rq.tx.view /\ Overtaken(rq, tx).tx.files = rq.tx.files
         /\ Overtaken(rq, tx).tx.entities = rq.tx.entities
         /\ Overtaken(rq, tx).tx.added = rq.tx.added
         /\ Overtaken(rq, tx).tx.closes = rq.tx.closes
         /\ rq.phase \in Reading => Overtaken(rq, tx).tx.staleFiles = rq.tx.staleFiles \cup tx.files
         /\ rq.phase \notin Reading => Overtaken(rq, tx) = rq
<1>1. CASE rq.phase \notin Reading
  BY <1>1 DEF Overtaken, Reading
<1>2. CASE rq.phase \in Reading
  <2> DEFINE new == [view |-> rq.tx.view, files |-> rq.tx.files, entities |-> rq.tx.entities,
                     added |-> rq.tx.added, closes |-> rq.tx.closes,
                     staleFiles |-> rq.tx.staleFiles \cup tx.files,
                     staleEntities |-> rq.tx.staleEntities \cup tx.entities]
  <2>1. rq.tx \in Transaction /\ rq.phase \in Phases /\ rq.number \in Nat /\ rq.latest \in Runs
    BY DEF Request
  <2>2. new \in Transaction
    BY <2>1 DEF Transaction
  <2>3. Overtaken(rq, tx) = At(rq.phase, rq.number, rq.latest, new)
    BY <1>2 DEF Overtaken, Reading
  <2>4. /\ new.view = rq.tx.view /\ new.files = rq.tx.files /\ new.entities = rq.tx.entities
        /\ new.added = rq.tx.added /\ new.closes = rq.tx.closes
        /\ new.staleFiles = rq.tx.staleFiles \cup tx.files
    OBVIOUS
  <2> HIDE DEF new
  <2> QED BY <1>2, <2>1, <2>2, <2>3, <2>4, AtFacts
<1> QED BY <1>1, <1>2

\* the transaction after deleteEmptyFiles
LEMMA DeletedFacts ==
  ASSUME db \in Tables, NEW fs \in SUBSET Files, NEW closes \in BOOLEAN
  PROVE  /\ Deleted(fs, closes) \in Transaction
         /\ Deleted(fs, closes).view = Without(db, fs) /\ Deleted(fs, closes).files = fs
         /\ Deleted(fs, closes).entities = {} /\ Deleted(fs, closes).added = {}
         /\ Deleted(fs, closes).closes = closes
<1>1. Without(db, fs) \in Tables
  BY WithoutFacts
<1> QED BY <1>1 DEF Deleted, Transaction

\* the latest run is a run with a run number
LEMMA LatestFacts ==
  ASSUME TypeOK, NEW l \in LatestRuns
  PROVE  l \in Runs /\ runNumber[l] \in Nat /\ runNumber[l] + 1 \in Nat
  BY DEF TypeOK, LatestRuns, LatestReruns, Runs

\* what Prepare leaves in the request that meets no conflict
Done(q) ==
  LET tx == req[q].tx
      fs == FilesToPrepare(tx.view, NotSyncedToo[q])
      es == EntitiesToPrepare(tx.view, NotSyncedToo[q]) IN
    [view |-> Prepared(tx.view, fs, IF NotSyncedToo[q] THEN "inprogress" ELSE "completed", es),
     files |-> tx.files \cup fs, entities |-> es, added |-> HistoryRows(tx.view, req[q].latest),
     closes |-> FALSE, staleFiles |-> {}, staleEntities |-> {}]

\* what is prepared are files and entities
LEMMA ToPrepareFacts ==
  ASSUME NEW t, NEW flag
  PROVE  FilesToPrepare(t, flag) \in SUBSET Files /\ EntitiesToPrepare(t, flag) \in SUBSET Entities
  BY DEF FilesToPrepare, DanglingFiles, EntitiesToPrepare

\* the transaction after Prepare is well-typed
LEMMA DoneFacts ==
  ASSUME TypeOK, NEW q \in Requests, req[q].tx.view \in Tables
  PROVE  LET tx == req[q].tx
             fs == FilesToPrepare(tx.view, NotSyncedToo[q])
             es == EntitiesToPrepare(tx.view, NotSyncedToo[q])
             st == IF NotSyncedToo[q] THEN "inprogress" ELSE "completed"
         IN  /\ Done(q) \in Transaction
             /\ Done(q).view = Prepared(tx.view, fs, st, es) /\ Done(q).view \in Tables
             /\ Done(q).files = tx.files \cup fs /\ Done(q).entities = es
             /\ Done(q).added = HistoryRows(tx.view, req[q].latest)
             /\ Done(q).closes = FALSE
<1> DEFINE tx == req[q].tx
           fs == FilesToPrepare(tx.view, NotSyncedToo[q])
           es == EntitiesToPrepare(tx.view, NotSyncedToo[q])
           st == IF NotSyncedToo[q] THEN "inprogress" ELSE "completed"
           rows == HistoryRows(tx.view, req[q].latest)
<1>1. fs \in SUBSET Files /\ es \in SUBSET Entities /\ st \in Status
  BY ToPrepareFacts DEF Status
<1>2. Prepared(tx.view, fs, st, es) \in Tables
  <2> HIDE DEF fs, es, st
  <2> QED BY <1>1, PreparedFacts
<1>3. tx.files \cup fs \subseteq Files /\ rows \subseteq History
  BY <1>1, RequestFacts, HistoryRowsFacts
<1>4. Done(q) = [view |-> Prepared(tx.view, fs, st, es), files |-> tx.files \cup fs,
                 entities |-> es, added |-> rows,
                 closes |-> FALSE, staleFiles |-> {}, staleEntities |-> {}]
  BY DEF Done
<1> HIDE DEF tx, fs, es, st, rows
<1>5. Done(q) \in Transaction
  BY <1>1, <1>2, <1>3, <1>4 DEF Transaction
<1>6. /\ Done(q).view = Prepared(tx.view, fs, st, es) /\ Done(q).files = tx.files \cup fs
      /\ Done(q).entities = es /\ Done(q).added = rows /\ Done(q).closes = FALSE
  BY <1>4
<1> QED BY <1>2, <1>5, <1>6 DEF tx, fs, es, st, rows

-----------------------------------------------------------------------------
(* Type correctness *)

\* every statement of a request and every step of a client keeps the types
LEMMA TypeStep ==
  ASSUME TypeOK, \A q \in Requests : TxOK(q), [Next]_vars
  PROVE  TypeOK'
<1> USE DEF TypeOK
<1>1. ASSUME NEW q \in Requests, NEW r \in Request, req' = [req EXCEPT ![q] = r],
             UNCHANGED <<syncs, runNumber, db, clientOps>>
      PROVE  TypeOK'
  BY <1>1
<1>2. ASSUME NEW q \in Requests, Check(q) \/ CheckBase(q) \/ Begin(q)
      PROVE  TypeOK'
  <2>1. \A n \in Nat : At("base", n, Base, NoTransaction) \in Request
                       /\ At("begin", n, Base, NoTransaction) \in Request
                       /\ At("delete", n, Base, NoTransaction) \in Request
    BY AtFacts, NoTransactionFacts DEF Phases, Runs
  <2>2. Answered("409") \in Request /\ 0 \in Nat /\ req[q].number \in Nat
    BY AnsweredFacts, RequestFacts DEF Answers
  <2>3. CASE Check(q)
    BY <1>1, <2>1, <2>2, <2>3 DEF Check
  <2>4. CASE CheckBase(q)
    BY <1>1, <2>1, <2>2, <2>4, LatestFacts DEF CheckBase
  <2>5. CASE Begin(q)
    BY <1>1, <2>1, <2>2, <2>5 DEF Begin
  <2> QED BY <1>2, <2>3, <2>4, <2>5
<1>3. ASSUME NEW q \in Requests, DeleteEmptyFiles(q)
      PROVE  TypeOK'
  <2> DEFINE empty == EmptyFiles(db)
             closes == empty # {} /\ TotalFiles = Cardinality(ClosedFiles(Without(db, empty)))
  <2>1. empty \in SUBSET Files /\ closes \in BOOLEAN
    BY DEF EmptyFiles
  <2>2. Deleted(empty, closes) \in Transaction
    BY <2>1, DeletedFacts
  <2>3. /\ At("commit", req[q].number, Base, Deleted(empty, closes)) \in Request
        /\ At("latest", req[q].number, Base, Deleted(empty, closes)) \in Request
    BY <2>2, AtFacts, RequestFacts DEF Phases, Runs
  <2> QED BY <1>1, <1>3, <2>3 DEF DeleteEmptyFiles
<1>4. ASSUME NEW q \in Requests, ReadLatest(q)
      PROVE  TypeOK'
  <2>1. \A l \in LatestRuns : At("prepare", req[q].number, l, req[q].tx) \in Request
    BY AtFacts, RequestFacts, LatestFacts DEF Phases
  <2> QED BY <1>1, <1>4, <2>1 DEF ReadLatest
<1>5. ASSUME NEW q \in Requests, Prepare(q)
      PROVE  TypeOK'
  <2>1. req[q].tx.view \in Tables
    BY <1>5 DEF Prepare, TxOK, Reading
  <2>2. At("insert", req[q].number, req[q].latest, Done(q)) \in Request
    BY <2>1, DoneFacts, AtFacts, RequestFacts DEF Phases
  <2>3. Answered("500") \in Request
    BY AnsweredFacts DEF Answers
  <2> QED BY <1>1, <1>5, <2>2, <2>3 DEF Prepare, Done
<1>6. ASSUME NEW q \in Requests, InsertRerun(q)
      PROVE  TypeOK'
  <2>1. At("commit", req[q].number, req[q].latest, req[q].tx) \in Request /\ Answered("500") \in Request
    BY AnsweredFacts, AtFacts, RequestFacts DEF Phases, Answers
  <2>2. RerunOf[q] \in Runs /\ req[q].number \in Nat
    BY RerunAssumption, RequestFacts DEF Runs
  <2> QED BY <1>6, <2>1, <2>2 DEF InsertRerun, Status
<1>7. ASSUME NEW q \in Requests, Commit(q)
      PROVE  TypeOK'
  <2>1. req[q].tx.view \in Tables /\ req[q].tx \in Transaction
    BY <1>7, RequestFacts DEF Commit, TxOK, Writing
  <2>2. db' \in Tables
    BY <1>7, <2>1, WrittenFacts DEF Commit
  <2>3. \A p \in Requests : Overtaken(req[p], req[q].tx) \in Request
    BY <2>1, RequestFacts, OvertakenFacts DEF TxOK, Reading
  <2>4. Answered("200") \in Request /\ Answered("201") \in Request
    BY AnsweredFacts DEF Answers
  <2>5. req' \in [Requests -> Request]
    BY <1>7, <2>3, <2>4 DEF Commit
  <2>6. syncs' \in [Runs -> Status \cup {Absent}]
    BY <1>7 DEF Commit, Status
  <2> QED BY <1>7, <2>2, <2>5, <2>6 DEF Commit
<1>8. ASSUME NEW q \in Requests, CommitFails(q) \/ Rollback(q)
      PROVE  TypeOK'
  <2>1. Answered("500") \in Request
    BY AnsweredFacts DEF Answers
  <2> QED BY <1>1, <1>8, <2>1 DEF CommitFails, Rollback
<1>9. CASE Client
  <2>1. clientOps' \in 0..MaxClientOps /\ runNumber' = runNumber /\ req' = req
    BY <1>9, RerunAssumption DEF Client, ClientOp, CreateFile, CloseFile, CreateEntity, UpdateEntity, CloseSync, FailRerun
  <2>2. db' \in Tables
    <3>1. ASSUME NEW f \in Files, NEW st \in Status, db' = [db EXCEPT !.files[f] = st] PROVE db' \in Tables
      BY <3>1 DEF Tables
    <3>2. ASSUME NEW e \in Entities, NEW st \in EntityStatus, db' = [db EXCEPT !.entities[e] = st] PROVE db' \in Tables
      BY <3>2 DEF Tables
    <3> QED BY <1>9, <3>1, <3>2 DEF Client, CreateFile, CloseFile, CreateEntity, UpdateEntity, CloseSync, FailRerun, Status, EntityStatus
  <2>3. syncs' \in [Runs -> Status \cup {Absent}]
    BY <1>9 DEF Client, CreateFile, CloseFile, CreateEntity, UpdateEntity, CloseSync, FailRerun, Status
  <2> QED BY <2>1, <2>2, <2>3
<1>10. CASE UNCHANGED vars
  BY <1>10 DEF vars
<1> QED
  BY <1>2, <1>3, <1>4, <1>5, <1>6, <1>7, <1>8, <1>9, <1>10 DEF Next, Handle

-----------------------------------------------------------------------------
(* One step of one request, seen by every request *)

\* a step that concerns neither the request nor the tables
LEMMA RequestKept ==
  ASSUME NEW p \in Requests, RequestOK(p), req'[p] = req[p], db' = db
  PROVE  RequestOK(p)'
  BY DEF RequestOK, TxOK, ViewOK, ReadOK, ResetOK, CloseOK, AddedOK, RecordedOK

\* a request without a transaction
LEMMA NoTxKept ==
  ASSUME NEW q \in Requests, req'[q].tx = NoTransaction, req'[q].phase \notin Reading \cup Writing,
         req'[q].phase # "done" => req'[q].answer = "none"
  PROVE  RequestOK(q)'
  BY NoTransactionFacts DEF RequestOK, TxOK, ViewOK, ReadOK, ResetOK, CloseOK, AddedOK, RecordedOK

\* a request ends its transaction, or has none, and nothing else changes
LEMMA DropStep ==
  ASSUME RerunOK, NEW q \in Requests, NEW r, req' = [req EXCEPT ![q] = r],
         r.tx = NoTransaction, r.phase \notin Reading \cup Writing,
         r.phase # "done" => r.answer = "none", db' = db
  PROVE  /\ LocksOK' /\ HistoryOK' /\ WholeOK'
         /\ \A p \in Requests : RequestOK(p)'
<1>1. req'[q] = r /\ \A p \in Requests : p # q => req'[p] = req[p]
  BY DEF RerunOK, TypeOK
<1>2. RequestOK(q)'
  BY <1>1, NoTxKept
<1>3. ASSUME NEW p \in Requests, p # q PROVE RequestOK(p)'
  BY <1>1, <1>3, RequestKept DEF RerunOK
<1>4. LocksOK'
  BY <1>1, NoTransactionFacts DEF LocksOK, RerunOK
<1>5. HistoryOK' /\ WholeOK'
  BY DEF HistoryOK, WholeOK, RerunOK
<1> QED BY <1>2, <1>3, <1>4, <1>5

\* the first statement: the snapshot is the tables without the empty files
LEMMA DeleteStep ==
  ASSUME RerunOK, NEW q \in Requests, DeleteEmptyFiles(q)
  PROVE  /\ LocksOK' /\ HistoryOK' /\ WholeOK'
         /\ \A p \in Requests : RequestOK(p)'
<1> DEFINE empty == EmptyFiles(db)
           closes == empty # {} /\ TotalFiles = Cardinality(ClosedFiles(Without(db, empty)))
           tx == Deleted(empty, closes)
<1>1. empty \in SUBSET Files /\ closes \in BOOLEAN /\ empty \cap LockedFiles = {} /\ db' = db
  BY DEF EmptyFiles, DeleteEmptyFiles
<1>2. /\ tx \in Transaction /\ tx.view = Without(db, empty) /\ tx.files = empty
      /\ tx.entities = {} /\ tx.added = {} /\ tx.closes = closes
  <2> HIDE DEF empty, closes
  <2> QED BY <1>1, DeletedFacts DEF RerunOK, TypeOK
<1>3. req' = [req EXCEPT ![q] = At(IF closes THEN "commit" ELSE "latest", req[q].number, Base, tx)]
  BY DEF DeleteEmptyFiles
<1> HIDE DEF tx, closes, empty
<1>4. /\ req'[q].phase \in {"commit", "latest"} /\ req'[q].tx = tx /\ req'[q].answer = "none"
      /\ \A p \in Requests : p # q => req'[p] = req[p]
  <2>1. req[q].number \in Nat /\ Base \in Runs /\ "commit" \in Phases /\ "latest" \in Phases
    BY RequestFacts DEF Runs, Phases, RerunOK
  <2>2. \A ph \in {"commit", "latest"} :
          /\ At(ph, req[q].number, Base, tx).phase = ph /\ At(ph, req[q].number, Base, tx).tx = tx
          /\ At(ph, req[q].number, Base, tx).answer = "none"
    BY <1>2, <2>1, AtFacts
  <2> QED BY <1>3, <2>2 DEF RerunOK, TypeOK
<1>5. /\ tx.view \in Tables /\ tx.view.history = db.history /\ tx.view.entities = db.entities
      /\ \A f \in tx.files : tx.view.files[f] = Absent
  BY <1>1, <1>2, WithoutFacts DEF RerunOK, TypeOK
<1>6. TxOK(q)'
  BY <1>2, <1>4, <1>5 DEF TxOK, Reading, Writing
<1>7. ViewOK(q)' /\ ReadOK(q)'
  BY <1>1, <1>4, <1>5 DEF ViewOK, ReadOK
<1>8. ResetOK(q)' /\ AddedOK(q)' /\ RecordedOK(q)'
  BY <1>2, <1>4 DEF ResetOK, AddedOK, RecordedOK
<1>9. CloseOK(q)'
  BY <1>4, <1>5, RerunAssumption DEF CloseOK, Status
<1>10. ASSUME NEW p \in Requests, p # q PROVE RequestOK(p)'
  BY <1>1, <1>4, <1>10, RequestKept DEF RerunOK
<1>11. LocksOK'
  BY <1>1, <1>2, <1>4 DEF LocksOK, LockedFiles, RerunOK
<1>12. HistoryOK' /\ WholeOK'
  BY <1>1 DEF HistoryOK, WholeOK, RerunOK
<1> QED BY <1>6, <1>7, <1>8, <1>9, <1>10, <1>11, <1>12 DEF RequestOK

\* the request goes on with the transaction it has
LEMMA GoOnStep ==
  ASSUME RerunOK, NEW q \in Requests, NEW ph, NEW l \in Runs,
         \/ req[q].phase = "latest" /\ ph = "prepare"
         \/ req[q].phase = "insert" /\ ph = "commit",
         req' = [req EXCEPT ![q] = At(ph, req[q].number, l, req[q].tx)], db' = db
  PROVE  /\ LocksOK' /\ HistoryOK' /\ WholeOK'
         /\ \A p \in Requests : RequestOK(p)'
<1>1. /\ req'[q].phase = ph /\ req'[q].tx = req[q].tx /\ req'[q].answer = "none"
      /\ \A p \in Requests : p # q => req'[p] = req[p]
  <2>1. ph \in Phases /\ req[q].number \in Nat /\ req[q].tx \in Transaction
    BY RequestFacts DEF Phases, RerunOK
  <2>2. /\ At(ph, req[q].number, l, req[q].tx).phase = ph
        /\ At(ph, req[q].number, l, req[q].tx).tx = req[q].tx
        /\ At(ph, req[q].number, l, req[q].tx).answer = "none"
    BY <2>1, AtFacts
  <2> QED BY <2>2 DEF RerunOK, TypeOK
<1>2. RequestOK(q)'
  BY <1>1 DEF RerunOK, RequestOK, TxOK, ViewOK, ReadOK, ResetOK, CloseOK, AddedOK, RecordedOK, Reading, Writing
<1>3. ASSUME NEW p \in Requests, p # q PROVE RequestOK(p)'
  BY <1>1, <1>3, RequestKept DEF RerunOK
<1>4. LocksOK'
  BY <1>1 DEF LocksOK, RerunOK
<1>5. HistoryOK' /\ WholeOK'
  BY DEF HistoryOK, WholeOK, RerunOK
<1> QED BY <1>2, <1>3, <1>4, <1>5

\* a file with as many closed entities as it has entities is whole
LEMMA WholeFacts ==
  ASSUME NEW t, NEW f, TotalEntities(f) = Cardinality(ClosedEntities(t, f))
  PROVE  \A e \in EntitiesOf(f) : t.entities[e] \in ClosedEntityStatus
<1>1. IsFiniteSet(EntitiesOf(f))
  BY RerunAssumption, FS_Subset DEF EntitiesOf
<1>2. ClosedEntities(t, f) \in SUBSET EntitiesOf(f)
  BY DEF ClosedEntities
<1>3. ClosedEntities(t, f) = EntitiesOf(f)
  BY <1>1, <1>2, FS_Subset DEF TotalEntities
<1> QED BY <1>3 DEF ClosedEntities

\* the updates of a request: what it writes is not stale, and nobody else holds it
LEMMA PrepareStep ==
  ASSUME RerunOK, NEW q \in Requests, Prepare(q)
  PROVE  /\ LocksOK' /\ HistoryOK' /\ WholeOK'
         /\ \A p \in Requests : RequestOK(p)'
<1> DEFINE tx == req[q].tx
           t == tx.view
           flag == NotSyncedToo[q]
           rows == HistoryRows(t, req[q].latest)
           fs == FilesToPrepare(t, flag)
           es == EntitiesToPrepare(t, flag)
           st == IF flag THEN "inprogress" ELSE "completed"
<1>1. /\ req[q].phase = "prepare" /\ fs \cap LockedFiles = {} /\ es \cap LockedEntities = {}
      /\ req' = [req EXCEPT ![q] = IF Conflict(tx, fs, es, rows) THEN Answered("500")
                                   ELSE At("insert", req[q].number, req[q].latest, Done(q))]
      /\ db' = db
  BY DEF Prepare, Done
<1>2. CASE Conflict(tx, fs, es, rows)
  <2>1. req' = [req EXCEPT ![q] = Answered("500")]
    BY <1>1, <1>2
  <2> QED BY <1>1, <2>1, AnsweredFacts, DropStep DEF Answers, Reading, Writing
<1>3. CASE ~Conflict(tx, fs, es, rows)
  <2>1. TypeOK /\ RequestOK(q) /\ t \in Tables /\ req[q].latest \in Runs /\ flag \in BOOLEAN
    BY <1>1, RequestFacts, RerunAssumption DEF RerunOK, RequestOK, TxOK, Reading
  <2>2. fs \in SUBSET Files /\ es \in SUBSET Entities /\ st \in Status
    BY ToPrepareFacts DEF Status
  <2>3. /\ Done(q) \in Transaction /\ Done(q).view = Prepared(t, fs, st, es) /\ Done(q).view \in Tables
        /\ Done(q).files = tx.files \cup fs /\ Done(q).entities = es /\ Done(q).added = rows
        /\ Done(q).closes = FALSE
    BY <2>1, DoneFacts
  <2>4. /\ req'[q].phase = "insert" /\ req'[q].answer = "none" /\ req'[q].tx = Done(q)
        /\ \A p \in Requests : p # q => req'[p] = req[p]
    <3>1. req' = [req EXCEPT ![q] = At("insert", req[q].number, req[q].latest, Done(q))]
      BY <1>1, <1>3
    <3>2. req[q].number \in Nat /\ "insert" \in Phases
      BY <2>1, RequestFacts DEF Phases
    <3>3. /\ At("insert", req[q].number, req[q].latest, Done(q)).phase = "insert"
          /\ At("insert", req[q].number, req[q].latest, Done(q)).tx = Done(q)
          /\ At("insert", req[q].number, req[q].latest, Done(q)).answer = "none"
      BY <2>1, <2>3, <3>2, AtFacts
    <3> QED BY <2>1, <3>1, <3>3 DEF TypeOK
  <2>5. /\ \A f \in fs : f \notin tx.staleFiles
        /\ \A e \in es : db.entities[e] = t.entities[e]
    BY <1>3 DEF Conflict
  <2>6. /\ \A f \in fs : Done(q).view.files[f] = st
        /\ \A f \in Files \ fs : Done(q).view.files[f] = t.files[f]
        /\ \A e \in es : Done(q).view.entities[e] = "inrerun"
        /\ \A e \in Entities \ es : Done(q).view.entities[e] = t.entities[e]
        /\ Done(q).view.history = t.history
    <3> HIDE DEF fs, es, st, t
    <3>1. /\ t \in Tables /\ fs \in SUBSET Files /\ es \in SUBSET Entities /\ st \in Status
          /\ Done(q).view = Prepared(t, fs, st, es)
      BY <2>1, <2>2, <2>3
    <3> QED BY <3>1 DEF Prepared
  <2>7. TxOK(q)'
    BY <2>3, <2>4 DEF TxOK, Reading, Writing
  <2>8. ViewOK(q)' /\ ReadOK(q)'
    <3>1. t.history \subseteq db.history /\ \A e \in Entities : t.entities[e] = "completed" => db.entities[e] = "completed"
      BY <1>1, <2>1 DEF RequestOK, ViewOK, Reading
    <3> HIDE DEF fs, es, st, t
    <3> QED BY <1>1, <2>4, <2>6, <3>1 DEF ViewOK, ReadOK, Reading
  <2>9. ResetOK(q)'
    <3>1. ASSUME NEW e \in es
          PROVE  /\ db.entities[e] \in {"inprogress", "failed", "not_synced"}
                 /\ db.entities[e] = "not_synced" => flag /\ FileOf[e] \in fs
      <4>1. e \in Entities /\ db.entities[e] = t.entities[e] /\ t.entities[e] \in StatusesForRerun(flag)
        BY <2>5, <3>1 DEF EntitiesToPrepare
      <4>2. t.entities[e] = "not_synced" => flag
        BY <4>1 DEF StatusesForRerun
      <4>3. FileOf[e] \in Files /\ e \in EntitiesOf(FileOf[e])
        BY <4>1, RerunAssumption DEF EntitiesOf
      <4>4. t.entities[e] = "not_synced" => FileOf[e] \in fs
        BY <4>2, <4>3 DEF FilesToPrepare
      <4> QED BY <4>1, <4>2, <4>4 DEF StatusesForRerun
    <3>2. flag => st = "inprogress"
      OBVIOUS
    <3> HIDE DEF fs, es, st, flag
    <3> QED BY <1>1, <2>2, <2>3, <2>4, <2>6, <3>1, <3>2 DEF ResetOK
  <2>10. CloseOK(q)'
    <3> SUFFICES ASSUME NEW f \in Done(q).files, Done(q).view.files[f] = "completed",
                        NEW e \in EntitiesOf(f)
                 PROVE  db.entities[e] \in ClosedEntityStatus
      BY <1>1, <2>4 DEF CloseOK
    <3>1. CASE f \in fs
      <4>1. ~flag
        BY <2>2, <2>6, <3>1
      <4>2. f \in DanglingFiles(t)
        BY <3>1, <4>1 DEF FilesToPrepare
      <4>3. t.entities[e] \in ClosedEntityStatus
        BY <4>2, WholeFacts DEF DanglingFiles
      <4>4. e \in Entities /\ FileOf[e] \notin tx.staleFiles
        BY <2>5, <3>1 DEF EntitiesOf
      <4> QED BY <1>1, <2>1, <4>3, <4>4 DEF RequestOK, ReadOK, Reading
    <3>2. CASE f \notin fs
      <4>1. f \in tx.files /\ f \in Files
        BY <2>1, <2>3, <3>2, RequestFacts
      <4>2. t.files[f] = "completed"
        BY <2>6, <3>2, <4>1
      <4> QED BY <2>1, <4>1, <4>2 DEF RequestOK, CloseOK
    <3> QED BY <3>1, <3>2
  <2>11. AddedOK(q)'
    <3> SUFFICES ASSUME NEW h \in rows, h.status = "completed"
                 PROVE  db.entities[h.entity] = "completed"
      BY <1>1, <2>3, <2>4 DEF AddedOK
    <3>1. h.status = t.entities[h.entity] /\ h.entity \in Entities
      BY <2>1, HistoryRowsFacts DEF History
    <3> QED BY <1>1, <2>1, <3>1 DEF RequestOK, ViewOK, Reading
  <2>12. RecordedOK(q)'
    <3> SUFFICES ASSUME UniqueIds, NEW e \in es
                 PROVE  \E h \in rows \ t.history : h.entity = e /\ h.status = db.entities[e]
      BY <1>1, <2>3, <2>4, <2>6 DEF RecordedOK
    <3> DEFINE h == [run |-> req[q].latest, entity |-> e, status |-> t.entities[e]]
    <3>1. /\ e \in Entities /\ db.entities[e] = t.entities[e]
          /\ t.entities[e] \in {"inprogress", "failed", "not_synced"}
      BY <2>5 DEF EntitiesToPrepare, StatusesForRerun
    <3>2. t.entities[e] \notin {Absent, "inrerun"}
      BY <3>1, RerunAssumption DEF EntityStatus
    <3>3. ASSUME NEW g \in t.history, IdOf[g.entity] = IdOf[e] PROVE g.status # "completed"
      <4>1. g \in db.history /\ g.entity \in Entities
        BY <1>1, <2>1, TablesFacts DEF RequestOK, ViewOK, Reading, History
      <4>2. g.entity = e
        BY <3>1, <3>3, <4>1 DEF UniqueIds
      <4>3. g.status = "completed" => db.entities[e] = "completed"
        BY <4>1, <4>2 DEF RerunOK, HistoryOK
      <4> QED BY <3>1, <4>3
    <3>4. h \in rows
      BY <3>1, <3>2, <3>3 DEF HistoryRows
    <3>5. h \notin t.history
      BY <1>3, <3>4 DEF Conflict
    <3>6. h.entity = e /\ h.status = db.entities[e]
      BY <3>1
    <3> HIDE DEF h
    <3> QED BY <3>4, <3>5, <3>6
  <2>13. ASSUME NEW p \in Requests, p # q PROVE RequestOK(p)'
    BY <1>1, <2>4, <2>13, RequestKept DEF RerunOK
  <2>14. LocksOK'
    <3> HIDE DEF fs, es
    <3>1. \A p \in Requests : req[p].tx.files \cap fs = {} /\ req[p].tx.entities \cap es = {}
      BY <1>1 DEF LockedFiles, LockedEntities
    <3>2. \A p \in Requests : p # q => req[p].tx.files \cap tx.files = {}
      BY DEF LocksOK, RerunOK
    <3> HIDE DEF tx
    <3> QED BY <2>3, <2>4, <3>1, <3>2 DEF LocksOK, RerunOK
  <2>15. HistoryOK' /\ WholeOK'
    BY <1>1 DEF HistoryOK, WholeOK, RerunOK
  <2> QED BY <2>7, <2>8, <2>9, <2>10, <2>11, <2>12, <2>13, <2>14, <2>15 DEF RequestOK
<1> QED BY <1>2, <1>3

\* a commit takes "completed" from no entity, and "closed" only from a not synced one
\* whose file it opens
LEMMA CommitFacts ==
  ASSUME RerunOK, NEW q \in Requests, Commit(q)
  PROVE  /\ req[q].tx \in Transaction /\ req[q].tx.view \in Tables
         /\ db'.history = db.history \cup req[q].tx.added
         /\ \A f \in req[q].tx.files : db'.files[f] = req[q].tx.view.files[f]
         /\ \A f \in Files \ req[q].tx.files : db'.files[f] = db.files[f]
         /\ \A e \in req[q].tx.entities : db'.entities[e] = "inrerun"
         /\ \A e \in Entities \ req[q].tx.entities : db'.entities[e] = db.entities[e]
         /\ \A e \in Entities : db.entities[e] = "completed" => db'.entities[e] = "completed"
         /\ \A e \in Entities :
              /\ db.entities[e] \in ClosedEntityStatus
              /\ db'.entities[e] \notin ClosedEntityStatus
              => FileOf[e] \in req[q].tx.files /\ req[q].tx.view.files[FileOf[e]] = "inprogress"
<1> DEFINE tx == req[q].tx
<1>1. TypeOK /\ RequestOK(q) /\ req[q].phase = "commit" /\ db' = Written(tx) /\ db \in Tables
  BY DEF Commit, RerunOK, TypeOK
<1>2. /\ tx \in Transaction /\ tx.view \in Tables
      /\ tx.files \subseteq Files /\ tx.entities \subseteq Entities
  BY <1>1, RequestFacts DEF RequestOK, TxOK, Writing
<1>3. ASSUME NEW e \in tx.entities
      PROVE  /\ tx.view.entities[e] = "inrerun" /\ db.entities[e] # "completed"
             /\ db.entities[e] \in ClosedEntityStatus =>
                  FileOf[e] \in tx.files /\ tx.view.files[FileOf[e]] = "inprogress"
  BY <1>1, <1>3 DEF RequestOK, ResetOK, ClosedEntityStatus
<1> HIDE DEF tx
<1>4. /\ db'.history = db.history \cup tx.added
      /\ \A f \in tx.files : db'.files[f] = tx.view.files[f]
      /\ \A f \in Files \ tx.files : db'.files[f] = db.files[f]
      /\ \A e \in tx.entities : db'.entities[e] = "inrerun"
      /\ \A e \in Entities \ tx.entities : db'.entities[e] = db.entities[e]
  BY <1>1, <1>2, <1>3 DEF Written
<1>5. /\ \A e \in Entities : db.entities[e] = "completed" => db'.entities[e] = "completed"
      /\ \A e \in Entities :
           /\ db.entities[e] \in ClosedEntityStatus
           /\ db'.entities[e] \notin ClosedEntityStatus
           => FileOf[e] \in tx.files /\ tx.view.files[FileOf[e]] = "inprogress"
  BY <1>3, <1>4
<1> QED BY <1>2, <1>4, <1>5 DEF tx

\* a commit, seen by the other requests: rows they hold it did not write, rows they
\* read it has marked
LEMMA CommitStep ==
  ASSUME RerunOK, NEW q \in Requests, Commit(q)
  PROVE  /\ LocksOK' /\ HistoryOK' /\ WholeOK'
         /\ \A p \in Requests : RequestOK(p)'
<1> DEFINE tx == req[q].tx
<1>1. TypeOK /\ RequestOK(q) /\ req[q].phase = "commit" /\ LocksOK
  BY DEF Commit, RerunOK
<1>2. /\ req'[q] \in {Answered("200"), Answered("201")}
      /\ \A p \in Requests : p # q => req'[p] = Overtaken(req[p], tx)
  BY DEF Commit
<1>3. RequestOK(q)'
  BY <1>2, AnsweredFacts, NoTxKept DEF Answers, Reading, Writing
<1>4. tx \in Transaction
  BY CommitFacts
<1>5. ASSUME NEW p \in Requests, p # q
      PROVE  /\ req'[p].phase = req[p].phase /\ req'[p].answer = req[p].answer
             /\ req'[p].tx.view = req[p].tx.view /\ req'[p].tx.files = req[p].tx.files
             /\ req'[p].tx.entities = req[p].tx.entities /\ req'[p].tx.added = req[p].tx.added
             /\ req'[p].tx.closes = req[p].tx.closes
             /\ req[p].phase \in Reading => tx.files \subseteq req'[p].tx.staleFiles
                                            /\ req[p].tx.staleFiles \subseteq req'[p].tx.staleFiles
             /\ req[p].phase \notin Reading => req'[p] = req[p]
  <2>1. req[p] \in Request /\ (req[p].phase \in Reading => req[p].answer = "none")
    BY <1>1, RequestFacts DEF RerunOK, RequestOK, TxOK, Reading
  <2> QED BY <1>2, <1>4, <1>5, <2>1, OvertakenFacts
<1>6. ASSUME NEW p \in Requests, p # q PROVE RequestOK(p)'
  <2>1. RequestOK(p) /\ req[p].tx.entities \subseteq Entities /\ req[p].tx.files \subseteq Files
    BY <1>1, RequestFacts DEF RerunOK
  <2>2. /\ req[p].tx.files \cap tx.files = {} /\ req[p].tx.entities \cap tx.entities = {}
    BY <1>1, <1>6 DEF LocksOK
  <2>3. TxOK(p)'
    BY <1>5, <1>6, <2>1 DEF RequestOK, TxOK, Reading, Writing
  <2>4. ViewOK(p)'
    BY <1>5, <1>6, <2>1, CommitFacts DEF RequestOK, ViewOK
  <2>5. ReadOK(p)'
    BY <1>5, <1>6, <2>1, CommitFacts DEF RequestOK, ReadOK
  <2>6. ResetOK(p)' /\ RecordedOK(p)'
    <3>1. \A e \in req[p].tx.entities : db'.entities[e] = db.entities[e]
      BY <2>1, <2>2, CommitFacts
    <3>2. ResetOK(p)'
      BY <1>5, <1>6, <2>1, <3>1 DEF RequestOK, ResetOK
    <3>3. RecordedOK(p)'
      BY <1>5, <1>6, <2>1, <3>1 DEF RequestOK, RecordedOK
    <3> QED BY <3>2, <3>3
  <2>7. CloseOK(p)'
    <3> SUFFICES ASSUME NEW f \in req[p].tx.files, req[p].tx.view.files[f] = "completed",
                        NEW e \in EntitiesOf(f)
                 PROVE  db'.entities[e] \in ClosedEntityStatus
      BY <1>5, <1>6 DEF CloseOK
    <3>1. db.entities[e] \in ClosedEntityStatus /\ e \in Entities /\ FileOf[e] \notin tx.files
      BY <2>1, <2>2 DEF RequestOK, CloseOK, EntitiesOf
    <3> QED BY <3>1, CommitFacts
  <2>8. AddedOK(p)'
    <3>1. \A h \in req[p].tx.added : h.entity \in Entities
      BY <1>1, RequestFacts DEF History
    <3> QED BY <1>5, <1>6, <2>1, <3>1, CommitFacts DEF RequestOK, AddedOK
  <2> QED BY <2>3, <2>4, <2>5, <2>6, <2>7, <2>8 DEF RequestOK
<1>7. LocksOK'
  <2>1. req'[q].tx.files = {} /\ req'[q].tx.entities = {}
    BY <1>2, AnsweredFacts, NoTransactionFacts DEF Answers
  <2> QED BY <1>1, <1>5, <2>1 DEF LocksOK
<1>8. HistoryOK'
  <2>1. \A h \in db.history \cup tx.added : h.entity \in Entities
    BY <1>1, RequestFacts, TablesFacts DEF History, TypeOK
  <2>2. \A h \in db.history \cup tx.added : h.status = "completed" => db.entities[h.entity] = "completed"
    BY <1>1 DEF HistoryOK, RerunOK, RequestOK, AddedOK
  <2> QED BY <2>1, <2>2, CommitFacts DEF HistoryOK
<1>9. WholeOK'
  <2> SUFFICES ASSUME NEW e \in Entities, db'.files[FileOf[e]] = "completed"
               PROVE  db'.entities[e] \in ClosedEntityStatus
    BY DEF WholeOK
  <2>1. FileOf[e] \in Files /\ e \in EntitiesOf(FileOf[e])
    BY RerunAssumption DEF EntitiesOf
  <2>2. CASE FileOf[e] \in tx.files
    <3>1. tx.view.files[FileOf[e]] = "completed"
      BY <2>2, CommitFacts
    <3>2. db.entities[e] \in ClosedEntityStatus
      BY <1>1, <2>1, <2>2, <3>1 DEF RequestOK, CloseOK
    <3> QED BY <3>1, <3>2, CommitFacts
  <2>3. CASE FileOf[e] \notin tx.files
    <3>1. db.entities[e] \in ClosedEntityStatus
      BY <2>1, <2>3, CommitFacts DEF RerunOK, WholeOK
    <3> QED BY <2>3, <3>1, CommitFacts
  <2> QED BY <2>2, <2>3
<1> QED BY <1>3, <1>6, <1>7, <1>8, <1>9

\* clients and workers change neither a closed entity nor a locked one
LEMMA ClientFrame ==
  ASSUME RerunOK, req' = req, db'.history = db.history,
         \A e \in Entities : db'.entities[e] # db.entities[e] =>
           db.entities[e] \notin ClosedEntityStatus /\ e \notin LockedEntities
  PROVE  /\ LocksOK' /\ HistoryOK'
         /\ \A p \in Requests : RequestOK(p)'
<1>1. TypeOK /\ LocksOK /\ HistoryOK
  BY DEF RerunOK
<1>2. \A e \in Entities : db.entities[e] \in ClosedEntityStatus => db'.entities[e] = db.entities[e]
  OBVIOUS
<1>3. LocksOK'
  BY <1>1 DEF LocksOK
<1>4. HistoryOK'
  <2>1. \A h \in db.history : h.entity \in Entities
    BY <1>1, TablesFacts DEF TypeOK, History
  <2> QED BY <1>1, <1>2, <2>1 DEF HistoryOK, ClosedEntityStatus
<1>5. ASSUME NEW p \in Requests PROVE RequestOK(p)'
  <2>1. RequestOK(p) /\ req[p].tx.entities \subseteq Entities
    BY <1>1, RequestFacts DEF RerunOK
  <2>2. TxOK(p)'
    BY <2>1 DEF RequestOK, TxOK
  <2>3. ViewOK(p)' /\ ReadOK(p)'
    BY <1>2, <2>1 DEF RequestOK, ViewOK, ReadOK, ClosedEntityStatus
  <2>4. ResetOK(p)' /\ RecordedOK(p)'
    <3>1. \A e \in req[p].tx.entities : db'.entities[e] = db.entities[e]
      BY <2>1 DEF LockedEntities
    <3> QED BY <2>1, <3>1 DEF RequestOK, ResetOK, RecordedOK
  <2>5. CloseOK(p)'
    BY <1>2, <2>1 DEF RequestOK, CloseOK, EntitiesOf
  <2>6. AddedOK(p)'
    <3>1. \A h \in req[p].tx.added : h.entity \in Entities
      BY <1>1, RequestFacts DEF History
    <3> QED BY <1>2, <2>1, <3>1 DEF RequestOK, AddedOK, ClosedEntityStatus
  <2> QED BY <2>2, <2>3, <2>4, <2>5, <2>6 DEF RequestOK
<1> QED BY <1>3, <1>4, <1>5

\* the steps of clients and workers: a new row, a report, a closure
LEMMA ClientStep ==
  ASSUME RerunOK, Client
  PROVE  /\ LocksOK' /\ HistoryOK' /\ WholeOK'
         /\ \A p \in Requests : RequestOK(p)'
         /\ \A e \in Entities : db'.entities[e] # db.entities[e] =>
              /\ db.entities[e] \notin ClosedEntityStatus /\ e \notin LockedEntities
              /\ db'.entities[e] # "inrerun"
<1> DEFINE Goal == /\ LocksOK' /\ HistoryOK' /\ WholeOK'
                   /\ \A p \in Requests : RequestOK(p)'
                   /\ \A e \in Entities : db'.entities[e] # db.entities[e] =>
                        /\ db.entities[e] \notin ClosedEntityStatus /\ e \notin LockedEntities
                        /\ db'.entities[e] # "inrerun"
<1>a. db \in Tables /\ WholeOK /\ db.files \in [Files -> Status \cup {Absent}]
      /\ db.entities \in [Entities -> EntityStatus \cup {Absent}]
  BY TablesFacts DEF RerunOK, TypeOK
<1>1. ASSUME req' = req, db' = db PROVE Goal
  <2>1. WholeOK'
    BY <1>a, <1>1 DEF WholeOK
  <2> QED BY <1>1, <2>1, ClientFrame
<1>2. ASSUME NEW f \in Files, CreateFile(f) \/ CloseFile(f) PROVE Goal
  <2>1. req' = req /\ db'.history = db.history /\ db'.entities = db.entities
    BY <1>2, <1>a DEF CreateFile, CloseFile, ClientOp, Tables
  <2>2. /\ \A g \in Files : g # f => db'.files[g] = db.files[g]
        /\ db'.files[f] = "inprogress" \/ CloseFile(f)
    BY <1>2, <1>a DEF CreateFile, CloseFile, Tables
  <2>3. CloseFile(f) => \A e \in EntitiesOf(f) : db.entities[e] \in ClosedEntityStatus
    BY WholeFacts DEF CloseFile
  <2>4. WholeOK'
    <3> SUFFICES ASSUME NEW e \in Entities, db'.files[FileOf[e]] = "completed"
                 PROVE  db.entities[e] \in ClosedEntityStatus
      BY <2>1 DEF WholeOK
    <3>1. FileOf[e] \in Files /\ e \in EntitiesOf(FileOf[e])
      BY RerunAssumption DEF EntitiesOf
    <3> QED BY <1>a, <2>2, <2>3, <3>1 DEF WholeOK
  <2> QED BY <2>1, <2>4, ClientFrame
<1>3. ASSUME NEW e \in Entities, NEW st \in EntityStatus \ {"inrerun"}, req' = req,
             db' = [db EXCEPT !.entities[e] = st],
             db.entities[e] \notin ClosedEntityStatus, e \notin LockedEntities
      PROVE  Goal
  <2>1. /\ db'.history = db.history /\ db'.files = db.files /\ db'.entities[e] = st
        /\ \A d \in Entities : d # e => db'.entities[d] = db.entities[d]
    BY <1>3, <1>a DEF Tables
  <2>2. WholeOK'
    BY <1>3, <1>a, <2>1 DEF WholeOK
  <2> QED BY <1>3, <2>1, <2>2, ClientFrame
<1>4. ASSUME NEW e \in Entities, CreateEntity(e) PROVE Goal
  <2>1. db.entities[e] = Absent /\ db' = [db EXCEPT !.entities[e] = "inprogress"] /\ req' = req
    BY <1>4 DEF CreateEntity, ClientOp
  <2>2. db.entities[e] \notin EntityStatus
    BY <2>1, RerunAssumption
  <2>3. e \notin LockedEntities
    BY <2>2 DEF LockedEntities, RerunOK, RequestOK, ResetOK, EntityStatus
  <2>4. "inprogress" \in EntityStatus \ {"inrerun"} /\ db.entities[e] \notin ClosedEntityStatus
    BY <2>2 DEF EntityStatus, ClosedEntityStatus
  <2> QED BY <1>3, <2>1, <2>3, <2>4
<1>5. ASSUME NEW e \in Entities, NEW st \in {"completed", "not_synced", "failed"}, UpdateEntity(e, st)
      PROVE  Goal
  <2>1. /\ db.entities[e] \in {"inprogress", "inrerun"} /\ e \notin LockedEntities
        /\ db' = [db EXCEPT !.entities[e] = st] /\ req' = req
    BY <1>5 DEF UpdateEntity, ClientOp
  <2>2. st \in EntityStatus \ {"inrerun"} /\ db.entities[e] \notin ClosedEntityStatus
    BY <2>1 DEF EntityStatus, ClosedEntityStatus
  <2> QED BY <1>3, <2>1, <2>2
<1>6. ASSUME CloseSync \/ \E r \in Reruns : FailRerun(r) PROVE Goal
  BY <1>1, <1>6 DEF CloseSync, FailRerun, ClientOp
<1> HIDE DEF Goal
<1>7. Goal
  BY <1>2, <1>4, <1>5, <1>6 DEF Client
<1> QED BY <1>7 DEF Goal

\* the state a failed run leaves satisfies the invariant
LEMMA RerunInit == Init => RerunOK
<1> SUFFICES ASSUME Init PROVE RerunOK
  OBVIOUS
<1>1. \A q \in Requests : req[q] = At("check", 0, Base, NoTransaction)
  BY DEF Init
<1>2. /\ At("check", 0, Base, NoTransaction) \in Request
      /\ At("check", 0, Base, NoTransaction).phase = "check"
      /\ At("check", 0, Base, NoTransaction).tx = NoTransaction
      /\ At("check", 0, Base, NoTransaction).answer = "none"
  BY AtFacts, NoTransactionFacts DEF Phases, Runs
<1>3. db \in Tables /\ db.history = {}
  BY DEF Init, Tables, Status, EntityStatus
<1>4. TypeOK
  BY <1>2, <1>3, RerunAssumption DEF Init, TypeOK, Status
<1>5. LocksOK
  BY <1>1, <1>2, NoTransactionFacts DEF LocksOK
<1>6. HistoryOK
  BY <1>3 DEF HistoryOK
<1>7. WholeOK
  <2> SUFFICES ASSUME NEW e \in Entities, db.files[FileOf[e]] = "completed"
               PROVE  db.entities[e] \in ClosedEntityStatus
    BY DEF WholeOK
  <2>1. FileOf[e] \in ClosedFiles(db) /\ e \in EntitiesOf(FileOf[e])
    BY RerunAssumption DEF ClosedFiles, EntitiesOf
  <2>2. ClosedEntities(db, FileOf[e]) = EntitiesOf(FileOf[e])
    BY <2>1 DEF Init
  <2> QED BY <2>1, <2>2 DEF ClosedEntities
<1>8. ASSUME NEW q \in Requests PROVE RequestOK(q)
  BY <1>1, <1>2, NoTransactionFacts
     DEF RequestOK, TxOK, ViewOK, ReadOK, ResetOK, CloseOK, AddedOK, RecordedOK, Reading, Writing
<1> QED BY <1>4, <1>5, <1>6, <1>7, <1>8 DEF RerunOK

\* every statement of a request and every step of a client keeps the invariant
LEMMA RerunStep == RerunOK /\ [Next]_vars => RerunOK'
<1> SUFFICES ASSUME RerunOK, [Next]_vars PROVE RerunOK'
  OBVIOUS
<1> DEFINE Goal == /\ LocksOK' /\ HistoryOK' /\ WholeOK'
                   /\ \A p \in Requests : RequestOK(p)'
<1>1. TypeOK'
  BY TypeStep DEF RerunOK, RequestOK
<1>2. ASSUME NEW q \in Requests, Check(q) \/ CheckBase(q) \/ Begin(q) PROVE Goal
  <2>1. \A n \in Nat : \A ph \in {"base", "begin", "delete"} :
          /\ At(ph, n, Base, NoTransaction).phase = ph /\ At(ph, n, Base, NoTransaction).answer = "none"
          /\ At(ph, n, Base, NoTransaction).tx = NoTransaction
    BY AtFacts, NoTransactionFacts DEF Phases, Runs
  <2>2. Answered("409").phase = "done" /\ Answered("409").tx = NoTransaction
    BY AnsweredFacts DEF Answers
  <2>3. PICK r : /\ req' = [req EXCEPT ![q] = r] /\ db' = db
                 /\ r = Answered("409") \/ \E n \in Nat : \E ph \in {"base", "begin", "delete"} :
                                             r = At(ph, n, Base, NoTransaction)
    <3>1. CASE Check(q)
      BY <3>1 DEF Check
    <3>2. CASE CheckBase(q)
      BY <3>2, LatestFacts DEF CheckBase, RerunOK
    <3>3. CASE Begin(q)
      BY <3>3, RequestFacts DEF Begin, RerunOK
    <3> QED BY <1>2, <3>1, <3>2, <3>3
  <2>4. /\ r.tx = NoTransaction /\ r.phase \notin Reading \cup Writing
        /\ r.phase # "done" => r.answer = "none"
    BY <2>1, <2>2, <2>3 DEF Reading, Writing
  <2> QED BY <2>3, <2>4, DropStep
<1>3. ASSUME NEW q \in Requests, DeleteEmptyFiles(q) PROVE Goal
  BY <1>3, DeleteStep
<1>4. ASSUME NEW q \in Requests, ReadLatest(q) PROVE Goal
  <2>1. PICK l \in LatestRuns : req' = [req EXCEPT ![q] = At("prepare", req[q].number, l, req[q].tx)]
    BY <1>4 DEF ReadLatest
  <2>2. l \in Runs /\ req[q].phase = "latest" /\ db' = db
    BY <1>4, LatestFacts DEF ReadLatest, RerunOK
  <2> QED BY <2>1, <2>2, GoOnStep
<1>5. ASSUME NEW q \in Requests, Prepare(q) PROVE Goal
  BY <1>5, PrepareStep
<1>6. ASSUME NEW q \in Requests, req' = [req EXCEPT ![q] = Answered("500")], db' = db PROVE Goal
  BY <1>6, AnsweredFacts, DropStep DEF Answers, Reading, Writing
<1>7. ASSUME NEW q \in Requests, InsertRerun(q) PROVE Goal
  <2>1. CASE req' = [req EXCEPT ![q] = Answered("500")]
    BY <1>6, <1>7, <2>1 DEF InsertRerun
  <2>2. CASE req' = [req EXCEPT ![q] = At("commit", req[q].number, req[q].latest, req[q].tx)]
    <3>1. req[q].phase = "insert" /\ req[q].latest \in Runs /\ db' = db
      BY <1>7, RequestFacts DEF InsertRerun, RerunOK
    <3> QED BY <2>2, <3>1, GoOnStep
  <2> QED BY <1>7, <2>1, <2>2 DEF InsertRerun
<1>8. ASSUME NEW q \in Requests, Commit(q) PROVE Goal
  BY <1>8, CommitStep
<1>9. ASSUME NEW q \in Requests, CommitFails(q) \/ Rollback(q) PROVE Goal
  BY <1>6, <1>9 DEF CommitFails, Rollback
<1>10. ASSUME Client PROVE Goal
  BY <1>10, ClientStep
<1>11. ASSUME UNCHANGED vars PROVE Goal
  <2>1. req' = req /\ db' = db
    BY <1>11 DEF vars
  <2>2. LocksOK' /\ HistoryOK' /\ WholeOK'
    BY <2>1 DEF RerunOK, LocksOK, HistoryOK, WholeOK
  <2> QED BY <2>1, <2>2, RequestKept DEF RerunOK
<1> HIDE DEF Goal
<1>12. Goal
  BY <1>2, <1>3, <1>4, <1>5, <1>7, <1>8, <1>9, <1>10, <1>11 DEF Next, Handle
<1> QED BY <1>1, <1>12 DEF Goal, RerunOK

\* The inductive invariant of the rerun requests.
THEOREM RerunCorrect == Spec => []RerunOK
  BY RerunInit, RerunStep, PTL DEF Spec

\* Tables, snapshots and requests keep their types.
THEOREM RerunTypeCorrect == Spec => []TypeOK
<1>1. RerunOK => TypeOK
  BY DEF RerunOK
<1> QED BY <1>1, RerunCorrect, PTL

\* However many requests reset entities and open or close files while workers close
\* them, a file is completed only while all its entities are closed.
THEOREM ClosedStaysWhole == Spec => []ClosedIsWhole
<1>1. RerunOK => ClosedIsWhole
  <2> SUFFICES ASSUME RerunOK, NEW f \in ClosedFiles(db)
               PROVE  ClosedEntities(db, f) = EntitiesOf(f)
    BY DEF ClosedIsWhole
  <2> QED BY DEF RerunOK, WholeOK, ClosedFiles, ClosedEntities, EntitiesOf
<1> QED BY <1>1, RerunCorrect, PTL

\* no step changes a completed entity
LEMMA UploadStep ==
  ASSUME RerunOK, [Next]_vars, NEW e \in Entities, db.entities[e] = "completed"
  PROVE  db'.entities[e] = "completed"
<1>1. ASSUME NEW q \in Requests, Commit(q) PROVE db'.entities[e] = "completed"
  BY <1>1, CommitFacts
<1>2. CASE Client
  BY <1>2, ClientStep DEF ClosedEntityStatus
<1>3. CASE UNCHANGED db
  BY <1>3
<1> QED
  BY <1>1, <1>2, <1>3
     DEF Next, Handle, vars, Check, CheckBase, Begin, DeleteEmptyFiles, ReadLatest, Prepare,
         InsertRerun, CommitFails, Rollback

\* An entity that was reported as completed stays completed: no rerun, however stale
\* its snapshot, resets it.
THEOREM UploadsSurvive == Spec => UploadSurvives
<1>1. RerunOK /\ [Next]_vars =>
        [\A e \in Entities : db.entities[e] = "completed" => db'.entities[e] = "completed"]_vars
  BY UploadStep
<1> QED BY <1>1, RerunCorrect, PTL DEF Spec, UploadSurvives

\* an entity becomes inrerun in a commit only, together with its history row
LEMMA ResetStep ==
  ASSUME UniqueIds, RerunOK, [Next]_vars, NEW e \in Entities,
         db'.entities[e] = "inrerun", db.entities[e] # "inrerun"
  PROVE  \E h \in db'.history \ db.history : h.entity = e /\ h.status = db.entities[e]
<1>1. ASSUME NEW q \in Requests, Commit(q)
      PROVE  \E h \in db'.history \ db.history : h.entity = e /\ h.status = db.entities[e]
  <2>1. e \in req[q].tx.entities
    BY <1>1, CommitFacts
  <2>2. PICK h \in req[q].tx.added \ req[q].tx.view.history : h.entity = e /\ h.status = db.entities[e]
    BY <2>1 DEF RerunOK, RequestOK, RecordedOK
  <2>3. db.history = req[q].tx.view.history
    BY <1>1, <2>1 DEF Commit, Serializable, RerunOK, RequestOK, TxOK
  <2> QED BY <1>1, <2>2, <2>3, CommitFacts
<1>2. CASE Client
  BY <1>2, ClientStep
<1>3. CASE UNCHANGED db
  BY <1>3
<1> QED
  BY <1>1, <1>2, <1>3
     DEF Next, Handle, vars, Check, CheckBase, Begin, DeleteEmptyFiles, ReadLatest, Prepare,
         InsertRerun, CommitFails, Rollback

\* The step that makes an entity inrerun records its last status in entity_history,
\* as long as no two files hold entities of one entity_id (rerun_history shows what
\* is lost when they do).
THEOREM ResetsAreRecorded ==
  ASSUME UniqueIds
  PROVE  Spec => ResetHasHistory
<1>1. RerunOK /\ [Next]_vars =>
        [\A e \in Entities : db'.entities[e] = "inrerun" /\ db.entities[e] # "inrerun" =>
           \E h \in db'.history \ db.history : h.entity = e /\ h.status = db.entities[e]]_vars
  BY ResetStep
<1> QED BY <1>1, RerunCorrect, PTL DEF Spec, ResetHasHistory

-----------------------------------------------------------------------------
(* The answers *)

\* the answers are true, and a request that is about to commit has inserted its rerun
\* unless it closes the sync
AnswerOK(q) ==
  /\ req[q].phase = "commit" /\ ~req[q].tx.closes => syncs[RerunOf[q]] # Absent
  /\ req[q].answer = "201" => syncs[RerunOf[q]] # Absent
  /\ req[q].answer = "200" => syncs[Base] = "completed"

\* syncs are not deleted, and the base sync is not opened again
LEMMA SyncsKept ==
  ASSUME RerunOK, [Next]_vars
  PROVE  /\ \A r \in Runs : syncs[r] # Absent => syncs'[r] # Absent
         /\ syncs[Base] = "completed" => syncs'[Base] = "completed"
<1> DEFINE Goal == /\ \A r \in Runs : syncs[r] # Absent => syncs'[r] # Absent
                   /\ syncs[Base] = "completed" => syncs'[Base] = "completed"
<1>a. /\ syncs \in [Runs -> Status \cup {Absent}] /\ Absent \notin Status
      /\ Base \in Runs /\ \A r \in Reruns : r \in Runs /\ r # Base
      /\ "inprogress" \in Status /\ "completed" \in Status /\ "failed" \in Status
  BY RerunAssumption DEF RerunOK, TypeOK, Runs, Status
<1>1. ASSUME syncs' = syncs PROVE Goal
  BY <1>1
<1>2. ASSUME NEW q \in Requests, InsertRerun(q) PROVE Goal
  BY <1>2, <1>a, RerunAssumption DEF InsertRerun
<1>3. ASSUME NEW q \in Requests, Commit(q) PROVE Goal
  BY <1>3, <1>a DEF Commit
<1>4. ASSUME CloseSync PROVE Goal
  BY <1>4, <1>a DEF CloseSync
<1>5. ASSUME NEW r \in Reruns, FailRerun(r) PROVE Goal
  BY <1>5, <1>a DEF FailRerun
<1> HIDE DEF Goal
<1>6. Goal
  BY <1>1, <1>2, <1>3, <1>4, <1>5
     DEF Next, Handle, Client, vars, Check, CheckBase, Begin, DeleteEmptyFiles, ReadLatest, Prepare,
         CommitFails, Rollback, CreateFile, CloseFile, CreateEntity, UpdateEntity
<1> QED BY <1>6 DEF Goal

\* a request that goes nowhere, and one that is neither committing nor successful
LEMMA AnswerKept ==
  ASSUME RerunOK, [Next]_vars, NEW p \in Requests, AnswerOK(p),
         \/ /\ req'[p].phase = req[p].phase /\ req'[p].answer = req[p].answer
            /\ req'[p].tx.closes = req[p].tx.closes
         \/ req'[p].phase # "commit" /\ req'[p].answer \notin {"200", "201"}
  PROVE  AnswerOK(p)'
<1>1. RerunOf[p] \in Runs
  BY RerunAssumption DEF Runs
<1> QED BY <1>1, SyncsKept DEF AnswerOK

\* an answer stays true, whatever other requests and clients do, and is true when given
LEMMA AnswerStep ==
  ASSUME RerunOK, [Next]_vars, \A p \in Requests : AnswerOK(p)
  PROVE  \A p \in Requests : AnswerOK(p)'
<1> DEFINE Goal == \A p \in Requests : AnswerOK(p)'
<1>a. TypeOK
  BY DEF RerunOK
<1>1. ASSUME NEW q \in Requests, NEW r, req' = [req EXCEPT ![q] = r],
             r.phase # "commit" /\ r.answer \notin {"200", "201"}
      PROVE  Goal
  <2> SUFFICES ASSUME NEW p \in Requests PROVE AnswerOK(p)'
    OBVIOUS
  <2>1. req'[p] = IF p = q THEN r ELSE req[p]
    BY <1>1, <1>a DEF TypeOK
  <2> QED BY <1>1, <2>1, AnswerKept
<1>2. ASSUME NEW q \in Requests, NEW ans \in {"409", "500"}, req' = [req EXCEPT ![q] = Answered(ans)]
      PROVE  Goal
  <2>1. Answered(ans).phase = "done" /\ Answered(ans).answer = ans
    BY AnsweredFacts DEF Answers
  <2> QED BY <1>1, <1>2, <2>1
<1>3. ASSUME NEW q \in Requests, NEW ph \in Phases \ {"commit"}, NEW n, NEW l, NEW tx,
             req' = [req EXCEPT ![q] = At(ph, n, l, tx)]
      PROVE  Goal
  <2>1. At(ph, n, l, tx).phase = ph /\ At(ph, n, l, tx).answer = "none"
    BY DEF At
  <2> QED BY <1>1, <1>3, <2>1
<1>4. ASSUME NEW q \in Requests, Check(q) \/ CheckBase(q) \/ Begin(q) \/ ReadLatest(q) PROVE Goal
  <2> HIDE DEF Goal
  <2>1. {"base", "begin", "delete", "prepare"} \subseteq Phases \ {"commit"}
    BY DEF Phases
  <2>2. CASE Check(q)
    BY <1>2, <1>3, <2>1, <2>2 DEF Check
  <2>3. CASE CheckBase(q)
    <3>1. PICK l \in LatestRuns :
            \/ req' = [req EXCEPT ![q] = Answered("409")]
            \/ req' = [req EXCEPT ![q] = At("begin", runNumber[l] + 1, Base, NoTransaction)]
      BY <2>3 DEF CheckBase
    <3> QED BY <1>2, <1>3, <2>1, <3>1
  <2>4. CASE Begin(q)
    BY <1>3, <2>1, <2>4 DEF Begin
  <2>5. CASE ReadLatest(q)
    <3>1. PICK l \in LatestRuns :
            req' = [req EXCEPT ![q] = At("prepare", req[q].number, l, req[q].tx)]
      BY <2>5 DEF ReadLatest
    <3> QED BY <1>3, <2>1, <3>1
  <2> QED BY <1>4, <2>2, <2>3, <2>4, <2>5
<1>5. ASSUME NEW q \in Requests, NEW n, NEW l, NEW tx, req' = [req EXCEPT ![q] = At("commit", n, l, tx)],
             tx.closes \/ syncs'[RerunOf[q]] # Absent
      PROVE  Goal
  <2> SUFFICES ASSUME NEW p \in Requests PROVE AnswerOK(p)'
    OBVIOUS
  <2>1. CASE p = q
    <3>1. req'[p] = At("commit", n, l, tx)
      BY <1>5, <1>a, <2>1 DEF TypeOK
    <3>2. req'[p].answer = "none" /\ req'[p].tx = tx
      BY <3>1 DEF At
    <3> QED BY <1>5, <2>1, <3>2 DEF AnswerOK
  <2>2. CASE p # q
    <3>1. req'[p] = req[p]
      BY <1>5, <1>a, <2>2 DEF TypeOK
    <3> QED BY <3>1, AnswerKept
  <2> QED BY <2>1, <2>2
<1>6. ASSUME NEW q \in Requests, DeleteEmptyFiles(q) PROVE Goal
  <2> DEFINE empty == EmptyFiles(db)
             closes == empty # {} /\ TotalFiles = Cardinality(ClosedFiles(Without(db, empty)))
  <2>1. req' = [req EXCEPT ![q] = At(IF closes THEN "commit" ELSE "latest", req[q].number, Base,
                                     Deleted(empty, closes))]
    BY <1>6 DEF DeleteEmptyFiles
  <2>2. Deleted(empty, closes).closes = closes /\ closes \in BOOLEAN
    BY DEF Deleted
  <2> HIDE DEF closes, empty, Goal
  <2>3. CASE closes
    BY <1>5, <2>1, <2>2, <2>3
  <2>4. CASE ~closes
    BY <1>3, <2>1, <2>4 DEF Phases
  <2> QED BY <2>3, <2>4
<1>7. ASSUME NEW q \in Requests, Prepare(q) PROVE Goal
  <2>1. \/ req' = [req EXCEPT ![q] = Answered("500")]
        \/ req' = [req EXCEPT ![q] = At("insert", req[q].number, req[q].latest, Done(q))]
    BY <1>7 DEF Prepare, Done
  <2> HIDE DEF Goal
  <2> QED BY <1>2, <1>3, <2>1 DEF Phases
<1>8. ASSUME NEW q \in Requests, InsertRerun(q) PROVE Goal
  <2> HIDE DEF Goal
  <2>1. CASE syncs[RerunOf[q]] # Absent
    BY <1>2, <1>8, <2>1 DEF InsertRerun
  <2>2. CASE syncs[RerunOf[q]] = Absent
    <3>1. /\ syncs' = [syncs EXCEPT ![RerunOf[q]] = "inprogress"]
          /\ req' = [req EXCEPT ![q] = At("commit", req[q].number, req[q].latest, req[q].tx)]
      BY <1>8, <2>2 DEF InsertRerun
    <3>2. syncs'[RerunOf[q]] # Absent
      BY <1>a, <3>1, RerunAssumption DEF TypeOK, Runs, Status
    <3> QED BY <1>5, <3>1, <3>2
  <2> QED BY <2>1, <2>2
<1>9. ASSUME NEW q \in Requests, Commit(q) PROVE Goal
  <2> SUFFICES ASSUME NEW p \in Requests PROVE AnswerOK(p)'
    OBVIOUS
  <2>1. CASE p = q
    <3>1. req'[p] = Answered(IF req[q].tx.closes THEN "200" ELSE "201")
      BY <1>9, <2>1 DEF Commit
    <3>2. /\ req'[p].phase = "done"
          /\ req'[p].answer = IF req[q].tx.closes THEN "200" ELSE "201"
      BY <3>1, AnsweredFacts DEF Answers
    <3>3. req[q].tx.closes => syncs'[Base] = "completed"
      BY <1>9, <1>a DEF Commit, TypeOK, Runs
    <3>4. ~req[q].tx.closes => syncs'[RerunOf[q]] # Absent
      BY <1>9 DEF Commit, AnswerOK
    <3> QED BY <2>1, <3>2, <3>3, <3>4 DEF AnswerOK
  <2>2. CASE p # q
    <3>1. req'[p] = Overtaken(req[p], req[q].tx) /\ req[q].tx \in Transaction
      BY <1>9, <2>2, CommitFacts DEF Commit
    <3>2. req[p] \in Request /\ (req[p].phase \in Reading => req[p].answer = "none")
      BY <1>a, RequestFacts DEF RerunOK, RequestOK, TxOK, Reading
    <3>3. /\ req'[p].phase = req[p].phase /\ req'[p].answer = req[p].answer
          /\ req'[p].tx.closes = req[p].tx.closes
      BY <3>1, <3>2, OvertakenFacts
    <3> QED BY <3>3, AnswerKept
  <2> QED BY <2>1, <2>2
<1>10. ASSUME NEW q \in Requests, CommitFails(q) \/ Rollback(q) PROVE Goal
  BY <1>2, <1>10 DEF CommitFails, Rollback
<1>11. ASSUME Client \/ UNCHANGED vars PROVE Goal
  <2>1. req' = req
    BY <1>11 DEF Client, CreateFile, CloseFile, CreateEntity, UpdateEntity, CloseSync, FailRerun,
                 ClientOp, vars
  <2> QED BY <2>1, AnswerKept
<1> HIDE DEF Goal
<1>12. Goal
  BY <1>4, <1>6, <1>7, <1>8, <1>9, <1>10, <1>11 DEF Next, Handle
<1> QED BY <1>12 DEF Goal

\* 201 is answered only when the rerun exists, 200 only when the base sync is completed,
\* and neither becomes untrue later.
THEOREM AnswersHold == Spec => []AnswerHolds
<1> DEFINE AnswersOK == RerunOK /\ \A q \in Requests : AnswerOK(q)
<1>1. Init => AnswersOK
  <2>1. Init => \A q \in Requests : AnswerOK(q)
    BY DEF Init, AnswerOK, At
  <2> QED BY <2>1, RerunInit
<1>2. AnswersOK /\ [Next]_vars => AnswersOK'
  BY RerunStep, AnswerStep
<1>3. AnswersOK => AnswerHolds
  BY DEF AnswerOK, AnswerHolds
<1> HIDE DEF AnswersOK
<1> QED BY <1>1, <1>2, <1>3, PTL DEF Spec
=============================================================================
