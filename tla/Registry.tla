------------------------------ MODULE Registry ------------------------------
(***************************************************************************)
(* The handlers that register syncs, files, entities and changesets and    *)
(* patch them.  None of them opens a transaction: a handler awaits one     *)
(* query after the other, decides on what it read, and ends with a single  *)
(* INSERT, UPDATE or save.  Every query is a step, so handlers interleave  *)
(* between what they checked and what they write.                          *)
(*                                                                         *)
(* PostgreSQL is external: a statement is atomic, and an INSERT that meets *)
(* an existing primary key inserts nothing and fails, which the            *)
(* controllers answer with 500.                                            *)
(***************************************************************************)
EXTENDS Naturals, Sequences, Functions

CONSTANTS
  SyncIds, FileIds, EntityIds, ChangesetIds,
  Requests,
  Layers,        \* layer and geometry type of a sync
  MetaKeys,      \* keys of a sync's metadata
  Bodies,        \* the requests that may be received
  InitSyncs,     \* the possible contents of the sync table
  InitFiles,     \* the possible contents of the file table
  InitEntities,  \* the possible statuses of the entity table
  NoRow, NoSync, NoBody

EntityStatus == {"inprogress", "completed", "not_synced", "failed", "inrerun"}
Answers == {"none", "200", "201", "404", "409", "500"}
Phases == {"idle", "start", "second", "third", "write", "load", "save", "done"}

Rows == FileIds \X EntityIds
SyncRow == [base : SyncIds \cup {NoSync}, full : BOOLEAN, layer : Layers, meta : SUBSET MetaKeys]
FileRow == [sync : SyncIds, total : Nat]
SyncTable == [SyncIds -> SyncRow \cup {NoRow}]
FileTable == [FileIds -> FileRow \cup {NoRow}]
EntityTable == [Rows -> EntityStatus \cup {NoRow}]
ChangesetTable == [ChangesetIds -> Nat \cup {NoRow}]

\* the bodies of the requests, by operation; a status may be left out
StatusOrUnset == EntityStatus \cup {"unset"}
SyncBody == [op : {"createSync"}, sync : SyncIds, full : BOOLEAN, layer : Layers]
            \cup [op : {"updateSync"}, sync : SyncIds, meta : SUBSET MetaKeys]
FileBody == [op : {"createFile", "updateFile"}, sync : SyncIds, file : FileIds, total : Nat]
            \cup [op : {"createFiles"}, sync : SyncIds, files : Seq(FileIds), total : Nat]
EntityBody ==
  [op : {"createEntity", "updateEntity"}, file : FileIds, entity : EntityIds, status : StatusOrUnset]
  \cup [op : {"createEntities"}, file : FileIds, entities : Seq(EntityIds), status : StatusOrUnset]
  \cup [op : {"updateEntities"}, rows : Seq(Rows), status : StatusOrUnset]
ChangesetBody == [op : {"createChangeset", "updateChangeset"}, changeset : ChangesetIds, osm : Nat]

ASSUME RegistryAssumption ==
  /\ Bodies \subseteq SyncBody \cup FileBody \cup EntityBody \cup ChangesetBody
  /\ InitSyncs \subseteq SyncTable /\ InitFiles \subseteq FileTable /\ InitEntities \subseteq EntityTable
  /\ NoRow \notin StatusOrUnset /\ NoRow \notin SyncRow \cup FileRow /\ NoRow \notin Nat

VARIABLES
  syncs,        \* sync id -> NoRow or its base, full, layer and metadata keys
  files,        \* file id -> NoRow or its sync and total
  entities,     \* <<file id, entity id>> -> NoRow or status
  changesets,   \* changeset id -> NoRow or its OSM id
  req,          \* request -> where its handler is and what it has read
  made          \* history: request -> the rows it inserted, each with its table

tables == <<syncs, files, entities, changesets>>
vars == <<tables, req, made>>

\* what a handler has read and keeps: the metadata, the base of the sync, the statuses
\* of entities; saving: the entities it is to save
Request == [phase : Phases, body : Bodies \cup {NoBody}, answer : Answers,
            meta : SUBSET MetaKeys, base : SyncIds \cup {NoSync}, found : EntityTable,
            saving : SUBSET Rows]

Init ==
  /\ syncs \in InitSyncs /\ files \in InitFiles /\ entities \in InitEntities
  /\ \A f \in FileIds : files[f] # NoRow => syncs[files[f].sync] # NoRow
  /\ \A x \in Rows : entities[x] # NoRow => files[x[1]] # NoRow
  /\ \A x \in Rows : entities[x] = "inrerun" =>
       \E s \in SyncIds : syncs[s] # NoRow /\ syncs[s].base = files[x[1]].sync
  /\ changesets = [c \in ChangesetIds |-> NoRow]
  /\ req = [q \in Requests |-> [phase |-> "idle", body |-> NoBody, answer |-> "none", meta |-> {},
                                base |-> NoSync, found |-> [x \in Rows |-> NoRow], saving |-> {}]]
  /\ made = [q \in Requests |-> {}]

-----------------------------------------------------------------------------
(* Steps of a handler *)

Body(q) == req[q].body
At(q, op, ph) == req[q].phase = ph /\ Body(q).op = op
Answer(q, ans) == req' = [req EXCEPT ![q].phase = "done", ![q].answer = ans]
Goto(q, ph) == req' = [req EXCEPT ![q].phase = ph]
Reading == UNCHANGED <<tables, made>>

\* a query of the handler op in phase ph: answer when its row is missing, else go on
Refuse(q, refused, ans, ph) == IF refused THEN Answer(q, ans) ELSE Goto(q, ph)

Receive(q, b) ==
  /\ req[q].phase = "idle"
  /\ req' = [req EXCEPT ![q].phase = "start", ![q].body = b]
  /\ Reading

\* the entities a bulk creation asks for, and the rows a creation asks for
EntitiesOf(b) == {<<b.file, e>> : e \in Range(b.entities)}
Requested(b) ==
  CASE b.op = "createSync" -> {<<"sync", b.sync>>}
    [] b.op = "createFiles" -> {"file"} \X Range(b.files)
    [] b.op = "createEntity" -> {<<"entity", <<b.file, b.entity>>>>}
    [] b.op = "createChangeset" -> {<<"changeset", b.changeset>>}

Insert(q, table, ids) == made' = [made EXCEPT ![q] = {table} \X ids]

-----------------------------------------------------------------------------
(* syncManager *)

\* createSync: findOneSync
FindSync(q) ==
  /\ At(q, "createSync", "start")
  /\ Refuse(q, syncs[Body(q).sync] # NoRow, "409", IF Body(q).full THEN "second" ELSE "write")
  /\ Reading

\* createSync: findSyncs of the same layer for a full sync
FindFullSync(q) ==
  /\ At(q, "createSync", "second")
  /\ Refuse(q, \E s \in SyncIds : syncs[s] # NoRow /\ syncs[s].full /\ syncs[s].layer = Body(q).layer,
            "409", "write")
  /\ Reading

InsertSync(q) ==
  LET b == Body(q) IN
    /\ At(q, "createSync", "write")
    /\ IF syncs[b.sync] # NoRow
       THEN Answer(q, "500") /\ Reading
       ELSE /\ syncs' = [syncs EXCEPT ![b.sync] =
                           [base |-> NoSync, full |-> b.full, layer |-> b.layer, meta |-> {}]]
            /\ Answer(q, "201") /\ Insert(q, "sync", {b.sync})
            /\ UNCHANGED <<files, entities, changesets>>

\* updateSync: findOneSync, whose metadata is kept for the merge
ReadSync(q) ==
  LET row == syncs[Body(q).sync] IN
    /\ At(q, "updateSync", "start")
    /\ IF row = NoRow THEN Answer(q, "404") ELSE req' = [req EXCEPT ![q].phase = "write", ![q].meta = row.meta]
    /\ Reading

WriteSync(q) ==
  LET b == Body(q) IN
    /\ At(q, "updateSync", "write")
    /\ syncs' = [syncs EXCEPT ![b.sync].meta = req[q].meta \cup b.meta]
    /\ Answer(q, "200")
    /\ UNCHANGED <<files, entities, changesets, made>>

-----------------------------------------------------------------------------
(* fileManager *)

\* createFile: findOneSync; a rerun's files are created on its base sync
FindSyncOfFile(q) ==
  LET row == syncs[Body(q).sync] IN
    /\ At(q, "createFile", "start")
    /\ IF row = NoRow THEN Answer(q, "404") ELSE req' = [req EXCEPT ![q].phase = "second", ![q].base = row.base]
    /\ Reading

\* createFile or createRerunFile: findOneFile; a rerun may register a file again
FindFile(q) ==
  LET b == Body(q)  row == files[b.file]  rerun == req[q].base # NoSync IN
    /\ At(q, "createFile", "second")
    /\ CASE row = NoRow -> Goto(q, "write")
         [] row # NoRow /\ ~rerun -> Answer(q, "409")
         [] OTHER -> Answer(q, IF req[q].base = row.sync /\ b.total = row.total THEN "201" ELSE "409")
    /\ Reading

InsertFile(q) ==
  LET b == Body(q)
      target == IF req[q].base = NoSync THEN b.sync ELSE req[q].base IN
    /\ At(q, "createFile", "write")
    /\ IF files[b.file] # NoRow
       THEN Answer(q, "500") /\ Reading
       ELSE /\ files' = [files EXCEPT ![b.file] = [sync |-> target, total |-> b.total]]
            /\ Answer(q, "201") /\ Insert(q, "file", {b.file})
            /\ UNCHANGED <<syncs, entities, changesets>>

\* createFiles: uniqBy, then findOneSync
FindSyncOfFiles(q) ==
  LET b == Body(q) IN
    /\ At(q, "createFiles", "start")
    /\ IF ~IsInjective(b.files) THEN Answer(q, "409")
       ELSE Refuse(q, syncs[b.sync] = NoRow, "404", "second")
    /\ Reading

\* createFiles: findManyFilesByIds
FindFiles(q) ==
  /\ At(q, "createFiles", "second")
  /\ Refuse(q, \E f \in Range(Body(q).files) : files[f] # NoRow, "409", "write")
  /\ Reading

\* mutation: one INSERT per file
InsertFilesOneByOne(q) ==
  LET b == Body(q)
      new == {f \in Range(b.files) : files[f] = NoRow} IN
    /\ At(q, "createFiles", "write")
    /\ files' = [f \in FileIds |-> IF f \in new THEN [sync |-> b.sync, total |-> b.total] ELSE files[f]]
    /\ Answer(q, IF new = Range(b.files) THEN "201" ELSE "500") /\ Insert(q, "file", new)
    /\ UNCHANGED <<syncs, entities, changesets>>

\* createFiles: all the files in one INSERT, under the sync of the request
InsertFiles(q) ==
  LET b == Body(q) IN
    /\ At(q, "createFiles", "write")
    /\ IF \E f \in Range(b.files) : files[f] # NoRow
       THEN Answer(q, "500") /\ Reading
       ELSE /\ files' = [f \in FileIds |-> IF f \in Range(b.files)
                                           THEN [sync |-> b.sync, total |-> b.total] ELSE files[f]]
            /\ Answer(q, "201") /\ Insert(q, "file", Range(b.files))
            /\ UNCHANGED <<syncs, entities, changesets>>

\* updateFile: findOneSync, findOneFile, update
FindSyncToUpdate(q) ==
  /\ At(q, "updateFile", "start")
  /\ Refuse(q, syncs[Body(q).sync] = NoRow, "404", "second")
  /\ Reading

FindFileToUpdate(q) ==
  /\ At(q, "updateFile", "second")
  /\ Refuse(q, files[Body(q).file] = NoRow, "404", "write")
  /\ Reading

UpdateFile(q) ==
  /\ At(q, "updateFile", "write")
  /\ files' = [files EXCEPT ![Body(q).file].total = Body(q).total]
  /\ Answer(q, "200")
  /\ UNCHANGED <<syncs, entities, changesets, made>>

-----------------------------------------------------------------------------
(* entityManager *)

\* mutation: the column has no default
InsertedAsGiven(status) == status

\* the row an INSERT writes, and the one an UPDATE leaves: the body may set no status
Inserted(status) == IF status = "unset" THEN "inprogress" ELSE status
Updated(status, old) == IF status = "unset" THEN old ELSE status

\* createEntity and createEntities: findOneFile; the bulk then looks for duplicates
FindFileOfEntity(q) ==
  /\ At(q, "createEntity", "start")
  /\ Refuse(q, files[Body(q).file] = NoRow, "404", "second")
  /\ Reading

FindEntity(q) ==
  /\ At(q, "createEntity", "second")
  /\ Refuse(q, entities[<<Body(q).file, Body(q).entity>>] # NoRow, "409", "write")
  /\ Reading

\* mutation: createEntity saves instead of inserting
InsertEntityUpserting(q) ==
  LET b == Body(q)  x == <<b.file, b.entity>> IN
    /\ At(q, "createEntity", "write")
    /\ entities' = [entities EXCEPT ![x] = Inserted(b.status)]
    /\ Answer(q, "201") /\ Insert(q, "entity", {x})
    /\ UNCHANGED <<syncs, files, changesets>>

InsertEntity(q) ==
  LET b == Body(q)  x == <<b.file, b.entity>> IN
    /\ At(q, "createEntity", "write")
    /\ IF entities[x] # NoRow
       THEN Answer(q, "500") /\ Reading
       ELSE /\ entities' = [entities EXCEPT ![x] = Inserted(b.status)]
            /\ Answer(q, "201") /\ Insert(q, "entity", {x})
            /\ UNCHANGED <<syncs, files, changesets>>

FindFileOfEntities(q) ==
  LET b == Body(q) IN
    /\ At(q, "createEntities", "start")
    /\ IF files[b.file] = NoRow THEN Answer(q, "404")
       ELSE Refuse(q, ~IsInjective(b.entities), "409", "second")
    /\ Reading

\* the statuses of the entities xs
Found(xs) == [x \in Rows |-> IF x \in xs THEN entities[x] ELSE NoRow]

\* createEntities: findManyEntitiesByIds
ReadEntities(q) ==
  /\ At(q, "createEntities", "second")
  /\ req' = [req EXCEPT ![q].phase = "third", ![q].found = Found(EntitiesOf(Body(q)))]
  /\ Reading

\* createEntities: findSyncs of the reruns of the file's sync.  Without one no
\* entity may exist; with one, the absent and the inrerun entities are saved
\* and every other one is answered as previously completed
ReadReruns(q) ==
  LET b == Body(q)
      toSave == {x \in EntitiesOf(b) : req[q].found[x] \in {NoRow, "inrerun"}}
      reruns == {s \in SyncIds : syncs[s] # NoRow /\ syncs[s].base = files[b.file].sync} IN
    /\ At(q, "createEntities", "third")
    /\ IF reruns = {} THEN Refuse(q, \E x \in Rows : req[q].found[x] # NoRow, "409", "write")
       ELSE req' = [req EXCEPT ![q].phase = "load", ![q].saving = toSave]
    /\ Reading

InsertEntities(q) ==
  LET b == Body(q) IN
    /\ At(q, "createEntities", "write")
    /\ IF \E x \in EntitiesOf(b) : entities[x] # NoRow
       THEN Answer(q, "500") /\ Reading
       ELSE /\ entities' = [x \in Rows |-> IF x \in EntitiesOf(b) THEN Inserted(b.status) ELSE entities[x]]
            /\ Answer(q, "201") /\ Insert(q, "entity", EntitiesOf(b))
            /\ UNCHANGED <<syncs, files, changesets>>

\* updateEntity: findOneFile, findOneEntity, update.  patchEntity maps only the
\* missing entity to 404; the missing file is answered with 500
FindFileOfUpdate(q) ==
  /\ At(q, "updateEntity", "start")
  /\ Refuse(q, files[Body(q).file] = NoRow, "500", "second")
  /\ Reading

FindEntityToUpdate(q) ==
  /\ At(q, "updateEntity", "second")
  /\ Refuse(q, entities[<<Body(q).file, Body(q).entity>>] = NoRow, "404", "write")
  /\ Reading

UpdateEntity(q) ==
  LET b == Body(q) IN
    /\ At(q, "updateEntity", "write")
    /\ entities' = [entities EXCEPT ![<<b.file, b.entity>>] = Updated(b.status, @)]
    /\ Answer(q, "200")
    /\ UNCHANGED <<syncs, files, changesets, made>>

\* updateEntities: uniqBy entityId, whatever the file, then countEntitiesByIds
CountEntities(q) ==
  LET b == Body(q) IN
    /\ At(q, "updateEntities", "start")
    /\ CASE ~IsInjective([i \in DOMAIN b.rows |-> b.rows[i][2]]) -> Answer(q, "409")
         [] \E x \in Range(b.rows) : entities[x] = NoRow -> Answer(q, "404")
         [] OTHER -> req' = [req EXCEPT ![q].phase = "load", ![q].saving = Range(b.rows)]
    /\ Reading

\* updateEntities of the repository: save loads the rows ...
LoadRows(q) ==
  /\ req[q].phase = "load"
  /\ req' = [req EXCEPT ![q].phase = "save", ![q].found = Found(req[q].saving)]
  /\ Reading

\* mutation: an upsert writes the default of what the body leaves out
SavedWithDefaults(status, loaded, now) == Inserted(status)

\* the status save leaves in a row that now holds status now: it writes the columns
\* that differ from what it loaded
Saved(status, loaded, now) ==
  CASE loaded = NoRow -> Inserted(status)
    [] loaded # NoRow /\ Updated(status, loaded) # loaded -> status
    [] OTHER -> now

\* ... and in one transaction inserts those that were absent and updates the others
SaveRows(q) ==
  LET b == Body(q)
      absent == {x \in req[q].saving : req[q].found[x] = NoRow} IN
    /\ req[q].phase = "save"
    /\ IF \E x \in absent : entities[x] # NoRow
       THEN Answer(q, "500") /\ Reading
       ELSE /\ entities' = [x \in Rows |-> IF x \in req[q].saving
                                            THEN Saved(b.status, req[q].found[x], entities[x])
                                            ELSE entities[x]]
            /\ Answer(q, IF b.op = "createEntities" THEN "201" ELSE "200") /\ Insert(q, "entity", absent)
            /\ UNCHANGED <<syncs, files, changesets>>

-----------------------------------------------------------------------------
(* changesetManager *)

FindChangeset(q) ==
  LET exists == changesets[Body(q).changeset] # NoRow IN
    /\ \/ At(q, "createChangeset", "start") /\ Refuse(q, exists, "409", "write")
       \/ At(q, "updateChangeset", "start") /\ Refuse(q, ~exists, "404", "write")
    /\ Reading

InsertChangeset(q) ==
  LET b == Body(q) IN
    /\ At(q, "createChangeset", "write")
    /\ IF changesets[b.changeset] # NoRow
       THEN Answer(q, "500") /\ Reading
       ELSE /\ changesets' = [changesets EXCEPT ![b.changeset] = b.osm]
            /\ Answer(q, "201") /\ Insert(q, "changeset", {b.changeset})
            /\ UNCHANGED <<syncs, files, entities>>

UpdateChangeset(q) ==
  LET b == Body(q) IN
    /\ At(q, "updateChangeset", "write")
    /\ changesets' = [changesets EXCEPT ![b.changeset] = b.osm]
    /\ Answer(q, "200")
    /\ UNCHANGED <<syncs, files, entities, made>>

-----------------------------------------------------------------------------
Step(q) ==
  \/ \E b \in Bodies : Receive(q, b)
  \/ FindSync(q) \/ FindFullSync(q) \/ InsertSync(q) \/ ReadSync(q) \/ WriteSync(q)
  \/ FindSyncOfFile(q) \/ FindFile(q) \/ InsertFile(q)
  \/ FindSyncOfFiles(q) \/ FindFiles(q) \/ InsertFiles(q)
  \/ FindSyncToUpdate(q) \/ FindFileToUpdate(q) \/ UpdateFile(q)
  \/ FindFileOfEntity(q) \/ FindEntity(q) \/ InsertEntity(q)
  \/ FindFileOfEntities(q) \/ ReadEntities(q) \/ ReadReruns(q) \/ InsertEntities(q)
  \/ FindFileOfUpdate(q) \/ FindEntityToUpdate(q) \/ UpdateEntity(q)
  \/ CountEntities(q) \/ LoadRows(q) \/ SaveRows(q)
  \/ FindChangeset(q) \/ InsertChangeset(q) \/ UpdateChangeset(q)

Next == \E q \in Requests : Step(q)

Spec == Init /\ [][Next]_vars

-----------------------------------------------------------------------------
\* Every variable keeps its type: a row is absent or complete, an answer is one
\* the controllers give.
TypeOK ==
  /\ syncs \in SyncTable /\ files \in FileTable
  /\ entities \in EntityTable /\ changesets \in ChangesetTable
  /\ req \in [Requests -> Request] /\ DOMAIN made = Requests
  /\ \A q \in Requests : (req[q].answer = "none") <=> (req[q].phase # "done")

Answered(q, op, ans) == At(q, op, "done") /\ req[q].answer = ans

\* A bulk creation that races others either registers every row it asked for and
\* is answered 201, or registers none and is answered with an error; only a
\* creation on a rerun registers the part that was missing (createFiles,
\* createEntities; fileManager.ts, entityManager.ts).
AllOrNothing ==
  \A q \in Requests :
    /\ req[q].answer \notin {"none", "201"} => made[q] = {}
    /\ \A op \in {"createSync", "createFiles", "createEntity", "createChangeset"} :
         Answered(q, op, "201") => made[q] = Requested(Body(q))
    /\ Answered(q, "createEntities", "201") =>
         \A x \in EntitiesOf(Body(q)) : entities[x] # NoRow

\* Of concurrent creations of the same row only one registers it: the checks
\* for an existing row race, the primary key decides (insert, not save).
MadeOnce ==
  \A q, r \in Requests : \A x \in made[q] \cap made[r] : q = r

\* the statuses that answered requests asked for a row
Reporting(x) ==
  {q \in Requests : \/ Answered(q, "updateEntity", "200") /\ <<Body(q).file, Body(q).entity>> = x
                    \/ Answered(q, "updateEntities", "200") /\ x \in req[q].saving}
Rewriting(x) == {q \in Requests : Answered(q, "createEntities", "201") /\ x \in req[q].saving}

\* Once a status report on an entity is answered, the row holds a status that
\* some answered request asked for: a creation on a rerun that read the row
\* before the report and saves it after does not put the row back
\* (entityManager.ts createEntities, updateEntities).
ReportSurvives ==
  \A x \in Rows :
    (\E q \in Reporting(x) : Body(q).status # "unset") =>
      entities[x] \in {Body(q).status : q \in Reporting(x) \cup Rewriting(x)}

\* createSync's tests: a layer has at most one full sync of a
\* geometry type ("rejects if a full sync with the same layerId and geometryType
\* already exists in the db").
OneFullSync ==
  \A s, t \in SyncIds :
    s # t /\ syncs[s] # NoRow /\ syncs[t] # NoRow /\ syncs[s].full /\ syncs[t].full
      => syncs[s].layer # syncs[t].layer
=============================================================================
