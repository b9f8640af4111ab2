--------------------------- MODULE RegistryProofs ---------------------------
(***************************************************************************)
(* Proofs about Registry, for any tables, any set of request bodies and    *)
(* any number of requests interleaved query by query: types, that bulk     *)
(* creations are all or nothing, that a row is created once, and that a    *)
(* report is not put back by a creation on a rerun.                        *)
(***************************************************************************)
EXTENDS Registry, TLAPS

-----------------------------------------------------------------------------
(* The inductive invariant *)

\* the statuses that answered requests asked for the entity x
Asked(x) == {Body(p).status : p \in Reporting(x) \cup Rewriting(x)}

\* the row k is in its table
Registered(k) ==
  \/ k[1] = "sync" /\ k[2] \in SyncIds /\ syncs[k[2]] # NoRow
  \/ k[1] = "file" /\ k[2] \in FileIds /\ files[k[2]] # NoRow
  \/ k[1] = "entity" /\ k[2] \in Rows /\ entities[k[2]] # NoRow
  \/ k[1] = "changeset" /\ k[2] \in ChangesetIds /\ changesets[k[2]] # NoRow

BodyOK(q) == req[q].phase # "idle" => Body(q) \in Bodies

\* the rows a request made exist, and they are the ones AllOrNothing tells
MadeOK(q) ==
  /\ \A k \in made[q] : Registered(k)
  /\ req[q].answer # "201" => made[q] = {}
  /\ \A op \in {"createSync", "createFiles", "createEntity", "createChangeset"} :
       Answered(q, op, "201") => made[q] = Requested(Body(q))
  /\ Answered(q, "createEntities", "201") => \A x \in EntitiesOf(Body(q)) : entities[x] # NoRow

\* the row a patch was found to exist exists when it is written
TargetOK(q) ==
  /\ At(q, "updateSync", "write") => syncs[Body(q).sync] # NoRow
  /\ At(q, "updateFile", "write") => files[Body(q).file] # NoRow

\* what was read exists
FoundOK(q) == \A x \in Rows : req[q].found[x] # NoRow => entities[x] # NoRow

\* a creation on a rerun leaves out only entities that exist; a bulk patch saves only
\* entities that exist, and finds them when it loads them
SavingOK(q) ==
  req[q].phase \in {"load", "save"} =>
    \/ /\ Body(q).op = "createEntities"
       /\ req[q].saving \subseteq EntitiesOf(Body(q))
       /\ \A x \in EntitiesOf(Body(q)) \ req[q].saving : entities[x] # NoRow
    \/ /\ Body(q).op = "updateEntities"
       /\ \A x \in req[q].saving : entities[x] # NoRow
       /\ req[q].phase = "save" => \A x \in req[q].saving : req[q].found[x] # NoRow

\* a row that is not as save loaded it any more holds what an answered request asked for
LoadedOK(q) ==
  req[q].phase = "save" =>
    \A x \in req[q].saving :
      req[q].found[x] # NoRow => entities[x] = req[q].found[x] \/ entities[x] \in Asked(x)

\* ReportSurvives, request by request
ReportOK(q) ==
  \A x \in Rows : q \in Reporting(x) /\ Body(q).status # "unset" => entities[x] \in Asked(x)

RequestOK(q) ==
  /\ BodyOK(q) /\ MadeOK(q) /\ TargetOK(q)
  /\ FoundOK(q) /\ SavingOK(q) /\ LoadedOK(q) /\ ReportOK(q)

RegistryOK == TypeOK /\ MadeOnce /\ \A q \in Requests : RequestOK(q)

-----------------------------------------------------------------------------
(* Facts about bodies and requests *)

\* the fields of a body, by its operation
LEMMA BodyFacts ==
  ASSUME NEW b \in Bodies
  PROVE  /\ b.op \in {"createSync", "updateSync", "createFile", "updateFile", "createFiles"} => b.sync \in SyncIds
         /\ b.op = "createSync" => b.full \in BOOLEAN /\ b.layer \in Layers
         /\ b.op = "updateSync" => b.meta \subseteq MetaKeys
         /\ b.op \in {"createFile", "updateFile"} => b.file \in FileIds
         /\ b.op \in {"createFile", "updateFile", "createFiles"} => b.total \in Nat
         /\ b.op = "createFiles" => b.files \in Seq(FileIds)
         /\ b.op \in {"createEntity", "updateEntity", "createEntities"} => b.file \in FileIds
         /\ b.op \in {"createEntity", "updateEntity"} => b.entity \in EntityIds
         /\ b.op = "createEntities" => b.entities \in Seq(EntityIds)
         /\ b.op = "updateEntities" => b.rows \in Seq(Rows)
         /\ b.op \in {"createEntity", "updateEntity", "createEntities", "updateEntities"} =>
              b.status \in StatusOrUnset
         /\ b.op \in {"createChangeset", "updateChangeset"} => b.changeset \in ChangesetIds /\ b.osm \in Nat
<1>1. CASE b \in SyncBody
  BY <1>1 DEF SyncBody
<1>2. CASE b \in FileBody
  BY <1>2 DEF FileBody
<1>3. CASE b \in EntityBody
  BY <1>3 DEF EntityBody
<1>4. CASE b \in ChangesetBody
  BY <1>4 DEF ChangesetBody
<1> QED BY <1>1, <1>2, <1>3, <1>4, RegistryAssumption

\* the rows of the bulk operations are rows of their tables
LEMMA BulkFacts ==
  ASSUME NEW b \in Bodies
  PROVE  /\ b.op = "createFiles" => Range(b.files) \subseteq FileIds
         /\ b.op = "createEntities" => EntitiesOf(b) \subseteq Rows
         /\ b.op = "updateEntities" => Range(b.rows) \subseteq Rows
  BY BodyFacts DEF Range, EntitiesOf, Rows

\* the parts of a well-typed request
LEMMA RequestFacts ==
  ASSUME TypeOK, NEW q \in Requests
  PROVE  /\ req[q] \in Request /\ req[q].phase \in Phases /\ req[q].answer \in Answers
         /\ req[q].meta \subseteq MetaKeys /\ req[q].base \in SyncIds \cup {NoSync}
         /\ req[q].found \in EntityTable /\ req[q].saving \subseteq Rows
  BY DEF TypeOK, Request

\* a step of the handler of q leaves every other request alone
Moved(q) ==
  /\ req' \in [Requests -> Request]
  /\ \A p \in Requests : p # q => req'[p] = req[p]

\* an answer ends the request and changes nothing else of it
LEMMA AnswerFacts ==
  ASSUME TypeOK, NEW q \in Requests, NEW ans \in Answers, Answer(q, ans)
  PROVE  /\ Moved(q)
         /\ req'[q].phase = "done" /\ req'[q].answer = ans /\ req'[q].body = req[q].body
         /\ req'[q].found = req[q].found /\ req'[q].saving = req[q].saving
<1> DEFINE r == [req[q] EXCEPT !.phase = "done", !.answer = ans]
<1>1. req' = [req EXCEPT ![q] = r]
  BY DEF Answer, TypeOK
<1>2. /\ r \in Request /\ r.phase = "done" /\ r.answer = ans /\ r.body = req[q].body
      /\ r.found = req[q].found /\ r.saving = req[q].saving
  BY RequestFacts DEF Request, Phases
<1> HIDE DEF r
<1> QED BY <1>1, <1>2 DEF TypeOK, Moved

\* a query that is answered well moves the handler on
LEMMA GotoFacts ==
  ASSUME TypeOK, NEW q \in Requests, NEW ph \in Phases, Goto(q, ph)
  PROVE  /\ Moved(q)
         /\ req'[q].phase = ph /\ req'[q].answer = req[q].answer /\ req'[q].body = req[q].body
         /\ req'[q].found = req[q].found /\ req'[q].saving = req[q].saving
  BY DEF TypeOK, Goto, Moved, Request

-----------------------------------------------------------------------------
(* What a step of one handler may do to the others *)

\* no handler deletes a row
Grows ==
  /\ \A s \in SyncIds : syncs[s] # NoRow => syncs'[s] # NoRow
  /\ \A f \in FileIds : files[f] # NoRow => files'[f] # NoRow
  /\ \A x \in Rows : entities[x] # NoRow => entities'[x] # NoRow
  /\ \A c \in ChangesetIds : changesets[c] # NoRow => changesets'[c] # NoRow

\* an entity that exists changes only to what an answered request asked for
ChangesAsked ==
  \A x \in Rows : entities[x] # NoRow /\ entities'[x] # entities[x] => entities'[x] \in Asked(x)'

\* what every step of the handler of q keeps to
Effect(q) ==
  /\ syncs' \in SyncTable /\ files' \in FileTable
  /\ entities' \in EntityTable /\ changesets' \in ChangesetTable
  /\ Moved(q) /\ (req'[q].answer = "none" <=> req'[q].phase # "done")
  /\ DOMAIN made' = Requests /\ \A p \in Requests : p # q => made'[p] = made[p]
  /\ \A k \in made'[q] : ~Registered(k)
  /\ Grows /\ ChangesAsked /\ RequestOK(q)'

\* what answered requests asked for stays asked for
LEMMA AskedKept ==
  ASSUME NEW q \in Requests, req[q].phase # "done", Moved(q), NEW x
  PROVE  Asked(x) \subseteq Asked(x)'
<1>1. \A p \in Reporting(x) \cup Rewriting(x) : p \in Requests /\ p # q
  BY DEF Reporting, Rewriting, Answered, At
<1>2. \A p \in Reporting(x) \cup Rewriting(x) : req'[p] = req[p]
  BY <1>1 DEF Moved
<1>3. Reporting(x) \subseteq Reporting(x)' /\ Rewriting(x) \subseteq Rewriting(x)'
  BY <1>1, <1>2 DEF Reporting, Rewriting, Answered, At, Body
<1> QED BY <1>2, <1>3 DEF Asked, Body

\* a registered row stays registered
LEMMA RegisteredKept ==
  ASSUME Grows, NEW k, Registered(k)
  PROVE  Registered(k)'
  BY DEF Grows, Registered

\* nobody asks for the absence of an entity
LEMMA AskedIsStatus ==
  ASSUME RegistryOK, NEW x
  PROVE  NoRow \notin Asked(x)
<1> SUFFICES ASSUME NEW r \in Reporting(x) \cup Rewriting(x) PROVE Body(r).status # NoRow
  BY DEF Asked
<1>1. /\ r \in Requests /\ req[r].phase = "done"
      /\ Body(r).op \in {"updateEntity", "updateEntities", "createEntities"}
  BY DEF Reporting, Rewriting, Answered, At
<1>2. Body(r) \in Bodies
  BY <1>1 DEF RegistryOK, RequestOK, BodyOK
<1>3. Body(r).status \in StatusOrUnset
  BY <1>1, <1>2, BodyFacts
<1> QED BY <1>3, RegistryAssumption

\* a step of another handler keeps what is known of a request
LEMMA RequestKept ==
  ASSUME RegistryOK, NEW q \in Requests, NEW p \in Requests, p # q, req[q].phase # "done",
         Moved(q), made'[p] = made[p], Grows, ChangesAsked
  PROVE  RequestOK(p)'
<1>a. TypeOK /\ RequestOK(p)
  BY DEF RegistryOK
<1>1. req'[p] = req[p] /\ Body(p)' = Body(p)
  BY DEF Moved, Body
<1>2. BodyOK(p)'
  BY <1>a, <1>1 DEF RequestOK, BodyOK
<1>3. MadeOK(p)'
  <2>1. \A k \in made[p] : Registered(k)'
    BY <1>a, RegisteredKept DEF RequestOK, MadeOK
  <2>2. \A x \in EntitiesOf(Body(p)) : Answered(p, "createEntities", "201") => entities'[x] # NoRow
    <3> SUFFICES ASSUME Answered(p, "createEntities", "201"), NEW x \in EntitiesOf(Body(p))
                 PROVE  entities'[x] # NoRow
      OBVIOUS
    <3>1. x \in Rows
      BY <1>a, BulkFacts DEF RequestOK, BodyOK, Answered, At
    <3> QED BY <1>a, <3>1 DEF RequestOK, MadeOK, Grows
  <2>3. \A op : Answered(p, op, "201")' <=> Answered(p, op, "201")
    BY <1>1 DEF Answered, At
  <2> QED BY <1>a, <1>1, <2>1, <2>2, <2>3 DEF RequestOK, MadeOK
<1>4. TargetOK(p)'
  <2>1. At(p, "updateSync", "write") => Body(p).sync \in SyncIds
    BY <1>a, BodyFacts DEF RequestOK, BodyOK, At
  <2>2. At(p, "updateFile", "write") => Body(p).file \in FileIds
    BY <1>a, BodyFacts DEF RequestOK, BodyOK, At
  <2> QED BY <1>a, <1>1, <2>1, <2>2 DEF RequestOK, TargetOK, Grows, At
<1>5. FoundOK(p)'
  BY <1>a, <1>1 DEF RequestOK, FoundOK, Grows
<1>6. SavingOK(p)'
  <2>1. req[p].saving \subseteq Rows
    BY <1>a, RequestFacts
  <2>2. req[p].phase \in {"load", "save"} /\ Body(p).op = "createEntities" => EntitiesOf(Body(p)) \subseteq Rows
    BY <1>a, BulkFacts DEF RequestOK, BodyOK
  <2> QED BY <1>a, <1>1, <2>1, <2>2 DEF RequestOK, SavingOK, Grows
<1>7. LoadedOK(p)'
  <2> SUFFICES ASSUME req[p].phase = "save", NEW x \in req[p].saving, req[p].found[x] # NoRow
               PROVE  entities'[x] = req[p].found[x] \/ entities'[x] \in Asked(x)'
    BY <1>1 DEF LoadedOK
  <2>1. x \in Rows
    BY <1>a, RequestFacts
  <2>2. entities[x] # NoRow /\ (entities[x] = req[p].found[x] \/ entities[x] \in Asked(x))
    BY <1>a, <2>1 DEF RequestOK, FoundOK, LoadedOK
  <2>3. entities'[x] = entities[x] \/ entities'[x] \in Asked(x)'
    BY <2>1, <2>2 DEF ChangesAsked
  <2> QED BY <2>2, <2>3, AskedKept
<1>8. ReportOK(p)'
  <2> SUFFICES ASSUME NEW x \in Rows, (p \in Reporting(x))', Body(p).status # "unset"
               PROVE  entities'[x] \in Asked(x)'
    BY <1>1 DEF ReportOK
  <2>1. p \in Reporting(x)
    BY <1>1 DEF Reporting, Answered, At
  <2>2. entities[x] \in Asked(x)
    BY <1>a, <2>1 DEF RequestOK, ReportOK
  <2>3. entities'[x] = entities[x] \/ entities'[x] \in Asked(x)'
    BY <2>2, AskedIsStatus DEF ChangesAsked
  <2> QED BY <2>2, <2>3, AskedKept
<1> QED BY <1>2, <1>3, <1>4, <1>5, <1>6, <1>7, <1>8 DEF RequestOK

\* a step that keeps to Effect keeps the invariant: the rows it makes are nobody else's,
\* since whatever another request made is registered
LEMMA EffectStep ==
  ASSUME RegistryOK, NEW q \in Requests, req[q].phase # "done", Effect(q)
  PROVE  RegistryOK'
<1>1. \A p \in Requests : RequestOK(p)'
  BY RequestKept DEF Effect
<1>2. TypeOK'
  BY DEF Effect, Moved, TypeOK, RegistryOK
<1>3. \A p \in Requests : \A k \in made[p] : Registered(k)
  BY DEF RegistryOK, RequestOK, MadeOK
<1>4. MadeOnce'
  BY <1>3 DEF RegistryOK, MadeOnce, Effect
<1> QED BY <1>1, <1>2, <1>4 DEF RegistryOK

\* the handler is between the receipt of the request and its answer
Running(q) == req[q].phase \notin {"idle", "done"}

\* what is known of the request of a running handler
LEMMA RunningFacts ==
  ASSUME RegistryOK, NEW q \in Requests, Running(q)
  PROVE  /\ TypeOK /\ RequestOK(q) /\ Body(q) \in Bodies
         /\ req[q].answer = "none" /\ made[q] = {}
  BY DEF RegistryOK, TypeOK, RequestOK, BodyOK, MadeOK, Running

\* a query changes no table
LEMMA ReadingFacts ==
  ASSUME RegistryOK, Reading
  PROVE  /\ syncs' = syncs /\ files' = files /\ entities' = entities /\ changesets' = changesets
         /\ made' = made /\ Grows /\ ChangesAsked
         /\ syncs' \in SyncTable /\ files' \in FileTable
         /\ entities' \in EntityTable /\ changesets' \in ChangesetTable
         /\ DOMAIN made' = Requests
<1>1. /\ syncs' = syncs /\ files' = files /\ entities' = entities /\ changesets' = changesets
      /\ made' = made
  BY DEF Reading, tables
<1> QED BY <1>1 DEF Grows, ChangesAsked, RegistryOK, TypeOK

\* a query after which the handler goes on
LEMMA ReadEffect ==
  ASSUME RegistryOK, NEW q \in Requests, Running(q), Reading, Moved(q),
         req'[q].phase # "done", req'[q].body = req[q].body, req'[q].answer = "none",
         TargetOK(q)', FoundOK(q)', SavingOK(q)', LoadedOK(q)'
  PROVE  Effect(q)
<1>1. BodyOK(q)'
  BY RunningFacts DEF BodyOK, Body
<1>2. MadeOK(q)'
  BY RunningFacts, ReadingFacts DEF MadeOK, Answered, At
<1>3. ReportOK(q)'
  BY DEF ReportOK, Reporting, Answered, At
<1> QED BY <1>1, <1>2, <1>3, RunningFacts, ReadingFacts DEF Effect, RequestOK

\* a query that leads neither to a load nor to a save
LEMMA PlainEffect ==
  ASSUME RegistryOK, NEW q \in Requests, Running(q), Reading, Moved(q),
         req'[q].phase \in {"second", "third", "write"}, req'[q].body = req[q].body,
         req'[q].answer = req[q].answer, req'[q].found = req[q].found,
         req'[q].phase = "write" =>
           /\ Body(q).op = "updateSync" => syncs[Body(q).sync] # NoRow
           /\ Body(q).op = "updateFile" => files[Body(q).file] # NoRow
  PROVE  Effect(q)
<1>1. TargetOK(q)'
  BY ReadingFacts DEF TargetOK, At, Body
<1>2. FoundOK(q)'
  BY RunningFacts, ReadingFacts DEF FoundOK, RequestOK
<1>3. SavingOK(q)' /\ LoadedOK(q)'
  BY DEF SavingOK, LoadedOK
<1> QED BY <1>1, <1>2, <1>3, RunningFacts, ReadEffect

\* a request that is refused, or a file that the rerun finds as it would register it
LEMMA AnswerEffect ==
  ASSUME RegistryOK, NEW q \in Requests, Running(q), Reading,
         NEW ans \in Answers, Answer(q, ans),
         ans \in {"404", "409", "500"} \/ (ans = "201" /\ Body(q).op = "createFile")
  PROVE  Effect(q)
<1>1. /\ Moved(q) /\ req'[q].phase = "done" /\ req'[q].answer = ans /\ req'[q].body = req[q].body
      /\ req'[q].found = req[q].found
  BY RunningFacts, AnswerFacts
<1>2. BodyOK(q)'
  BY <1>1, RunningFacts DEF BodyOK, Body
<1>3. MadeOK(q)'
  BY <1>1, RunningFacts, ReadingFacts DEF MadeOK, Answered, At, Body
<1>4. TargetOK(q)' /\ SavingOK(q)' /\ LoadedOK(q)'
  BY <1>1 DEF TargetOK, At, SavingOK, LoadedOK
<1>5. FoundOK(q)'
  BY <1>1, RunningFacts, ReadingFacts DEF FoundOK, RequestOK
<1>6. ReportOK(q)'
  BY <1>1 DEF ReportOK, Reporting, Answered, At
<1> QED BY <1>1, <1>2, <1>3, <1>4, <1>5, <1>6, RunningFacts, ReadingFacts DEF Effect, RequestOK

\* a query that refuses the request or lets the handler go on
LEMMA RefuseEffect ==
  ASSUME RegistryOK, NEW q \in Requests, Running(q), Reading,
         NEW refused, NEW ans \in {"404", "409", "500"}, NEW ph \in {"second", "third", "write"},
         Refuse(q, refused, ans, ph),
         ~refused /\ ph = "write" =>
           /\ Body(q).op = "updateSync" => syncs[Body(q).sync] # NoRow
           /\ Body(q).op = "updateFile" => files[Body(q).file] # NoRow
  PROVE  Effect(q)
<1>1. CASE refused
  <2>1. Answer(q, ans) /\ ans \in Answers
    BY <1>1 DEF Refuse, Answers
  <2> QED BY <2>1, AnswerEffect
<1>2. CASE ~refused
  <2>1. /\ Moved(q) /\ req'[q].phase = ph /\ req'[q].answer = req[q].answer
        /\ req'[q].body = req[q].body /\ req'[q].found = req[q].found
    BY <1>2, RunningFacts, GotoFacts DEF Refuse, Phases
  <2> QED BY <1>2, <2>1, PlainEffect
<1> QED BY <1>1, <1>2

-----------------------------------------------------------------------------
(* The queries *)

\* the request arrives
LEMMA ReceiveStep ==
  ASSUME RegistryOK, NEW q \in Requests, NEW b \in Bodies, Receive(q, b)
  PROVE  Effect(q)
<1>1. TypeOK /\ RequestOK(q) /\ req[q].answer = "none" /\ made[q] = {}
  BY DEF RegistryOK, TypeOK, RequestOK, MadeOK, Receive
<1>2. /\ Moved(q) /\ req'[q].phase = "start" /\ req'[q].body = b
      /\ req'[q].answer = "none" /\ req'[q].found = req[q].found
  <2> DEFINE r == [req[q] EXCEPT !.phase = "start", !.body = b]
  <2>1. req' = [req EXCEPT ![q] = r]
    BY <1>1 DEF Receive, TypeOK
  <2>2. r \in Request /\ r.phase = "start" /\ r.body = b /\ r.answer = "none" /\ r.found = req[q].found
    BY <1>1, RequestFacts DEF Request, Phases
  <2> HIDE DEF r
  <2> QED BY <1>1, <2>1, <2>2 DEF TypeOK, Moved
<1>3. Reading
  BY DEF Receive
<1>4. BodyOK(q)' /\ TargetOK(q)' /\ SavingOK(q)' /\ LoadedOK(q)' /\ ReportOK(q)'
  BY <1>2 DEF BodyOK, Body, TargetOK, At, SavingOK, LoadedOK, ReportOK, Reporting, Answered
<1>5. MadeOK(q)'
  BY <1>1, <1>2, <1>3, ReadingFacts DEF MadeOK, Answered, At
<1>6. FoundOK(q)'
  BY <1>1, <1>2, <1>3, ReadingFacts DEF FoundOK, RequestOK
<1> QED BY <1>1, <1>2, <1>3, <1>4, <1>5, <1>6, ReadingFacts DEF Effect, RequestOK

\* the queries that only decide whether to go on
LEMMA CheckStep ==
  ASSUME RegistryOK, NEW q \in Requests,
         \/ FindSync(q) \/ FindFullSync(q) \/ FindFiles(q) \/ FindSyncToUpdate(q) \/ FindFileToUpdate(q)
         \/ FindFileOfEntity(q) \/ FindEntity(q) \/ FindFileOfUpdate(q) \/ FindEntityToUpdate(q)
         \/ FindChangeset(q)
  PROVE  Effect(q)
<1>1. Running(q) /\ Reading
  BY DEF FindSync, FindFullSync, FindFiles, FindSyncToUpdate, FindFileToUpdate, FindFileOfEntity,
         FindEntity, FindFileOfUpdate, FindEntityToUpdate, FindChangeset, At, Running
<1>2. CASE FindSync(q)
  BY <1>1, <1>2, RefuseEffect DEF FindSync, At
<1>3. CASE FindFullSync(q)
  BY <1>1, <1>3, RefuseEffect DEF FindFullSync, At
<1>4. CASE FindFiles(q)
  BY <1>1, <1>4, RefuseEffect DEF FindFiles, At
<1>5. CASE FindSyncToUpdate(q)
  BY <1>1, <1>5, RefuseEffect DEF FindSyncToUpdate, At
<1>6. CASE FindFileToUpdate(q)
  BY <1>1, <1>6, RefuseEffect DEF FindFileToUpdate, At
<1>7. CASE FindFileOfEntity(q)
  BY <1>1, <1>7, RefuseEffect DEF FindFileOfEntity, At
<1>8. CASE FindEntity(q)
  BY <1>1, <1>8, RefuseEffect DEF FindEntity, At
<1>9. CASE FindFileOfUpdate(q)
  BY <1>1, <1>9, RefuseEffect DEF FindFileOfUpdate, At
<1>10. CASE FindEntityToUpdate(q)
  BY <1>1, <1>10, RefuseEffect DEF FindEntityToUpdate, At
<1>11. CASE FindChangeset(q)
  BY <1>1, <1>11, RefuseEffect DEF FindChangeset, At
<1> QED
  BY <1>2, <1>3, <1>4, <1>5, <1>6, <1>7, <1>8, <1>9, <1>10, <1>11

\* the queries that decide on duplicates in the body or on what they found, too
LEMMA CheckBodyStep ==
  ASSUME RegistryOK, NEW q \in Requests, FindFile(q) \/ FindSyncOfFiles(q) \/ FindFileOfEntities(q)
  PROVE  Effect(q)
<1>1. Running(q) /\ Reading
  BY DEF FindFile, FindSyncOfFiles, FindFileOfEntities, At, Running
<1>2. CASE FindFile(q)
  <2>1. Body(q).op = "createFile"
    BY <1>2 DEF FindFile, At
  <2>2. Goto(q, "write") \/ Answer(q, "409") \/ Answer(q, "201")
    BY <1>2 DEF FindFile
  <2>3. Goto(q, "write") => Refuse(q, FALSE, "409", "write")
    BY DEF Refuse
  <2> QED BY <1>1, <2>1, <2>2, <2>3, RefuseEffect, AnswerEffect DEF Answers
<1>3. CASE FindSyncOfFiles(q)
  BY <1>1, <1>3, RefuseEffect, AnswerEffect DEF FindSyncOfFiles, At, Answers
<1>4. CASE FindFileOfEntities(q)
  BY <1>1, <1>4, RefuseEffect, AnswerEffect DEF FindFileOfEntities, At, Answers
<1> QED BY <1>2, <1>3, <1>4

\* the queries whose result the handler keeps: the metadata, or the base of a rerun
LEMMA KeepStep ==
  ASSUME RegistryOK, NEW q \in Requests, ReadSync(q) \/ FindSyncOfFile(q)
  PROVE  Effect(q)
<1>1. Running(q) /\ Reading /\ TypeOK
  BY RunningFacts DEF ReadSync, FindSyncOfFile, At, Running
<1> DEFINE row == syncs[Body(q).sync]
<1>2. CASE row = NoRow
  BY <1>1, <1>2, AnswerEffect DEF ReadSync, FindSyncOfFile, Answers
<1>3. CASE row # NoRow
  <2>1. row \in SyncRow
    <3>1. Body(q).sync \in SyncIds
      BY <1>1, RunningFacts, BodyFacts DEF ReadSync, FindSyncOfFile, At
    <3> QED BY <1>1, <1>3, <3>1 DEF TypeOK, SyncTable
  <2>2. row.meta \subseteq MetaKeys /\ row.base \in SyncIds \cup {NoSync}
    BY <2>1 DEF SyncRow
  <2> HIDE DEF row
  <2>3. CASE ReadSync(q)
    <3> DEFINE r == [req[q] EXCEPT !.phase = "write", !.meta = row.meta]
    <3>1. req' = [req EXCEPT ![q] = r]
      BY <1>1, <1>3, <2>3 DEF ReadSync, TypeOK, row
    <3>2. r \in Request /\ r.phase = "write" /\ r.body = req[q].body /\ r.answer = req[q].answer
          /\ r.found = req[q].found
      BY <1>1, <2>2, RequestFacts DEF Request, Phases
    <3> HIDE DEF r
    <3>3. Moved(q) /\ req'[q] = r
      BY <1>1, <3>1, <3>2 DEF TypeOK, Moved
    <3>4. Body(q).op = "updateSync" /\ syncs[Body(q).sync] # NoRow
      BY <1>3, <2>3 DEF ReadSync, At, row
    <3> QED BY <1>1, <3>2, <3>3, <3>4, PlainEffect
  <2>4. CASE FindSyncOfFile(q)
    <3> DEFINE r == [req[q] EXCEPT !.phase = "second", !.base = row.base]
    <3>1. req' = [req EXCEPT ![q] = r]
      BY <1>1, <1>3, <2>4 DEF FindSyncOfFile, TypeOK, row
    <3>2. r \in Request /\ r.phase = "second" /\ r.body = req[q].body /\ r.answer = req[q].answer
          /\ r.found = req[q].found
      BY <1>1, <2>2, RequestFacts DEF Request, Phases
    <3> HIDE DEF r
    <3>3. Moved(q) /\ req'[q] = r
      BY <1>1, <3>1, <3>2 DEF TypeOK, Moved
    <3> QED BY <1>1, <3>2, <3>3, PlainEffect
  <2> QED BY <2>3, <2>4
<1> QED BY <1>2, <1>3

\* what is found of entities are their statuses
LEMMA FoundFacts ==
  ASSUME TypeOK, NEW xs
  PROVE  /\ Found(xs) \in EntityTable
         /\ \A x \in Rows : Found(xs)[x] = IF x \in xs THEN entities[x] ELSE NoRow
  BY DEF TypeOK, Found, EntityTable

\* createEntities: the entities that exist
LEMMA ReadEntitiesStep ==
  ASSUME RegistryOK, NEW q \in Requests, ReadEntities(q)
  PROVE  Effect(q)
<1> DEFINE found == Found(EntitiesOf(Body(q)))
           r == [req[q] EXCEPT !.phase = "third", !.found = found]
<1>1. Running(q) /\ Reading /\ TypeOK
  BY RunningFacts DEF ReadEntities, At, Running
<1>2. found \in EntityTable /\ \A x \in Rows : found[x] # NoRow => entities[x] # NoRow
  BY <1>1, FoundFacts
<1>3. req' = [req EXCEPT ![q] = r]
  BY <1>1 DEF ReadEntities, TypeOK
<1> HIDE DEF found
<1>4. r \in Request /\ r.phase = "third" /\ r.body = req[q].body /\ r.answer = req[q].answer /\ r.found = found
  BY <1>1, <1>2, RequestFacts DEF Request, Phases
<1> HIDE DEF r
<1>5. Moved(q) /\ req'[q] = r
  BY <1>1, <1>3, <1>4 DEF TypeOK, Moved
<1>6. FoundOK(q)'
  BY <1>1, <1>2, <1>4, <1>5, ReadingFacts DEF FoundOK
<1>7. TargetOK(q)' /\ SavingOK(q)' /\ LoadedOK(q)'
  BY <1>4, <1>5 DEF TargetOK, At, SavingOK, LoadedOK
<1> QED BY <1>1, <1>4, <1>5, <1>6, <1>7, RunningFacts, ReadEffect

\* the handler goes on to save the entities xs: a creation leaves out only entities
\* that exist, a patch saves only such
LEMMA LoadEffect ==
  ASSUME RegistryOK, NEW q \in Requests, Running(q), Reading, NEW xs \in SUBSET Rows,
         req' = [req EXCEPT ![q].phase = "load", ![q].saving = xs],
         \/ /\ Body(q).op = "createEntities" /\ xs \subseteq EntitiesOf(Body(q))
            /\ \A x \in EntitiesOf(Body(q)) \ xs : entities[x] # NoRow
         \/ Body(q).op = "updateEntities" /\ \A x \in xs : entities[x] # NoRow
  PROVE  Effect(q)
<1> DEFINE r == [req[q] EXCEPT !.phase = "load", !.saving = xs]
<1>1. TypeOK /\ RequestOK(q)
  BY RunningFacts
<1>2. req' = [req EXCEPT ![q] = r]
  BY <1>1 DEF TypeOK
<1>3. /\ r \in Request /\ r.phase = "load" /\ r.body = req[q].body /\ r.answer = req[q].answer
      /\ r.found = req[q].found /\ r.saving = xs
  BY <1>1, RequestFacts DEF Request, Phases
<1> HIDE DEF r
<1>4. Moved(q) /\ req'[q] = r
  BY <1>1, <1>2, <1>3 DEF TypeOK, Moved
<1>5. FoundOK(q)'
  BY <1>1, <1>3, <1>4, ReadingFacts DEF FoundOK, RequestOK
<1>6. SavingOK(q)'
  BY <1>3, <1>4, ReadingFacts DEF SavingOK, Body
<1>7. TargetOK(q)' /\ LoadedOK(q)'
  BY <1>3, <1>4 DEF TargetOK, At, LoadedOK
<1> QED BY <1>3, <1>4, <1>5, <1>6, <1>7, RunningFacts, ReadEffect

\* createEntities: with a rerun, the entities left out were found
LEMMA ReadRerunsStep ==
  ASSUME RegistryOK, NEW q \in Requests, ReadReruns(q)
  PROVE  Effect(q)
<1> DEFINE toSave == {x \in EntitiesOf(Body(q)) : req[q].found[x] \in {NoRow, "inrerun"}}
<1>1. Running(q) /\ Reading /\ Body(q).op = "createEntities"
  BY DEF ReadReruns, At, Running
<1>2. CASE Refuse(q, \E x \in Rows : req[q].found[x] # NoRow, "409", "write")
  BY <1>1, <1>2, RefuseEffect
<1>3. CASE req' = [req EXCEPT ![q].phase = "load", ![q].saving = toSave]
  <2>1. EntitiesOf(Body(q)) \subseteq Rows
    BY <1>1, RunningFacts, BulkFacts
  <2>2. \A x \in EntitiesOf(Body(q)) \ toSave : entities[x] # NoRow
    BY <1>1, <2>1, RunningFacts DEF RequestOK, FoundOK
  <2>3. toSave \subseteq EntitiesOf(Body(q)) /\ toSave \in SUBSET Rows
    BY <2>1
  <2> HIDE DEF toSave
  <2> QED BY <1>1, <1>3, <2>2, <2>3, LoadEffect
<1> QED BY <1>2, <1>3 DEF ReadReruns

\* updateEntities: every entity of the request has been counted
LEMMA CountEntitiesStep ==
  ASSUME RegistryOK, NEW q \in Requests, CountEntities(q)
  PROVE  Effect(q)
<1>1. Running(q) /\ Reading /\ Body(q).op = "updateEntities"
  BY DEF CountEntities, At, Running
<1>2. \/ Answer(q, "409") \/ Answer(q, "404")
      \/ /\ req' = [req EXCEPT ![q].phase = "load", ![q].saving = Range(Body(q).rows)]
         /\ \A x \in Range(Body(q).rows) : entities[x] # NoRow
  BY DEF CountEntities
<1>3. Range(Body(q).rows) \in SUBSET Rows
  BY <1>1, RunningFacts, BulkFacts
<1> QED BY <1>1, <1>2, <1>3, AnswerEffect, LoadEffect DEF Answers

\* save loads the rows as they are
LEMMA LoadRowsStep ==
  ASSUME RegistryOK, NEW q \in Requests, LoadRows(q)
  PROVE  Effect(q)
<1> DEFINE found == Found(req[q].saving)
           r == [req[q] EXCEPT !.phase = "save", !.found = found]
<1>1. Running(q) /\ Reading /\ TypeOK /\ RequestOK(q) /\ req[q].phase = "load"
  BY RunningFacts DEF LoadRows, Running
<1>2. /\ found \in EntityTable /\ \A x \in Rows : found[x] # NoRow => entities[x] # NoRow
      /\ \A x \in Rows : x \in req[q].saving => found[x] = entities[x]
  BY <1>1, FoundFacts
<1>3. req' = [req EXCEPT ![q] = r]
  BY <1>1 DEF LoadRows, TypeOK
<1> HIDE DEF found
<1>4. /\ r \in Request /\ r.phase = "save" /\ r.body = req[q].body /\ r.answer = req[q].answer
      /\ r.found = found /\ r.saving = req[q].saving
  BY <1>1, <1>2, RequestFacts DEF Request, Phases
<1> HIDE DEF r
<1>5. Moved(q) /\ req'[q] = r
  BY <1>1, <1>3, <1>4 DEF TypeOK, Moved
<1>6. FoundOK(q)'
  BY <1>1, <1>2, <1>4, <1>5, ReadingFacts DEF FoundOK
<1>7. req[q].saving \subseteq Rows
  BY <1>1, RequestFacts
<1>8. SavingOK(q)'
  BY <1>1, <1>2, <1>4, <1>5, <1>7, ReadingFacts DEF RequestOK, SavingOK, Body
<1>9. TargetOK(q)' /\ LoadedOK(q)'
  BY <1>1, <1>2, <1>4, <1>5, <1>7, ReadingFacts DEF TargetOK, At, LoadedOK
<1> QED BY <1>1, <1>4, <1>5, <1>6, <1>8, <1>9, RunningFacts, ReadEffect

-----------------------------------------------------------------------------
(* The statements that write *)

\* a report or a save that is answered has asked for its status
LEMMA AskedNew ==
  ASSUME RegistryOK, NEW q \in Requests, NEW ans \in Answers, Answer(q, ans), NEW x,
         \/ Body(q).op = "updateEntity" /\ ans = "200" /\ <<Body(q).file, Body(q).entity>> = x
         \/ Body(q).op = "updateEntities" /\ ans = "200" /\ x \in req[q].saving
         \/ Body(q).op = "createEntities" /\ ans = "201" /\ x \in req[q].saving
  PROVE  Body(q).status \in Asked(x)'
<1>1. /\ req'[q].phase = "done" /\ req'[q].answer = ans /\ req'[q].body = req[q].body
      /\ req'[q].saving = req[q].saving
  BY AnswerFacts DEF RegistryOK
<1>2. (q \in Reporting(x) \cup Rewriting(x))' /\ Body(q)' = Body(q)
  BY <1>1 DEF Reporting, Rewriting, Answered, At, Body
<1> QED BY <1>2 DEF Asked

\* the rows a request makes are those of its one INSERT
Makes(q, rows) ==
  DOMAIN made' = Requests /\ made'[q] = rows /\ \A p \in Requests : p # q => made'[p] = made[p]

\* an INSERT makes its rows, an UPDATE none
LEMMA MakesFacts ==
  ASSUME RegistryOK, NEW q \in Requests, Running(q)
  PROVE  /\ \A table, ids : Insert(q, table, ids) => Makes(q, {table} \X ids)
         /\ made' = made => Makes(q, {})
  BY RunningFacts DEF TypeOK, Insert, Makes

\* a request that is answered well: its rows were absent and exist now
LEMMA DoneEffect ==
  ASSUME RegistryOK, NEW q \in Requests, Running(q), NEW ans \in {"200", "201"}, Answer(q, ans),
         syncs' \in SyncTable, files' \in FileTable,
         entities' \in EntityTable, changesets' \in ChangesetTable,
         Grows, ChangesAsked,
         NEW M, Makes(q, M),
         \A k \in M : ~Registered(k) /\ Registered(k)',
         ans = "200" => M = {},
         ans = "201" /\ Body(q).op \in {"createSync", "createFiles", "createEntity", "createChangeset"} =>
           M = Requested(Body(q)),
         ans = "201" /\ Body(q).op = "createEntities" => \A x \in EntitiesOf(Body(q)) : entities'[x] # NoRow,
         ReportOK(q)'
  PROVE  Effect(q)
<1>1. /\ Moved(q) /\ req'[q].phase = "done" /\ req'[q].answer = ans /\ req'[q].body = req[q].body
      /\ req'[q].found = req[q].found
  BY RunningFacts, AnswerFacts DEF Answers
<1>2. DOMAIN made' = Requests /\ made'[q] = M /\ \A p \in Requests : p # q => made'[p] = made[p]
  BY DEF Makes
<1>3. BodyOK(q)'
  BY <1>1, RunningFacts DEF BodyOK, Body
<1>4. MadeOK(q)'
  BY <1>1, <1>2 DEF MadeOK, Answered, At, Body
<1>5. TargetOK(q)' /\ SavingOK(q)' /\ LoadedOK(q)'
  BY <1>1 DEF TargetOK, At, SavingOK, LoadedOK
<1>6. FoundOK(q)'
  BY <1>1, RunningFacts DEF FoundOK, RequestOK, Grows
<1> QED BY <1>1, <1>2, <1>3, <1>4, <1>5, <1>6 DEF Effect, RequestOK

\* a patch makes no row
LEMMA PatchEffect ==
  ASSUME RegistryOK, NEW q \in Requests, Running(q), Answer(q, "200"), Makes(q, {}),
         syncs' \in SyncTable, files' \in FileTable,
         entities' \in EntityTable, changesets' \in ChangesetTable,
         Grows, ChangesAsked, ReportOK(q)'
  PROVE  Effect(q)
<1> DEFINE M == {}
<1>1. Makes(q, M) /\ M = {} /\ \A k \in M : ~Registered(k) /\ Registered(k)'
  OBVIOUS
<1> HIDE DEF M
<1> QED BY <1>1, DoneEffect

\* an operation that is no report reports nothing
LEMMA NoReport ==
  ASSUME RegistryOK, NEW q \in Requests, NEW ans \in Answers, Answer(q, ans),
         Body(q).op \notin {"updateEntity", "updateEntities"}
  PROVE  ReportOK(q)'
<1>1. req'[q].body = req[q].body
  BY AnswerFacts DEF RegistryOK
<1> QED BY <1>1 DEF ReportOK, Reporting, Answered, At, Body

\* createSync
LEMMA InsertSyncStep ==
  ASSUME RegistryOK, NEW q \in Requests, InsertSync(q)
  PROVE  Effect(q)
<1> DEFINE b == Body(q)
           row == [base |-> NoSync, full |-> b.full, layer |-> b.layer, meta |-> {}]
<1>1. Running(q) /\ TypeOK /\ b.op = "createSync" /\ b \in Bodies
  BY RunningFacts DEF InsertSync, At, Running
<1>2. CASE syncs[b.sync] # NoRow
  BY <1>1, <1>2, AnswerEffect DEF InsertSync, Answers
<1>3. CASE syncs[b.sync] = NoRow
  <2>1. /\ syncs' = [syncs EXCEPT ![b.sync] = row] /\ Answer(q, "201")
        /\ Makes(q, {"sync"} \X {b.sync})
        /\ files' = files /\ entities' = entities /\ changesets' = changesets
    BY <1>1, <1>3, MakesFacts DEF InsertSync
  <2>2. b.sync \in SyncIds /\ row \in SyncRow /\ row # NoRow
    BY <1>1, BodyFacts, RegistryAssumption DEF SyncRow
  <2>3. b.op = "createSync" => Requested(b) = {"sync"} \X {b.sync}
    BY DEF Requested
  <2> HIDE DEF b, row
  <2>4. syncs' \in SyncTable /\ syncs'[b.sync] # NoRow /\ Grows
    BY <1>1, <2>1, <2>2 DEF TypeOK, SyncTable, Grows
  <2>5. \A k \in {"sync"} \X {b.sync} : ~Registered(k) /\ Registered(k)'
    BY <1>3, <2>2, <2>4 DEF Registered
  <2>6. ChangesAsked /\ files' \in FileTable /\ entities' \in EntityTable /\ changesets' \in ChangesetTable
    BY <1>1, <2>1 DEF ChangesAsked, TypeOK
  <2>7. ReportOK(q)'
    BY <1>1, <2>1, NoReport DEF b, Answers
  <2> QED BY <1>1, <2>1, <2>3, <2>4, <2>5, <2>6, <2>7, DoneEffect DEF b
<1> QED BY <1>2, <1>3

\* updateSync: the row that was read exists still
LEMMA WriteSyncStep ==
  ASSUME RegistryOK, NEW q \in Requests, WriteSync(q)
  PROVE  Effect(q)
<1> DEFINE b == Body(q)
           row == [syncs[b.sync] EXCEPT !.meta = req[q].meta \cup b.meta]
<1>1. Running(q) /\ TypeOK /\ b.op = "updateSync" /\ b \in Bodies /\ syncs[b.sync] # NoRow
  BY RunningFacts DEF WriteSync, At, Running, RequestOK, TargetOK
<1>2. b.sync \in SyncIds /\ req[q].meta \cup b.meta \subseteq MetaKeys
  BY <1>1, BodyFacts, RequestFacts
<1>3. row \in SyncRow /\ row # NoRow
  <2>1. syncs[b.sync] \in SyncRow
    BY <1>1, <1>2 DEF TypeOK, SyncTable
  <2>2. row \in SyncRow
    BY <1>2, <2>1 DEF SyncRow
  <2> QED BY <2>2, RegistryAssumption
<1>4. /\ syncs' = [syncs EXCEPT ![b.sync] = row] /\ Answer(q, "200") /\ Makes(q, {})
      /\ files' = files /\ entities' = entities /\ changesets' = changesets
  BY <1>1, MakesFacts DEF WriteSync
<1> HIDE DEF b, row
<1>5. syncs' \in SyncTable /\ Grows
  BY <1>1, <1>2, <1>3, <1>4 DEF TypeOK, SyncTable, Grows
<1>6. ChangesAsked /\ files' \in FileTable /\ entities' \in EntityTable /\ changesets' \in ChangesetTable
  BY <1>1, <1>4 DEF ChangesAsked, TypeOK
<1>7. ReportOK(q)'
  BY <1>1, <1>4, NoReport DEF b, Answers
<1> QED BY <1>1, <1>4, <1>5, <1>6, <1>7, PatchEffect

\* createFile
LEMMA InsertFileStep ==
  ASSUME RegistryOK, NEW q \in Requests, InsertFile(q)
  PROVE  Effect(q)
<1> DEFINE b == Body(q)
           row == [sync |-> IF req[q].base = NoSync THEN b.sync ELSE req[q].base, total |-> b.total]
<1>1. Running(q) /\ TypeOK /\ b.op = "createFile" /\ b \in Bodies
  BY RunningFacts DEF InsertFile, At, Running
<1>2. CASE files[b.file] # NoRow
  BY <1>1, <1>2, AnswerEffect DEF InsertFile, Answers
<1>3. CASE files[b.file] = NoRow
  <2>1. /\ files' = [files EXCEPT ![b.file] = row] /\ Answer(q, "201")
        /\ Makes(q, {"file"} \X {b.file})
        /\ syncs' = syncs /\ entities' = entities /\ changesets' = changesets
    BY <1>1, <1>3, MakesFacts DEF InsertFile
  <2>2. b.file \in FileIds /\ row \in FileRow /\ row # NoRow
    BY <1>1, BodyFacts, RequestFacts, RegistryAssumption DEF FileRow
  <2> HIDE DEF b, row
  <2>3. files' \in FileTable /\ files'[b.file] # NoRow /\ Grows
    BY <1>1, <2>1, <2>2 DEF TypeOK, FileTable, Grows
  <2>4. \A k \in {"file"} \X {b.file} : ~Registered(k) /\ Registered(k)'
    BY <1>3, <2>2, <2>3 DEF Registered
  <2>5. ChangesAsked /\ syncs' \in SyncTable /\ entities' \in EntityTable /\ changesets' \in ChangesetTable
    BY <1>1, <2>1 DEF ChangesAsked, TypeOK
  <2>6. ReportOK(q)'
    BY <1>1, <2>1, NoReport DEF b, Answers
  <2> QED BY <1>1, <2>1, <2>3, <2>4, <2>5, <2>6, DoneEffect DEF b
<1> QED BY <1>2, <1>3

\* createFiles: one INSERT, which fails as a whole
LEMMA InsertFilesStep ==
  ASSUME RegistryOK, NEW q \in Requests, InsertFiles(q)
  PROVE  Effect(q)
<1> DEFINE b == Body(q)
           fs == Range(b.files)
           row == [sync |-> b.sync, total |-> b.total]
<1>1. Running(q) /\ TypeOK /\ b.op = "createFiles" /\ b \in Bodies
  BY RunningFacts DEF InsertFiles, At, Running
<1>2. CASE \E f \in fs : files[f] # NoRow
  BY <1>1, <1>2, AnswerEffect DEF InsertFiles, Answers
<1>3. CASE \A f \in fs : files[f] = NoRow
  <2>1. /\ files' = [f \in FileIds |-> IF f \in fs THEN row ELSE files[f]] /\ Answer(q, "201")
        /\ Makes(q, {"file"} \X fs)
        /\ syncs' = syncs /\ entities' = entities /\ changesets' = changesets
    BY <1>1, <1>3, MakesFacts DEF InsertFiles
  <2>2. fs \subseteq FileIds /\ row \in FileRow /\ row # NoRow
    BY <1>1, BodyFacts, BulkFacts, RegistryAssumption DEF FileRow
  <2>3. b.op = "createFiles" => Requested(b) = {"file"} \X fs
    BY DEF Requested
  <2> HIDE DEF b, fs, row
  <2>4. files' \in FileTable /\ (\A f \in fs : files'[f] # NoRow) /\ Grows
    BY <1>1, <2>1, <2>2 DEF TypeOK, FileTable, Grows
  <2>5. \A k \in {"file"} \X fs : ~Registered(k) /\ Registered(k)'
    BY <1>3, <2>2, <2>4 DEF Registered
  <2>6. ChangesAsked /\ syncs' \in SyncTable /\ entities' \in EntityTable /\ changesets' \in ChangesetTable
    BY <1>1, <2>1 DEF ChangesAsked, TypeOK
  <2>7. ReportOK(q)'
    BY <1>1, <2>1, NoReport DEF b, Answers
  <2> QED BY <1>1, <2>1, <2>3, <2>4, <2>5, <2>6, <2>7, DoneEffect DEF b
<1> QED BY <1>2, <1>3

\* updateFile: the file that was found exists still
LEMMA UpdateFileStep ==
  ASSUME RegistryOK, NEW q \in Requests, UpdateFile(q)
  PROVE  Effect(q)
<1> DEFINE b == Body(q)
           row == [files[b.file] EXCEPT !.total = b.total]
<1>1. Running(q) /\ TypeOK /\ b.op = "updateFile" /\ b \in Bodies /\ files[b.file] # NoRow
  BY RunningFacts DEF UpdateFile, At, Running, RequestOK, TargetOK
<1>2. b.file \in FileIds /\ b.total \in Nat
  BY <1>1, BodyFacts
<1>3. row \in FileRow /\ row # NoRow
  <2>1. files[b.file] \in FileRow
    BY <1>1, <1>2 DEF TypeOK, FileTable
  <2>2. row \in FileRow
    BY <1>2, <2>1 DEF FileRow
  <2> QED BY <2>2, RegistryAssumption
<1>4. /\ files' = [files EXCEPT ![b.file] = row] /\ Answer(q, "200") /\ Makes(q, {})
      /\ syncs' = syncs /\ entities' = entities /\ changesets' = changesets
  BY <1>1, MakesFacts DEF UpdateFile
<1> HIDE DEF b, row
<1>5. files' \in FileTable /\ Grows
  BY <1>1, <1>2, <1>3, <1>4 DEF TypeOK, FileTable, Grows
<1>6. ChangesAsked /\ syncs' \in SyncTable /\ entities' \in EntityTable /\ changesets' \in ChangesetTable
  BY <1>1, <1>4 DEF ChangesAsked, TypeOK
<1>7. ReportOK(q)'
  BY <1>1, <1>4, NoReport DEF b, Answers
<1> QED BY <1>1, <1>4, <1>5, <1>6, <1>7, PatchEffect

\* createChangeset and updateChangeset
LEMMA ChangesetStep ==
  ASSUME RegistryOK, NEW q \in Requests, InsertChangeset(q) \/ UpdateChangeset(q)
  PROVE  Effect(q)
<1> DEFINE b == Body(q)
<1>1. /\ Running(q) /\ TypeOK /\ b \in Bodies
      /\ InsertChangeset(q) => b.op = "createChangeset"
      /\ UpdateChangeset(q) => b.op = "updateChangeset"
  BY RunningFacts DEF InsertChangeset, UpdateChangeset, At, Running
<1>2. b.changeset \in ChangesetIds /\ b.osm \in Nat /\ b.osm # NoRow
  BY <1>1, BodyFacts, RegistryAssumption
<1>3. CASE InsertChangeset(q) /\ changesets[b.changeset] # NoRow
  BY <1>1, <1>3, AnswerEffect DEF InsertChangeset, Answers
<1>4. ASSUME NEW ans \in {"200", "201"}, Answer(q, ans), NEW M, Makes(q, M),
             changesets' = [changesets EXCEPT ![b.changeset] = b.osm],
             syncs' = syncs, files' = files, entities' = entities,
             ans = "200" => M = {},
             ans = "201" => /\ b.op = "createChangeset" /\ changesets[b.changeset] = NoRow
                            /\ M = {"changeset"} \X {b.changeset}
      PROVE  Effect(q)
  <2>1. b.op = "createChangeset" => Requested(b) = {"changeset"} \X {b.changeset}
    BY DEF Requested
  <2> HIDE DEF b
  <2>2. changesets' \in ChangesetTable /\ changesets'[b.changeset] # NoRow /\ Grows
    BY <1>1, <1>2, <1>4 DEF TypeOK, ChangesetTable, Grows
  <2>3. \A k \in M : ~Registered(k) /\ Registered(k)'
    BY <1>2, <1>4, <2>2 DEF Registered
  <2>4. ChangesAsked /\ syncs' \in SyncTable /\ files' \in FileTable /\ entities' \in EntityTable
    BY <1>1, <1>4 DEF ChangesAsked, TypeOK
  <2>5. b.op \in {"createChangeset", "updateChangeset"}
    BY <1>1
  <2>6. ReportOK(q)'
    BY <1>4, <2>5, NoReport DEF b, Answers
  <2> QED BY <1>1, <1>4, <2>1, <2>2, <2>3, <2>4, <2>5, <2>6, DoneEffect DEF b
<1>5. CASE InsertChangeset(q) /\ changesets[b.changeset] = NoRow
  <2>1. /\ changesets' = [changesets EXCEPT ![b.changeset] = b.osm] /\ Answer(q, "201")
        /\ Makes(q, {"changeset"} \X {b.changeset}) /\ b.op = "createChangeset"
        /\ syncs' = syncs /\ files' = files /\ entities' = entities
    BY <1>1, <1>5, MakesFacts DEF InsertChangeset
  <2> QED BY <1>4, <1>5, <2>1
<1>6. CASE UpdateChangeset(q)
  <2>1. /\ changesets' = [changesets EXCEPT ![b.changeset] = b.osm] /\ Answer(q, "200")
        /\ Makes(q, {}) /\ syncs' = syncs /\ files' = files /\ entities' = entities
    BY <1>1, <1>6, MakesFacts DEF UpdateChangeset
  <2> QED BY <1>4, <2>1
<1> QED BY <1>3, <1>5, <1>6

\* an inserted entity has a status, and an update takes none away
LEMMA StatusFacts ==
  ASSUME NEW st \in StatusOrUnset, NEW old \in EntityStatus \cup {NoRow}
  PROVE  /\ Inserted(st) \in EntityStatus /\ Inserted(st) # NoRow
         /\ Updated(st, old) \in EntityStatus \cup {NoRow}
         /\ old # NoRow => Updated(st, old) # NoRow
         /\ Updated(st, old) # old => st # "unset" /\ Updated(st, old) = st
         /\ st # "unset" => Updated(st, old) = st /\ st \in EntityStatus
         /\ st # NoRow
  BY RegistryAssumption DEF Inserted, Updated, StatusOrUnset, EntityStatus

\* createEntity and the bulk creation without a rerun: one INSERT of absent entities
LEMMA InsertEffect ==
  ASSUME RegistryOK, NEW q \in Requests, Running(q), NEW xs \in SUBSET Rows, NEW st \in EntityStatus,
         Body(q).op \in {"createEntity", "createEntities"},
         \A x \in xs : entities[x] = NoRow,
         entities' = [x \in Rows |-> IF x \in xs THEN st ELSE entities[x]],
         syncs' = syncs, files' = files, changesets' = changesets,
         Answer(q, "201"), Makes(q, {"entity"} \X xs),
         Body(q).op = "createEntity" => {"entity"} \X xs = Requested(Body(q)),
         Body(q).op = "createEntities" => xs = EntitiesOf(Body(q))
  PROVE  Effect(q)
<1>1. TypeOK
  BY RunningFacts
<1>2. st # NoRow
  BY RegistryAssumption DEF StatusOrUnset
<1>3. /\ entities' \in EntityTable /\ Grows /\ ChangesAsked /\ \A x \in xs : entities'[x] # NoRow
      /\ syncs' \in SyncTable /\ files' \in FileTable /\ changesets' \in ChangesetTable
  BY <1>1, <1>2 DEF TypeOK, EntityTable, Grows, ChangesAsked
<1> DEFINE M == {"entity"} \X xs
<1>4. \A k \in M : ~Registered(k) /\ Registered(k)'
  BY <1>3 DEF Registered
<1>5. ReportOK(q)'
  BY NoReport DEF Answers
<1>6. Makes(q, M) /\ (Body(q).op = "createEntity" => M = Requested(Body(q)))
  OBVIOUS
<1> HIDE DEF M
<1> QED BY <1>3, <1>4, <1>5, <1>6, DoneEffect

\* createEntity
LEMMA InsertEntityStep ==
  ASSUME RegistryOK, NEW q \in Requests, InsertEntity(q)
  PROVE  Effect(q)
<1> DEFINE b == Body(q)
           x == <<b.file, b.entity>>
<1>1. Running(q) /\ TypeOK /\ b.op = "createEntity" /\ b \in Bodies
  BY RunningFacts DEF InsertEntity, At, Running
<1>2. x \in Rows /\ Inserted(b.status) \in EntityStatus
  BY <1>1, BodyFacts, StatusFacts DEF Rows
<1>3. CASE entities[x] # NoRow
  BY <1>1, <1>3, AnswerEffect DEF InsertEntity, Answers
<1>4. CASE entities[x] = NoRow
  <2>1. /\ entities' = [entities EXCEPT ![x] = Inserted(b.status)] /\ Answer(q, "201")
        /\ Makes(q, {"entity"} \X {x}) /\ syncs' = syncs /\ files' = files /\ changesets' = changesets
    BY <1>1, <1>4, MakesFacts DEF InsertEntity
  <2>2. b.op = "createEntity" => {"entity"} \X {x} = Requested(b)
    BY DEF Requested
  <2> HIDE DEF x
  <2>3. entities' = [y \in Rows |-> IF y \in {x} THEN Inserted(b.status) ELSE entities[y]]
    BY <1>1, <1>2, <2>1 DEF TypeOK, EntityTable
  <2> QED BY <1>1, <1>2, <1>4, <2>1, <2>2, <2>3, InsertEffect
<1> QED BY <1>3, <1>4

\* createEntities without a rerun
LEMMA InsertEntitiesStep ==
  ASSUME RegistryOK, NEW q \in Requests, InsertEntities(q)
  PROVE  Effect(q)
<1> DEFINE b == Body(q)
           xs == EntitiesOf(b)
<1>1. Running(q) /\ TypeOK /\ b.op = "createEntities" /\ b \in Bodies
  BY RunningFacts DEF InsertEntities, At, Running
<1>2. xs \in SUBSET Rows /\ Inserted(b.status) \in EntityStatus
  BY <1>1, BodyFacts, BulkFacts, StatusFacts
<1>3. CASE \E x \in xs : entities[x] # NoRow
  BY <1>1, <1>3, AnswerEffect DEF InsertEntities, Answers
<1>4. CASE \A x \in xs : entities[x] = NoRow
  <2>1. /\ entities' = [x \in Rows |-> IF x \in xs THEN Inserted(b.status) ELSE entities[x]]
        /\ Answer(q, "201") /\ Makes(q, {"entity"} \X xs)
        /\ syncs' = syncs /\ files' = files /\ changesets' = changesets
    BY <1>1, <1>4, MakesFacts DEF InsertEntities
  <2> QED BY <1>1, <1>2, <1>4, <2>1, InsertEffect
<1> QED BY <1>3, <1>4

\* updateEntity
LEMMA UpdateEntityStep ==
  ASSUME RegistryOK, NEW q \in Requests, UpdateEntity(q)
  PROVE  Effect(q)
<1> DEFINE b == Body(q)
<1>1. Running(q) /\ TypeOK /\ b.op = "updateEntity" /\ b \in Bodies
  BY RunningFacts DEF UpdateEntity, At, Running
<1>a. PICK x \in Rows : x = <<b.file, b.entity>>
  BY <1>1, BodyFacts DEF Rows
<1>2. b.status \in StatusOrUnset /\ entities[x] \in EntityStatus \cup {NoRow}
  BY <1>1, BodyFacts DEF TypeOK, EntityTable
<1>3. /\ entities' = [entities EXCEPT ![x] = Updated(b.status, entities[x])] /\ Answer(q, "200")
      /\ Makes(q, {}) /\ syncs' = syncs /\ files' = files /\ changesets' = changesets
  BY <1>1, <1>a, MakesFacts DEF UpdateEntity
<1>4. b.status \in Asked(x)'
  BY <1>1, <1>3, <1>a, AskedNew DEF Answers
<1>5. \A y \in Rows : q \in Reporting(y)' => y = x
  BY <1>1, <1>3, <1>a, AnswerFacts DEF Reporting, Answered, At, Body, Answers
<1>6. Body(q)' = b
  BY <1>1, <1>3, AnswerFacts DEF Body, Answers
<1> HIDE DEF b
<1>7. /\ entities' \in EntityTable /\ Grows
      /\ syncs' \in SyncTable /\ files' \in FileTable /\ changesets' \in ChangesetTable
  BY <1>1, <1>2, <1>3, StatusFacts DEF TypeOK, EntityTable, Grows
<1>8. ChangesAsked
  BY <1>1, <1>2, <1>3, <1>4, StatusFacts DEF ChangesAsked, TypeOK, EntityTable
<1>9. ReportOK(q)'
  BY <1>1, <1>2, <1>3, <1>4, <1>5, <1>6, StatusFacts DEF ReportOK, TypeOK, EntityTable
<1> QED BY <1>1, <1>3, <1>7, <1>8, <1>9, PatchEffect

\* what save does to a row that it may write
LEMMA SavedFacts ==
  ASSUME RegistryOK, NEW q \in Requests, SaveRows(q), NEW x \in req[q].saving,
         req[q].found[x] = NoRow => entities[x] = NoRow
  PROVE  LET st == Body(q).status
             old == req[q].found[x]
             new == Saved(st, old, entities[x])
         IN  /\ new \in EntityStatus /\ new # NoRow
             /\ entities[x] # NoRow /\ new # entities[x] => new = st
             /\ st # "unset" => new = st \/ (new = entities[x] /\ old = st /\ old # NoRow)
<1> DEFINE st == Body(q).status
           old == req[q].found[x]
<1>1. /\ TypeOK /\ RequestOK(q) /\ Body(q) \in Bodies
      /\ Body(q).op \in {"createEntities", "updateEntities"}
  BY RunningFacts DEF SaveRows, Running, RequestOK, SavingOK
<1>2. x \in Rows /\ old \in EntityStatus \cup {NoRow} /\ entities[x] \in EntityStatus \cup {NoRow}
  BY <1>1, RequestFacts DEF TypeOK, EntityTable
<1>3. st \in StatusOrUnset /\ (old # NoRow => entities[x] # NoRow)
  BY <1>1, <1>2, BodyFacts DEF RequestOK, FoundOK
<1> HIDE DEF st, old
<1>4. CASE old = NoRow
  <2>1. Saved(st, old, entities[x]) = Inserted(st) /\ entities[x] = NoRow
    BY <1>4 DEF Saved, old
  <2>2. st # "unset" => Inserted(st) = st
    BY DEF Inserted
  <2> QED BY <1>2, <1>3, <2>1, <2>2, StatusFacts DEF st, old
<1>5. CASE old # NoRow /\ Updated(st, old) # old
  <2>1. Saved(st, old, entities[x]) = st
    BY <1>5 DEF Saved
  <2>2. st \in EntityStatus /\ st # NoRow
    BY <1>2, <1>3, <1>5, StatusFacts
  <2> QED BY <2>1, <2>2 DEF st, old
<1>6. CASE old # NoRow /\ Updated(st, old) = old
  <2>1. Saved(st, old, entities[x]) = entities[x]
    BY <1>6 DEF Saved
  <2>2. entities[x] \in EntityStatus /\ entities[x] # NoRow
    BY <1>2, <1>3, <1>6
  <2>3. st # "unset" => old = st
    BY <1>2, <1>3, <1>6, StatusFacts
  <2> QED BY <1>6, <2>1, <2>2, <2>3 DEF st, old
<1> QED BY <1>4, <1>5, <1>6

\* save inserts the rows it did not find and writes what differs from what it loaded: a
\* report that came in between is overwritten by a report or a creation that is answered,
\* or stays
LEMMA SaveRowsStep ==
  ASSUME RegistryOK, NEW q \in Requests, SaveRows(q)
  PROVE  Effect(q)
<1> DEFINE b == Body(q)
           xs == req[q].saving
           absent == {x \in xs : req[q].found[x] = NoRow}
           ans == IF b.op = "createEntities" THEN "201" ELSE "200"
<1>1. /\ Running(q) /\ TypeOK /\ RequestOK(q) /\ b \in Bodies /\ req[q].phase = "save"
      /\ b.op \in {"createEntities", "updateEntities"}
  BY RunningFacts DEF SaveRows, Running, RequestOK, SavingOK
<1>2. CASE \E x \in absent : entities[x] # NoRow
  BY <1>1, <1>2, AnswerEffect DEF SaveRows, Answers
<1>3. CASE \A x \in absent : entities[x] = NoRow
  <2>1. /\ entities' = [x \in Rows |-> IF x \in xs THEN Saved(b.status, req[q].found[x], entities[x])
                                       ELSE entities[x]]
        /\ Answer(q, ans) /\ Makes(q, {"entity"} \X absent)
        /\ syncs' = syncs /\ files' = files /\ changesets' = changesets
    BY <1>1, <1>3, MakesFacts DEF SaveRows
  <2>2. xs \subseteq Rows
    BY <1>1, RequestFacts
  <2>3. /\ ans \in Answers /\ ans \in {"200", "201"}
        /\ ans = "201" => b.op = "createEntities"
        /\ ans = "200" => b.op = "updateEntities"
    BY <1>1 DEF Answers
  <2>4. \A x \in xs : b.status \in Asked(x)'
    BY <1>1, <2>1, <2>3, AskedNew
  <2>5. \A x \in xs : /\ entities'[x] \in EntityStatus /\ entities'[x] # NoRow
                      /\ entities[x] # NoRow /\ entities'[x] # entities[x] => entities'[x] = b.status
                      /\ b.status # "unset" =>
                           \/ entities'[x] = b.status
                           \/ /\ entities'[x] = entities[x] /\ req[q].found[x] = b.status
                              /\ req[q].found[x] # NoRow
    BY <1>3, <2>1, <2>2, SavedFacts
  <2>6. \A x \in Rows : x \notin xs => entities'[x] = entities[x]
    BY <2>1
  <2>7. /\ entities' \in EntityTable /\ Grows
        /\ syncs' \in SyncTable /\ files' \in FileTable /\ changesets' \in ChangesetTable
    <3>1. \A x \in Rows : entities'[x] \in EntityStatus \cup {NoRow}
      BY <1>1, <2>5, <2>6 DEF TypeOK, EntityTable
    <3>2. entities' \in EntityTable
      BY <2>1, <3>1 DEF EntityTable
    <3> QED BY <1>1, <2>1, <2>5, <2>6, <3>2 DEF TypeOK, Grows
  <2>8. ChangesAsked
    BY <2>4, <2>5, <2>6 DEF ChangesAsked
  <2>9. ReportOK(q)'
    <3>1. /\ req'[q].body = req[q].body /\ req'[q].saving = xs /\ Moved(q)
      BY <1>1, <2>1, <2>3, AnswerFacts
    <3> SUFFICES ASSUME NEW x \in Rows, (q \in Reporting(x))', b.status # "unset"
                 PROVE  entities'[x] \in Asked(x)'
      BY <3>1 DEF ReportOK, Body
    <3>2. x \in xs
      BY <1>1, <3>1 DEF Reporting, Answered, At, Body
    <3>3. CASE entities'[x] = b.status
      BY <2>4, <3>2, <3>3
    <3>4. CASE entities'[x] = entities[x] /\ req[q].found[x] = b.status /\ req[q].found[x] # NoRow
      <4>1. entities[x] = req[q].found[x] \/ entities[x] \in Asked(x)
        BY <1>1, <3>2, <3>4 DEF RequestOK, LoadedOK
      <4>2. Asked(x) \subseteq Asked(x)'
        BY <1>1, <3>1, AskedKept
      <4> QED BY <2>4, <3>2, <3>4, <4>1, <4>2
    <3> QED BY <2>5, <3>2, <3>3, <3>4
  <2> DEFINE M == {"entity"} \X absent
  <2>10. \A k \in M : ~Registered(k) /\ Registered(k)'
    <3>1. \A x \in absent : x \in Rows /\ entities[x] = NoRow /\ entities'[x] # NoRow
      BY <1>3, <2>2, <2>5
    <3> HIDE DEF absent
    <3> QED BY <3>1 DEF Registered
  <2>11. ans = "200" => M = {}
    <3>1. ans = "200" => absent = {}
      BY <1>1, <2>3 DEF RequestOK, SavingOK
    <3> QED BY <3>1
  <2>12. ans = "201" => \A x \in EntitiesOf(b) : entities'[x] # NoRow
    <3> SUFFICES ASSUME ans = "201", NEW x \in EntitiesOf(b) PROVE entities'[x] # NoRow
      OBVIOUS
    <3>1. x \in Rows /\ b.op = "createEntities"
      BY <1>1, <2>3, BulkFacts
    <3>2. x \notin xs => entities[x] # NoRow
      BY <1>1, <3>1 DEF RequestOK, SavingOK
    <3> QED BY <2>5, <2>6, <3>1, <3>2
  <2>13. Makes(q, M) /\ Body(q).op \notin {"createSync", "createFiles", "createEntity", "createChangeset"}
    BY <1>1, <2>1
  <2> HIDE DEF M, ans
  <2> QED BY <1>1, <2>1, <2>3, <2>7, <2>8, <2>9, <2>10, <2>11, <2>12, <2>13, DoneEffect
<1> QED BY <1>2, <1>3

-----------------------------------------------------------------------------
(* The theorems *)

\* the tables as they are found, with no request yet, satisfy the invariant
LEMMA RegistryInit == Init => RegistryOK
<1> SUFFICES ASSUME Init PROVE RegistryOK
  OBVIOUS
<1> DEFINE r == [phase |-> "idle", body |-> NoBody, answer |-> "none", meta |-> {}, base |-> NoSync,
                 found |-> [x \in Rows |-> NoRow], saving |-> {}]
<1>1. req = [q \in Requests |-> r] /\ made = [q \in Requests |-> {}]
  BY DEF Init
<1>2. /\ r \in Request /\ r.phase = "idle" /\ r.answer = "none" /\ \A x \in Rows : r.found[x] = NoRow
  BY DEF Request, Phases, Answers, EntityTable
<1> HIDE DEF r
<1>3. TypeOK
  BY <1>1, <1>2, RegistryAssumption DEF Init, TypeOK, ChangesetTable
<1>4. MadeOnce
  BY <1>1 DEF MadeOnce
<1>5. ASSUME NEW q \in Requests PROVE RequestOK(q)
  BY <1>1, <1>2 DEF RequestOK, BodyOK, MadeOK, TargetOK, FoundOK, SavingOK, LoadedOK, ReportOK,
                    Reporting, Answered, At
<1> QED BY <1>3, <1>4, <1>5 DEF RegistryOK

\* every step of every handler keeps the invariant
LEMMA RegistryStep == RegistryOK /\ [Next]_vars => RegistryOK'
<1> SUFFICES ASSUME RegistryOK, [Next]_vars PROVE RegistryOK'
  OBVIOUS
<1>1. CASE UNCHANGED vars
  <2>1. UNCHANGED <<syncs, files, entities, changesets, req, made>>
    BY <1>1 DEF vars, tables
  <2> QED BY <2>1 DEF RegistryOK, TypeOK, MadeOnce, RequestOK, BodyOK, MadeOK, TargetOK, FoundOK,
                      SavingOK, LoadedOK, ReportOK, Reporting, Rewriting, Asked, Registered,
                      Answered, At, Body
<1>2. ASSUME NEW q \in Requests, Step(q) PROVE Effect(q) /\ req[q].phase # "done"
  <2>1. req[q].phase # "done"
    BY <1>2 DEF Step, At, Receive, FindSync, FindFullSync, InsertSync, ReadSync, WriteSync,
      FindSyncOfFile, FindFile, InsertFile, FindSyncOfFiles, FindFiles, InsertFiles,
      FindSyncToUpdate, FindFileToUpdate, UpdateFile, FindFileOfEntity, FindEntity, InsertEntity,
      FindFileOfEntities, ReadEntities, ReadReruns, InsertEntities, FindFileOfUpdate,
      FindEntityToUpdate, UpdateEntity, CountEntities, LoadRows, SaveRows, FindChangeset,
      InsertChangeset, UpdateChangeset
  <2>2. Effect(q)
    BY <1>2, ReceiveStep, CheckStep, CheckBodyStep, KeepStep, ReadEntitiesStep, ReadRerunsStep,
       CountEntitiesStep, LoadRowsStep, InsertSyncStep, WriteSyncStep, InsertFileStep,
       InsertFilesStep, UpdateFileStep, ChangesetStep, InsertEntityStep, InsertEntitiesStep,
       UpdateEntityStep, SaveRowsStep DEF Step
  <2> QED BY <2>1, <2>2
<1> QED BY <1>1, <1>2, EffectStep DEF Next

\* The inductive invariant of the handlers.
THEOREM RegistryCorrect == Spec => []RegistryOK
  BY RegistryInit, RegistryStep, PTL DEF Spec

\* Tables and requests keep their types: no statement stores a row that is not complete,
\* and no patch writes into a row that does not exist.
THEOREM RegistryTypeCorrect == Spec => []TypeOK
<1>1. RegistryOK => TypeOK
  BY DEF RegistryOK
<1> QED BY <1>1, RegistryCorrect, PTL

\* A row is created by one request only, however many pass the check for an existing row.
THEOREM RowsAreMadeOnce == Spec => []MadeOnce
<1>1. RegistryOK => MadeOnce
  BY DEF RegistryOK
<1> QED BY <1>1, RegistryCorrect, PTL

\* A creation that is answered 201 has made every row it asked for, or finds each of them
\* registered on a rerun; one that fails has made none.
THEOREM CreationsAreAllOrNothing == Spec => []AllOrNothing
<1>1. RegistryOK => AllOrNothing
  BY DEF RegistryOK, RequestOK, MadeOK, AllOrNothing
<1> QED BY <1>1, RegistryCorrect, PTL

\* After a report is answered its entity holds what some answered request asked for,
\* although save writes on the strength of rows it loaded before.
THEOREM ReportsSurvive == Spec => []ReportSurvives
<1>1. RegistryOK => ReportSurvives
  <2> SUFFICES ASSUME RegistryOK, NEW x \in Rows, NEW q \in Reporting(x), Body(q).status # "unset"
               PROVE  entities[x] \in Asked(x)
    BY DEF ReportSurvives, Asked
  <2>1. q \in Requests
    BY DEF Reporting
  <2> QED BY <2>1 DEF RegistryOK, RequestOK, ReportOK
<1> QED BY <1>1, RegistryCorrect, PTL
=============================================================================
