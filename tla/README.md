# A TLA+ verification of osm-sync-tracker

osm-sync-tracker records the progress of uploading a layer to OSM.  A *sync*
consists of *files*, a file of *entities*, and uploaded entities belong to
*changesets*.  Clients register these rows and report on them through an HTTP
API; when all entities of a file are closed the file is completed, and when all
files of a sync are completed so is the sync.  Closing is done by background
jobs; a sync that failed is run again by a *rerun*.  Several replicas of the
service share one PostgreSQL database and one Redis.

## Inventory

| part | state | operations | interacts with |
|---|---|---|---|
| tables (`*/DAL/*.ts`) | sync, file, entity, changeset, entity_history | statements of the repositories | everything |
| closure queues (`queueProvider/queues`) | jobs, deduplication keys, `deduplicated` events in Redis | `push`, `addJob`, `addBulk`, `changeJobDelay` | handlers and workers push; BullMQ delays, deduplicates, expires |
| closure workers (`queueProvider/workers`) | the job each worker runs, its lock | `processJob` of changesets, files and syncs, `processJobWrapper` | take jobs, run a SERIALIZABLE transaction, push to the next queue, acknowledge |
| sync, file, entity, changeset handlers (`*/models/*Manager.ts`, `*/controllers`) | none between requests | create, bulk create, update, `createClosures` | tables and queues |
| rerun creation (`syncManager.rerunSyncIfNeeded`, `syncRepository.createRerun`) | one transaction | check, delete empty files, record history, reset entities, insert the rerun | tables, concurrently with handlers and workers |
| wiring and connections (`containerConfig.ts`, `index.ts`, `connection.ts`, `common/db`) | what is open, what the cleanup registry has to close | boot, start of the workers, stop, exit | everything a worker or a request needs |
| routers, telemetry | set-up only | | not modelled |

What is hard here:

* *Interleaving*: every handler awaits several queries without a transaction;
  every worker awaits between commit, push and acknowledgement; rerun requests
  run against reports and closures.
* *Stopping*: the cleanup registry closes the database, the connections to Redis
  and the workers with no order between them, in the middle of jobs.
* *Failure*: a replica may die or lose Redis between any two of these steps; a
  job's lock may be lost while its worker goes on; transactions are rolled back
  and retried.
* *Deduplication*: a request is dropped when a job of the same id is known,
  which is right only if that job has not yet read the tables.
* *Counting*: files and syncs are closed when two numbers are equal, so the last
  of several reports, in whatever order, has to trigger the closure.

What makes the parts correct: nothing due is lost (queues, workers); nothing is
closed early and everything is closed in the end (statements, workers); retries
end as configured (workers); no report is undone and no result forgotten
(reruns); bulk creations are all or nothing and a row is created once
(handlers).  The list of hazards, each at its line, is in `PROJECT.json`.

## Modules

| module | models | extends |
|---|---|---|
| `TrackerDb` | the columns and statements that closing needs | |
| `JobQueue` | `BullQueueProvider`: jobs, keys, events, `push` with batching | `TrackerDb` |
| `Closure` | handlers, workers of all replicas, failures, BullMQ's part; the properties | `JobQueue` |
| `ClosureFlow` | `Closure` under the client it is made for | `Closure` |
| `SyncProgress` | abstract: what closing promises to a client | |
| `Replica` | boot, stop, kill and restart of a replica, composed with `Closure` | `Closure` |
| `ClosureProofs` | the theorems about `Closure` | `Closure`, `TLAPS` |
| `FlowProofs` | `ClosureFlow`: nothing closes early, it implements `SyncProgress` | `ClosureFlow`, `ClosureProofs` |
| `DeliveryProofs` | `Closure` with a ttl and without one: requests are attempted, one job at a time | `ClosureProofs` |
| `ReplicaProofs` | `Replica` implements `Closure`, what that gives it | `Replica`, `DeliveryProofs` |
| `Rerun` | creating reruns, statement by statement | |
| `RerunProofs` | the theorems about `Rerun` | `Rerun`, `TLAPS` |
| `Registry` | creating and patching syncs, files, entities, changesets, query by query | |
| `RegistryProofs` | the theorems about `Registry` | `Registry`, `TLAPS` |
| `MCClosure`, `MCClosureFlow`, `MCReplica`, `MCRerun`, `MCRegistry` | instances for TLC | the module of that name |

**TrackerDb.**  Rows exist from the start; ids and foreign keys are constants,
statuses, totals and changeset ids are variables.  Each statement is atomic: the
closing ones run alone in a SERIALIZABLE transaction, whose failure is an action
of `Closure`; the others are autocommitted UPDATEs.

**JobQueue.**  A job carries the set of ids it is about.  Its deduplication id is
the id of a single job and, for a batch, a hash of the sorted ids, so the model
takes the pair (batch?, ids) as the key.  `DedupMode` tells whether
`deduplicationTtl` is set and shorter than `delay` (`"ttl"`: helm/values.yaml,
10 s and 60 s) or not set at all (`"simple"`: config/default.json, the key lives as
long as the job).  `DedupDelay` tells whether `deduplicationDelay` is set, without
which the provider creates no `QueueEvents`.  `KeepCompleted` tells whether a completed
job is still in Redis when an event about it is handled (a week with
`removeOnComplete.age`); otherwise `changeJobDelay` may find no job and return.  Up to `Copies` jobs of one key may
live at once, which is a bound of the model.  BullMQ and Redis are external and
modelled from the options passed to them.

**Closure.**  `run[w]` is what worker w does: the job it took, whether it is
before its transaction (`begin`), before its push (`push`) or before its
acknowledgement (`end`), and whether it still owns the job's lock.  `owed` is a
history variable: the ids whose closure was requested by the API or became due by
a committed closure and has not been attempted since by the owner of the job.
`faults` is another: for each job the errors of its own attempts and the times its own
worker was lost, counted where the fault happens rather than where BullMQ books it, and
the total, which is what `MaxFaults` bounds.  An error may hit any phase, the
acknowledgement included.
`TransactionFailure`, `ProcessError`, `Crash`, `StallSlow` and `LoseEvent` are the
failures; `HandOffFaults` tells whether they may hit the gap between a file's
commit and the push of its sync, or an event.

**ClosureFlow.**  Every entity is in a changeset; the client marks a changeset's
entities completed, then requests its closure, several at a time or one by one.

**SyncProgress** is the abstract specification of closing: entities are reported,
a file closes at some time after the last of its entities, a sync or a rerun at some
time after the last of its files, and what is whole does not stay open.  It knows no
queues, workers, batches or retries.  `ClosureFlow` implements it under the mapping
`Progress` (the closed entities, the completed files, the completed syncs).

**Replica.**  `open` is the set of connections and workers that are open.  `Open`
follows the order of `registerExternalValues` (data source, then the queue connection
with the queues, then the worker connection with the workers), `Start` is the rest of
`index.ts`.  `BootFails`, `Trigger` (a signal, or a worker that cannot start) and
`Kill` lead to the stage `stopping`, in which connections are closed whoever needs
them and a worker once its job is over (`BullWorkerProvider.close`).  A worker whose
next step needs a closed connection gets an error (`ConnectionError`): the failure
of the job is reported if the worker connection is still there, otherwise the job
stays active for the stalled check.  The cleanup registry (external) may also give a
worker up (`Abandon`).  While nobody listens, `deduplicated` events are missed.
Every worker step is the action of `Closure`, so `Replica` is `Closure` with a
particular cause of its failures, which `ReplicaProofs` proves.

**Rerun.**  A request is a small program: check the rerun id, check base sync and
latest rerun, begin a transaction (delete empty files, try to close the sync), read
the latest rerun, record history and reset entities, insert the rerun, commit.
`view` is the snapshot with the transaction's writes, written rows stay locked, a
row changed since the snapshot makes the transaction fail (`Conflict`), and it may fail
at any other point.  A row that was changed and changed back is still a newer version:
`Commit` marks the rows it wrote as stale in every transaction whose updates are to
come (`Overtaken`).  PostgreSQL takes the snapshot with the first statement that runs;
a first statement that would wait for a locked row is modelled as not having begun.
Reading the latest rerun and inserting the rerun use `this` rather
than the transactional manager, so they act on the sync table directly, and wait for a
second connection of the pool (`FreeConnection`) while the transaction keeps its own.
`IdOf` is the entity id, which several files may share: the history is joined on it
alone.  Meanwhile
clients create files and entities and report entities, and workers close files and
syncs.

**Registry.**  Each query of a handler is a step; `req[q]` holds where the handler
is and what it keeps of what it has read: the metadata to merge (`meta`), the base of a
rerun (`base`), the statuses of entities (`found`) and the entities it is going to save
(`saving`).  `save` of TypeORM is two steps, loading the rows and writing what differs
from them.  A primary key in the way fails an INSERT, which the controllers answer 500.
The bodies a request may have are typed by operation, as the OpenAPI validator
admits them (`RegistryAssumption`).  `made` is a history variable: the rows each
request inserted, with their table.

## Runs

Passing:

| run | shows | bounds |
|---|---|---|
| `closure_retries` | with a ttl below the delay, as deployed, clients doing anything and failures in the hand-off too, what a client asked for stays pending (`RequestedClosureIsAttempted`); no job fails for good before it has had its own errors or lost its own worker as often as the options allow (`NoPrematureFailure`) | 2 client steps, 3 attempts, 1 stall, 3 faults, 1 rollback; completed jobs may be removed before their events |
| `closure_flow` | nothing closes early (`ClosedIsWhole`), everything closes in the end (`EverythingCloses`), a running rerun and every slice of a batched request included; it implements `SyncProgress` (`ImplementsProgress`) | 3 changesets over 2 files, batches of 2 |
| `closure_flow_faults` | the same under failures; without a ttl the `deduplicated` listener makes up for dropped requests, so nothing due is lost (`NoLostClosure`); one job per id in flight (`SingleFlight`); every due closure is attempted or parked (`OwedIsAttempted`) | 2 changesets that share a file, 2 files workers, 1 fault, 1 rollback |
| `replica_stop` | stopped, killed or half-started, with connections closed in any order, the replica loses nothing a client asked for (`RequestedClosureIsAttempted`) and attempts it after the restart (`RestartRecovers`) | 1 stop at any point of boot and life, 2 client steps |
| `rerun` | files closed only when whole, answers true, reports not undone, resets recorded, every request answered (`EveryRequestAnswered`) | 2 requests, a pool of 3 connections, 2 entities, an empty file, 4 client or worker steps |
| `registry` | `AllOrNothing`, `MadeOnce`, `ReportSurvives` | any 2 of all kinds of request |

Two client steps make a report and a request, or two requests of which the second
meets the first one's job; a fault and a rollback together cover a job that two
workers run.  Three attempts differ from two stalls, so that three faults cover a job
that fails for good either way, a mixture of errors and stalls that must not fail it, and
faults spread over two jobs.  A stop reaches every worker in
every phase, and one is enough because nothing of it outlives the restart but the
jobs, which the faults of `closure_retries` put into the same states.  Two copies of a job suffice
for a second request to find the key expired; a third is cut off by the guard of
`add`.  Two rerun requests give every pair of interleaved transactions, two requests of
`Registry` every pair of handlers.  For the safety properties of `Closure`,
`ClosureFlow`, `Replica`, `Rerun` and `Registry` the theorems below remove the bounds.

The violation runs each show one behaviour that disagrees with what the
repository says (the quotations are in `PROJECT.json`, `findings`):

* `lost_wakeup`: with neither ttl nor `deduplicationDelay` a request that meets a
  job past its transaction is dropped for good.
* `hand_off_stop`: an orderly stop quits the queue connection between a files
  worker's commit and its push; the sync is never pushed, because the retry finds
  the file closed.  A crash or a Redis error at that point does the same.
* `rerun_twice`: the checks of `rerunSyncIfNeeded` are stale when the transaction acts
  on them.
* `rerun_failed`: the rerun row survives the rolled back transaction.
* `rerun_history`: when an entity id was completed in one file, the results of the
  same id in another file are reset without a history row, since the join compares
  the entity id only.
* `full_sync_twice`: two requests look for a full sync before either inserts one.

The models show more of the kind, for which no run is kept: rerun requests that
hold every connection of the pool and wait for a second one for ever (`Rerun` with
`PoolSize = 2` violates `EveryRequestAnswered`); two metadata patches
that merge into the same read value, of which the second overwrites the first
(`ReadSync`, `WriteSync`); a base sync that is completed between the check of a
rerun and the reset of its entities; files that `createFiles` registers on a rerun
while `createFile` uses its base sync; and `previouslyCompleted` listing entities
that are failed or in progress.

Deadlock checking is off in all runs: the service rests when no request is
pending, and the bounded clients stop.  That nobody waits for ever is what
`OwedIsAttempted`, `EverythingCloses`, `RestartRecovers` and `EveryRequestAnswered` say.

### Fairness

Weak fairness of each worker's next step (BullMQ workers poll their queue and a
handler runs to its end), of the delay of each job, the expiry of each key and the
delivery of each event (Redis does this on its own), and of the stalled check
(every `stalledInterval`).  Nothing is assumed of failures or, in `Closure`, of
clients.  `ClosureFlow` adds weak fairness of the client, since its question is
what happens once every changeset was uploaded and closed.  Transaction failures
are bounded: the code retries them for ever.  `Replica` adds weak fairness of the
steps of boot, of the exit once the workers are through or given up, and of the
restart (the orchestrator restarts a stopped container); Redis, the stalled check
and the event listener act only while the replica is up.  `Rerun` assumes weak
fairness of each request's next step: the event loop resumes a handler whose query
was answered; nothing obliges a rollback or a client.

Clients are assumed to report an entity once per run (`Rerun`) and not to reopen
reported entities (`ClosureFlow`); `Closure` and `Registry` assume neither.

## Proofs

`ClosureProofs` holds for all tables, workers, queue options and bounds that
satisfy `TablesAssumption`, `QueueAssumption` and `WorkersAssumption`.

* `StructCorrect`: `StructOK` = `TypeOK /\ RunOK /\ LockOK /\ KeyOK` is inductive.
  `RunOK` says that a busy worker holds a slot of its own queue and a lock only of
  an active job, `LockOK` that a job has one owner, `KeyOK` that a key with a ttl
  belongs to a job that has not left its first delay.
* `TypeCorrect`: `Spec => []TypeOK`.
* `ClosureNotLost`: if no fault hits a hand-off, completed jobs outlive their events
  (`KeepCompleted`) and either keys have a short ttl or a `deduplicationDelay` is
  configured (together `SafeDelivery`), then `Spec => []NoLostClosure`.  The
  argument: an id leaves `owed` only by an attempt of the owner of its job; every
  step that takes away a witness of `Pending` either leaves another one or is such
  an attempt.  A dropped request needs the witness to be the job that holds the
  key: with a ttl `KeyOK` says that job is still delayed; otherwise the event is
  the witness until it is handled, and handling it needs the job.  The hypotheses on
  the hand-off and on the keys are needed, as `hand_off_stop` and `lost_wakeup` show.
* `FailureNotPremature`: `Spec => []NoPrematureFailure`.  The strengthening
  `BudgetOK` bounds the attempts BullMQ has counted for a job by the errors of its own,
  and its stalls by the losses of its own worker, one less while the job is orphaned,
  since the stalled check is still to come.  Faults of other jobs, lost events and
  rolled back transactions appear on neither side.

`FlowProofs` rests on `TypeCorrect` and on two facts: a behaviour of the flow is one
of `Closure` (`FlowIsClosure`), and a step changes the tables by a changeset's
report, a file closure, a sync closure or not at all (`DbStep`).

* `NothingClosesEarly`: `FlowSpec => []ClosedIsWhole`.  The strengthening
  `TotalsOK` says that the totals are the numbers of entities and files.  A closure
  compares two numbers; since the closed rows are a subset of a finite set of as many
  rows, they are all of it.  For a rerun the counted files are those of its base.
* `FlowImplementsProgress`: `FlowSpec => Progress!Safety`, by the same two lemmas.

`DeliveryProofs` is about `Closure` under one deduplication setting each.

* `RequestAttempted`: `Spec => []RequestedClosureIsAttempted` with a short ttl, whatever
  faults hit the hand-off and whichever events are lost, or without one under the
  hypotheses of `ClosureNotLost` (`SafeDelivery`).  `Pending` is too weak an induction
  hypothesis here: one of its witnesses is a worker about to push, and that push may
  fail.  The invariant `RequestedInQueue` asks for a job in the queue that has not
  been attempted since.  A sync is left out of it, because a commit makes it due before
  any job exists; that is what `hand_off_stop` shows.  `lost_wakeup` shows that without
  a ttl the hypothesis is needed.
* `OneJobAtATime`: without a ttl `Spec => []SingleFlight`.  The invariant `HolderOK`
  says that a job in the queue holds the key of its id, so a key that is free means no
  job, and a finished job gives back its own key only.  With a ttl the property does not
  hold and is not wanted: a key expires before its job.

`ReplicaProofs` proves `ReplicaIsClosure`: `ReplicaSpec => Spec`, step by step.  It
carries three theorems over to `Replica`: a stop fails no job before its own errors or
losses are used up
(`StopsFailNothingEarly`), loses no request when there is a short ttl
(`StopsLoseNoRequest`) and leaves one job per id when there is none
(`StopsKeepOneJob`).

`RerunProofs` holds for any tables, entities, reruns, requests, pool and number of
client steps that satisfy `RerunAssumption`.  `RerunCorrect` shows that `RerunOK` is
inductive; the properties are about `db`, which a transaction changes at its commit, so
the invariant has to say of every open transaction what its commit would do:

* `LocksOK`: no two transactions have written the same row;
* `ViewOK`, `ReadOK`: a snapshot is behind the tables in one direction only.  What was
  completed in it is completed still, and what was closed in it is closed still unless
  another rerun has written the file since, in which case the transaction will fail on
  it (a rerun that resets a not synced entity opens its file in the same transaction);
* `ResetOK`, `CloseOK`, `AddedOK`, `RecordedOK`: rows that were written are locked, so
  what was reset still has the status it was reset from and is in a history row of the
  transaction, and a file that is about to be completed is whole;
* `HistoryOK`: what the history calls completed is completed, so that the join of
  `createEntityHistory` leaves out nothing that is going to be reset.

From it follow `RerunTypeCorrect`, `ClosedStaysWhole` (`ClosedIsWhole`),
`UploadsSurvive` (`UploadSurvives`), `ResetsAreRecorded` (`ResetHasHistory`) and
`AnswersHold` (`AnswerHolds`).  `ResetsAreRecorded` assumes `UniqueIds`, that no two
files hold entities of one entity id; `rerun_history` shows that it is needed.

`RegistryProofs` holds for any tables and any set of typed bodies
(`RegistryAssumption`), bulk requests of any length included, and any number of
interleaved requests.  `RegistryCorrect` shows that `RegistryOK` is inductive: rows are
never deleted, so what a handler found is there when it writes (`TargetOK`, `FoundOK`,
`SavingOK`); the rows a request made exist (`MadeOK`), so no second INSERT makes them;
and a row that no longer holds what `save` loaded holds what an answered request asked
for (`LoadedOK`), so that a save that writes nothing to it leaves a report in place.
Each handler step is shown to add rows or to change them only to what it answers
(`Effect`), once, and every part of the invariant survives any such step of another
request.  From it follow `RegistryTypeCorrect`, `RowsAreMadeOnce` (`MadeOnce`),
`CreationsAreAllOrNothing` (`AllOrNothing`) and `ReportsSurvive` (`ReportSurvives`).

Model-checked only: liveness (`OwedIsAttempted`, `EverythingCloses`, `RestartRecovers`,
`EveryRequestAnswered` and the fairness in `ImplementsProgress`), which the prover does
not reach.  Every other property of a passing run is a theorem.

## Not modelled

Reads that change nothing (`getSyncs`, `getLatestSync`, `getChangeset`), dates,
actions, fail reasons, the rate limiter, metrics, tracing, the board, routers, the
express middlewares, the health check and the retry and timeout helpers (no state, or
no caller); reconnecting, which ioredis and the pool do; migrations.  Completed jobs
leave the model at once (`KeepCompleted` says whether `changeJobDelay` still finds
them), so that what the misspelt `reomveOnComplete` of `config/default.json` costs, a
Redis that fills up with completed jobs, shows in no property.  Several replicas
are modelled in `Closure` (any number of workers), not in `Replica`.

## Plan

1. Done: `TrackerDb`, `JobQueue`, `Closure` with `ClosureFlow`; `SyncProgress` and the
   refinement; `Replica`; `Rerun`; `Registry`; the theorems above.
2. Done: theorems for every safety property of the passing runs.
3. To come: an abstract specification of atomic creation that `Registry` implements,
   with its refinement proved; for `Rerun`, that a base sync is closed only when its files
   are; two replicas of which one stops (a rolling update); three rerun requests in
   sequence.
