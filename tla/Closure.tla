------------------------------ MODULE Closure -------------------------------
(***************************************************************************)
(* The closure mechanism: the API handlers that request closures, and the  *)
(* workers of every replica that carry them out.  A changesets job pushes  *)
(* a files job for every in-progress file of its changesets, a files job   *)
(* that closes its file pushes a job for the file's sync, a syncs job      *)
(* closes the sync and its reruns.                                         *)
(*                                                                         *)
(* A worker awaits between the commit of its transaction, the push to the  *)
(* next queue and the acknowledgement of the job, and any of them may fail *)
(* or never happen, so each is a step of its own.  A job whose lock is not *)
(* renewed is handed to another worker, while the first may still be       *)
(* running: run[w].lock tells whether w still owns the job it works on.    *)
(***************************************************************************)
EXTENDS JobQueue

CONSTANTS
  Workers, QueueOf,   \* the workers of all replicas and the queue of each
  NoSlot,
  HandOffFaults,      \* may a files worker be interrupted between its commit and
                      \* its push, or a 'deduplicated' event be lost?
  MaxClientOps, MaxFaults, MaxTxnFailures   \* bounds

ASSUME WorkersAssumption ==
  /\ QueueOf \in [Workers -> {"changesets", "files", "syncs"}]
  /\ NoSlot \notin Slots
  /\ HandOffFaults \in BOOLEAN
  /\ MaxClientOps \in Nat /\ MaxFaults \in Nat /\ MaxTxnFailures \in Nat

VARIABLES
  run,          \* worker -> what it is doing
  owed,         \* history: ids whose closure was requested, by the API or by a
                \* committed closure, and has not been attempted since
  faults,       \* history: what happened to the job in each slot since it was added
                \* (its errors, and the times its worker died or was too slow), and
                \* the number of all faults, for the bound
  clientOps, txnFailures                    \* counters for the bounds

vars == <<db, queue, run, owed, clientOps, faults, txnFailures>>

Run == [slot : Slots \cup {NoSlot}, phase : {"idle", "begin", "push", "end"},
        out : SUBSET Ids, lock : BOOLEAN]
Idle == [slot |-> NoSlot, phase |-> "idle", out |-> {}, lock |-> FALSE]

Faults == [total : Nat, errors : [Slots -> Nat], losses : [Slots -> Nat]]
Unharmed == [sl \in Slots |-> 0]

\* every variable holds a value of the kind its column, key or worker can hold
TypeOK ==
  /\ DbTypeOK
  /\ QueueTypeOK
  /\ run \in [Workers -> Run]
  /\ owed \subseteq Ids
  /\ clientOps \in 0..MaxClientOps
  /\ faults \in Faults
  /\ txnFailures \in 0..MaxTxnFailures

FilesOf(s) == {f \in Files : SyncOf[f] \in {s, BaseOf[s]}}
EntitiesOf(f) == {e \in Entities : FileOf[e] = f}

\* the rows as the ingestion leaves them: entities with or without a changeset,
\* totals known or still to be patched, a sync that has a running rerun failed
Init ==
  /\ entityStatus = [e \in Entities |-> "inprogress"]
  /\ changesetOf \in [Entities -> Changesets \cup {NoChangeset}]
  /\ fileStatus = [f \in Files |-> "inprogress"]
  /\ totalEntities \in {t \in [Files -> {Null} \cup 0..Cardinality(Entities)] :
                          \A f \in Files : t[f] \in {Null, Cardinality(EntitiesOf(f))}}
  /\ syncStatus = [s \in Syncs |-> IF \E t \in Syncs : BaseOf[t] = s THEN "failed" ELSE "inprogress"]
  /\ totalFiles = [s \in Syncs |-> Cardinality(FilesOf(s))]
  /\ QueueInit
  /\ run = [w \in Workers |-> Idle]
  /\ owed = {}
  /\ faults = [total |-> 0, errors |-> Unharmed, losses |-> Unharmed]
  /\ clientOps = 0 /\ txnFailures = 0

-----------------------------------------------------------------------------
(* API handlers: the managers of the four resources *)

ClientOp == clientOps < MaxClientOps /\ clientOps' = clientOps + 1

\* the distinct ids of a closure request, in any order
Arrays(S) == UNION {{a \in [1..Cardinality(I) -> I] : Range(a) = I} : I \in (SUBSET S) \ {{}}}

UpdateEntity(e, st, c) ==
  /\ ClientOp
  /\ updateEntity(e, st, c)
  /\ UNCHANGED <<queue, run, owed, faults, txnFailures>>

UpdateChangesetEntities(c) ==
  /\ ClientOp
  /\ updateEntitiesOfChangesetAsCompleted(c)
  /\ UNCHANGED <<queue, run, owed, faults, txnFailures>>

UpdateFile(f, n) ==
  /\ ClientOp
  /\ updateFile(f, n)
  /\ UNCHANGED <<queue, run, owed, faults, txnFailures>>

UpdateSync(s, st, n) ==
  /\ ClientOp
  /\ updateSync(s, st, n)
  /\ UNCHANGED <<queue, run, owed, faults, txnFailures>>

\* POST /{changeset,file,sync}/closure
CreateClosures(ids) ==
  /\ ClientOp
  /\ push(ids)
  /\ owed' = owed \cup Range(ids)
  /\ UNCHANGED <<db, run, faults, txnFailures>>

-----------------------------------------------------------------------------
(* Workers *)

Holds(w, sl) == run[w].lock /\ run[w].slot = sl
IdsOf(w) == run[w].slot[1].ids
Handle(w) == CHOOSE id \in IdsOf(w) : TRUE     \* job.data.id of a single job
Phase(w, q, ph) == QueueOf[w] = q /\ run[w].phase = ph

\* the worker reads its job again only through Redis, so an attempt counts for
\* the job's requests only while the worker still owns the job
Attempted(w) == IF run[w].lock THEN owed \ IdsOf(w) ELSE owed

\* the worker with the result of its transaction: the ids to push, if any
Committed(w, out) ==
  [slot |-> run[w].slot, phase |-> IF out = {} THEN "end" ELSE "push",
   out |-> out, lock |-> run[w].lock]

Take(w, sl) ==
  /\ run[w].phase = "idle" /\ jobs[sl].state = "wait" /\ Queue(sl[1]) = QueueOf[w]
  /\ jobs' = [jobs EXCEPT ![sl].state = "active"]
  /\ run' = [run EXCEPT ![w] = [slot |-> sl, phase |-> "begin", out |-> {}, lock |-> TRUE]]
  /\ UNCHANGED <<db, dedup, events, owed, clientOps, faults, txnFailures>>

\* ChangesetsWorker.processJob up to the push
ProcessChangesets(w) ==
  /\ Phase(w, "changesets", "begin")
  /\ run' = [run EXCEPT ![w] = Committed(w, findFilesByChangesets(IdsOf(w)))]
  /\ owed' = Attempted(w)
  /\ UNCHANGED <<db, queue, clientOps, faults, txnFailures>>

\* FilesWorker.processJob up to the push
ProcessFile(w) ==
  /\ Phase(w, "files", "begin")
  /\ LET f == Handle(w)
         out == IF FileIsClosable(f) THEN {SyncOf[f]} ELSE {} IN
       /\ attemptFileClosure(f)
       /\ run' = [run EXCEPT ![w] = Committed(w, out)]
       /\ owed' = Attempted(w) \cup out
  /\ UNCHANGED <<queue, clientOps, faults, txnFailures>>

\* SyncsWorker.processJob
ProcessSync(w) ==
  /\ Phase(w, "syncs", "begin")
  /\ attemptSyncClosure(Handle(w))
  /\ run' = [run EXCEPT ![w] = Committed(w, {})]
  /\ owed' = Attempted(w)
  /\ UNCHANGED <<queue, clientOps, faults, txnFailures>>

\* filesQueue.push or syncsQueue.push, neither of which batches
PushNext(w) ==
  /\ run[w].phase = "push"
  /\ addBulk({Single(i) : i \in run[w].out})
  /\ run' = [run EXCEPT ![w].phase = "end"]
  /\ owed' = owed \cup run[w].out
  /\ UNCHANGED <<db, clientOps, faults, txnFailures>>

\* nothing has happened to the next job of the slots S
Forgotten(S) ==
  [total |-> faults.total,
   errors |-> [sl \in Slots |-> IF sl \in S THEN 0 ELSE faults.errors[sl]],
   losses |-> [sl \in Slots |-> IF sl \in S THEN 0 ELSE faults.losses[sl]]]

\* mutation: the acknowledgement does not present the lock
CompleteUnlocked(w) ==
  /\ run[w].phase = "end"
  /\ jobs' = [jobs EXCEPT ![run[w].slot] = NoJob]
  /\ dedup' = KeyAfterFinish(run[w].slot)
  /\ faults' = Forgotten({run[w].slot})
  /\ run' = [run EXCEPT ![w] = Idle]
  /\ UNCHANGED <<db, events, owed, clientOps, txnFailures>>

\* the acknowledgement is refused when the lock is lost
Complete(w) ==
  /\ run[w].phase = "end"
  /\ IF run[w].lock
     THEN /\ jobs' = [jobs EXCEPT ![run[w].slot] = NoJob]
          /\ dedup' = KeyAfterFinish(run[w].slot)
          /\ faults' = Forgotten({run[w].slot})
     ELSE UNCHANGED <<jobs, dedup, faults>>
  /\ run' = [run EXCEPT ![w] = Idle]
  /\ UNCHANGED <<db, events, owed, clientOps, txnFailures>>

-----------------------------------------------------------------------------
(* Failures *)

\* after an error the job waits for its next attempt, or fails for good
Retried(job) ==
  [state |-> IF job.attempts + 1 < MaxAttempts THEN "delayed" ELSE "failed",
   attempts |-> job.attempts + 1, stalls |-> job.stalls]

\* the stalled check puts the job back, or fails it above maxStalledCount
Stalled(job) ==
  [state |-> IF job.stalls < MaxStalled THEN "wait" ELSE "failed",
   attempts |-> job.attempts, stalls |-> job.stalls + 1]

KeyAfter(sl, job) == IF job.state = "failed" THEN KeyAfterFinish(sl) ELSE dedup

\* whoever works on the job of slot sl no longer owns it
LosingLock(sl) ==
  [v \in Workers |-> [slot |-> run[v].slot, phase |-> run[v].phase, out |-> run[v].out,
                      lock |-> run[v].lock /\ run[v].slot # sl]]

\* transactionify: the transaction was rolled back on a serialization failure or a
\* deadlock
TransactionAborts(w) ==
  /\ txnFailures < MaxTxnFailures /\ txnFailures' = txnFailures + 1
  /\ run[w].phase = "begin"

\* mutation: a transaction failure is an attempt like any other
TransactionFailureCounted(w) ==
  /\ TransactionAborts(w)
  /\ LET sl == run[w].slot IN
       IF jobs[sl].state = "active"
       THEN /\ jobs' = [jobs EXCEPT ![sl] = Retried(@)]
            /\ dedup' = KeyAfter(sl, Retried(jobs[sl]))
            /\ run' = [LosingLock(sl) EXCEPT ![w] = Idle]
            /\ owed' = owed \cup sl[1].ids
       ELSE run' = [run EXCEPT ![w] = Idle] /\ UNCHANGED <<jobs, dedup, owed>>
  /\ UNCHANGED <<db, events, clientOps, faults>>

\* processJobWrapper delays the job after a transaction failure.  moveToDelayed is
\* given no token: it needs the job to be active, not the lock, and is refused
\* otherwise
TransactionFailure(w) ==
  /\ TransactionAborts(w)
  /\ LET sl == run[w].slot IN
       IF jobs[sl].state = "active"
       THEN /\ jobs' = [jobs EXCEPT ![sl].state = "delayed"]
            /\ run' = [LosingLock(sl) EXCEPT ![w] = Idle]
            /\ owed' = owed \cup sl[1].ids
       ELSE run' = [run EXCEPT ![w] = Idle] /\ UNCHANGED <<jobs, owed>>
  /\ UNCHANGED <<db, dedup, events, clientOps, faults>>

\* a fault that is an error of the jobs E, or takes the worker away from the jobs L
Fault(E, L) ==
  /\ faults.total < MaxFaults
  /\ faults' = [total |-> faults.total + 1,
                errors |-> [sl \in Slots |-> IF sl \in E THEN faults.errors[sl] + 1 ELSE faults.errors[sl]],
                losses |-> [sl \in Slots |-> IF sl \in L THEN faults.losses[sl] + 1 ELSE faults.losses[sl]]]

\* the job of a worker, if it still owns one
Owned(w) == IF run[w].lock THEN {run[w].slot} ELSE {}

\* a files worker between its commit and its push
InHandOff(w) == Phase(w, "files", "push")

\* any other error of the database or of Redis, before the commit, on the push or on
\* the acknowledgement
ProcessError(w) ==
  /\ Fault(Owned(w), {})
  /\ run[w].phase # "idle"
  /\ InHandOff(w) => HandOffFaults
  /\ LET sl == run[w].slot IN
       IF run[w].lock
       THEN /\ jobs' = [jobs EXCEPT ![sl] = Retried(@)]
            /\ dedup' = KeyAfter(sl, Retried(jobs[sl]))
            /\ owed' = owed \cup sl[1].ids
       ELSE UNCHANGED <<jobs, dedup, owed>>
  /\ run' = [run EXCEPT ![w] = Idle]
  /\ UNCHANGED <<db, events, clientOps, txnFailures>>

\* the process dies; its job stays active until the stalled check
Crash(w) ==
  /\ Fault({}, Owned(w))
  /\ run[w].phase # "idle"
  /\ InHandOff(w) => HandOffFaults
  /\ run' = [run EXCEPT ![w] = Idle]
  /\ owed' = IF run[w].lock THEN owed \cup IdsOf(w) ELSE owed
  /\ UNCHANGED <<db, queue, clientOps, txnFailures>>

\* mutation: the stalled check leaves a job alone the first time it is stalled
StallOrphanOnce(sl) ==
  /\ jobs[sl].state = "active" /\ \A w \in Workers : ~Holds(w, sl)
  /\ jobs[sl].stalls > 0
  /\ jobs' = [jobs EXCEPT ![sl] = Stalled(@)]
  /\ dedup' = KeyAfter(sl, Stalled(jobs[sl]))
  /\ owed' = owed \cup sl[1].ids
  /\ UNCHANGED <<db, events, run, clientOps, faults, txnFailures>>

\* an active job nobody owns is found by the stalled check
StallOrphan(sl) ==
  /\ jobs[sl].state = "active" /\ \A w \in Workers : ~Holds(w, sl)
  /\ jobs' = [jobs EXCEPT ![sl] = Stalled(@)]
  /\ dedup' = KeyAfter(sl, Stalled(jobs[sl]))
  /\ owed' = owed \cup sl[1].ids
  /\ UNCHANGED <<db, events, run, clientOps, faults, txnFailures>>

\* a worker is too slow to renew its lock and goes on without the job
StallSlow(sl) ==
  /\ Fault({}, {sl})
  /\ \E w \in Workers : Holds(w, sl)
  /\ jobs' = [jobs EXCEPT ![sl] = Stalled(@)]
  /\ dedup' = KeyAfter(sl, Stalled(jobs[sl]))
  /\ run' = LosingLock(sl)
  /\ owed' = owed \cup sl[1].ids
  /\ UNCHANGED <<db, events, clientOps, txnFailures>>

\* errors of Redis in changeJobDelay are logged and the event is dropped
LoseEvent(sl) ==
  /\ HandOffFaults /\ Fault({}, {})
  /\ sl \in events /\ events' = events \ {sl}
  /\ UNCHANGED <<db, jobs, dedup, run, owed, clientOps, txnFailures>>

-----------------------------------------------------------------------------
Client ==
  \/ \E e \in Entities, st \in EntityStatus :
       \E c \in Changesets \cup {changesetOf[e]} : UpdateEntity(e, st, c)
  \/ \E c \in Changesets : UpdateChangesetEntities(c)
  \/ \E f \in Files : UpdateFile(f, Cardinality(EntitiesOf(f)))
  \/ \E s \in Syncs, st \in Status : UpdateSync(s, st, Cardinality(FilesOf(s)))
  \/ \E ids \in Arrays(Changesets) \cup Arrays(Files) \cup Arrays(Syncs) : CreateClosures(ids)

KeepRest == UNCHANGED <<db, run, owed, clientOps, faults, txnFailures>>

Broker ==
  \/ \E sl \in Slots : (Promote(sl) \/ changeJobDelay(sl)) /\ KeepRest
  \/ \E k \in Keys : ExpireKey(k) /\ KeepRest
  \/ \E sl \in Slots : StallOrphan(sl)

Work(w) ==
  \/ \E sl \in Slots : Take(w, sl)
  \/ ProcessChangesets(w) \/ ProcessFile(w) \/ ProcessSync(w)
  \/ PushNext(w) \/ Complete(w)

Failures ==
  \/ \E w \in Workers : TransactionFailure(w) \/ ProcessError(w) \/ Crash(w)
  \/ \E sl \in Slots : StallSlow(sl) \/ LoseEvent(sl)

Next == Client \/ Broker \/ (\E w \in Workers : Work(w)) \/ Failures

Spec == Init /\ [][Next]_vars

\* Workers poll their queue and go on with what they took; Redis moves delayed
\* jobs, expires keys and delivers events; the stalled check runs every
\* stalledInterval.  Nothing obliges a client to act or a failure to happen.
Fairness ==
  /\ \A w \in Workers : WF_vars(Work(w))
  /\ \A sl \in Slots : /\ WF_vars(Promote(sl) /\ KeepRest)
                        /\ WF_vars(changeJobDelay(sl) /\ KeepRest)
                        /\ WF_vars(StallOrphan(sl))
  /\ \A k \in Keys : WF_vars(ExpireKey(k) /\ KeepRest)

FairSpec == Spec /\ Fairness

-----------------------------------------------------------------------------
(* Properties *)

\* a job that will still be attempted, or that is kept as failed for the operator
Unattempted(sl) ==
  \/ jobs[sl].state \in {"delayed", "wait", "failed"}
  \/ jobs[sl].state = "active" /\ \A w \in Workers : Holds(w, sl) => run[w].phase = "begin"

Pending(id) ==
  \/ \E sl \in Slots : id \in sl[1].ids /\ Unattempted(sl)
  \/ \E w \in Workers : InHandOff(w) /\ id \in run[w].out
  \/ \E sl \in events : id \in sl[1].ids

\* No closure is lost: whatever was accepted by POST .../closure, pushed by a
\* worker or made due by a committed file closure is still going to be attempted,
\* although pushes are deduplicated, workers overlap and jobs are retried.
NoLostClosure == \A id \in owed : Pending(id)

\* openapi3.yaml, POST /file/closure: "closure jobs will attempt to close the file
\* and it's sync".  README, Closure: a file closure job "will produce a single
\* `sync` closure job - the `file`'s `sync` which was closed".
ClosedFileReachesSync == \A s \in owed \cap Syncs : Pending(s)

\* openapi3.yaml, POST /changeset/closure: "closure jobs will attempt to close the
\* whole sync": a request that was answered 201 is attempted after it was made.
RequestedClosureIsAttempted == \A id \in owed \cap (Changesets \cup Files) : Pending(id)

\* Every closure that is due is attempted in the end, unless its job is parked
\* as failed: no worker waits for ever and no job is left behind by a dead one.
OwedIsAttempted ==
  \A id \in Ids : []<>(id \in owed =>
    \E sl \in Slots : id \in sl[1].ids /\ jobs[sl].state = "failed")

\* A job fails for good only after MaxAttempts errors of its own, or after it lost its
\* own worker more than MaxStalled times: a mixture of fewer of each, the faults of
\* other jobs, a former job of the same id, and any number of serialization failures,
\* also those of a worker that no longer owns the job, use up nothing
\* (processJobWrapper delays such a job instead of rethrowing).
NoPrematureFailure ==
  \A sl \in Slots : jobs[sl].state = "failed" =>
    faults.errors[sl] >= MaxAttempts \/ faults.losses[sl] > MaxStalled

\* With keys that live as long as their job (no deduplicationTtl), at most one
\* job of a deduplication id is in the queue, and no two workers own it.
SingleFlight ==
  /\ \A k \in Keys : \A c, d \in Copies :
       jobs[<<k, c>>].state \notin {"none", "failed"} /\ jobs[<<k, d>>].state \notin {"none", "failed"} => c = d
  /\ \A v, w \in Workers : run[v].lock /\ run[w].lock /\ run[v].slot = run[w].slot => v = w
=============================================================================
