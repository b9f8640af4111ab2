--------------------------- MODULE DeliveryProofs ---------------------------
(***************************************************************************)
(* Proofs about Closure under the two deduplication settings.  With a ttl, *)
(* a requested closure is attempted even when files workers are            *)
(* interrupted in their hand-off and 'deduplicated' events are lost.       *)
(* Without one, a deduplication id has one job at a time.                  *)
(***************************************************************************)
EXTENDS ClosureProofs

-----------------------------------------------------------------------------
(* Requested closures, with a ttl *)

\* the queue itself still holds an attempt: no hand-off and no event is relied on
InQueue(id) == \E sl \in Slots : id \in sl[1].ids /\ Unattempted(sl)

\* a sync is made due by a commit whose push may be lost, changesets and files
\* are made due by pushes only
RequestedInQueue == \A id \in owed \cap (Changesets \cup Files) : InQueue(id)

\* a key with a ttl is held by a job still delayed, so what an add swallows is
\* attempted with that job
LEMMA AddInQueue ==
  ASSUME DedupMode = "ttl", StructOK,
         NEW K \in SUBSET Keys, NEW evs \in SUBSET Slots, add(K, evs),
         NEW k \in K, NEW id \in k.ids
  PROVE  InQueue(id)'
<1>1. QueueTypeOK /\ k \in Keys
  BY DEF StructOK, TypeOK
<1>2. CASE dedup[k] = NoCopy
  <2>1. dedup'[k] \in Copies /\ jobs'[<<k, dedup'[k]>>] = NewJob
    BY <1>1, <1>2, AddFacts, QueueAssumption
  <2>2. <<k, dedup'[k]>> \in Slots /\ jobs'[<<k, dedup'[k]>>].state = "delayed"
    BY <1>1, <2>1 DEF Slots, NewJob
  <2>3. \E sl \in Slots : id \in sl[1].ids /\ jobs'[sl].state = "delayed"
    BY <2>2
  <2> QED BY <2>3 DEF InQueue, Unattempted
<1>3. CASE dedup[k] # NoCopy
  <2>1. <<k, dedup[k]>> \in Slots
    BY <1>1, <1>3 DEF QueueTypeOK, Slots
  <2>2. jobs[<<k, dedup[k]>>].state = "delayed"
    BY <1>1, <1>3 DEF StructOK, KeyOK
  <2>3. jobs'[<<k, dedup[k]>>].state = "delayed"
    BY <1>1, <2>1, <2>2, AddFacts
  <2>4. \E sl \in Slots : id \in sl[1].ids /\ jobs'[sl].state = "delayed"
    BY <2>1, <2>3
  <2> QED BY <2>4 DEF InQueue, Unattempted
<1> QED BY <1>2, <1>3

\* an id stays in the queue when its unattempted jobs stay so
LEMMA InQueueKept ==
  ASSUME NEW id, InQueue(id),
         \A sl \in Slots : id \in sl[1].ids /\ Unattempted(sl) => Unattempted(sl)'
  PROVE  InQueue(id)'
  BY DEF InQueue

\* an attempt discharges the ids of its job, and no other job
LEMMA ProcessInQueue ==
  ASSUME StructOK, RequestedInQueue, NEW w \in Workers, run[w].phase = "begin",
         NEW out \in SUBSET Ids, run' = [run EXCEPT ![w] = Committed(w, out)],
         UNCHANGED queue, NEW id \in Attempted(w), id \in Changesets \cup Files
  PROVE  InQueue(id)'
<1>1. /\ run'[w] = Committed(w, out) /\ \A v \in Workers : v # w => run'[v] = run[v]
      /\ jobs' = jobs
  BY DEF StructOK, TypeOK, queue
<1>2. InQueue(id) /\ (run[w].lock => id \notin IdsOf(w))
  BY DEF RequestedInQueue, Attempted
<1>3. ASSUME NEW sl \in Slots, id \in sl[1].ids, Unattempted(sl)
      PROVE  Unattempted(sl)'
  <2>1. ~Holds(w, sl)
    BY <1>2, <1>3 DEF Holds, IdsOf
  <2>2. ~Holds(w, sl)'
    BY <1>1, <2>1, CommittedFacts DEF Holds, StructOK
  <2> QED BY <1>1, <1>3, <2>2, UnattemptedKept DEF Holds
<1> QED BY <1>2, <1>3, InQueueKept

\* a worker that drops its job, in a hand-off or not, leaves it unattempted, or
\* had attempted it before
LEMMA DropInQueue ==
  ASSUME StructOK, NEW w \in Workers, run[w].phase # "idle",
         run' = [run EXCEPT ![w] = Idle],
         \A sl \in Slots : ~Holds(w, sl) => jobs'[sl] = jobs[sl],
         \A sl \in Slots : Holds(w, sl) /\ Unattempted(sl) => Unattempted(sl)',
         NEW id, InQueue(id)
  PROVE  InQueue(id)'
<1>1. run'[w] = Idle /\ \A v \in Workers : v # w => run'[v] = run[v]
  BY DEF StructOK, TypeOK
<1>2. ASSUME NEW sl \in Slots, Unattempted(sl), ~Holds(w, sl)
      PROVE  Unattempted(sl)'
  <2>1. \A v \in Workers : Holds(v, sl)' => Holds(v, sl) /\ run'[v].phase = run[v].phase
    BY <1>1 DEF Holds, Idle
  <2> QED BY <1>2, <2>1, UnattemptedKept
<1> QED BY <1>2, InQueueKept

\* no step of a handler, worker, failure or broker takes a requested id out of the
\* queue before it was attempted
LEMMA RequestedStep ==
  ASSUME DedupMode = "ttl", StructOK, RequestedInQueue, [Next]_vars
  PROVE  RequestedInQueue'
<1> USE DEF RequestedInQueue
<1>a. QueueTypeOK /\ events \in SUBSET Slots /\ TypeOK /\ RunOK /\ LockOK
  BY DEF StructOK, TypeOK, QueueTypeOK
<1>1. ASSUME run' = run, jobs' = jobs, owed' = owed
      PROVE  RequestedInQueue'
  BY <1>1 DEF InQueue, Unattempted, Holds
<1>2. ASSUME NEW S \in {Changesets, Files, Syncs}, NEW ids \in Arrays(S), CreateClosures(ids)
      PROVE  RequestedInQueue'
  <2>1. add(JobsOf(ids), events) /\ run' = run /\ owed' = owed \cup Range(ids)
    BY <1>2 DEF CreateClosures, push, addBulk
  <2>2. JobsOf(ids) \in SUBSET Keys /\ \A id \in Range(ids) : \E k \in JobsOf(ids) : id \in k.ids
    BY JobsOfFacts
  <2>3. ASSUME NEW id \in Range(ids) PROVE InQueue(id)'
    BY <1>a, <2>1, <2>2, AddInQueue
  <2>4. \A sl \in Slots : Unattempted(sl) => Unattempted(sl)'
    BY <1>a, <2>1, <2>2, AddKeeps, UnattemptedKept DEF Holds
  <2>5. \A id \in owed \cap (Changesets \cup Files) : InQueue(id)'
    BY <2>4, InQueueKept
  <2> QED BY <2>1, <2>3, <2>5
<1>3. ASSUME NEW w \in Workers, NEW sl \in Slots, Take(w, sl)
      PROVE  RequestedInQueue'
  <2>1. /\ run'[w] = [slot |-> sl, phase |-> "begin", out |-> {}, lock |-> TRUE]
        /\ \A v \in Workers : v # w => run'[v] = run[v]
        /\ jobs'[sl].state = "active" /\ \A x \in Slots : x # sl => jobs'[x] = jobs[x]
        /\ owed' = owed
    BY <1>3, <1>a DEF Take, TypeOK, QueueTypeOK, Job
  <2>2. \A v \in Workers : ~Holds(v, sl)
    BY <1>3, <1>a DEF Take, RunOK, Holds
  <2>3. Unattempted(sl)'
    BY <2>1, <2>2 DEF Unattempted, Holds
  <2>4. ASSUME NEW x \in Slots, x # sl, Unattempted(x)
        PROVE  Unattempted(x)'
    <3>1. \A v \in Workers : Holds(v, x)' => Holds(v, x) /\ run'[v].phase = run[v].phase
      BY <2>1, <2>4 DEF Holds
    <3> QED BY <2>1, <2>4, <3>1, UnattemptedKept
  <2> QED BY <2>1, <2>3, <2>4, InQueueKept
<1>4. ASSUME NEW w \in Workers, ProcessChangesets(w)
      PROVE  RequestedInQueue'
  <2>1. findFilesByChangesets(IdsOf(w)) \in SUBSET Ids
    BY TablesAssumption DEF findFilesByChangesets, Ids
  <2> QED BY <1>4, <2>1, ProcessInQueue DEF ProcessChangesets, Phase
<1>5. ASSUME NEW w \in Workers, ProcessFile(w)
      PROVE  RequestedInQueue'
  <2> DEFINE f == Handle(w)
             out == IF FileIsClosable(f) THEN {SyncOf[f]} ELSE {}
  <2>1. out \in SUBSET Ids /\ out \cap (Changesets \cup Files) = {}
    BY <1>5, <1>a, RunFacts, TablesAssumption DEF ProcessFile, Phase, Ids
  <2>2. /\ run[w].phase = "begin" /\ run' = [run EXCEPT ![w] = Committed(w, out)]
        /\ owed' = Attempted(w) \cup out /\ UNCHANGED queue
    BY <1>5 DEF ProcessFile, Phase
  <2> HIDE DEF out
  <2>3. \A id \in Attempted(w) \cap (Changesets \cup Files) : InQueue(id)'
    BY <2>1, <2>2, ProcessInQueue
  <2> QED BY <2>1, <2>2, <2>3
<1>6. ASSUME NEW w \in Workers, ProcessSync(w)
      PROVE  RequestedInQueue'
  <2>1. {} \in SUBSET Ids
    OBVIOUS
  <2> QED BY <1>6, <2>1, ProcessInQueue DEF ProcessSync, Phase
<1>7. ASSUME NEW w \in Workers, PushNext(w)
      PROVE  RequestedInQueue'
  <2> DEFINE K == {Single(i) : i \in run[w].out}
  <2>1. K \in SUBSET Keys /\ \A i \in run[w].out : Single(i) \in K /\ i \in Single(i).ids
    BY <1>a DEF Keys, TypeOK, Run, Single
  <2>2. add(K, events) /\ run[w].phase = "push" /\ owed' = owed \cup run[w].out
    BY <1>7 DEF PushNext, addBulk
  <2>3. /\ run'[w].slot = run[w].slot /\ run'[w].lock = run[w].lock /\ run'[w].phase = "end"
        /\ \A v \in Workers : v # w => run'[v] = run[v]
    BY <1>7, <1>a DEF PushNext, TypeOK, Run
  <2> HIDE DEF K
  <2>4. ASSUME NEW id \in run[w].out PROVE InQueue(id)'
    BY <1>a, <2>1, <2>2, AddInQueue
  <2>5. ASSUME NEW sl \in Slots, Unattempted(sl) PROVE Unattempted(sl)'
    <3>1. jobs'[sl] = jobs[sl]
      BY <1>a, <2>1, <2>2, <2>5, AddKeeps
    <3>2. CASE jobs[sl].state # "active"
      BY <2>5, <3>1, <3>2 DEF Unattempted
    <3>3. CASE jobs[sl].state = "active"
      <4>1. ~Holds(w, sl)
        BY <2>2, <2>5, <3>3 DEF Unattempted
      <4>2. \A v \in Workers : Holds(v, sl)' => Holds(v, sl) /\ run'[v].phase = run[v].phase
        BY <2>3, <4>1 DEF Holds
      <4> QED BY <2>5, <3>1, <4>2, UnattemptedKept
    <3> QED BY <3>2, <3>3
  <2>6. \A id \in owed \cap (Changesets \cup Files) : InQueue(id)'
    BY <2>5, InQueueKept
  <2> QED BY <2>2, <2>4, <2>6
<1>8. ASSUME NEW w \in Workers, Complete(w)
      PROVE  RequestedInQueue'
  <2>1. \A sl \in Slots : ~Holds(w, sl) => jobs'[sl] = jobs[sl]
    BY <1>8, <1>a DEF Complete, Holds, QueueTypeOK
  <2>2. \A sl \in Slots : Holds(w, sl) => ~Unattempted(sl)
    BY <1>8, <1>a DEF Complete, Unattempted, RunOK, Holds
  <2> QED BY <1>8, <2>1, <2>2, DropInQueue DEF Complete
<1>9. ASSUME NEW w \in Workers, TransactionFailure(w)
      PROVE  RequestedInQueue'
  <2>1. run[w].slot \in Slots /\ run[w].phase = "begin"
    BY <1>9, <1>a, RunFacts DEF TransactionFailure, TransactionAborts
  <2>2. PICK sl \in Slots : sl = run[w].slot
    BY <2>1
  <2>3. CASE jobs[sl].state = "active"
    <3>1. /\ jobs' = [jobs EXCEPT ![sl].state = "delayed"]
          /\ run' = [LosingLock(sl) EXCEPT ![w] = Idle]
          /\ owed' = owed \cup sl[1].ids
      BY <1>9, <2>2, <2>3 DEF TransactionFailure, TransactionAborts
    <3>2. jobs'[sl].state = "delayed" /\ \A x \in Slots : x # sl => jobs'[x] = jobs[x]
      BY <1>a, <3>1 DEF QueueTypeOK, Job
    <3>3. run'[w] = Idle /\ \A v \in Workers : v # w => run'[v] = LosingLock(sl)[v]
      BY <1>a, <3>1, LosingLockFacts
    <3>4. Unattempted(sl)'
      BY <3>2 DEF Unattempted
    <3>5. ASSUME NEW x \in Slots, x # sl, Unattempted(x) PROVE Unattempted(x)'
      <4>1. \A v \in Workers : Holds(v, x)' => Holds(v, x) /\ run'[v].phase = run[v].phase
        BY <1>a, <3>3, LosingLockFacts DEF Holds, Idle
      <4> QED BY <3>2, <3>5, <4>1, UnattemptedKept
    <3>6. \A id \in owed \cap (Changesets \cup Files) : InQueue(id)'
      BY <3>4, <3>5, InQueueKept
    <3>7. \A id \in sl[1].ids : InQueue(id)'
      BY <3>4 DEF InQueue
    <3> QED BY <3>1, <3>6, <3>7
  <2>4. CASE jobs[sl].state # "active"
    <3>1. run' = [run EXCEPT ![w] = Idle] /\ jobs' = jobs /\ owed' = owed
      BY <1>9, <2>2, <2>4 DEF TransactionFailure, TransactionAborts
    <3>2. \A x \in Slots : ~Holds(w, x)
      BY <1>a, <2>2, <2>4 DEF Holds, RunOK
    <3> QED BY <2>1, <3>1, <3>2, DropInQueue
  <2> QED BY <2>3, <2>4
<1>10. ASSUME NEW w \in Workers, ProcessError(w)
       PROVE  RequestedInQueue'
  <2> DEFINE sl == run[w].slot
  <2>1. /\ sl \in Slots /\ jobs[sl] \in Job /\ run[w].phase # "idle"
        /\ run' = [run EXCEPT ![w] = Idle]
    BY <1>10, <1>a, RunFacts DEF ProcessError
  <2>2. \A x \in Slots : ~Holds(w, x) => jobs'[x] = jobs[x]
    BY <1>10, <1>a DEF ProcessError, Holds, QueueTypeOK
  <2>3. run[w].lock => jobs'[sl].state \in {"delayed", "failed"} /\ owed' = owed \cup sl[1].ids
    <3> SUFFICES ASSUME run[w].lock PROVE jobs'[sl].state \in {"delayed", "failed"} /\ owed' = owed \cup sl[1].ids
      OBVIOUS
    <3>1. jobs' = [jobs EXCEPT ![sl] = Retried(jobs[sl])] /\ owed' = owed \cup sl[1].ids
      BY <1>10 DEF ProcessError
    <3> QED BY <1>a, <2>1, <3>1, JobFacts DEF QueueTypeOK
  <2>4. ~run[w].lock => owed' = owed
    BY <1>10 DEF ProcessError
  <2>5. \A x \in Slots : Holds(w, x) => Unattempted(x)'
    BY <2>3 DEF Holds, Unattempted
  <2>6. \A id \in owed \cap (Changesets \cup Files) : InQueue(id)'
    BY <2>1, <2>2, <2>5, DropInQueue
  <2>7. run[w].lock => \A id \in sl[1].ids : InQueue(id)'
    BY <2>1, <2>5 DEF InQueue, Holds
  <2> QED BY <2>3, <2>4, <2>6, <2>7
<1>11. ASSUME NEW w \in Workers, Crash(w)
       PROVE  RequestedInQueue'
  <2> DEFINE sl == run[w].slot
  <2>1. /\ sl \in Slots /\ run[w].phase # "idle"
        /\ jobs' = jobs /\ run' = [run EXCEPT ![w] = Idle]
        /\ owed' = IF run[w].lock THEN owed \cup sl[1].ids ELSE owed
    BY <1>11, <1>a, RunFacts DEF Crash, queue, IdsOf
  <2>2. ASSUME NEW x \in Slots, Holds(w, x) PROVE Unattempted(x)'
    <3>1. jobs'[x].state = "active"
      BY <1>a, <2>1, <2>2 DEF RunOK, Holds
    <3>2. \A v \in Workers : ~Holds(v, x)'
      BY <1>a, <2>1, <2>2 DEF LockOK, Holds, Idle, TypeOK
    <3> QED BY <3>1, <3>2 DEF Unattempted
  <2>3. \A id \in owed \cap (Changesets \cup Files) : InQueue(id)'
    BY <2>1, <2>2, DropInQueue
  <2>4. run[w].lock => \A id \in sl[1].ids : InQueue(id)'
    BY <2>1, <2>2 DEF InQueue, Holds
  <2> QED BY <2>1, <2>3, <2>4
<1>12. ASSUME NEW sl \in Slots, StallOrphan(sl) \/ StallSlow(sl)
       PROVE  RequestedInQueue'
  <2>1. /\ jobs' = [jobs EXCEPT ![sl] = Stalled(jobs[sl])] /\ jobs[sl] \in Job
        /\ run' = run \/ run' = LosingLock(sl)
        /\ owed' = owed \cup sl[1].ids
    BY <1>12, <1>a DEF StallOrphan, StallSlow, QueueTypeOK
  <2>2. jobs'[sl].state \in {"wait", "failed"} /\ \A x \in Slots : x # sl => jobs'[x] = jobs[x]
    BY <1>a, <2>1, JobFacts DEF QueueTypeOK
  <2>3. Unattempted(sl)'
    BY <2>2 DEF Unattempted
  <2>4. \A v \in Workers : /\ run'[v].slot = run[v].slot /\ run'[v].phase = run[v].phase
                           /\ (run'[v].lock => run[v].lock)
    BY <1>a, <2>1, LosingLockFacts
  <2>5. ASSUME NEW x \in Slots, x # sl, Unattempted(x) PROVE Unattempted(x)'
    BY <2>2, <2>4, <2>5, UnattemptedKept DEF Holds
  <2>6. \A id \in owed \cap (Changesets \cup Files) : InQueue(id)'
    BY <2>3, <2>5, InQueueKept
  <2>7. \A id \in sl[1].ids : InQueue(id)'
    BY <2>3 DEF InQueue
  <2> QED BY <2>1, <2>6, <2>7
<1>13. ASSUME NEW sl \in Slots, Promote(sl), KeepRest
       PROVE  RequestedInQueue'
  <2>1. /\ jobs'[sl].state = "wait" /\ \A x \in Slots : x # sl => jobs'[x] = jobs[x]
        /\ run' = run /\ owed' = owed
    BY <1>13, <1>a DEF Promote, KeepRest, QueueTypeOK, Job
  <2>2. \A x \in Slots : Unattempted(x) => Unattempted(x)'
    BY <2>1, UnattemptedKept DEF Unattempted, Holds
  <2> QED BY <2>1, <2>2, InQueueKept
<1>14. ASSUME NEW sl \in Slots, changeJobDelay(sl), KeepRest
       PROVE  RequestedInQueue'
  <2>1. run' = run /\ owed' = owed
    BY <1>14 DEF KeepRest
  <2>2. CASE events' = events \ {sl} /\ UNCHANGED <<jobs, dedup>>
    BY <1>1, <2>1, <2>2
  <2>3. CASE add({sl[1]}, events \ {sl})
    <3>1. add({sl[1]}, events \ {sl}) /\ {sl[1]} \in SUBSET Keys /\ events \ {sl} \in SUBSET Slots
      BY <1>a, <2>3, SlotFacts
    <3>2. \A x \in Slots : Unattempted(x) => Unattempted(x)'
      BY <2>1, <3>1, AddKeeps, UnattemptedKept DEF Holds
    <3> QED BY <2>1, <3>2, InQueueKept
  <2> QED BY <1>14, <2>2, <2>3 DEF changeJobDelay
<1> QED
  <2>1. ASSUME NEW e \in Entities, NEW st \in EntityStatus, NEW c \in Changesets \cup {changesetOf[e]},
               UpdateEntity(e, st, c)
        PROVE  RequestedInQueue'
    BY <1>1, <2>1 DEF UpdateEntity, queue
  <2>2. ASSUME NEW c \in Changesets, UpdateChangesetEntities(c)
        PROVE  RequestedInQueue'
    BY <1>1, <2>2 DEF UpdateChangesetEntities, queue
  <2>3. ASSUME NEW f \in Files, UpdateFile(f, Cardinality(EntitiesOf(f)))
        PROVE  RequestedInQueue'
    BY <1>1, <2>3 DEF UpdateFile, queue
  <2>4. ASSUME NEW s \in Syncs, NEW st \in Status, UpdateSync(s, st, Cardinality(FilesOf(s)))
        PROVE  RequestedInQueue'
    BY <1>1, <2>4 DEF UpdateSync, queue
  <2>5. ASSUME NEW k \in Keys, ExpireKey(k), KeepRest
        PROVE  RequestedInQueue'
    BY <1>1, <2>5 DEF ExpireKey, KeepRest
  <2>6. ASSUME NEW sl \in Slots, LoseEvent(sl)
        PROVE  RequestedInQueue'
    BY <1>1, <2>6 DEF LoseEvent
  <2>7. CASE UNCHANGED vars
    BY <1>1, <2>7 DEF vars, queue
  <2> HIDE DEF RequestedInQueue
  <2> QED
    BY <1>2, <1>3, <1>4, <1>5, <1>6, <1>7, <1>8, <1>9, <1>10, <1>11, <1>12, <1>13, <1>14,
       <2>1, <2>2, <2>3, <2>4, <2>5, <2>6, <2>7
       DEF Next, Client, Broker, Work, Failures

\* A changeset or file closure that was answered 201, or that a changesets worker
\* pushed, is attempted after it was asked for: with a ttl whatever fails and
\* whichever events are lost, without one while SafeDelivery holds.
THEOREM RequestAttempted ==
  ASSUME DedupMode = "ttl" \/ SafeDelivery
  PROVE  Spec => []RequestedClosureIsAttempted
<1>1. CASE SafeDelivery
  <2>1. NoLostClosure => RequestedClosureIsAttempted
    BY DEF NoLostClosure, RequestedClosureIsAttempted
  <2> QED BY <1>1, <2>1, ClosureNotLost, PTL
<1>2. CASE DedupMode = "ttl"
  <2>1. Init => RequestedInQueue
    BY DEF Init, RequestedInQueue
  <2>2. StructOK /\ RequestedInQueue /\ [Next]_vars => RequestedInQueue'
    BY <1>2, RequestedStep
  <2>3. RequestedInQueue => RequestedClosureIsAttempted
    BY DEF RequestedInQueue, InQueue, RequestedClosureIsAttempted, Pending
  <2> QED BY <2>1, <2>2, <2>3, StructCorrect, PTL DEF Spec
<1> QED BY <1>1, <1>2
-----------------------------------------------------------------------------
(* One job at a time, without a ttl *)

\* a job that is in the queue
Live(sl) == jobs[sl].state \notin {"none", "failed"}

\* a job in the queue holds the key of its deduplication id
HolderOK == \A sl \in Slots : Live(sl) => dedup[sl[1]] = sl[2]

\* steps that take no key away and bring no job into the queue
LEMMA HolderKept ==
  ASSUME HolderOK, dedup' = dedup, \A sl \in Slots : Live(sl)' => Live(sl)
  PROVE  HolderOK'
  BY DEF HolderOK

\* a job that is added takes the key nobody held, so no other job of it is there
LEMMA HolderAdd ==
  ASSUME TypeOK, HolderOK, NEW K \in SUBSET Keys, NEW evs \in SUBSET Slots, add(K, evs)
  PROVE  HolderOK'
<1> SUFFICES ASSUME NEW sl \in Slots, Live(sl)' PROVE dedup'[sl[1]] = sl[2]
  BY DEF HolderOK
<1>1. sl[1] \in Keys /\ sl[2] \in Copies
  BY SlotFacts
<1>2. CASE sl[1] \in Accepted(K) /\ sl[2] = FreeCopy(sl[1])
  BY <1>1, <1>2 DEF add
<1>3. CASE ~(sl[1] \in Accepted(K) /\ sl[2] = FreeCopy(sl[1]))
  <2>1. Live(sl)
    BY <1>3 DEF add, Live
  <2>2. dedup[sl[1]] = sl[2]
    BY <2>1 DEF HolderOK
  <2>3. sl[1] \notin Accepted(K)
    BY <1>1, <2>2, QueueAssumption DEF Accepted
  <2> QED BY <1>1, <2>2, <2>3 DEF add
<1> QED BY <1>2, <1>3

\* a job that leaves the queue gives back its own key and no other
LEMMA HolderFinish ==
  ASSUME QueueTypeOK, HolderOK, NEW sl \in Slots,
         \A x \in Slots : x # sl => jobs'[x] = jobs[x],
         \/ dedup' = KeyAfterFinish(sl) /\ ~Live(sl)'
         \/ dedup' = dedup /\ (Live(sl)' => Live(sl))
  PROVE  HolderOK'
<1>1. ASSUME NEW x \in Slots, x # sl, Live(x) PROVE dedup'[x[1]] = x[2]
  <2>1. dedup[x[1]] = x[2] /\ x[1] \in Keys /\ sl[1] \in Keys
    BY <1>1, SlotFacts DEF HolderOK
  <2>2. x[1] = sl[1] => dedup[sl[1]] # sl[2]
    BY <1>1, <2>1, SlotFacts
  <2> QED BY <2>1, <2>2 DEF KeyAfterFinish, QueueTypeOK
<1>2. \A x \in Slots : x # sl /\ Live(x)' => Live(x)
  BY DEF Live
<1>3. Live(sl)' => dedup'[sl[1]] = sl[2]
  BY DEF HolderOK
<1> QED BY <1>1, <1>2, <1>3 DEF HolderOK

\* no step brings a second job of a key into the queue
LEMMA HolderStep ==
  ASSUME DedupMode = "simple", StructOK, HolderOK, [Next]_vars
  PROVE  HolderOK'
<1>a. QueueTypeOK /\ events \in SUBSET Slots /\ TypeOK /\ RunOK
  BY DEF StructOK, TypeOK, QueueTypeOK
<1>1. ASSUME UNCHANGED <<jobs, dedup>>
      PROVE  HolderOK'
  BY <1>1 DEF HolderOK, Live
<1>2. ASSUME NEW S \in {Changesets, Files, Syncs}, NEW ids \in Arrays(S), CreateClosures(ids)
      PROVE  HolderOK'
  BY <1>2, <1>a, JobsOfFacts, HolderAdd DEF CreateClosures, push, addBulk
<1>3. ASSUME NEW w \in Workers, NEW sl \in Slots, Take(w, sl)
      PROVE  HolderOK'
  <2>1. dedup' = dedup /\ \A x \in Slots : Live(x)' => Live(x)
    BY <1>3, <1>a DEF Take, Live, QueueTypeOK
  <2> QED BY <2>1, HolderKept
<1>4. ASSUME NEW w \in Workers, PushNext(w)
      PROVE  HolderOK'
  <2>1. {Single(i) : i \in run[w].out} \in SUBSET Keys
    BY <1>a DEF Keys, TypeOK, Run
  <2> QED BY <1>4, <1>a, <2>1, HolderAdd DEF PushNext, addBulk
<1>5. ASSUME NEW w \in Workers, Complete(w) \/ ProcessError(w)
      PROVE  HolderOK'
  <2>1. run[w].slot \in Slots
    BY <1>5, <1>a, RunFacts DEF Complete, ProcessError
  <2>2. PICK sl \in Slots : sl = run[w].slot
    BY <2>1
  <2>3. CASE ~run[w].lock
    BY <1>1, <1>5, <2>3 DEF Complete, ProcessError
  <2>4. CASE run[w].lock
    <3>1. Live(sl)
      BY <1>a, <2>2, <2>4 DEF RunOK, Live
    <3>2. /\ \A x \in Slots : x # sl => jobs'[x] = jobs[x]
          /\ \/ jobs'[sl] = NoJob /\ dedup' = KeyAfterFinish(sl)
             \/ jobs'[sl] = Retried(jobs[sl]) /\ dedup' = KeyAfter(sl, Retried(jobs[sl]))
      BY <1>5, <1>a, <2>2, <2>4 DEF Complete, ProcessError, QueueTypeOK
    <3>3. \/ dedup' = KeyAfterFinish(sl) /\ ~Live(sl)'
          \/ dedup' = dedup /\ (Live(sl)' => Live(sl))
      BY <3>1, <3>2 DEF KeyAfter, Live, NoJob
    <3> QED BY <1>a, <3>2, <3>3, HolderFinish
  <2> QED BY <2>3, <2>4
<1>6. ASSUME NEW w \in Workers, TransactionFailure(w)
      PROVE  HolderOK'
  <2>1. run[w].slot \in Slots
    BY <1>6, <1>a, RunFacts DEF TransactionFailure, TransactionAborts
  <2>2. dedup' = dedup /\ \A x \in Slots : Live(x)' => Live(x)
    BY <1>6, <1>a, <2>1 DEF TransactionFailure, Live, QueueTypeOK
  <2> QED BY <2>2, HolderKept
<1>7. ASSUME NEW sl \in Slots, StallOrphan(sl) \/ StallSlow(sl)
      PROVE  HolderOK'
  <2>1. Live(sl)
    BY <1>7, <1>a DEF StallOrphan, StallSlow, Holds, RunOK, Live
  <2>2. /\ \A x \in Slots : x # sl => jobs'[x] = jobs[x]
        /\ jobs'[sl] = Stalled(jobs[sl]) /\ dedup' = KeyAfter(sl, Stalled(jobs[sl]))
    BY <1>7, <1>a DEF StallOrphan, StallSlow, QueueTypeOK
  <2>3. \/ dedup' = KeyAfterFinish(sl) /\ ~Live(sl)'
        \/ dedup' = dedup /\ (Live(sl)' => Live(sl))
    BY <2>1, <2>2 DEF KeyAfter, Live
  <2> QED BY <1>a, <2>2, <2>3, HolderFinish
<1>8. ASSUME NEW sl \in Slots, Promote(sl), KeepRest
      PROVE  HolderOK'
  <2>1. dedup' = dedup /\ \A x \in Slots : Live(x)' => Live(x)
    BY <1>8, <1>a DEF Promote, Live, QueueTypeOK
  <2> QED BY <2>1, HolderKept
<1>9. ASSUME NEW sl \in Slots, changeJobDelay(sl), KeepRest
      PROVE  HolderOK'
  <2>1. CASE events' = events \ {sl} /\ UNCHANGED <<jobs, dedup>>
    BY <1>1, <2>1
  <2>2. CASE add({sl[1]}, events \ {sl})
    <3>1. add({sl[1]}, events \ {sl}) /\ {sl[1]} \in SUBSET Keys /\ events \ {sl} \in SUBSET Slots
      BY <1>a, <2>2, SlotFacts
    <3> QED BY <1>a, <3>1, HolderAdd
  <2> QED BY <1>9, <2>1, <2>2 DEF changeJobDelay
<1>10. ASSUME NEW k \in Keys, ExpireKey(k) PROVE HolderOK'
  BY <1>10 DEF ExpireKey
<1>11. ASSUME NEW w \in Workers, ProcessChangesets(w) \/ ProcessFile(w) \/ ProcessSync(w) \/ Crash(w)
       PROVE  HolderOK'
  BY <1>1, <1>11 DEF ProcessChangesets, ProcessFile, ProcessSync, Crash, queue
<1> QED
  <2>1. ASSUME NEW e \in Entities, NEW st \in EntityStatus, NEW c \in Changesets \cup {changesetOf[e]},
               UpdateEntity(e, st, c)
        PROVE  HolderOK'
    BY <1>1, <2>1 DEF UpdateEntity, queue
  <2>2. ASSUME NEW c \in Changesets, UpdateChangesetEntities(c)
        PROVE  HolderOK'
    BY <1>1, <2>2 DEF UpdateChangesetEntities, queue
  <2>3. ASSUME NEW f \in Files, UpdateFile(f, Cardinality(EntitiesOf(f)))
        PROVE  HolderOK'
    BY <1>1, <2>3 DEF UpdateFile, queue
  <2>4. ASSUME NEW s \in Syncs, NEW st \in Status, UpdateSync(s, st, Cardinality(FilesOf(s)))
        PROVE  HolderOK'
    BY <1>1, <2>4 DEF UpdateSync, queue
  <2>5. ASSUME NEW sl \in Slots, LoseEvent(sl)
        PROVE  HolderOK'
    BY <1>1, <2>5 DEF LoseEvent
  <2>6. CASE UNCHANGED vars
    BY <1>1, <2>6 DEF vars, queue
  <2> QED
    BY <1>2, <1>3, <1>4, <1>5, <1>6, <1>7, <1>8, <1>9, <1>10, <1>11,
       <2>1, <2>2, <2>3, <2>4, <2>5, <2>6
       DEF Next, Client, Broker, Work, Failures

\* Without a deduplicationTtl a changeset, file or sync has at most one job in the
\* queue, whatever is retried, stalled or added again by the 'deduplicated'
\* listener, and no two workers own it.
THEOREM OneJobAtATime ==
  ASSUME DedupMode = "simple"
  PROVE  Spec => []SingleFlight
<1>1. Init => HolderOK
  BY DEF Init, QueueInit, HolderOK, Live, NoJob
<1>2. StructOK /\ HolderOK /\ [Next]_vars => HolderOK'
  BY HolderStep
<1>3. StructOK /\ HolderOK => SingleFlight
  <2> SUFFICES ASSUME StructOK, HolderOK PROVE SingleFlight
    OBVIOUS
  <2>1. ASSUME NEW k \in Keys, NEW c \in Copies, NEW d \in Copies,
               Live(<<k, c>>), Live(<<k, d>>)
        PROVE  c = d
    <3>1. <<k, c>> \in Slots /\ <<k, d>> \in Slots
      BY DEF Slots
    <3> QED BY <2>1, <3>1 DEF HolderOK
  <2>2. ASSUME NEW v \in Workers, NEW w \in Workers, run[v].lock, run[w].lock,
               run[v].slot = run[w].slot
        PROVE  v = w
    <3>1. run[v].slot \in Slots
      BY <2>2 DEF StructOK, RunOK
    <3> QED BY <2>2, <3>1 DEF StructOK, LockOK, Holds
  <2> QED BY <2>1, <2>2 DEF SingleFlight, Live
<1> QED BY <1>1, <1>2, <1>3, StructCorrect, PTL DEF Spec
=============================================================================
