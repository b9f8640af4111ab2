--------------------------- MODULE ClosureProofs ----------------------------
(***************************************************************************)
(* Proofs about Closure, for any tables, any number of workers and any     *)
(* bounds: type correctness, that no job fails before its attempts are     *)
(* used up, and that no closure is lost.                                   *)
(***************************************************************************)
EXTENDS Closure, FiniteSetTheorems, TLAPS

-----------------------------------------------------------------------------
(* The inductive invariant *)

\* a busy worker works on a job of its own queue; a worker that owns a job finds
\* it active, and nobody else owns it
RunOK ==
  \A w \in Workers :
    /\ run[w].phase = "idle" => run[w].slot = NoSlot /\ ~run[w].lock
    /\ run[w].phase # "idle" => run[w].slot \in Slots /\ Queue(run[w].slot[1]) = QueueOf[w]
    /\ run[w].lock => jobs[run[w].slot].state = "active"

LockOK == \A v, w \in Workers : \A sl \in Slots : Holds(v, sl) /\ Holds(w, sl) => v = w

\* a key with a ttl belongs to a job that has not left its first delay
KeyOK == DedupMode = "ttl" =>
           \A k \in Keys : dedup[k] # NoCopy => jobs[<<k, dedup[k]>>].state = "delayed"

StructOK == TypeOK /\ RunOK /\ LockOK /\ KeyOK

-----------------------------------------------------------------------------
(* Facts about keys, slots and pushes *)

\* a slot is a pair of a deduplication key and a copy
LEMMA SlotFacts ==
  ASSUME NEW sl \in Slots
  PROVE  sl[1] \in Keys /\ sl[2] \in Copies /\ sl = <<sl[1], sl[2]>>
  BY DEF Slots

\* a key carries at least one id, and the ids of a files job are files
LEMMA KeyFacts ==
  ASSUME NEW k \in Keys
  PROVE  /\ k.ids \subseteq Ids /\ k.ids # {}
         /\ Queue(k) = "files" => k.ids \subseteq Files
  BY DEF Keys, Single, Batch, Ids, Queue

\* an add that finds room puts its job into a free slot
LEMMA FreeCopyFacts ==
  ASSUME NEW k, FreeCopies(k) # {}
  PROVE  FreeCopy(k) \in Copies /\ jobs[<<k, FreeCopy(k)>>].state = "none"
  BY DEF FreeCopies, FreeCopy

\* an add touches free slots only, and its keys end up held
LEMMA AddFacts ==
  ASSUME QueueTypeOK, NEW K \in SUBSET Keys, NEW evs \in SUBSET Slots, add(K, evs)
  PROVE  /\ QueueTypeOK'
         /\ \A sl \in Slots : jobs[sl].state # "none" => jobs'[sl] = jobs[sl]
         /\ \A sl \in Slots : jobs'[sl] \in {jobs[sl], NewJob}
         /\ \A k \in Keys : k \notin K => dedup'[k] = dedup[k]
         /\ \A k \in K : \/ dedup[k] = NoCopy /\ dedup'[k] \in Copies /\ jobs'[<<k, dedup'[k]>>] = NewJob
                         \/ dedup[k] \in Copies /\ dedup'[k] = dedup[k]
                            /\ (DedupDelay => <<k, dedup[k]>> \in events')
         /\ evs \subseteq events'
<1>1. \A k \in Accepted(K) : FreeCopy(k) \in Copies /\ jobs[<<k, FreeCopy(k)>>].state = "none"
  BY FreeCopyFacts DEF add
<1>2. NewJob \in Job
  BY DEF NewJob, Job
<1>3. \A k \in K \ Accepted(K) : dedup[k] \in Copies
  BY DEF Accepted, QueueTypeOK
<1>4. QueueTypeOK'
  <2>1. jobs' \in [Slots -> Job]
    BY <1>2 DEF add, QueueTypeOK
  <2>2. dedup' \in [Keys -> Copies \cup {NoCopy}]
    BY <1>1 DEF add, QueueTypeOK
  <2>3. events' \subseteq Slots
    BY <1>3 DEF add, Deduplicated, Slots
  <2> QED BY <2>1, <2>2, <2>3 DEF QueueTypeOK
<1>5. \A sl \in Slots : jobs[sl].state # "none" => jobs'[sl] = jobs[sl]
  BY <1>1, SlotFacts DEF add
<1>6. \A sl \in Slots : jobs'[sl] \in {jobs[sl], NewJob}
  BY DEF add
<1>7. \A k \in Keys : k \notin K => dedup'[k] = dedup[k]
  BY DEF add, Accepted
<1>8. ASSUME NEW k \in K
      PROVE \/ dedup[k] = NoCopy /\ dedup'[k] \in Copies /\ jobs'[<<k, dedup'[k]>>] = NewJob
            \/ dedup[k] \in Copies /\ dedup'[k] = dedup[k]
               /\ (DedupDelay => <<k, dedup[k]>> \in events')
  <2>1. CASE k \in Accepted(K)
    <3>1. <<k, FreeCopy(k)>> \in Slots
      BY <1>1, <2>1 DEF Slots
    <3>2. dedup'[k] = FreeCopy(k)
      BY <2>1 DEF add
    <3> QED BY <1>1, <2>1, <3>1, <3>2 DEF add, Accepted
  <2>2. CASE k \notin Accepted(K)
    BY <1>3, <2>2 DEF add, Deduplicated
  <2> QED BY <2>1, <2>2
<1>9. evs \subseteq events'
  BY DEF add, Deduplicated
<1> QED BY <1>4, <1>5, <1>6, <1>7, <1>8, <1>9

\* every element of an array is in one of its slices
LEMMA SliceOf ==
  ASSUME NEW n \in Nat, NEW m \in 1..n
  PROVE  \E i \in 0..(n - 1) : /\ i % MaxBatchSize = 0 /\ i + 1 <= m
                               /\ m <= i + MaxBatchSize
<1> DEFINE r == (m - 1) % MaxBatchSize
<1>1. MaxBatchSize \in Nat /\ MaxBatchSize > 0
  BY QueueAssumption
<1>2. r \in 0..(MaxBatchSize - 1) /\ m - 1 = MaxBatchSize * ((m - 1) \div MaxBatchSize) + r
  BY <1>1
<1>3. ((m - 1) - r) % MaxBatchSize = 0
  BY <1>1, <1>2
<1>4. (m - 1) - r \in 0..(n - 1)
  BY <1>1, <1>2
<1> QED BY <1>1, <1>2, <1>3, <1>4

\* a slice of a sequence, element by element
LEMMA SubSeqIs ==
  ASSUME NEW S, NEW s \in Seq(S), NEW a \in Nat, NEW b \in Nat, a <= b, b <= Len(s)
  PROVE  SubSeq(s, a + 1, b) = [j \in 1..(b - a) |-> s[a + j]]
  OBVIOUS

\* the jobs of a closure request cover every requested id
LEMMA JobsOfFacts ==
  ASSUME NEW S \in {Changesets, Files, Syncs}, NEW ids \in Arrays(S)
  PROVE  /\ Range(ids) \subseteq Ids
         /\ JobsOf(ids) \subseteq Keys
         /\ \A id \in Range(ids) : \E k \in JobsOf(ids) : id \in k.ids
<1>1. PICK I \in (SUBSET S) \ {{}} : ids \in [1..Cardinality(I) -> I] /\ Range(ids) = I
  BY DEF Arrays
<1>2. I \subseteq Ids
  BY <1>1 DEF Ids
<1>3. CASE Len(ids) = 1 \/ ~(Range(ids) \subseteq Changesets)
  <2>1. JobsOf(ids) = {Single(i) : i \in I}
    BY <1>1, <1>3 DEF JobsOf
  <2>2. \A i \in I : Single(i) \in JobsOf(ids) /\ i \in Single(i).ids
    BY <2>1 DEF Single
  <2>3. JobsOf(ids) \subseteq Keys
    BY <1>2, <2>1 DEF Keys
  <2> QED BY <1>1, <1>2, <2>2, <2>3
<1>4. CASE ~(Len(ids) = 1 \/ ~(Range(ids) \subseteq Changesets))
  <2>1. JobsOf(ids) = {Batch(Range(slice)) : slice \in Slices(ids)} /\ I \subseteq Changesets
    BY <1>1, <1>4 DEF JobsOf
  <2> DEFINE n == Len(ids)
             Hi(i) == IF i + MaxBatchSize < n THEN i + MaxBatchSize ELSE n
             Slice(i) == SubSeq(ids, i + 1, Hi(i))
             Starts == {x \in 0..(n - 1) : x % MaxBatchSize = 0}
  <2>2. Slices(ids) = {Slice(i) : i \in Starts}
    BY DEF Slices
  <2>3. ids \in Seq(I) /\ n \in Nat /\ DOMAIN ids = 1..n /\ Range(ids) = {ids[m] : m \in 1..n}
    <3>1. ids \in Seq(I)
      <4>1. Cardinality(I) \in Nat
        BY <2>1, TablesAssumption, FS_Subset, FS_CardinalityType
      <4> QED BY <1>1, <4>1
    <3> QED BY <3>1 DEF Range
  <2>3a. \A i \in Starts : i \in Nat /\ Hi(i) \in Nat /\ i <= Hi(i) /\ Hi(i) <= n
    BY <2>3, QueueAssumption
  <2>3b. \A i \in Starts : Slice(i) = [j \in 1..(Hi(i) - i) |-> ids[i + j]]
    <3> HIDE DEF Hi, Starts
    <3> QED BY <2>3, <2>3a, SubSeqIs
  <2>4. \A i \in Starts : \A m \in (i + 1)..Hi(i) : ids[m] \in Range(Slice(i))
    <3> TAKE i \in Starts
    <3> TAKE m \in (i + 1)..Hi(i)
    <3>1. Slice(i) = [j \in 1..(Hi(i) - i) |-> ids[i + j]]
      BY <2>3b
    <3>2. m - i \in 1..(Hi(i) - i) /\ Slice(i)[m - i] = ids[m]
      BY <2>3, <3>1, QueueAssumption
    <3> QED BY <3>1, <3>2 DEF Range
  <2>5. \A i \in Starts : Range(Slice(i)) \subseteq I /\ Range(Slice(i)) # {}
    <3> TAKE i \in Starts
    <3>1. Slice(i) = [j \in 1..(Hi(i) - i) |-> ids[i + j]]
      BY <2>3b
    <3>2. \A j \in 1..(Hi(i) - i) : ids[i + j] \in I
      BY <2>3, QueueAssumption
    <3>3. Range(Slice(i)) \subseteq I
      <4> HIDE DEF Slice, Hi
      <4> QED BY <3>1, <3>2 DEF Range
    <3>4. i + 1 \in (i + 1)..Hi(i)
      BY <2>3, QueueAssumption
    <3>5. ids[i + 1] \in Range(Slice(i))
      BY <2>4, <3>4
    <3> QED BY <3>3, <3>5
  <2>6. JobsOf(ids) \subseteq Keys
    BY <2>1, <2>2, <2>5 DEF Keys
  <2>7. ASSUME NEW id \in Range(ids) PROVE \E k \in JobsOf(ids) : id \in k.ids
    <3>1. PICK m \in 1..n : id = ids[m]
      BY <2>3
    <3>2. PICK i \in Starts : i + 1 <= m /\ m <= i + MaxBatchSize
      BY <2>3, SliceOf
    <3>3. m \in (i + 1)..Hi(i)
      BY <2>3, <3>2, QueueAssumption
    <3>4. id \in Batch(Range(Slice(i))).ids
      BY <2>4, <3>1, <3>3 DEF Batch
    <3> QED BY <2>1, <2>2, <3>4
  <2> QED BY <1>1, <1>2, <2>6, <2>7
<1> QED BY <1>1, <1>2, <1>3, <1>4

-----------------------------------------------------------------------------
(* Type correctness *)

\* the jobs a retry or a stall leaves behind
LEMMA JobFacts ==
  ASSUME NEW j \in Job
  PROVE  /\ Retried(j) \in Job /\ Retried(j).state \in {"delayed", "failed"}
         /\ Stalled(j) \in Job /\ Stalled(j).state \in {"wait", "failed"}
         /\ Retried(j).attempts = j.attempts + 1 /\ Retried(j).stalls = j.stalls
         /\ Stalled(j).attempts = j.attempts /\ Stalled(j).stalls = j.stalls + 1
         /\ Retried(j).state = "failed" => j.attempts + 1 >= MaxAttempts
         /\ Stalled(j).state = "failed" => j.stalls >= MaxStalled
<1>1. j.attempts \in Nat /\ j.stalls \in Nat /\ MaxAttempts \in Nat /\ MaxStalled \in Nat
  BY QueueAssumption DEF Job
<1>2. Retried(j) \in Job /\ Stalled(j) \in Job
  BY <1>1 DEF Retried, Stalled, Job
<1> QED BY <1>1, <1>2 DEF Retried, Stalled

\* a fault adds one to the errors or losses of the jobs it is about and to no other's
LEMMA FaultFacts ==
  ASSUME faults \in Faults, NEW E, NEW L, Fault(E, L)
  PROVE  /\ faults' \in Faults
         /\ \A sl \in Slots :
              /\ faults'.errors[sl] = IF sl \in E THEN faults.errors[sl] + 1 ELSE faults.errors[sl]
              /\ faults'.losses[sl] = IF sl \in L THEN faults.losses[sl] + 1 ELSE faults.losses[sl]
<1>1. /\ faults.total \in Nat
      /\ \A sl \in Slots : faults.errors[sl] \in Nat /\ faults.losses[sl] \in Nat
  BY DEF Faults
<1> QED BY <1>1 DEF Fault, Faults

\* a completed job takes its history along
LEMMA ForgottenFacts ==
  ASSUME faults \in Faults, NEW S
  PROVE  /\ Forgotten(S) \in Faults
         /\ \A sl \in Slots : sl \notin S =>
              Forgotten(S).errors[sl] = faults.errors[sl] /\ Forgotten(S).losses[sl] = faults.losses[sl]
<1>1. /\ faults.total \in Nat
      /\ \A sl \in Slots : faults.errors[sl] \in Nat /\ faults.losses[sl] \in Nat
  BY DEF Faults
<1> QED BY <1>1 DEF Forgotten, Faults

\* releasing a key leaves the keys well typed
LEMMA KeyAfterFacts ==
  ASSUME QueueTypeOK, NEW sl \in Slots, NEW j
  PROVE  /\ KeyAfterFinish(sl) \in [Keys -> Copies \cup {NoCopy}]
         /\ KeyAfter(sl, j) \in [Keys -> Copies \cup {NoCopy}]
         /\ DedupMode = "ttl" => KeyAfterFinish(sl) = dedup /\ KeyAfter(sl, j) = dedup
  BY SlotFacts DEF KeyAfterFinish, KeyAfter, QueueTypeOK

\* a busy worker works on a job of its queue; a files worker handles a file
LEMMA RunFacts ==
  ASSUME TypeOK, RunOK, NEW w \in Workers, run[w].phase # "idle"
  PROVE  /\ run[w].slot \in Slots
         /\ IdsOf(w) \subseteq Ids
         /\ jobs[run[w].slot] \in Job
         /\ QueueOf[w] = "files" => Handle(w) \in Files /\ IdsOf(w) \subseteq Files
  <1>1. run[w].slot \in Slots /\ Queue(run[w].slot[1]) = QueueOf[w]
    BY DEF RunOK
  <1> QED BY <1>1, SlotFacts, KeyFacts DEF IdsOf, Handle, TypeOK, QueueTypeOK

\* losing the lock of one slot changes nothing else about the workers
LEMMA LosingLockFacts ==
  ASSUME TypeOK, NEW sl \in Slots
  PROVE  /\ LosingLock(sl) \in [Workers -> Run]
         /\ \A v \in Workers : /\ LosingLock(sl)[v].slot = run[v].slot
                               /\ LosingLock(sl)[v].phase = run[v].phase
                               /\ LosingLock(sl)[v].out = run[v].out
                               /\ LosingLock(sl)[v].lock <=> run[v].lock /\ run[v].slot # sl
<1>1. \A v \in Workers : run[v] \in Run
  BY DEF TypeOK
<1> QED BY <1>1 DEF LosingLock, Run

\* an idle worker is a worker
LEMMA IdleFacts == Idle \in Run
  BY DEF Idle, Run

\* a committed transaction leads to a push exactly when there are ids to push
LEMMA CommittedFacts ==
  ASSUME TypeOK, NEW w \in Workers, NEW out \in SUBSET Ids
  PROVE  /\ Committed(w, out) \in Run
         /\ Committed(w, out).slot = run[w].slot /\ Committed(w, out).out = out
         /\ Committed(w, out).lock = run[w].lock
         /\ Committed(w, out).phase \in {"push", "end"}
         /\ out # {} => Committed(w, out).phase = "push"
<1>1. run[w] \in Run
  BY DEF TypeOK
<1> QED BY <1>1 DEF Committed, Run

\* every handler, worker step, failure and broker step keeps the types
LEMMA TypeStep ==
  ASSUME TypeOK, RunOK, [Next]_vars
  PROVE  TypeOK'
<1> USE WorkersAssumption DEF TypeOK, QueueTypeOK, DbTypeOK
<1>1. ASSUME NEW e \in Entities, NEW st \in EntityStatus, NEW c \in Changesets \cup {changesetOf[e]},
             UpdateEntity(e, st, c)
      PROVE  TypeOK'
  BY <1>1 DEF UpdateEntity, updateEntity, ClientOp, queue
<1>2. ASSUME NEW c \in Changesets, UpdateChangesetEntities(c)
      PROVE  TypeOK'
  BY <1>2 DEF UpdateChangesetEntities, updateEntitiesOfChangesetAsCompleted, ClientOp, queue, EntityStatus
<1>3. ASSUME NEW f \in Files, UpdateFile(f, Cardinality(EntitiesOf(f)))
      PROVE  TypeOK'
  <2>1. Cardinality(EntitiesOf(f)) \in Nat
    BY TablesAssumption, FS_Subset, FS_CardinalityType DEF EntitiesOf
  <2> QED BY <1>3, <2>1 DEF UpdateFile, updateFile, ClientOp, queue
<1>4. ASSUME NEW s \in Syncs, NEW st \in Status, UpdateSync(s, st, Cardinality(FilesOf(s)))
      PROVE  TypeOK'
  <2>1. Cardinality(FilesOf(s)) \in Nat
    BY TablesAssumption, FS_Subset, FS_CardinalityType DEF FilesOf
  <2> QED BY <1>4, <2>1 DEF UpdateSync, updateSync, ClientOp, queue
<1>5. ASSUME NEW S \in {Changesets, Files, Syncs}, NEW ids \in Arrays(S), CreateClosures(ids)
      PROVE  TypeOK'
  <2>1. QueueTypeOK'
    BY <1>5, AddFacts, JobsOfFacts DEF CreateClosures, push, addBulk
  <2> QED BY <1>5, <2>1, JobsOfFacts DEF CreateClosures, ClientOp, db
<1>6. ASSUME NEW w \in Workers, NEW sl \in Slots, Take(w, sl)
      PROVE  TypeOK'
  <2>1. [slot |-> sl, phase |-> "begin", out |-> {}, lock |-> TRUE] \in Run
    BY DEF Run
  <2>2. run' \in [Workers -> Run]
    BY <1>6, <2>1 DEF Take
  <2>3. jobs' \in [Slots -> Job]
    BY <1>6 DEF Take, Job
  <2> QED BY <1>6, <2>2, <2>3 DEF Take, db
<1>7. ASSUME NEW w \in Workers, ProcessChangesets(w)
      PROVE  TypeOK'
  <2>1. findFilesByChangesets(IdsOf(w)) \subseteq Ids
    BY TablesAssumption DEF findFilesByChangesets, Ids
  <2> QED BY <1>7, <2>1, CommittedFacts DEF ProcessChangesets, Attempted, db, queue
<1>8. ASSUME NEW w \in Workers, ProcessFile(w)
      PROVE  TypeOK'
  <2>1. Handle(w) \in Files /\ SyncOf[Handle(w)] \in Ids
    BY <1>8, RunFacts, TablesAssumption DEF ProcessFile, Phase, Ids
  <2> QED BY <1>8, <2>1, CommittedFacts DEF ProcessFile, attemptFileClosure, Attempted, queue, Status
<1>9. ASSUME NEW w \in Workers, ProcessSync(w)
      PROVE  TypeOK'
  BY <1>9, CommittedFacts DEF ProcessSync, attemptSyncClosure, Attempted, queue, Status
<1>10. ASSUME NEW w \in Workers, PushNext(w)
       PROVE  TypeOK'
  <2>1. {Single(i) : i \in run[w].out} \subseteq Keys /\ run[w].out \subseteq Ids
    BY DEF Keys, Run
  <2>2. add({Single(i) : i \in run[w].out}, events) /\ events \in SUBSET Slots
    BY <1>10 DEF PushNext, addBulk
  <2>3. QueueTypeOK'
    BY <2>1, <2>2, AddFacts
  <2>4. run' \in [Workers -> Run]
    BY <1>10 DEF PushNext, Run
  <2> QED BY <1>10, <2>1, <2>3, <2>4 DEF PushNext, db
<1>11. ASSUME NEW w \in Workers, Complete(w)
       PROVE  TypeOK'
  <2>1. run[w].slot \in Slots
    BY <1>11, RunFacts DEF Complete
  <2>2. NoJob \in Job
    BY DEF NoJob, Job
  <2>3. faults' \in Faults
    BY <1>11, ForgottenFacts DEF Complete
  <2> QED BY <1>11, <2>1, <2>2, <2>3, KeyAfterFacts, IdleFacts DEF Complete, db
<1>12. ASSUME NEW w \in Workers, TransactionFailure(w)
       PROVE  TypeOK'
  <2>1. run[w].slot \in Slots /\ IdsOf(w) \subseteq Ids
    BY <1>12, RunFacts DEF TransactionFailure, TransactionAborts
  <2>2. jobs' \in [Slots -> Job]
    BY <1>12, <2>1 DEF TransactionFailure, TransactionAborts, Job
  <2>3. run' \in [Workers -> Run]
    <3>1. LosingLock(run[w].slot) \in [Workers -> Run] /\ run \in [Workers -> Run]
      BY <2>1, LosingLockFacts
    <3>2. \/ run' = [LosingLock(run[w].slot) EXCEPT ![w] = Idle]
          \/ run' = [run EXCEPT ![w] = Idle]
      BY <1>12 DEF TransactionFailure, TransactionAborts
    <3> QED BY <3>1, <3>2, IdleFacts
  <2> QED BY <1>12, <2>1, <2>2, <2>3 DEF TransactionFailure, TransactionAborts, IdsOf, db
<1>13. ASSUME NEW w \in Workers, ProcessError(w)
       PROVE  TypeOK'
  <2>1. run[w].slot \in Slots /\ IdsOf(w) \subseteq Ids /\ jobs[run[w].slot] \in Job
    BY <1>13, RunFacts DEF ProcessError
  <2>2. faults' \in Faults
    BY <1>13, FaultFacts DEF ProcessError
  <2> QED BY <1>13, <2>1, <2>2, JobFacts, KeyAfterFacts, IdleFacts DEF ProcessError, IdsOf, db
<1>14. ASSUME NEW w \in Workers, Crash(w)
       PROVE  TypeOK'
  <2>1. faults' \in Faults
    BY <1>14, FaultFacts DEF Crash
  <2> QED BY <1>14, <2>1, RunFacts, IdleFacts DEF Crash, db, queue
<1>15. ASSUME NEW sl \in Slots, StallOrphan(sl)
       PROVE  TypeOK'
  BY <1>15, SlotFacts, KeyFacts, JobFacts, KeyAfterFacts DEF StallOrphan, db
<1>16. ASSUME NEW sl \in Slots, StallSlow(sl)
       PROVE  TypeOK'
  <2>1. faults' \in Faults
    BY <1>16, FaultFacts DEF StallSlow
  <2> QED BY <1>16, <2>1, SlotFacts, KeyFacts, JobFacts, KeyAfterFacts, LosingLockFacts DEF StallSlow, db
<1>17. ASSUME NEW sl \in Slots, LoseEvent(sl)
       PROVE  TypeOK'
  <2>1. faults' \in Faults
    BY <1>17, FaultFacts DEF LoseEvent
  <2> QED BY <1>17, <2>1 DEF LoseEvent, db
<1>18. ASSUME NEW sl \in Slots, Promote(sl), KeepRest
       PROVE  TypeOK'
  BY <1>18 DEF Promote, KeepRest, db, Job
<1>19. ASSUME NEW sl \in Slots, changeJobDelay(sl), KeepRest
       PROVE  TypeOK'
  <2>1. CASE events' = events \ {sl} /\ UNCHANGED <<jobs, dedup>>
    BY <1>19, <2>1 DEF KeepRest, db
  <2>2. CASE add({sl[1]}, events \ {sl})
    <3>1. add({sl[1]}, events \ {sl}) /\ {sl[1]} \subseteq Keys /\ events \ {sl} \in SUBSET Slots
      BY <2>2, SlotFacts
    <3>2. QueueTypeOK'
      BY <3>1, AddFacts
    <3> QED BY <1>19, <3>2 DEF KeepRest, db
  <2> QED BY <1>19, <2>1, <2>2 DEF changeJobDelay
<1>20. ASSUME NEW k \in Keys, ExpireKey(k), KeepRest
       PROVE  TypeOK'
  BY <1>20 DEF ExpireKey, KeepRest, db
<1>21. CASE UNCHANGED vars
  BY <1>21 DEF vars, db, queue
<1> QED
  BY <1>1, <1>2, <1>3, <1>4, <1>5, <1>6, <1>7, <1>8, <1>9, <1>10, <1>11, <1>12, <1>13, <1>14,
     <1>15, <1>16, <1>17, <1>18, <1>19, <1>20, <1>21
     DEF Next, Client, Broker, Work, Failures
-----------------------------------------------------------------------------
(* Ownership of jobs *)

\* steps that leave the workers alone and active jobs active
LEMMA RunKept ==
  ASSUME TypeOK, RunOK, LockOK, run' = run,
         \A sl \in Slots : jobs[sl].state = "active" => jobs'[sl].state = "active"
  PROVE  RunOK' /\ LockOK'
<1>1. ASSUME NEW w \in Workers, run[w].lock
      PROVE  run[w].slot \in Slots
  BY <1>1, RunFacts DEF RunOK, Idle
<1> QED BY <1>1 DEF RunOK, LockOK, Holds

\* steps in which w drops its job and only that job, if w owned it, changes
LEMMA RunDropped ==
  ASSUME TypeOK, RunOK, LockOK, NEW w \in Workers, run[w].phase # "idle",
         run' = [run EXCEPT ![w] = Idle],
         \A sl \in Slots : ~Holds(w, sl) => jobs'[sl] = jobs[sl]
  PROVE  RunOK' /\ LockOK'
<1>1. \A v \in Workers : v # w => run'[v] = run[v]
  BY DEF TypeOK
<1>2. run'[w] = Idle
  BY DEF TypeOK
<1>3. ASSUME NEW v \in Workers, run[v].lock, v # w
      PROVE  run[v].slot \in Slots /\ ~Holds(w, run[v].slot)
  BY <1>3, RunFacts DEF RunOK, LockOK, Holds, Idle
<1>4. RunOK'
  BY <1>1, <1>2, <1>3 DEF RunOK, Idle
<1>5. LockOK'
  BY <1>1, <1>2 DEF LockOK, Holds, Idle
<1> QED BY <1>4, <1>5

\* steps in which w goes on with its job
LEMMA RunCommitted ==
  ASSUME TypeOK, RunOK, LockOK, NEW w \in Workers, run[w].phase # "idle",
         NEW out \in SUBSET Ids, run' = [run EXCEPT ![w] = Committed(w, out)], jobs' = jobs
  PROVE  RunOK' /\ LockOK'
<1>1. \A v \in Workers : v # w => run'[v] = run[v]
  BY DEF TypeOK
<1>2. run'[w] = Committed(w, out)
  BY DEF TypeOK
<1>3. RunOK'
  BY <1>1, <1>2, CommittedFacts DEF RunOK
<1>4. LockOK'
  BY <1>1, <1>2, CommittedFacts DEF LockOK, Holds
<1> QED BY <1>3, <1>4

\* every step keeps the workers' locks consistent with the active jobs
LEMMA RunStep ==
  ASSUME TypeOK, RunOK, LockOK, [Next]_vars
  PROVE  RunOK' /\ LockOK'
<1>1. ASSUME NEW e \in Entities, NEW st \in EntityStatus, NEW c \in Changesets \cup {changesetOf[e]},
             UpdateEntity(e, st, c)
      PROVE  RunOK' /\ LockOK'
  BY <1>1, RunKept DEF UpdateEntity, queue
<1>2. ASSUME NEW c \in Changesets, UpdateChangesetEntities(c)
      PROVE  RunOK' /\ LockOK'
  BY <1>2, RunKept DEF UpdateChangesetEntities, queue
<1>3. ASSUME NEW f \in Files, UpdateFile(f, Cardinality(EntitiesOf(f)))
      PROVE  RunOK' /\ LockOK'
  BY <1>3, RunKept DEF UpdateFile, queue
<1>4. ASSUME NEW s \in Syncs, NEW st \in Status, UpdateSync(s, st, Cardinality(FilesOf(s)))
      PROVE  RunOK' /\ LockOK'
  BY <1>4, RunKept DEF UpdateSync, queue
<1>5. ASSUME NEW S \in {Changesets, Files, Syncs}, NEW ids \in Arrays(S), CreateClosures(ids)
      PROVE  RunOK' /\ LockOK'
  <2>1. add(JobsOf(ids), events) /\ events \in SUBSET Slots /\ run' = run /\ QueueTypeOK
    BY <1>5 DEF CreateClosures, push, addBulk, TypeOK, QueueTypeOK
  <2>2. \A sl \in Slots : jobs[sl].state # "none" => jobs'[sl] = jobs[sl]
    BY <2>1, JobsOfFacts, AddFacts
  <2> QED BY <2>1, <2>2, RunKept
<1>6. ASSUME NEW w \in Workers, NEW sl \in Slots, Take(w, sl)
      PROVE  RunOK' /\ LockOK'
  <2>1. /\ jobs'[sl].state = "active"
        /\ \A x \in Slots : x # sl => jobs'[x] = jobs[x]
    BY <1>6 DEF Take, TypeOK, QueueTypeOK, Job
  <2>2. /\ run'[w] = [slot |-> sl, phase |-> "begin", out |-> {}, lock |-> TRUE]
        /\ \A v \in Workers : v # w => run'[v] = run[v]
    BY <1>6 DEF Take, TypeOK
  <2>3. \A v \in Workers : run[v].lock => run[v].slot # sl
    BY <1>6 DEF Take, RunOK
  <2>4. RunOK'
    BY <1>6, <2>1, <2>2, <2>3, RunFacts DEF RunOK, Take, Idle
  <2>5. LockOK'
    BY <2>2, <2>3 DEF LockOK, Holds
  <2> QED BY <2>4, <2>5
<1>7. ASSUME NEW w \in Workers, ProcessChangesets(w)
      PROVE  RunOK' /\ LockOK'
  <2>1. findFilesByChangesets(IdsOf(w)) \in SUBSET Ids
    BY TablesAssumption DEF findFilesByChangesets, Ids
  <2> QED BY <1>7, <2>1, RunCommitted DEF ProcessChangesets, Phase, queue
<1>8. ASSUME NEW w \in Workers, ProcessFile(w)
      PROVE  RunOK' /\ LockOK'
  <2>1. {SyncOf[Handle(w)]} \in SUBSET Ids /\ {} \in SUBSET Ids
    BY <1>8, RunFacts, TablesAssumption DEF ProcessFile, Phase, Ids
  <2> QED BY <1>8, <2>1, RunCommitted DEF ProcessFile, Phase, queue
<1>9. ASSUME NEW w \in Workers, ProcessSync(w)
      PROVE  RunOK' /\ LockOK'
  <2>1. {} \in SUBSET Ids
    OBVIOUS
  <2> QED BY <1>9, <2>1, RunCommitted DEF ProcessSync, Phase, queue
<1>10. ASSUME NEW w \in Workers, PushNext(w)
       PROVE  RunOK' /\ LockOK'
  <2>1. {Single(i) : i \in run[w].out} \subseteq Keys
    BY DEF Keys, TypeOK, Run
  <2>2. add({Single(i) : i \in run[w].out}, events) /\ events \in SUBSET Slots /\ QueueTypeOK
    BY <1>10 DEF PushNext, addBulk, TypeOK, QueueTypeOK
  <2>3. \A sl \in Slots : jobs[sl].state # "none" => jobs'[sl] = jobs[sl]
    BY <2>1, <2>2, AddFacts
  <2>4. /\ run'[w].slot = run[w].slot /\ run'[w].lock = run[w].lock /\ run'[w].phase = "end"
        /\ \A v \in Workers : v # w => run'[v] = run[v]
    BY <1>10 DEF PushNext, TypeOK, Run
  <2>5. run[w].phase # "idle"
    BY <1>10 DEF PushNext
  <2>6. ASSUME NEW v \in Workers, run[v].lock
        PROVE  run[v].slot \in Slots /\ jobs[run[v].slot].state = "active"
    BY <2>6, RunFacts DEF RunOK, Idle
  <2>7. RunOK'
    BY <2>3, <2>4, <2>5, <2>6 DEF RunOK
  <2>8. LockOK'
    BY <2>4 DEF LockOK, Holds
  <2> QED BY <2>7, <2>8
<1>11. ASSUME NEW w \in Workers, Complete(w)
       PROVE  RunOK' /\ LockOK'
  <2>1. \A sl \in Slots : ~Holds(w, sl) => jobs'[sl] = jobs[sl]
    BY <1>11 DEF Complete, Holds, TypeOK, QueueTypeOK
  <2> QED BY <1>11, <2>1, RunDropped DEF Complete
<1>12. ASSUME NEW w \in Workers, TransactionFailure(w)
       PROVE  RunOK' /\ LockOK'
  <2> DEFINE sl == run[w].slot
  <2>1. sl \in Slots /\ run[w].phase # "idle"
    BY <1>12, RunFacts DEF TransactionFailure, TransactionAborts
  <2>2. CASE jobs[sl].state = "active"
    <3>1. /\ jobs' = [jobs EXCEPT ![sl].state = "delayed"]
          /\ run' = [LosingLock(sl) EXCEPT ![w] = Idle]
      BY <1>12, <2>2 DEF TransactionFailure, TransactionAborts
    <3>2. \A x \in Slots : x # sl => jobs'[x] = jobs[x]
      BY <3>1 DEF TypeOK, QueueTypeOK
    <3>3. run'[w] = Idle /\ \A v \in Workers : v # w => run'[v] = LosingLock(sl)[v]
      BY <2>1, <3>1, LosingLockFacts
    <3>4. ASSUME NEW v \in Workers, run'[v].lock
          PROVE  /\ run[v].lock /\ run[v].slot # sl /\ run'[v].slot = run[v].slot
                 /\ run[v].slot \in Slots
      BY <2>1, <3>3, <3>4, LosingLockFacts, RunFacts DEF Idle, RunOK
    <3>6. RunOK'
      BY <2>1, <3>2, <3>3, <3>4, LosingLockFacts DEF RunOK, Idle
    <3>7. LockOK'
      BY <3>4 DEF LockOK, Holds
    <3> QED BY <3>6, <3>7
  <2>3. CASE jobs[sl].state # "active"
    BY <1>12, <2>1, <2>3, RunDropped DEF TransactionFailure, TransactionAborts
  <2> QED BY <2>2, <2>3
<1>13. ASSUME NEW w \in Workers, ProcessError(w)
       PROVE  RunOK' /\ LockOK'
  <2>1. \A sl \in Slots : ~Holds(w, sl) => jobs'[sl] = jobs[sl]
    BY <1>13 DEF ProcessError, Holds, TypeOK, QueueTypeOK
  <2> QED BY <1>13, <2>1, RunDropped DEF ProcessError
<1>14. ASSUME NEW w \in Workers, Crash(w)
       PROVE  RunOK' /\ LockOK'
  BY <1>14, RunDropped DEF Crash, queue
<1>15. ASSUME NEW sl \in Slots, StallOrphan(sl)
       PROVE  RunOK' /\ LockOK'
  <2>1. run' = run /\ \A x \in Slots : x # sl => jobs'[x] = jobs[x]
    BY <1>15 DEF StallOrphan, TypeOK, QueueTypeOK
  <2>2. \A w \in Workers : run[w].lock => run[w].slot # sl /\ run[w].slot \in Slots
    BY <1>15, RunFacts DEF StallOrphan, Holds, RunOK, Idle
  <2> QED BY <2>1, <2>2 DEF RunOK, LockOK, Holds
<1>16. ASSUME NEW sl \in Slots, StallSlow(sl)
       PROVE  RunOK' /\ LockOK'
  <2>1. run' = LosingLock(sl) /\ \A x \in Slots : x # sl => jobs'[x] = jobs[x]
    BY <1>16 DEF StallSlow, TypeOK, QueueTypeOK
  <2>2. ASSUME NEW v \in Workers, run'[v].lock
        PROVE  /\ run[v].lock /\ run[v].slot # sl /\ run'[v].slot = run[v].slot
               /\ run[v].slot \in Slots
    BY <2>1, <2>2, LosingLockFacts, RunFacts DEF Idle, RunOK
  <2>4. RunOK'
    BY <2>1, <2>2, LosingLockFacts DEF RunOK
  <2>5. LockOK'
    BY <2>2 DEF LockOK, Holds
  <2> QED BY <2>4, <2>5
<1>17. ASSUME NEW sl \in Slots, LoseEvent(sl)
       PROVE  RunOK' /\ LockOK'
  BY <1>17, RunKept DEF LoseEvent
<1>18. ASSUME NEW sl \in Slots, Promote(sl), KeepRest
       PROVE  RunOK' /\ LockOK'
  <2>1. \A x \in Slots : jobs[x].state = "active" => jobs'[x].state = "active"
    BY <1>18 DEF Promote, TypeOK, QueueTypeOK, Job
  <2> QED BY <1>18, <2>1, RunKept DEF KeepRest
<1>19. ASSUME NEW sl \in Slots, changeJobDelay(sl), KeepRest
       PROVE  RunOK' /\ LockOK'
  <2>1. CASE events' = events \ {sl} /\ UNCHANGED <<jobs, dedup>>
    BY <1>19, <2>1, RunKept DEF KeepRest
  <2>2. CASE add({sl[1]}, events \ {sl})
    <3>1. add({sl[1]}, events \ {sl}) /\ {sl[1]} \subseteq Keys /\ events \ {sl} \in SUBSET Slots /\ QueueTypeOK
      BY <2>2, SlotFacts DEF TypeOK, QueueTypeOK
    <3>2. \A x \in Slots : jobs[x].state # "none" => jobs'[x] = jobs[x]
      BY <3>1, AddFacts
    <3> QED BY <1>19, <3>2, RunKept DEF KeepRest
  <2> QED BY <1>19, <2>1, <2>2 DEF changeJobDelay
<1>20. ASSUME NEW k \in Keys, ExpireKey(k), KeepRest
       PROVE  RunOK' /\ LockOK'
  BY <1>20, RunKept DEF ExpireKey, KeepRest
<1>21. CASE UNCHANGED vars
  BY <1>21, RunKept DEF vars, queue
<1> QED
  BY <1>1, <1>2, <1>3, <1>4, <1>5, <1>6, <1>7, <1>8, <1>9, <1>10, <1>11, <1>12, <1>13, <1>14,
     <1>15, <1>16, <1>17, <1>18, <1>19, <1>20, <1>21
     DEF Next, Client, Broker, Work, Failures
-----------------------------------------------------------------------------
(* Deduplication keys *)

\* a step that leaves the keys and the delayed jobs alone keeps KeyOK
LEMMA KeyKept ==
  ASSUME TypeOK, KeyOK, DedupMode = "ttl" => dedup' = dedup,
         \A sl \in Slots : jobs[sl].state = "delayed" => jobs'[sl].state = "delayed"
  PROVE  KeyOK'
<1> SUFFICES ASSUME DedupMode = "ttl", NEW k \in Keys, dedup[k] # NoCopy
             PROVE  jobs'[<<k, dedup[k]>>].state = "delayed"
  BY DEF KeyOK
<1>1. <<k, dedup[k]>> \in Slots
  BY DEF TypeOK, QueueTypeOK, Slots
<1> QED BY <1>1 DEF KeyOK

\* a key taken by an add belongs to a delayed job
LEMMA KeyAdd ==
  ASSUME TypeOK, KeyOK, NEW K \in SUBSET Keys, NEW evs \in SUBSET Slots, add(K, evs)
  PROVE  KeyOK'
<1> SUFFICES ASSUME DedupMode = "ttl", NEW k \in Keys, dedup'[k] # NoCopy
             PROVE  jobs'[<<k, dedup'[k]>>].state = "delayed"
  BY DEF KeyOK
<1>1. QueueTypeOK
  BY DEF TypeOK
<1>2. CASE dedup[k] = NoCopy
  <2>1. k \in K
    BY <1>1, <1>2, AddFacts
  <2>2. jobs'[<<k, dedup'[k]>>] = NewJob
    BY <1>1, <1>2, <2>1, AddFacts, QueueAssumption
  <2> QED BY <2>2 DEF NewJob
<1>3. CASE dedup[k] # NoCopy
  <2>1. dedup'[k] = dedup[k] /\ dedup[k] \in Copies
    BY <1>1, <1>3, AddFacts DEF QueueTypeOK
  <2>2. <<k, dedup[k]>> \in Slots /\ jobs[<<k, dedup[k]>>].state = "delayed"
    BY <1>3, <2>1 DEF KeyOK, Slots
  <2> QED BY <1>1, <2>1, <2>2, AddFacts
<1> QED BY <1>2, <1>3

\* while a worker is at work its job, if it still owns it, is not delayed
LEMMA KeyStep ==
  ASSUME TypeOK, RunOK, KeyOK, [Next]_vars
  PROVE  KeyOK'
<1>1. ASSUME NEW e \in Entities, NEW st \in EntityStatus, NEW c \in Changesets \cup {changesetOf[e]},
             UpdateEntity(e, st, c)
      PROVE  KeyOK'
  BY <1>1, KeyKept DEF UpdateEntity, queue
<1>2. ASSUME NEW c \in Changesets, UpdateChangesetEntities(c)
      PROVE  KeyOK'
  BY <1>2, KeyKept DEF UpdateChangesetEntities, queue
<1>3. ASSUME NEW f \in Files, UpdateFile(f, Cardinality(EntitiesOf(f)))
      PROVE  KeyOK'
  BY <1>3, KeyKept DEF UpdateFile, queue
<1>4. ASSUME NEW s \in Syncs, NEW st \in Status, UpdateSync(s, st, Cardinality(FilesOf(s)))
      PROVE  KeyOK'
  BY <1>4, KeyKept DEF UpdateSync, queue
<1>5. ASSUME NEW S \in {Changesets, Files, Syncs}, NEW ids \in Arrays(S), CreateClosures(ids)
      PROVE  KeyOK'
  <2>1. add(JobsOf(ids), events) /\ events \in SUBSET Slots
    BY <1>5 DEF CreateClosures, push, addBulk, TypeOK, QueueTypeOK
  <2> QED BY <2>1, JobsOfFacts, KeyAdd
<1>6. ASSUME NEW w \in Workers, NEW sl \in Slots, Take(w, sl)
      PROVE  KeyOK'
  <2>1. \A x \in Slots : jobs[x].state = "delayed" => jobs'[x].state = "delayed"
    BY <1>6 DEF Take, TypeOK, QueueTypeOK, Job
  <2> QED BY <1>6, <2>1, KeyKept DEF Take
<1>7. ASSUME NEW w \in Workers, ProcessChangesets(w) \/ ProcessFile(w) \/ ProcessSync(w) \/ Crash(w)
      PROVE  KeyOK'
  BY <1>7, KeyKept DEF ProcessChangesets, ProcessFile, ProcessSync, Crash, queue
<1>8. ASSUME NEW w \in Workers, PushNext(w)
      PROVE  KeyOK'
  <2>1. {Single(i) : i \in run[w].out} \subseteq Keys
    BY DEF Keys, TypeOK, Run
  <2>2. add({Single(i) : i \in run[w].out}, events) /\ events \in SUBSET Slots
    BY <1>8 DEF PushNext, addBulk, TypeOK, QueueTypeOK
  <2> QED BY <2>1, <2>2, KeyAdd
<1>9. ASSUME NEW w \in Workers, Complete(w) \/ ProcessError(w)
      PROVE  KeyOK'
  <2>1. run[w].slot \in Slots /\ (run[w].lock => jobs[run[w].slot].state = "active")
    BY <1>9, RunFacts DEF Complete, ProcessError, RunOK
  <2>2. \A x \in Slots : jobs[x].state = "delayed" => jobs'[x].state = "delayed"
    BY <1>9, <2>1 DEF Complete, ProcessError, TypeOK, QueueTypeOK
  <2>3. DedupMode = "ttl" => dedup' = dedup
    BY <1>9, <2>1, KeyAfterFacts DEF Complete, ProcessError, TypeOK
  <2> QED BY <2>2, <2>3, KeyKept
<1>10. ASSUME NEW w \in Workers, TransactionFailure(w)
       PROVE  KeyOK'
  <2>1. \A x \in Slots : jobs[x].state = "delayed" => jobs'[x].state = "delayed"
    BY <1>10, RunFacts DEF TransactionFailure, TransactionAborts, TypeOK, QueueTypeOK, Job
  <2> QED BY <1>10, <2>1, KeyKept DEF TransactionFailure, TransactionAborts
<1>11. ASSUME NEW sl \in Slots, StallOrphan(sl) \/ StallSlow(sl)
       PROVE  KeyOK'
  <2>1. jobs[sl].state = "active"
    BY <1>11 DEF StallOrphan, StallSlow, Holds, RunOK
  <2>2. \A x \in Slots : jobs[x].state = "delayed" => jobs'[x].state = "delayed"
    BY <1>11, <2>1 DEF StallOrphan, StallSlow, TypeOK, QueueTypeOK
  <2>3. DedupMode = "ttl" => dedup' = dedup
    BY <1>11, KeyAfterFacts DEF StallOrphan, StallSlow, TypeOK
  <2> QED BY <2>2, <2>3, KeyKept
<1>12. ASSUME NEW sl \in Slots, LoseEvent(sl)
       PROVE  KeyOK'
  BY <1>12, KeyKept DEF LoseEvent
<1>13. ASSUME NEW sl \in Slots, Promote(sl), KeepRest
       PROVE  KeyOK'
  <2> SUFFICES ASSUME DedupMode = "ttl", NEW k \in Keys, dedup'[k] # NoCopy
               PROVE  jobs'[<<k, dedup'[k]>>].state = "delayed"
    BY DEF KeyOK
  <2>1. dedup[k] \in Copies /\ <<k, dedup[k]>> \in Slots /\ dedup' = dedup
    BY <1>13 DEF Promote, TypeOK, QueueTypeOK, Slots
  <2>2. <<k, dedup[k]>> # sl
    BY <1>13 DEF Promote
  <2> QED BY <1>13, <2>1, <2>2 DEF Promote, KeyOK, TypeOK, QueueTypeOK
<1>14. ASSUME NEW sl \in Slots, changeJobDelay(sl), KeepRest
       PROVE  KeyOK'
  <2>1. CASE events' = events \ {sl} /\ UNCHANGED <<jobs, dedup>>
    BY <2>1, KeyKept
  <2>2. CASE add({sl[1]}, events \ {sl})
    <3>1. add({sl[1]}, events \ {sl}) /\ {sl[1]} \subseteq Keys /\ events \ {sl} \in SUBSET Slots
      BY <2>2, SlotFacts DEF TypeOK, QueueTypeOK
    <3> QED BY <3>1, KeyAdd
  <2> QED BY <1>14, <2>1, <2>2 DEF changeJobDelay
<1>15. ASSUME NEW k \in Keys, ExpireKey(k), KeepRest
       PROVE  KeyOK'
  BY <1>15 DEF ExpireKey, KeyOK, TypeOK, QueueTypeOK
<1>16. CASE UNCHANGED vars
  BY <1>16, KeyKept DEF vars, queue
<1> QED
  BY <1>1, <1>2, <1>3, <1>4, <1>5, <1>6, <1>7, <1>8, <1>9, <1>10, <1>11, <1>12, <1>13, <1>14,
     <1>15, <1>16
     DEF Next, Client, Broker, Work, Failures

-----------------------------------------------------------------------------
\* the tables after the ingestion, with empty queues and idle workers
LEMMA StructInit == Init => StructOK
<1> SUFFICES ASSUME Init PROVE StructOK
  OBVIOUS
<1>1. \A f \in Files : Cardinality(EntitiesOf(f)) \in Nat
  BY TablesAssumption, FS_Subset, FS_CardinalityType DEF EntitiesOf
<1>2. \A s \in Syncs : Cardinality(FilesOf(s)) \in Nat
  BY TablesAssumption, FS_Subset, FS_CardinalityType DEF FilesOf
<1>3. Cardinality(Entities) \in Nat
  BY TablesAssumption, FS_CardinalityType
<1>4. DbTypeOK
  BY <1>2, <1>3 DEF Init, DbTypeOK, EntityStatus, Status
<1>5. QueueTypeOK
  BY DEF Init, QueueInit, QueueTypeOK, NoJob, Job
<1>6. TypeOK
  BY <1>4, <1>5, IdleFacts, WorkersAssumption DEF Init, TypeOK, Faults, Unharmed
<1>7. RunOK /\ LockOK
  BY DEF Init, RunOK, LockOK, Holds, Idle
<1>8. KeyOK
  BY DEF Init, QueueInit, KeyOK
<1> QED BY <1>6, <1>7, <1>8 DEF StructOK

\* the structural invariant is inductive
LEMMA StructStep == StructOK /\ [Next]_vars => StructOK'
  BY TypeStep, RunStep, KeyStep DEF StructOK

\* The structural invariant holds of the closure mechanism: types, ownership of
\* active jobs by at most one worker, keys with a ttl held by delayed jobs only.
THEOREM StructCorrect == Spec => []StructOK
  BY StructInit, StructStep, PTL DEF Spec

\* Every column, queue entry and worker state keeps its type under every
\* interleaving of handlers, workers and failures.
THEOREM TypeCorrect == Spec => []TypeOK
<1>1. StructOK => TypeOK
  BY DEF StructOK
<1> QED BY <1>1, StructCorrect, PTL
-----------------------------------------------------------------------------
(* No closure is lost *)

\* what the code gives up on is excluded: a files worker interrupted between its
\* commit and its push, keys that outlive the attempt with nobody listening to the
\* 'deduplicated' events, and completed jobs that are removed before their events
\* are handled (changeJobDelay returns when it finds no job)
SafeDelivery == ~HandOffFaults /\ KeepCompleted /\ (DedupMode = "ttl" \/ DedupDelay)

\* a job still to be attempted stays so while nobody new works on it
LEMMA UnattemptedKept ==
  ASSUME NEW sl \in Slots, Unattempted(sl), jobs'[sl] = jobs[sl],
         \A w \in Workers : Holds(w, sl)' => Holds(w, sl) /\ run'[w].phase = run[w].phase
  PROVE  Unattempted(sl)'
  BY DEF Unattempted

\* an id stays pending when the jobs, hand-offs and events it relies on stay
LEMMA PendingKept ==
  ASSUME NEW id, Pending(id),
         \A sl \in Slots : id \in sl[1].ids /\ Unattempted(sl) => Unattempted(sl)',
         \A w \in Workers : InHandOff(w) /\ id \in run[w].out => InHandOff(w)' /\ id \in run'[w].out,
         \A sl \in events : id \in sl[1].ids => sl \in events'
  PROVE  Pending(id)'
  BY DEF Pending

\* after an add every id of its jobs is pending: it is in a new job, in a job that
\* is still delayed, or in an event to be handled
LEMMA AddPending ==
  ASSUME SafeDelivery, StructOK, NEW K \in SUBSET Keys, NEW evs \in SUBSET Slots, add(K, evs),
         NEW k \in K, NEW id \in k.ids
  PROVE  Pending(id)'
<1>1. QueueTypeOK
  BY DEF StructOK, TypeOK
<1>2. CASE dedup[k] = NoCopy
  <2>1. dedup'[k] \in Copies /\ jobs'[<<k, dedup'[k]>>] = NewJob
    BY <1>1, <1>2, AddFacts, QueueAssumption
  <2>2. <<k, dedup'[k]>> \in Slots /\ jobs'[<<k, dedup'[k]>>].state = "delayed"
    BY <2>1 DEF Slots, NewJob
  <2>3. \E sl \in Slots : id \in sl[1].ids /\ jobs'[sl].state = "delayed"
    BY <2>2
  <2> QED BY <2>3 DEF Pending, Unattempted
<1>3. CASE dedup[k] # NoCopy
  <2>1. dedup[k] \in Copies /\ <<k, dedup[k]>> \in Slots
    BY <1>1, <1>3 DEF QueueTypeOK, Slots
  <2>2. CASE DedupDelay
    <3>1. <<k, dedup[k]>> \in events'
      BY <1>1, <1>3, <2>2, AddFacts
    <3> QED BY <3>1 DEF Pending
  <2>3. CASE DedupMode = "ttl"
    <3>1. jobs[<<k, dedup[k]>>].state = "delayed"
      BY <1>3, <2>3 DEF StructOK, KeyOK
    <3>2. jobs'[<<k, dedup[k]>>].state = "delayed"
      BY <1>1, <2>1, <3>1, AddFacts
    <3> QED BY <2>1, <3>2 DEF Pending, Unattempted
  <2> QED BY <2>2, <2>3 DEF SafeDelivery
<1> QED BY <1>2, <1>3

\* an add leaves the jobs of an unattempted slot alone
LEMMA AddKeeps ==
  ASSUME StructOK, NEW K \in SUBSET Keys, NEW evs \in SUBSET Slots, add(K, evs),
         NEW sl \in Slots, Unattempted(sl)
  PROVE  jobs'[sl] = jobs[sl]
<1>1. QueueTypeOK /\ jobs[sl].state # "none"
  BY DEF StructOK, TypeOK, Unattempted
<1> QED BY <1>1, AddFacts

\* steps in which the job of a worker is attempted: they discharge the job's ids
\* while the worker owns it and change nothing for the queue otherwise
LEMMA ProcessPending ==
  ASSUME StructOK, NoLostClosure, NEW w \in Workers, run[w].phase = "begin",
         NEW out \in SUBSET Ids, run' = [run EXCEPT ![w] = Committed(w, out)],
         UNCHANGED queue, NEW id \in Attempted(w)
  PROVE  Pending(id)'
<1>1. /\ run'[w] = Committed(w, out) /\ \A v \in Workers : v # w => run'[v] = run[v]
      /\ jobs' = jobs /\ events' = events
  BY DEF StructOK, TypeOK, queue
<1>2. Pending(id) /\ (run[w].lock => id \notin IdsOf(w))
  BY DEF NoLostClosure, Attempted
<1>3. ASSUME NEW sl \in Slots, id \in sl[1].ids, Unattempted(sl)
      PROVE  Unattempted(sl)'
  <2>1. ~Holds(w, sl)
    BY <1>2, <1>3 DEF Holds, IdsOf
  <2>2. ~Holds(w, sl)'
    BY <1>1, <2>1, CommittedFacts DEF Holds, StructOK
  <2> QED BY <1>1, <1>3, <2>2, UnattemptedKept DEF Holds
<1>4. \A v \in Workers : InHandOff(v) /\ id \in run[v].out => InHandOff(v)' /\ id \in run'[v].out
  BY <1>1 DEF InHandOff, Phase
<1> QED BY <1>1, <1>2, <1>3, <1>4, PendingKept

\* steps in which w, not in a hand-off, drops its job: the job, if w owned it, is
\* unattempted again or was attempted before, and nothing else changes
LEMMA DropPending ==
  ASSUME StructOK, NEW w \in Workers, ~InHandOff(w), run[w].phase # "idle",
         run' = [run EXCEPT ![w] = Idle], events' = events,
         \A sl \in Slots : ~Holds(w, sl) => jobs'[sl] = jobs[sl],
         \A sl \in Slots : Holds(w, sl) /\ Unattempted(sl) => Unattempted(sl)',
         NEW id, Pending(id)
  PROVE  Pending(id)'
<1>1. run'[w] = Idle /\ \A v \in Workers : v # w => run'[v] = run[v]
  BY DEF StructOK, TypeOK
<1>2. ASSUME NEW sl \in Slots, Unattempted(sl), ~Holds(w, sl)
      PROVE  Unattempted(sl)'
  <2>1. \A v \in Workers : Holds(v, sl)' => Holds(v, sl) /\ run'[v].phase = run[v].phase
    BY <1>1 DEF Holds, Idle
  <2> QED BY <1>2, <2>1, UnattemptedKept
<1>3. \A v \in Workers : InHandOff(v) /\ id \in run[v].out => InHandOff(v)' /\ id \in run'[v].out
  BY <1>1 DEF InHandOff, Phase
<1> QED BY <1>2, <1>3, PendingKept

\* no step of a handler, worker, failure or broker loses a closure
LEMMA OwedStep ==
  ASSUME SafeDelivery, StructOK, NoLostClosure, [Next]_vars
  PROVE  NoLostClosure'
<1> USE DEF NoLostClosure
<1>a. QueueTypeOK /\ events \in SUBSET Slots /\ TypeOK /\ RunOK /\ LockOK
  BY DEF StructOK, TypeOK, QueueTypeOK
<1>1. ASSUME run' = run, jobs' = jobs, events' = events, owed' = owed
      PROVE  NoLostClosure'
  BY <1>1 DEF Pending, Unattempted, Holds, InHandOff, Phase
<1>2. ASSUME NEW S \in {Changesets, Files, Syncs}, NEW ids \in Arrays(S), CreateClosures(ids)
      PROVE  NoLostClosure'
  <2>1. add(JobsOf(ids), events) /\ run' = run /\ owed' = owed \cup Range(ids)
    BY <1>2 DEF CreateClosures, push, addBulk
  <2>2. JobsOf(ids) \in SUBSET Keys /\ \A id \in Range(ids) : \E k \in JobsOf(ids) : id \in k.ids
    BY JobsOfFacts
  <2>3. ASSUME NEW id \in Range(ids) PROVE Pending(id)'
    BY <1>a, <2>1, <2>2, AddPending
  <2>4. ASSUME NEW id \in owed PROVE Pending(id)'
    <3>1. \A sl \in Slots : Unattempted(sl) => Unattempted(sl)'
      BY <1>a, <2>1, <2>2, AddKeeps, UnattemptedKept DEF Holds
    <3>2. events \subseteq events'
      BY <1>a, <2>1, <2>2, AddFacts
    <3> QED BY <2>1, <3>1, <3>2, PendingKept DEF InHandOff, Phase
  <2> QED BY <2>1, <2>3, <2>4
<1>3. ASSUME NEW w \in Workers, NEW sl \in Slots, Take(w, sl)
      PROVE  NoLostClosure'
  <2>1. /\ run'[w] = [slot |-> sl, phase |-> "begin", out |-> {}, lock |-> TRUE]
        /\ \A v \in Workers : v # w => run'[v] = run[v]
        /\ jobs'[sl].state = "active" /\ \A x \in Slots : x # sl => jobs'[x] = jobs[x]
        /\ events' = events /\ owed' = owed
    BY <1>3, <1>a DEF Take, TypeOK, QueueTypeOK, Job
  <2>2. \A v \in Workers : ~Holds(v, sl)
    BY <1>3, <1>a DEF Take, RunOK, Holds
  <2>3. Unattempted(sl)'
    BY <2>1, <2>2 DEF Unattempted, Holds
  <2>4. ASSUME NEW x \in Slots, x # sl, Unattempted(x)
        PROVE  Unattempted(x)'
    <3>1. \A v \in Workers : Holds(v, x)' => Holds(v, x) /\ run'[v].phase = run[v].phase
      BY <2>1, <2>4 DEF Holds
    <3> QED BY <2>1, <2>4, <3>1, UnattemptedKept
  <2>5. \A v \in Workers : InHandOff(v) => InHandOff(v)' /\ run'[v].out = run[v].out
    BY <1>3, <2>1 DEF InHandOff, Phase, Take
  <2> QED BY <2>1, <2>3, <2>4, <2>5, PendingKept
<1>4. ASSUME NEW w \in Workers, ProcessChangesets(w)
      PROVE  NoLostClosure'
  <2>1. findFilesByChangesets(IdsOf(w)) \in SUBSET Ids
    BY TablesAssumption DEF findFilesByChangesets, Ids
  <2> QED BY <1>4, <2>1, ProcessPending DEF ProcessChangesets, Phase
<1>5. ASSUME NEW w \in Workers, ProcessFile(w)
      PROVE  NoLostClosure'
  <2> DEFINE f == Handle(w)
             out == IF FileIsClosable(f) THEN {SyncOf[f]} ELSE {}
  <2>1. out \in SUBSET Ids
    BY <1>5, <1>a, RunFacts, TablesAssumption DEF ProcessFile, Phase, Ids
  <2>2. /\ run[w].phase = "begin" /\ QueueOf[w] = "files"
        /\ run' = [run EXCEPT ![w] = Committed(w, out)]
        /\ owed' = Attempted(w) \cup out /\ UNCHANGED queue
    BY <1>5 DEF ProcessFile, Phase
  <2> HIDE DEF out
  <2>3. ASSUME NEW id \in out PROVE Pending(id)'
    <3>1. run'[w] = Committed(w, out)
      BY <1>a, <2>2 DEF TypeOK
    <3>2. Committed(w, out).phase = "push" /\ Committed(w, out).out = out
      BY <1>a, <2>1, <2>3, CommittedFacts
    <3> QED BY <2>2, <2>3, <3>1, <3>2 DEF Pending, InHandOff, Phase
  <2>4. \A id \in Attempted(w) : Pending(id)'
    BY <2>1, <2>2, ProcessPending
  <2> QED BY <2>2, <2>3, <2>4
<1>6. ASSUME NEW w \in Workers, ProcessSync(w)
      PROVE  NoLostClosure'
  <2>1. {} \in SUBSET Ids
    OBVIOUS
  <2> QED BY <1>6, <2>1, ProcessPending DEF ProcessSync, Phase
<1>7. ASSUME NEW w \in Workers, PushNext(w)
      PROVE  NoLostClosure'
  <2> DEFINE K == {Single(i) : i \in run[w].out}
  <2>1. K \in SUBSET Keys /\ \A i \in run[w].out : Single(i) \in K /\ i \in Single(i).ids
    BY <1>a DEF Keys, TypeOK, Run, Single
  <2>2. add(K, events) /\ run[w].phase = "push" /\ owed' = owed \cup run[w].out
    BY <1>7 DEF PushNext, addBulk
  <2>3. /\ run'[w].slot = run[w].slot /\ run'[w].lock = run[w].lock /\ run'[w].phase = "end"
        /\ \A v \in Workers : v # w => run'[v] = run[v]
    BY <1>7, <1>a DEF PushNext, TypeOK, Run
  <2> HIDE DEF K
  <2>4. ASSUME NEW id \in run[w].out PROVE Pending(id)'
    BY <1>a, <2>1, <2>2, AddPending
  <2>5. ASSUME NEW id \in owed, id \notin run[w].out PROVE Pending(id)'
    <3>1. ASSUME NEW sl \in Slots, Unattempted(sl) PROVE Unattempted(sl)'
      <4>1. jobs'[sl] = jobs[sl] /\ jobs[sl].state # "none"
        BY <1>a, <2>1, <2>2, <3>1, AddKeeps DEF Unattempted
      <4>2. CASE jobs[sl].state # "active"
        BY <3>1, <4>1, <4>2 DEF Unattempted
      <4>3. CASE jobs[sl].state = "active"
        <5>1. ~Holds(w, sl)
          BY <2>2, <3>1, <4>3 DEF Unattempted
        <5>2. \A v \in Workers : Holds(v, sl)' => Holds(v, sl) /\ run'[v].phase = run[v].phase
          BY <2>3, <5>1 DEF Holds
        <5> QED BY <3>1, <4>1, <5>2, UnattemptedKept
      <4> QED BY <4>2, <4>3
    <3>2. events \subseteq events'
      BY <1>a, <2>1, <2>2, AddFacts
    <3>3. \A v \in Workers : InHandOff(v) /\ id \in run[v].out => InHandOff(v)' /\ id \in run'[v].out
      BY <2>3, <2>5 DEF InHandOff, Phase
    <3> QED BY <3>1, <3>2, <3>3, PendingKept
  <2> QED BY <2>2, <2>4, <2>5
<1>8. ASSUME NEW w \in Workers, Complete(w)
      PROVE  NoLostClosure'
  <2>1. ~InHandOff(w) /\ run[w].phase = "end"
    BY <1>8 DEF Complete, InHandOff, Phase
  <2>2. \A sl \in Slots : ~Holds(w, sl) => jobs'[sl] = jobs[sl]
    BY <1>8, <1>a DEF Complete, Holds, QueueTypeOK
  <2>3. \A sl \in Slots : Holds(w, sl) => ~Unattempted(sl)
    BY <1>a, <2>1 DEF Unattempted, RunOK, Holds
  <2> QED BY <1>8, <2>1, <2>2, <2>3, DropPending DEF Complete
<1>9. ASSUME NEW w \in Workers, TransactionFailure(w)
      PROVE  NoLostClosure'
  <2>a. run[w].slot \in Slots
    BY <1>9, <1>a, RunFacts DEF TransactionFailure, TransactionAborts
  <2>b. PICK sl \in Slots : sl = run[w].slot    \* a constant: Unattempted(sl)' must not prime it
    BY <2>a
  <2>1. sl \in Slots /\ run[w].phase = "begin" /\ ~InHandOff(w) /\ events' = events
    BY <1>9 DEF TransactionFailure, TransactionAborts, InHandOff, Phase
  <2>2. CASE jobs[sl].state = "active"
    <3>1. /\ jobs' = [jobs EXCEPT ![sl].state = "delayed"]
          /\ run' = [LosingLock(sl) EXCEPT ![w] = Idle]
          /\ owed' = owed \cup sl[1].ids
      BY <1>9, <2>b, <2>2 DEF TransactionFailure, TransactionAborts
    <3>2. jobs'[sl].state = "delayed" /\ \A x \in Slots : x # sl => jobs'[x] = jobs[x]
      BY <1>a, <2>1, <3>1 DEF QueueTypeOK, Job
    <3>3. run'[w] = Idle /\ \A v \in Workers : v # w => run'[v] = LosingLock(sl)[v]
      BY <1>a, <2>1, <3>1, LosingLockFacts
    <3>4. Unattempted(sl)'
      BY <3>2 DEF Unattempted
    <3>5. ASSUME NEW x \in Slots, x # sl, Unattempted(x) PROVE Unattempted(x)'
      <4>1. \A v \in Workers : Holds(v, x)' => Holds(v, x) /\ run'[v].phase = run[v].phase
        BY <1>a, <2>1, <3>3, LosingLockFacts DEF Holds, Idle
      <4> QED BY <3>2, <3>5, <4>1, UnattemptedKept
    <3>6. \A v \in Workers : InHandOff(v) => InHandOff(v)' /\ run'[v].out = run[v].out
      BY <1>a, <2>1, <3>3, LosingLockFacts DEF InHandOff, Phase
    <3>7. \A id \in owed : Pending(id)'
      BY <2>1, <3>4, <3>5, <3>6, PendingKept
    <3>8. \A id \in sl[1].ids : Pending(id)'
      BY <2>1, <3>4 DEF Pending
    <3> QED BY <3>1, <3>7, <3>8
  <2>3. CASE jobs[sl].state # "active"
    <3>1. run' = [run EXCEPT ![w] = Idle] /\ jobs' = jobs /\ owed' = owed
      BY <1>9, <2>b, <2>3 DEF TransactionFailure, TransactionAborts
    <3>2. \A x \in Slots : ~Holds(w, x)
      BY <1>a, <2>b, <2>3 DEF Holds, RunOK
    <3> QED BY <2>1, <3>1, <3>2, DropPending
  <2> QED BY <2>2, <2>3
<1>10. ASSUME NEW w \in Workers, ProcessError(w)
       PROVE  NoLostClosure'
  <2> DEFINE sl == run[w].slot
  <2>1. /\ sl \in Slots /\ jobs[sl] \in Job /\ run[w].phase # "idle" /\ ~InHandOff(w)
        /\ events' = events /\ run' = [run EXCEPT ![w] = Idle]
    BY <1>10, <1>a, RunFacts DEF ProcessError, SafeDelivery
  <2>2. \A x \in Slots : ~Holds(w, x) => jobs'[x] = jobs[x]
    BY <1>10, <1>a DEF ProcessError, Holds, QueueTypeOK
  <2>3. run[w].lock => jobs'[sl].state \in {"delayed", "failed"} /\ owed' = owed \cup sl[1].ids
    <3> SUFFICES ASSUME run[w].lock PROVE jobs'[sl].state \in {"delayed", "failed"} /\ owed' = owed \cup sl[1].ids
      OBVIOUS
    <3>1. jobs' = [jobs EXCEPT ![sl] = Retried(jobs[sl])] /\ owed' = owed \cup sl[1].ids
      BY <1>10 DEF ProcessError
    <3> QED BY <1>a, <2>1, <3>1, JobFacts DEF QueueTypeOK
  <2>4. ~run[w].lock => owed' = owed
    BY <1>10 DEF ProcessError
  <2>5. \A x \in Slots : Holds(w, x) => Unattempted(x)'
    BY <2>3 DEF Holds, Unattempted
  <2>6. \A id \in owed : Pending(id)'
    BY <2>1, <2>2, <2>5, DropPending
  <2>7. run[w].lock => \A id \in sl[1].ids : Pending(id)'
    BY <2>1, <2>5 DEF Pending, Holds
  <2> QED BY <2>3, <2>4, <2>6, <2>7
<1>11. ASSUME NEW w \in Workers, Crash(w)
       PROVE  NoLostClosure'
  <2> DEFINE sl == run[w].slot
  <2>1. /\ sl \in Slots /\ run[w].phase # "idle" /\ ~InHandOff(w)
        /\ events' = events /\ jobs' = jobs /\ run' = [run EXCEPT ![w] = Idle]
        /\ owed' = IF run[w].lock THEN owed \cup sl[1].ids ELSE owed
    BY <1>11, <1>a, RunFacts DEF Crash, SafeDelivery, queue, IdsOf
  <2>2. ASSUME NEW x \in Slots, Holds(w, x) PROVE Unattempted(x)'
    <3>1. jobs'[x].state = "active"
      BY <1>a, <2>1, <2>2 DEF RunOK, Holds
    <3>2. \A v \in Workers : ~Holds(v, x)'
      BY <1>a, <2>1, <2>2 DEF LockOK, Holds, Idle, TypeOK
    <3> QED BY <3>1, <3>2 DEF Unattempted
  <2>3. \A id \in owed : Pending(id)'
    BY <2>1, <2>2, DropPending
  <2>4. run[w].lock => \A id \in sl[1].ids : Pending(id)'
    BY <2>1, <2>2 DEF Pending, Holds
  <2> QED BY <2>1, <2>3, <2>4
<1>12. ASSUME NEW sl \in Slots, StallOrphan(sl) \/ StallSlow(sl)
       PROVE  NoLostClosure'
  <2>1. /\ jobs' = [jobs EXCEPT ![sl] = Stalled(jobs[sl])] /\ jobs[sl] \in Job
        /\ run' = run \/ run' = LosingLock(sl)
        /\ events' = events /\ owed' = owed \cup sl[1].ids
    BY <1>12, <1>a DEF StallOrphan, StallSlow, QueueTypeOK
  <2>2. jobs'[sl].state \in {"wait", "failed"} /\ \A x \in Slots : x # sl => jobs'[x] = jobs[x]
    BY <1>a, <2>1, JobFacts DEF QueueTypeOK
  <2>3. Unattempted(sl)'
    BY <2>2 DEF Unattempted
  <2>4. \A v \in Workers : /\ run'[v].slot = run[v].slot /\ run'[v].phase = run[v].phase
                           /\ run'[v].out = run[v].out /\ (run'[v].lock => run[v].lock)
    BY <1>a, <2>1, LosingLockFacts
  <2>5. ASSUME NEW x \in Slots, x # sl, Unattempted(x) PROVE Unattempted(x)'
    BY <2>2, <2>4, <2>5, UnattemptedKept DEF Holds
  <2>6. \A v \in Workers : InHandOff(v) => InHandOff(v)' /\ run'[v].out = run[v].out
    BY <2>4 DEF InHandOff, Phase
  <2>7. \A id \in owed : Pending(id)'
    BY <2>1, <2>3, <2>5, <2>6, PendingKept
  <2>8. \A id \in sl[1].ids : Pending(id)'
    BY <2>3 DEF Pending
  <2> QED BY <2>1, <2>7, <2>8
<1>13. ASSUME NEW sl \in Slots, Promote(sl), KeepRest
       PROVE  NoLostClosure'
  <2>1. /\ jobs'[sl].state = "wait" /\ \A x \in Slots : x # sl => jobs'[x] = jobs[x]
        /\ run' = run /\ events' = events /\ owed' = owed
    BY <1>13, <1>a DEF Promote, KeepRest, QueueTypeOK, Job
  <2>2. \A x \in Slots : Unattempted(x) => Unattempted(x)'
    BY <2>1, UnattemptedKept DEF Unattempted, Holds
  <2> QED BY <2>1, <2>2, PendingKept DEF InHandOff, Phase
<1>14. ASSUME NEW sl \in Slots, changeJobDelay(sl), KeepRest
       PROVE  NoLostClosure'
  <2>1. run' = run /\ owed' = owed /\ sl \in events
    BY <1>14 DEF KeepRest, changeJobDelay
  <2>2. CASE jobs[sl].state = "delayed" /\ events' = events \ {sl} /\ UNCHANGED <<jobs, dedup>>
    <3>1. events' = events \ {sl} /\ jobs' = jobs
      BY <2>2
    <3>2. Unattempted(sl)' /\ \A x \in Slots : Unattempted(x) => Unattempted(x)'
      BY <2>1, <2>2, <3>1 DEF Unattempted, Holds
    <3>3. ASSUME NEW id \in owed PROVE Pending(id)'
      <4>1. CASE id \in sl[1].ids
        BY <3>2, <4>1 DEF Pending
      <4>2. CASE id \notin sl[1].ids
        BY <2>1, <3>1, <3>2, <4>2, PendingKept DEF InHandOff, Phase
      <4> QED BY <4>1, <4>2
    <3> QED BY <2>1, <3>3
  <2>3. CASE add({sl[1]}, events \ {sl})
    <3>1. add({sl[1]}, events \ {sl}) /\ {sl[1]} \in SUBSET Keys /\ events \ {sl} \in SUBSET Slots
      BY <1>a, <2>3, SlotFacts
    <3>2. \A x \in Slots : Unattempted(x) => Unattempted(x)'
      BY <2>1, <3>1, AddKeeps, UnattemptedKept DEF Holds
    <3>3. events \ {sl} \subseteq events'
      BY <1>a, <3>1, AddFacts
    <3>4. ASSUME NEW id \in owed PROVE Pending(id)'
      <4>1. CASE id \in sl[1].ids
        BY <3>1, <4>1, AddPending
      <4>2. CASE id \notin sl[1].ids
        BY <2>1, <3>2, <3>3, <4>2, PendingKept DEF InHandOff, Phase
      <4> QED BY <4>1, <4>2
    <3> QED BY <2>1, <3>4
  <2> QED BY <1>14, <2>2, <2>3 DEF changeJobDelay, Removed, SafeDelivery
<1>15. ASSUME NEW sl \in Slots, LoseEvent(sl)
       PROVE  NoLostClosure'
  BY <1>15 DEF LoseEvent, SafeDelivery
<1> QED
  <2>1. ASSUME NEW e \in Entities, NEW st \in EntityStatus, NEW c \in Changesets \cup {changesetOf[e]},
               UpdateEntity(e, st, c)
        PROVE  NoLostClosure'
    BY <1>1, <2>1 DEF UpdateEntity, queue
  <2>2. ASSUME NEW c \in Changesets, UpdateChangesetEntities(c)
        PROVE  NoLostClosure'
    BY <1>1, <2>2 DEF UpdateChangesetEntities, queue
  <2>3. ASSUME NEW f \in Files, UpdateFile(f, Cardinality(EntitiesOf(f)))
        PROVE  NoLostClosure'
    BY <1>1, <2>3 DEF UpdateFile, queue
  <2>4. ASSUME NEW s \in Syncs, NEW st \in Status, UpdateSync(s, st, Cardinality(FilesOf(s)))
        PROVE  NoLostClosure'
    BY <1>1, <2>4 DEF UpdateSync, queue
  <2>5. ASSUME NEW k \in Keys, ExpireKey(k), KeepRest
        PROVE  NoLostClosure'
    BY <1>1, <2>5 DEF ExpireKey, KeepRest
  <2>6. CASE UNCHANGED vars
    BY <1>1, <2>6 DEF vars, queue
  <2> HIDE DEF NoLostClosure
  <2> QED
    BY <1>2, <1>3, <1>4, <1>5, <1>6, <1>7, <1>8, <1>9, <1>10, <1>11, <1>12, <1>13, <1>14, <1>15,
       <2>1, <2>2, <2>3, <2>4, <2>5, <2>6
       DEF Next, Client, Broker, Work, Failures

\* No closure that was accepted, pushed or made due by a commit is ever lost, for
\* any number of workers, jobs, failures, retries and stalls, as long as the files
\* worker gets through its hand-off, keys expire within the delay (or the
\* 'deduplicated' events are listened to) and a completed job is still there when its
\* events are handled.
THEOREM ClosureNotLost ==
  ASSUME SafeDelivery
  PROVE  Spec => []NoLostClosure
<1>1. Init => NoLostClosure
  BY DEF Init, NoLostClosure
<1>2. StructOK /\ NoLostClosure /\ [Next]_vars => NoLostClosure'
  BY OwedStep
<1> QED BY <1>1, <1>2, StructCorrect, PTL DEF Spec
-----------------------------------------------------------------------------
(* No job fails before its attempts or stalls are used up *)

\* an active job that no worker owns: a crash has been counted, its stall has not
Orphan(sl) == jobs[sl].state = "active" /\ \A w \in Workers : ~Holds(w, sl)

\* BullMQ has counted no more errors and stalls of a job than it had
Budget(sl) ==
  /\ jobs[sl].attempts <= faults.errors[sl]
  /\ jobs[sl].stalls <= faults.losses[sl]
  /\ Orphan(sl) => jobs[sl].stalls < faults.losses[sl]
  /\ jobs[sl].state = "failed" => jobs[sl].attempts >= MaxAttempts \/ jobs[sl].stalls > MaxStalled

BudgetOK == \A sl \in Slots : Budget(sl)

\* the counts of a job are numbers
LEMMA CountFacts ==
  ASSUME TypeOK, NEW sl \in Slots
  PROVE  /\ jobs[sl] \in Job /\ jobs[sl].attempts \in Nat /\ jobs[sl].stalls \in Nat
         /\ faults \in Faults /\ faults.errors[sl] \in Nat /\ faults.losses[sl] \in Nat
         /\ MaxAttempts \in Nat /\ MaxStalled \in Nat
  BY QueueAssumption DEF TypeOK, QueueTypeOK, Job, Faults

\* a job that is left alone keeps its budget; if it loses its owner that is counted
LEMMA BudgetKept ==
  ASSUME TypeOK, TypeOK', NEW sl \in Slots, Budget(sl), jobs'[sl] = jobs[sl],
         faults'.errors[sl] = faults.errors[sl],
         \/ /\ faults'.losses[sl] = faults.losses[sl]
            /\ \A w \in Workers : Holds(w, sl) => Holds(w, sl)'
         \/ faults'.losses[sl] = faults.losses[sl] + 1
  PROVE  Budget(sl)'
<1>1. Orphan(sl)' => Orphan(sl) \/ faults'.losses[sl] = faults.losses[sl] + 1
  BY DEF Orphan
<1> QED BY <1>1, CountFacts DEF Budget

\* a job just added has spent nothing
LEMMA BudgetNew ==
  ASSUME TypeOK', NEW sl \in Slots, jobs'[sl] \in {NewJob, NoJob}
  PROVE  Budget(sl)'
<1>1. faults'.errors[sl] \in Nat /\ faults'.losses[sl] \in Nat
  BY DEF TypeOK, Faults
<1>2. /\ jobs'[sl].attempts = 0 /\ jobs'[sl].stalls = 0
      /\ jobs'[sl].state # "active" /\ jobs'[sl].state # "failed"
  BY DEF NewJob, NoJob
<1> QED BY <1>1, <1>2 DEF Budget, Orphan

\* steps that change neither jobs nor who owns them
LEMMA BudgetSame ==
  ASSUME TypeOK, TypeOK', BudgetOK, jobs' = jobs, faults' = faults,
         \A v \in Workers : run'[v].lock = run[v].lock /\ run'[v].slot = run[v].slot
  PROVE  BudgetOK'
<1> SUFFICES ASSUME NEW sl \in Slots PROVE Budget(sl)'
  BY DEF BudgetOK
<1>1. \A w \in Workers : Holds(w, sl) => Holds(w, sl)'
  BY DEF Holds
<1> QED BY <1>1, BudgetKept DEF BudgetOK

\* steps that add jobs
LEMMA BudgetAdd ==
  ASSUME TypeOK, TypeOK', BudgetOK, NEW K \in SUBSET Keys, NEW evs \in SUBSET Slots, add(K, evs),
         faults' = faults,
         \A v \in Workers : run'[v].lock = run[v].lock /\ run'[v].slot = run[v].slot
  PROVE  BudgetOK'
<1> SUFFICES ASSUME NEW sl \in Slots PROVE Budget(sl)'
  BY DEF BudgetOK
<1>1. jobs'[sl] \in {jobs[sl], NewJob}
  BY AddFacts DEF TypeOK
<1>2. \A w \in Workers : Holds(w, sl) => Holds(w, sl)'
  BY DEF Holds
<1>3. CASE jobs'[sl] = jobs[sl]
  BY <1>2, <1>3, BudgetKept DEF BudgetOK
<1>4. CASE jobs'[sl] = NewJob
  BY <1>4, BudgetNew
<1> QED BY <1>1, <1>3, <1>4

\* the faults: a job is retried or stalled, or loses its owner, only by a fault of its own
LEMMA BudgetFault ==
  ASSUME TypeOK, TypeOK', BudgetOK, NEW E, NEW L, Fault(E, L),
         \A sl \in Slots :
           \/ /\ jobs'[sl] = jobs[sl] /\ sl \notin E
              /\ sl \in L \/ \A w \in Workers : Holds(w, sl) => Holds(w, sl)'
           \/ jobs'[sl] = Retried(jobs[sl]) /\ sl \in E /\ sl \notin L
           \/ jobs'[sl] = Stalled(jobs[sl]) /\ sl \in L /\ sl \notin E
  PROVE  BudgetOK'
<1> SUFFICES ASSUME NEW sl \in Slots PROVE Budget(sl)'
  BY DEF BudgetOK
<1>1. Budget(sl) /\ jobs[sl] \in Job /\ faults \in Faults
  BY CountFacts DEF BudgetOK
<1>2. /\ faults'.errors[sl] = IF sl \in E THEN faults.errors[sl] + 1 ELSE faults.errors[sl]
      /\ faults'.losses[sl] = IF sl \in L THEN faults.losses[sl] + 1 ELSE faults.losses[sl]
  BY <1>1, FaultFacts
<1>3. CASE /\ jobs'[sl] = jobs[sl] /\ sl \notin E
           /\ sl \in L \/ \A w \in Workers : Holds(w, sl) => Holds(w, sl)'
  BY <1>1, <1>2, <1>3, BudgetKept
<1>4. CASE jobs'[sl] = Retried(jobs[sl]) /\ sl \in E /\ sl \notin L
  <2>1. ~Orphan(sl)'
    BY <1>1, <1>4, JobFacts DEF Orphan
  <2> QED BY <1>1, <1>2, <1>4, <2>1, JobFacts, CountFacts DEF Budget
<1>5. CASE jobs'[sl] = Stalled(jobs[sl]) /\ sl \in L /\ sl \notin E
  <2>1. ~Orphan(sl)'
    BY <1>1, <1>5, JobFacts DEF Orphan
  <2> QED BY <1>1, <1>2, <1>5, <2>1, JobFacts, CountFacts DEF Budget
<1> QED BY <1>3, <1>4, <1>5

\* no step uses up an attempt or a stall without a fault
LEMMA BudgetStep ==
  ASSUME StructOK, StructOK', BudgetOK, [Next]_vars
  PROVE  BudgetOK'
<1>a. TypeOK /\ TypeOK' /\ QueueTypeOK /\ RunOK
  BY DEF StructOK, TypeOK
<1>1. ASSUME UNCHANGED <<jobs, run, faults>>
      PROVE  BudgetOK'
  BY <1>a, <1>1, BudgetSame
<1>2. ASSUME NEW ids \in Arrays(Changesets) \cup Arrays(Files) \cup Arrays(Syncs), CreateClosures(ids)
      PROVE  BudgetOK'
  <2>1. JobsOf(ids) \in SUBSET Keys
    BY JobsOfFacts
  <2>2. add(JobsOf(ids), events) /\ run' = run /\ faults' = faults
    BY <1>2 DEF CreateClosures, push, addBulk
  <2> QED BY <1>a, <2>1, <2>2, BudgetAdd DEF QueueTypeOK
<1>3. ASSUME NEW w \in Workers, NEW sl \in Slots, Take(w, sl)
      PROVE  BudgetOK'
  <2>1. /\ jobs' = [jobs EXCEPT ![sl].state = "active"] /\ jobs[sl].state = "wait"
        /\ run'[w].slot = sl /\ run'[w].lock /\ ~run[w].lock /\ faults' = faults
        /\ \A v \in Workers : v # w => run'[v] = run[v]
    BY <1>3, <1>a DEF Take, TypeOK, RunOK
  <2>2. ASSUME NEW x \in Slots, x # sl PROVE Budget(x)'
    <3>1. jobs'[x] = jobs[x] /\ \A v \in Workers : Holds(v, x) => Holds(v, x)'
      BY <1>a, <2>1, <2>2 DEF QueueTypeOK, Holds
    <3> QED BY <1>a, <2>1, <3>1, BudgetKept DEF BudgetOK
  <2>3. Budget(sl)'
    <3>1. /\ jobs'[sl].attempts = jobs[sl].attempts /\ jobs'[sl].stalls = jobs[sl].stalls
          /\ jobs'[sl].state = "active"
      BY <1>a, <2>1 DEF QueueTypeOK, Job
    <3>2. ~Orphan(sl)'
      BY <2>1 DEF Orphan, Holds
    <3> QED BY <2>1, <3>1, <3>2 DEF Budget, BudgetOK
  <2> QED BY <2>2, <2>3 DEF BudgetOK
<1>4. ASSUME NEW w \in Workers, NEW out, run' = [run EXCEPT ![w] = Committed(w, out)],
             UNCHANGED <<jobs, faults>>
      PROVE  BudgetOK'
  <2>1. \A v \in Workers : run'[v].lock = run[v].lock /\ run'[v].slot = run[v].slot
    BY <1>4, <1>a DEF TypeOK, Committed
  <2> QED BY <1>4, <1>a, <2>1, BudgetSame
<1>5. ASSUME NEW w \in Workers, ProcessChangesets(w) \/ ProcessFile(w) \/ ProcessSync(w)
      PROVE  BudgetOK'
  BY <1>4, <1>5 DEF ProcessChangesets, ProcessFile, ProcessSync, queue
<1>6. ASSUME NEW w \in Workers, PushNext(w)
      PROVE  BudgetOK'
  <2> DEFINE K == {Single(i) : i \in run[w].out}
  <2>1. K \in SUBSET Keys
    BY <1>a DEF Keys, TypeOK, Run
  <2>2. add(K, events) /\ faults' = faults
    BY <1>6 DEF PushNext, addBulk
  <2>3. \A v \in Workers : run'[v].lock = run[v].lock /\ run'[v].slot = run[v].slot
    BY <1>6, <1>a DEF PushNext, TypeOK, Run
  <2> HIDE DEF K
  <2> QED BY <1>a, <2>1, <2>2, <2>3, BudgetAdd DEF QueueTypeOK
<1>7. ASSUME NEW w \in Workers, Complete(w)
      PROVE  BudgetOK'
  <2> SUFFICES ASSUME NEW x \in Slots PROVE Budget(x)'
    BY DEF BudgetOK
  <2>1. run'[w] = Idle /\ \A v \in Workers : v # w => run'[v] = run[v]
    BY <1>7, <1>a DEF Complete, TypeOK
  <2>2. CASE Holds(w, x)
    <3>1. jobs'[x] = NoJob
      BY <1>7, <1>a, <2>2 DEF Complete, Holds, QueueTypeOK
    <3> QED BY <1>a, <3>1, BudgetNew
  <2>3. CASE ~Holds(w, x)
    <3>1. jobs'[x] = jobs[x]
      BY <1>7, <1>a, <2>3 DEF Complete, Holds, QueueTypeOK
    <3>2. \A v \in Workers : Holds(v, x) => Holds(v, x)'
      BY <2>1, <2>3 DEF Holds
    <3>3. faults'.errors[x] = faults.errors[x] /\ faults'.losses[x] = faults.losses[x]
      BY <1>7, <1>a, <2>3, ForgottenFacts DEF Complete, Holds, TypeOK
    <3> QED BY <1>a, <3>1, <3>2, <3>3, BudgetKept DEF BudgetOK
  <2> QED BY <2>2, <2>3
<1>8. ASSUME NEW w \in Workers, TransactionFailure(w)
      PROVE  BudgetOK'
  <2>a. run[w].slot \in Slots
    BY <1>8, <1>a, RunFacts DEF TransactionFailure, TransactionAborts
  <2>b. PICK sl \in Slots : sl = run[w].slot
    BY <2>a
  <2>1. faults' = faults
    BY <1>8 DEF TransactionFailure, TransactionAborts
  <2> SUFFICES ASSUME NEW x \in Slots PROVE Budget(x)'
    BY DEF BudgetOK
  <2>2. CASE jobs[sl].state = "active"
    <3>1. jobs' = [jobs EXCEPT ![sl].state = "delayed"] /\ run' = [LosingLock(sl) EXCEPT ![w] = Idle]
      BY <1>8, <2>b, <2>2 DEF TransactionFailure, TransactionAborts
    <3>2. CASE x = sl
      <4>1. /\ jobs'[x].state = "delayed" /\ jobs'[x].attempts = jobs[x].attempts
            /\ jobs'[x].stalls = jobs[x].stalls
        BY <1>a, <3>1, <3>2 DEF QueueTypeOK, Job
      <4> QED BY <2>1, <4>1 DEF Budget, BudgetOK, Orphan
    <3>3. CASE x # sl
      <4>1. jobs'[x] = jobs[x]
        BY <1>a, <3>1, <3>3 DEF QueueTypeOK
      <4>2. \A v \in Workers : v # w => run'[v] = LosingLock(sl)[v]
        BY <1>a, <3>1, LosingLockFacts
      <4>3. \A v \in Workers : Holds(v, x) => Holds(v, x)'
        BY <1>a, <2>b, <3>3, <4>2, LosingLockFacts DEF Holds
      <4> QED BY <1>a, <2>1, <4>1, <4>3, BudgetKept DEF BudgetOK
    <3> QED BY <3>2, <3>3
  <2>3. CASE jobs[sl].state # "active"
    <3>1. run' = [run EXCEPT ![w] = Idle] /\ jobs' = jobs
      BY <1>8, <2>b, <2>3 DEF TransactionFailure, TransactionAborts
    <3>2. \A v \in Workers : Holds(v, x) => Holds(v, x)'
      BY <1>a, <2>b, <2>3, <3>1 DEF Holds, RunOK, TypeOK
    <3> QED BY <1>a, <2>1, <3>1, <3>2, BudgetKept DEF BudgetOK
  <2> QED BY <2>2, <2>3
<1>9. ASSUME NEW w \in Workers, ProcessError(w) \/ Crash(w)
      PROVE  BudgetOK'
  <2>1. \A x \in Slots : x \notin Owned(w) => \A v \in Workers : Holds(v, x) => Holds(v, x)'
    BY <1>9, <1>a DEF ProcessError, Crash, Owned, Holds, TypeOK
  <2>2. CASE ProcessError(w)
    <3>1. \A x \in Slots : jobs'[x] = IF x \in Owned(w) THEN Retried(jobs[x]) ELSE jobs[x]
      BY <1>a, <2>2 DEF ProcessError, Owned, QueueTypeOK
    <3>2. Fault(Owned(w), {})
      BY <2>2 DEF ProcessError
    <3> QED BY <1>a, <2>1, <3>1, <3>2, BudgetFault
  <2>3. CASE Crash(w)
    <3>1. jobs' = jobs /\ Fault({}, Owned(w))
      BY <2>3 DEF Crash, queue
    <3> QED BY <1>a, <2>1, <3>1, BudgetFault
  <2> QED BY <1>9, <2>2, <2>3
<1>10. ASSUME NEW sl \in Slots, StallSlow(sl)
       PROVE  BudgetOK'
  <2>1. \A x \in Slots : jobs'[x] = IF x = sl THEN Stalled(jobs[x]) ELSE jobs[x]
    BY <1>10, <1>a DEF StallSlow, QueueTypeOK
  <2>2. \A x \in Slots : x # sl => \A v \in Workers : Holds(v, x) => Holds(v, x)'
    BY <1>10, <1>a, LosingLockFacts DEF StallSlow, Holds
  <2>3. Fault({}, {sl})
    BY <1>10 DEF StallSlow
  <2> QED BY <1>a, <2>1, <2>2, <2>3, BudgetFault
<1>11. ASSUME NEW sl \in Slots, LoseEvent(sl)
       PROVE  BudgetOK'
  <2>1. Fault({}, {}) /\ jobs' = jobs /\ run' = run
    BY <1>11 DEF LoseEvent
  <2> QED BY <1>a, <2>1, BudgetFault DEF Holds
<1>12. ASSUME NEW sl \in Slots, StallOrphan(sl)
       PROVE  BudgetOK'
  <2> SUFFICES ASSUME NEW x \in Slots PROVE Budget(x)'
    BY DEF BudgetOK
  <2>1. /\ Orphan(sl) /\ run' = run /\ faults' = faults
        /\ jobs'[sl] = Stalled(jobs[sl]) /\ \A y \in Slots : y # sl => jobs'[y] = jobs[y]
    BY <1>12, <1>a DEF StallOrphan, Orphan, QueueTypeOK
  <2>2. CASE x # sl
    BY <1>a, <2>1, <2>2, BudgetKept DEF BudgetOK, Holds
  <2>3. CASE x = sl
    <3>1. jobs[sl] \in Job /\ Budget(sl)
      BY <1>a, CountFacts DEF BudgetOK
    <3>2. ~Orphan(sl)'
      BY <2>1, <3>1, JobFacts DEF Orphan
    <3> QED BY <1>a, <2>1, <2>3, <3>1, <3>2, JobFacts, CountFacts DEF Budget
  <2> QED BY <2>2, <2>3
<1>13. ASSUME NEW sl \in Slots, Promote(sl), KeepRest
       PROVE  BudgetOK'
  <2> SUFFICES ASSUME NEW x \in Slots PROVE Budget(x)'
    BY DEF BudgetOK
  <2>1. /\ run' = run /\ faults' = faults /\ jobs'[sl].state = "wait"
        /\ jobs'[sl].attempts = jobs[sl].attempts /\ jobs'[sl].stalls = jobs[sl].stalls
        /\ \A y \in Slots : y # sl => jobs'[y] = jobs[y]
    BY <1>13, <1>a DEF Promote, KeepRest, QueueTypeOK, Job
  <2>2. CASE x # sl
    BY <1>a, <2>1, <2>2, BudgetKept DEF BudgetOK, Holds
  <2>3. CASE x = sl
    BY <2>1, <2>3 DEF Budget, BudgetOK, Orphan
  <2> QED BY <2>2, <2>3
<1>14. ASSUME NEW sl \in Slots, changeJobDelay(sl), KeepRest
       PROVE  BudgetOK'
  <2>1. CASE events' = events \ {sl} /\ UNCHANGED <<jobs, dedup>>
    BY <1>1, <1>14, <2>1 DEF KeepRest
  <2>2. CASE add({sl[1]}, events \ {sl})
    <3>1. add({sl[1]}, events \ {sl}) /\ {sl[1]} \in SUBSET Keys /\ events \ {sl} \in SUBSET Slots
      BY <1>a, <2>2, SlotFacts DEF QueueTypeOK
    <3>2. run' = run /\ faults' = faults
      BY <1>14 DEF KeepRest
    <3> QED BY <1>a, <3>1, <3>2, BudgetAdd
  <2> QED BY <1>14, <2>1, <2>2 DEF changeJobDelay
<1> QED
  <2>1. ASSUME NEW e \in Entities, NEW st \in EntityStatus, NEW c \in Changesets \cup {changesetOf[e]},
               UpdateEntity(e, st, c)
        PROVE  BudgetOK'
    BY <1>1, <2>1 DEF UpdateEntity, queue
  <2>2. ASSUME NEW c \in Changesets, UpdateChangesetEntities(c)
        PROVE  BudgetOK'
    BY <1>1, <2>2 DEF UpdateChangesetEntities, queue
  <2>3. ASSUME NEW f \in Files, UpdateFile(f, Cardinality(EntitiesOf(f)))
        PROVE  BudgetOK'
    BY <1>1, <2>3 DEF UpdateFile, queue
  <2>4. ASSUME NEW s \in Syncs, NEW st \in Status, UpdateSync(s, st, Cardinality(FilesOf(s)))
        PROVE  BudgetOK'
    BY <1>1, <2>4 DEF UpdateSync, queue
  <2>5. ASSUME NEW k \in Keys, ExpireKey(k), KeepRest
        PROVE  BudgetOK'
    BY <1>1, <2>5 DEF ExpireKey, KeepRest
  <2>6. CASE UNCHANGED vars
    BY <1>1, <2>6 DEF vars, queue
  <2> QED
    BY <1>2, <1>3, <1>5, <1>6, <1>7, <1>8, <1>9, <1>10, <1>11, <1>12, <1>13, <1>14,
       <2>1, <2>2, <2>3, <2>4, <2>5, <2>6
       DEF Next, Client, Broker, Work, Failures

\* A job is parked as failed only after as many errors of its own, or as many losses of
\* its own worker, as the options allow: serialization failures, the faults of other
\* jobs and a mixture of fewer errors and stalls use up nothing.
THEOREM FailureNotPremature == Spec => []NoPrematureFailure
<1>1. Init => BudgetOK
  <2> SUFFICES ASSUME Init, NEW sl \in Slots PROVE Budget(sl)
    BY DEF BudgetOK
  <2>1. /\ jobs[sl].attempts = 0 /\ jobs[sl].stalls = 0 /\ jobs[sl].state = "none"
        /\ faults.errors[sl] = 0 /\ faults.losses[sl] = 0
    BY DEF Init, QueueInit, NoJob, Unharmed
  <2> QED BY <2>1 DEF Budget, Orphan
<1>2. StructOK /\ StructOK' /\ BudgetOK /\ [Next]_vars => BudgetOK'
  BY BudgetStep
<1>3. StructOK /\ BudgetOK => NoPrematureFailure
  <2> SUFFICES ASSUME StructOK, BudgetOK, NEW sl \in Slots, jobs[sl].state = "failed"
               PROVE  faults.errors[sl] >= MaxAttempts \/ faults.losses[sl] > MaxStalled
    BY DEF NoPrematureFailure
  <2>1. Budget(sl) /\ TypeOK
    BY DEF BudgetOK, StructOK
  <2> QED BY <2>1, CountFacts DEF Budget
<1> QED BY <1>1, <1>2, <1>3, StructCorrect, PTL DEF Spec
=============================================================================
