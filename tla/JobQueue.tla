------------------------------ MODULE JobQueue ------------------------------
(***************************************************************************)
(* The three closure queues behind BullQueueProvider.  A job carries the   *)
(* ids it closes; its deduplication id is the id itself for a single job   *)
(* and a hash of the ids for a batch, so the pair (batch, ids) is the key. *)
(* Jobs of one key live in the slots <<key, copy>>: how many copies may    *)
(* live at once is a bound of the model (Copies).                          *)
(*                                                                         *)
(* Redis and BullMQ are external: delays, deduplication keys and locks are *)
(* modelled from the options the providers pass to them.                   *)
(***************************************************************************)
EXTENDS TrackerDb, Sequences, Functions

CONSTANTS
  Copies,        \* bound: live jobs of one deduplication id
  NoCopy,
  DedupMode,     \* "ttl": deduplicationTtl set and shorter than delay (helm);
                 \* "simple": not set (config/default.json)
  DedupDelay,    \* deduplicationDelay set: 'deduplicated' events are listened to
  KeepCompleted, \* completed jobs outlive their events (removeOnComplete.age, a week)
  MaxBatchSize,  \* queueOptions.maxBatchSize of the changesets queue
  MaxAttempts,   \* jobOptions.attempts
  MaxStalled     \* workerOptions.maxStalledCount

ASSUME QueueAssumption ==
  /\ NoCopy \notin Copies
  /\ DedupMode \in {"ttl", "simple"}
  /\ DedupDelay \in BOOLEAN /\ KeepCompleted \in BOOLEAN
  /\ MaxBatchSize \in Nat \ {0} /\ MaxAttempts \in Nat \ {0} /\ MaxStalled \in Nat

VARIABLES
  jobs,      \* slot -> the job in it
  dedup,     \* key -> the copy that holds the deduplication key in Redis
  events     \* slots whose 'deduplicated' event has not been handled

queue == <<jobs, dedup, events>>

Ids == Changesets \cup Files \cup Syncs
Single(i) == [batch |-> FALSE, ids |-> {i}]
Batch(I) == [batch |-> TRUE, ids |-> I]
Keys == {Single(i) : i \in Ids} \cup {Batch(I) : I \in (SUBSET Changesets) \ {{}}}
Slots == Keys \X Copies

Queue(k) == IF k.ids \subseteq Changesets THEN "changesets"
            ELSE IF k.ids \subseteq Files THEN "files" ELSE "syncs"

Job == [state : {"none", "delayed", "wait", "active", "failed"},
        attempts : Nat, stalls : Nat]
NoJob == [state |-> "none", attempts |-> 0, stalls |-> 0]
NewJob == [state |-> "delayed", attempts |-> 0, stalls |-> 0]   \* jobOptions.delay

QueueTypeOK ==
  /\ jobs \in [Slots -> Job]
  /\ dedup \in [Keys -> Copies \cup {NoCopy}]
  /\ events \subseteq Slots

QueueInit ==
  /\ jobs = [sl \in Slots |-> NoJob]
  /\ dedup = [k \in Keys |-> NoCopy]
  /\ events = {}

-----------------------------------------------------------------------------
(* Adding jobs *)

FreeCopies(k) == {c \in Copies : jobs[<<k, c>>].state = "none"}
FreeCopy(k) == CHOOSE c \in FreeCopies(k) : TRUE

\* mutation: the jobs are added without a deduplication id
AcceptedAll(K) == K

\* the keys of K that nothing holds: their jobs are not deduplicated
Accepted(K) == {k \in K : dedup[k] = NoCopy}

\* the 'deduplicated' events of the other ones: there are QueueEvents to listen to
\* only when a deduplicationDelay is configured
Deduplicated(K) == IF DedupDelay THEN {<<k, dedup[k]>> : k \in K \ Accepted(K)} ELSE {}

\* queue.add / queue.addBulk: one Redis transaction.  A key that is held
\* swallows the job and emits an event; evs are the events still to be handled
add(K, evs) ==
  /\ \A k \in Accepted(K) : FreeCopies(k) # {}
  /\ jobs' = [sl \in Slots |-> IF sl[1] \in Accepted(K) /\ sl[2] = FreeCopy(sl[1])
                               THEN NewJob ELSE jobs[sl]]
  /\ dedup' = [k \in Keys |-> IF k \in Accepted(K) THEN FreeCopy(k) ELSE dedup[k]]
  /\ events' = evs \cup Deduplicated(K)

addBulk(K) == add(K, events)

\* mutation: the loop stops before the last, incomplete slice
SlicesWithoutTail(ids) ==
  {SubSeq(ids, i + 1, i + MaxBatchSize) :
     i \in {x \in 0..(Len(ids) - MaxBatchSize) : x % MaxBatchSize = 0}}

\* for (let i = 0; i < jobs.length; i += maxBatchSize) jobs.slice(i, i + maxBatchSize)
Slices(ids) ==
  {SubSeq(ids, i + 1, IF i + MaxBatchSize < Len(ids) THEN i + MaxBatchSize ELSE Len(ids)) :
     i \in {x \in 0..(Len(ids) - 1) : x % MaxBatchSize = 0}}

\* the jobs that push makes of an array of distinct ids: batching is enabled
\* on the changesets queue only
JobsOf(ids) ==
  IF Len(ids) = 1 \/ ~(Range(ids) \subseteq Changesets)
  THEN {Single(i) : i \in Range(ids)}
  ELSE {Batch(Range(slice)) : slice \in Slices(ids)}

push(ids) == addBulk(JobsOf(ids))

-----------------------------------------------------------------------------
(* What happens to a job outside the workers *)

\* the delay (initial, backoff or transactionFailureDelay) has passed.  With a
\* ttl shorter than the initial delay, the key has expired by then.
Promote(sl) ==
  /\ jobs[sl].state = "delayed"
  /\ DedupMode = "ttl" => dedup[sl[1]] # sl[2]
  /\ jobs' = [jobs EXCEPT ![sl].state = "wait"]
  /\ UNCHANGED <<dedup, events>>

ExpireKey(k) ==
  /\ DedupMode = "ttl" /\ dedup[k] # NoCopy
  /\ dedup' = [dedup EXCEPT ![k] = NoCopy]
  /\ UNCHANGED <<jobs, events>>

\* mutation: a job that is no longer delayed is not added newly
changeJobDelayOnly(sl) ==
  /\ sl \in events
  /\ events' = events \ {sl}
  /\ UNCHANGED <<jobs, dedup>>

\* getJob finds the job of an event, unless it was completed and may be removed by now
Removed(sl) == jobs[sl].state = "none" /\ ~KeepCompleted

\* the 'deduplicated' listener: a delayed job is delayed further (no change here),
\* any other one is added again, which may be swallowed in turn; nothing is done for
\* a job that is not found
changeJobDelay(sl) ==
  /\ sl \in events
  /\ \/ (jobs[sl].state = "delayed" \/ Removed(sl)) /\ events' = events \ {sl} /\ UNCHANGED <<jobs, dedup>>
     \/ jobs[sl].state # "delayed" /\ add({sl[1]}, events \ {sl})

\* a finished job gives its key back unless the key has a ttl
KeyAfterFinish(sl) ==
  IF DedupMode = "simple" /\ dedup[sl[1]] = sl[2]
  THEN [dedup EXCEPT ![sl[1]] = NoCopy] ELSE dedup
=============================================================================
