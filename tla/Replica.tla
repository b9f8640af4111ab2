------------------------------ MODULE Replica -------------------------------
(***************************************************************************)
(* The life of a replica around the closure mechanism; it is the only one, *)
(* as the chart deploys it.  registerExternalValues opens the database,    *)
(* the connections to Redis and the workers one after another and          *)
(* registers the closing of each with a cleanup registry; index.ts then    *)
(* starts the workers.  A signal, or an error while starting, triggers the *)
(* registry, which closes everything without regard to what needs what: a  *)
(* worker may find the database or Redis gone in the middle of its job.    *)
(* The orchestrator starts the replica again.                              *)
(*                                                                         *)
(* The registry is external.  It is given no order, so every order of the  *)
(* closings is possible, and it may finish with items it gave up.          *)
(***************************************************************************)
EXTENDS Closure

CONSTANTS
  AbruptStops,  \* may the process end while a worker has a job?
  MaxStops      \* bound: how often the replica is stopped or killed

ASSUME ReplicaAssumption == AbruptStops \in BOOLEAN /\ MaxStops \in Nat

VARIABLES
  stage,       \* "boot", "up", "stopping" or "down"
  open,        \* the connections and workers that are open
  stops        \* counter for the bound

replica == <<stage, open, stops>>
replicaVars == <<vars, replica>>

Connections == {"dataSource", "redisQueue", "redisWorker"}

\* what is resolved before r: the queue connection is a dependency of the queues,
\* the worker connection of the workers
OpenedBefore(r) ==
  CASE r = "dataSource" -> {}
    [] r = "redisQueue" -> {"dataSource"}
    [] r = "redisWorker" -> {"dataSource", "redisQueue"}
    [] OTHER -> Connections

ReplicaInit == Init /\ stage = "boot" /\ open = {} /\ stops = 0

-----------------------------------------------------------------------------
(* Starting and stopping *)

Open(r) ==
  /\ stage = "boot" /\ r \notin open /\ OpenedBefore(r) \subseteq open
  /\ open' = open \cup {r}
  /\ UNCHANGED <<vars, stage, stops>>

\* server.listen and the closure workers initializer
Start ==
  /\ stage = "boot" /\ open = Connections \cup Workers
  /\ stage' = "up"
  /\ UNCHANGED <<vars, open, stops>>

StopOnce == stops < MaxStops /\ stops' = stops + 1

\* a dependency cannot be opened: what was opened before is cleaned up
BootFails ==
  /\ stage = "boot" /\ StopOnce
  /\ stage' = "stopping"
  /\ UNCHANGED <<vars, open>>

\* a signal, or a worker that cannot be started: the cleanup registry is triggered
Trigger ==
  /\ stage = "up" /\ StopOnce
  /\ stage' = "stopping"
  /\ UNCHANGED <<vars, open>>

\* the process dies without a signal it could handle
Kill ==
  /\ AbruptStops
  /\ stage \in {"boot", "up"} /\ StopOnce
  /\ stage' = "stopping" /\ open' = {}
  /\ UNCHANGED vars

\* the registry destroys the data source or quits Redis, whoever still needs them
CloseConnection(r) ==
  /\ stage = "stopping" /\ r \in open
  /\ open' = open \ {r}
  /\ UNCHANGED <<vars, stage, stops>>

\* BullWorkerProvider.close: the worker is closed once its job is over
CloseWorker(w) ==
  /\ stage = "stopping" /\ w \in open /\ run[w].phase = "idle"
  /\ open' = open \ {w}
  /\ UNCHANGED <<vars, stage, stops>>

\* the registry gives the worker up, or the process is dead: its job stays active
Abandon(w) ==
  /\ AbruptStops
  /\ stage = "stopping" /\ Crash(w)
  /\ UNCHANGED replica

Exit ==
  /\ stage = "stopping" /\ \A w \in Workers : run[w].phase = "idle"
  /\ stage' = "down" /\ open' = {}
  /\ UNCHANGED <<vars, stops>>

\* QueueEvents starts at the end of the event stream: what nobody listened to is gone
Miss(sl) == stage = "down" /\ LoseEvent(sl) /\ UNCHANGED replica

Restart ==
  /\ stage = "down" /\ events = {}
  /\ stage' = "boot"
  /\ UNCHANGED <<vars, open, stops>>

-----------------------------------------------------------------------------
(* The closure mechanism meanwhile *)

\* the connection that the next step of a worker uses
ConnectionOf(w) ==
  CASE run[w].phase = "begin" -> "dataSource"
    [] run[w].phase = "push" -> "redisQueue"
    [] OTHER -> "redisWorker"

\* a worker of this replica goes on while it is open and so is what it needs
OwnWork(w) ==
  /\ stage \in {"up", "stopping"} /\ {w, ConnectionOf(w)} \subseteq open
  /\ Work(w)
  /\ UNCHANGED replica

\* mutation: the error is not thrown, so the job is acknowledged
ConnectionErrorSwallowed(w) ==
  /\ stage = "stopping" /\ w \in open /\ ConnectionOf(w) \notin open
  /\ run[w].phase # "idle" /\ jobs' = [jobs EXCEPT ![run[w].slot] = NoJob]
  /\ run' = [run EXCEPT ![w] = Idle]
  /\ UNCHANGED <<db, dedup, events, owed, clientOps, faults, txnFailures, replica>>

\* its connection is closed, and enableOfflineQueue does not hold the command back.
\* The failure of the job is reported through the worker connection, if there is one
ConnectionError(w) ==
  /\ stage = "stopping" /\ w \in open /\ ConnectionOf(w) \notin open
  /\ IF "redisWorker" \in open THEN ProcessError(w) ELSE Crash(w)
  /\ UNCHANGED replica

\* requests are answered, and the queues looked after, while the replica is up
Served == stage = "up" /\ (Client \/ Broker) /\ UNCHANGED replica

Life ==
  \/ \E r \in Connections \cup Workers : Open(r)
  \/ \E r \in Connections : CloseConnection(r)
  \/ \E w \in Workers : CloseWorker(w)
  \/ Start \/ BootFails \/ Trigger \/ Kill \/ Exit \/ Restart
  \/ \E sl \in Slots : Miss(sl)

ReplicaNext ==
  \/ Life
  \/ \E w \in Workers : OwnWork(w) \/ ConnectionError(w) \/ Abandon(w)
  \/ Served

\* Opening and closing end, with a success or an error; workers go on; the
\* orchestrator restarts a container that has stopped.
ReplicaFairness ==
  /\ WF_replicaVars(Start) /\ WF_replicaVars(Exit) /\ WF_replicaVars(Restart)
  /\ WF_replicaVars(\E r \in Connections \cup Workers : Open(r))
  /\ \A w \in Workers : WF_replicaVars(OwnWork(w) \/ ConnectionError(w)) /\ WF_replicaVars(Abandon(w))
  /\ \A sl \in Slots :
       /\ WF_replicaVars(stage = "up" /\ Promote(sl) /\ KeepRest /\ UNCHANGED replica)
       /\ WF_replicaVars(stage = "up" /\ changeJobDelay(sl) /\ KeepRest /\ UNCHANGED replica)
       /\ WF_replicaVars(stage = "up" /\ StallOrphan(sl) /\ UNCHANGED replica)
       /\ WF_replicaVars(Miss(sl))
  /\ \A k \in Keys : WF_replicaVars(stage = "up" /\ ExpireKey(k) /\ KeepRest /\ UNCHANGED replica)

ReplicaSpec == ReplicaInit /\ [][ReplicaNext]_replicaVars
FairReplicaSpec == ReplicaSpec /\ ReplicaFairness

-----------------------------------------------------------------------------
(* Properties *)

\* However often the replica is stopped, killed or fails to start, and whatever its
\* workers lose in the middle of a job, what a client asked for is attempted
\* after the restart, or its job is parked as failed.
RestartRecovers ==
  \A id \in Changesets \cup Files : []<>(id \in owed =>
    \E sl \in Slots : id \in sl[1].ids /\ jobs[sl].state = "failed")
=============================================================================
