--------------------------- MODULE ReplicaProofs ----------------------------
(***************************************************************************)
(* Proofs about Replica: stopping, killing and restarting the replica, in  *)
(* whatever order its connections go, is one of the ways in which the      *)
(* closure mechanism may fail, so what holds of Closure under its failures *)
(* holds of a replica that comes and goes.                                 *)
(***************************************************************************)
EXTENDS Replica, DeliveryProofs

\* opening, closing and restarting do not touch tables, queues or workers, except
\* that events are missed
LEMMA LifeIsStep == Life => [Next]_vars
<1> SUFFICES ASSUME Life PROVE [Next]_vars
  OBVIOUS
<1>1. CASE \E r \in Connections \cup Workers : Open(r)
  BY <1>1 DEF Open
<1>2. CASE \E r \in Connections : CloseConnection(r)
  BY <1>2 DEF CloseConnection
<1>3. CASE \E w \in Workers : CloseWorker(w)
  BY <1>3 DEF CloseWorker
<1>4. CASE Start \/ BootFails \/ Trigger \/ Kill \/ Exit \/ Restart
  BY <1>4 DEF Start, BootFails, Trigger, Kill, Exit, Restart
<1>5. CASE \E sl \in Slots : Miss(sl)
  BY <1>5 DEF Miss, Next, Failures
<1> QED BY <1>1, <1>2, <1>3, <1>4, <1>5 DEF Life

LEMMA ReplicaStepIsStep == [ReplicaNext]_replicaVars => [Next]_vars
<1> SUFFICES ASSUME [ReplicaNext]_replicaVars PROVE [Next]_vars
  OBVIOUS
<1>1. CASE UNCHANGED replicaVars
  BY <1>1 DEF replicaVars
<1>2. CASE Life
  BY <1>2, LifeIsStep
<1>3. CASE \E w \in Workers : OwnWork(w)
  BY <1>3 DEF OwnWork, Next
<1>4. CASE \E w \in Workers : ConnectionError(w) \/ Abandon(w)
  BY <1>4 DEF ConnectionError, Abandon, Next, Failures
<1>5. CASE Served
  BY <1>5 DEF Served, Next
<1> QED BY <1>1, <1>2, <1>3, <1>4, <1>5 DEF ReplicaNext

\* Every behaviour of a replica that is stopped and restarted is a behaviour of Closure.
THEOREM ReplicaIsClosure == ReplicaSpec => Spec
<1>1. ReplicaInit => Init
  BY DEF ReplicaInit
<1> QED BY <1>1, ReplicaStepIsStep, PTL DEF ReplicaSpec, Spec

\* However a replica is stopped, a job is failed for good only after MaxAttempts errors
\* of its own or after its own worker was lost more than MaxStalled times.
THEOREM StopsFailNothingEarly == ReplicaSpec => []NoPrematureFailure
  BY ReplicaIsClosure, FailureNotPremature, PTL

\* With a ttl, a changeset or file closure that was asked for is attempted although
\* the replica is stopped, killed and restarted while it is on its way.
THEOREM StopsLoseNoRequest ==
  ASSUME DedupMode = "ttl"
  PROVE  ReplicaSpec => []RequestedClosureIsAttempted
  BY ReplicaIsClosure, RequestAttempted, PTL

\* Without one, no stop or restart brings a second job of an id into the queue.
THEOREM StopsKeepOneJob ==
  ASSUME DedupMode = "simple"
  PROVE  ReplicaSpec => []SingleFlight
  BY ReplicaIsClosure, OneJobAtATime, PTL
=============================================================================
