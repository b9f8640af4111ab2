CONSTANTS
  x = x e1 = e1 e2 = e2 f1 = f1 f2 = f2 r1 = r1 r2 = r2 r3 = r3 q1 = q1 q2 = q2 q3 = q3
  Base = Base Absent = Absent NoTables = NoTables
  Reruns = {r1, r2}
  Files = {f1, f2}
  Entities = {e1, e2}
  FileOf <- InF1
  IdOf <- OwnId
  Requests = {q1, q2}
  RerunOf <- OwnRerun
  NotSyncedToo <- OneNotSynced
  PoolSize = 3
  MaxClientOps = 0
SPECIFICATION Spec
INVARIANTS
  FailedRequestCreatesNothing
CHECK_DEADLOCK FALSE
