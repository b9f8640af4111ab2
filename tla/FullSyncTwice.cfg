CONSTANTS
  s1 = s1 s2 = s2 s3 = s3 f1 = f1 f2 = f2 e1 = e1 e2 = e2 c1 = c1 q1 = q1 q2 = q2 q3 = q3
  NoRow = NoRow NoSync = NoSync NoBody = NoBody
  SyncIds = {s1, s2, s3}
  FileIds = {f1, f2}
  EntityIds = {e1, e2}
  ChangesetIds = {c1}
  Requests = {q1, q2}
  Layers = {1}
  MetaKeys = {1, 2}
  Bodies <- SyncBodies
  InitSyncs <- SyncTables
  InitFiles <- FileTables
  InitEntities <- EntityTables
SPECIFICATION Spec
INVARIANTS
  OneFullSync
CHECK_DEADLOCK FALSE
