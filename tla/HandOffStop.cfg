CONSTANTS
  c1 = c1 e1 = e1 f1 = f1 s1 = s1 wc = wc wf = wf ws = ws
  NoSync = NoSync NoChangeset = NoChangeset Null = Null NoCopy = NoCopy NoSlot = NoSlot
  Entities = {e1}
  Files = {f1}
  Syncs = {s1}
  Changesets = {c1}
  FileOf <- OneFile
  SyncOf <- OneSync
  BaseOf <- NoReruns
  QueueOf <- Queues
  Copies = {1, 2}
  DedupMode = "ttl"
  DedupDelay = FALSE
  KeepCompleted = TRUE
  MaxBatchSize = 2
  MaxAttempts = 2
  MaxStalled = 1
  Workers = {wc, wf, ws}
  HandOffFaults = TRUE
  MaxClientOps = 2
  MaxFaults = 6
  MaxTxnFailures = 0
  AbruptStops = FALSE
  MaxStops = 1
SPECIFICATION ReplicaSpec
INVARIANTS
  ClosedFileReachesSync
CHECK_DEADLOCK FALSE
