CONSTANTS
  c1 = c1 e1 = e1 f1 = f1 s1 = s1 wc = wc wf = wf ws = ws
  Entities = {e1}
  Files = {f1}
  Syncs = {s1}
  Changesets = {c1}
  FileOf <- OneFile
  SyncOf <- OneSync
  BaseOf <- NoReruns
  NoSync = NoSync
  NoChangeset = NoChangeset
  Null = Null
  Copies = {1, 2}
  NoCopy = NoCopy
  DedupMode = "ttl"
  DedupDelay = TRUE
  KeepCompleted = FALSE
  MaxBatchSize = 2
  MaxAttempts = 3
  MaxStalled = 1
  Workers = {wc, wf, ws}
  QueueOf <- Queues
  NoSlot = NoSlot
  HandOffFaults = TRUE
  MaxClientOps = 2
  MaxFaults = 3
  MaxTxnFailures = 1
SPECIFICATION Spec
INVARIANTS
  TypeOK
  RequestedClosureIsAttempted
  NoPrematureFailure
CHECK_DEADLOCK FALSE
