CONSTANTS
  c1 = c1 c2 = c2 c3 = c3 e1 = e1 e2 = e2 e3 = e3 f1 = f1 f2 = f2 s1 = s1 r1 = r1
  wc = wc wf = wf wg = wg ws = ws
  NoSync = NoSync NoChangeset = NoChangeset Null = Null NoCopy = NoCopy NoSlot = NoSlot
  SyncOf <- OneSync
  QueueOf <- Queues
  Entities = {e1, e2}
  Files = {f1}
  Syncs = {s1, r1}
  Changesets = {c1, c2}
  FileOf <- Spread
  BaseOf <- WithRerun
  Copies = {1, 2}
  DedupMode = "simple"
  DedupDelay = TRUE
  KeepCompleted = TRUE
  MaxBatchSize = 2
  MaxAttempts = 2
  MaxStalled = 1
  Workers = {wc, wf, wg, ws}
  HandOffFaults = FALSE
  MaxClientOps = 4
  MaxFaults = 1
  MaxTxnFailures = 1
SPECIFICATION FlowSpec
INVARIANTS
  NoLostClosure
  SingleFlight
  ClosedIsWhole
PROPERTIES
  OwedIsAttempted
  EverythingCloses
  ImplementsProgress
CHECK_DEADLOCK FALSE
