SPECIFICATION Spec
CONSTANTS
  Clients = {c1, c2}
  Owner = owner
  Worker = worker_thread
  QueueSize = 2
  Policies = {"kBlockRetry", "kDiscardLogMsg"}
  SinkCount = 2
  Off = Off
  NoItem = NoItem
  StaleLoads = TRUE
  ForceOff = FALSE
  MaxCalls = 3
  MaxFaults = 1
  MaxFormatters = 2
SYMMETRY Symmetry
INVARIANTS
  TypeOK
  SinksFollowQueue
  SinksAgree
  NoSilentLoss
  FlushedOnDestruction
  FailureReportedOnce
