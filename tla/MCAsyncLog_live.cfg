SPECIFICATION FairSpec
CONSTANTS
  Clients = {c1, c2}
  Owner = owner
  Worker = worker_thread
  QueueSize = 2
  Policies = {"kBlockRetry", "kDiscardLogMsg"}
  SinkCount = 1
  Off = Off
  NoItem = NoItem
  StaleLoads = TRUE
  ForceOff = TRUE
  MaxCalls = 2
  MaxFaults = 1
  MaxFormatters = 0
PROPERTIES
  LogReturns
  RetryingDestructorFinishes
  AcceptedIsWritten
