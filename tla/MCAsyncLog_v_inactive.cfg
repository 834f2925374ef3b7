SPECIFICATION Spec
CONSTANTS
  Clients = {c1}
  Owner = owner
  Worker = worker_thread
  QueueSize = 2
  Policies = {"kBlockRetry"}
  SinkCount = 1
  Off = Off
  NoItem = NoItem
  StaleLoads = FALSE
  ForceOff = FALSE
  MaxCalls = 2
  MaxFaults = 1
  MaxFormatters = 0
PROPERTIES
  BadWorkerThrows
