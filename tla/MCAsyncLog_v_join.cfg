SPECIFICATION FairSpec
CONSTANTS
  Clients = {c1, c2}
  Owner = owner
  Worker = worker_thread
  QueueSize = 2
  Policies = {"kDiscardLogMsg"}
  SinkCount = 1
  Off = Off
  NoItem = NoItem
  StaleLoads = FALSE
  ForceOff = FALSE
  MaxCalls = 2
  MaxFaults = 0
  MaxFormatters = 0
PROPERTIES
  DestructorFinishes
