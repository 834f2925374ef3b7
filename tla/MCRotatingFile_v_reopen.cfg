SPECIFICATION Spec
CONSTANTS
  MaxFiles = 1
  MaxSize = 1
  Sizes = {1}
  MaxMessages = 2
  MaxProcesses = 1
  MaxFaults = 0
  MaxUnreadable = 0
INVARIANTS
  RotationReopens
