SPECIFICATION Spec
CONSTANTS
  MaxFiles = 2
  MaxSize = 3
  Sizes = {1, 4}
  MaxMessages = 6
  MaxProcesses = 4
  MaxFaults = 2
  MaxUnreadable = 1
INVARIANTS
  TypeOK
  AgeOrder
  OnlyOldestRemoved
  AckedSurvives
  OnlyNewestLost
  AckedOnce
  GrowthPerProcess
