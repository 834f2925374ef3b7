SPECIFICATION Spec
CONSTANTS
  Day = 4
  RotationHour = 1
  Summer <- OneSummer
  MaxTime = 24
  MaxDelay = 2
  MaxProcesses = 2
  MaxFaults = 1
INVARIANTS
  FileAge
PROPERTIES
  RotationAdvances
