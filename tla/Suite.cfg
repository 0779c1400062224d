SPECIFICATION Spec
CONSTANTS
  PipeDepth = 1
  BootTries = 2
  MaxFaults = 1
INVARIANTS
  SuccessMeansWorking
PROPERTIES
  VerdictIsEarned
  NoFalseAlarm
CHECK_DEADLOCK FALSE
