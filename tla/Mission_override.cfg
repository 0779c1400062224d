SPECIFICATION Spec
CONSTANTS
  Levels <- MCLevels
  FcnCodes <- MCFcnCodes
  TransmitOk <- BusWorks
  PipeDepth = 2
  MaxPublished = 2
  MaxRestarts = 0
  ToLimit = 2
  MaxReadings = 1
  MaxPresses = 1
  MaxDups = 0
INVARIANTS
  StatusIsCurrent
CHECK_DEADLOCK FALSE
