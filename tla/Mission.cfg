SPECIFICATION FairSpec
CONSTANTS
  Levels <- MCLevels
  FcnCodes <- MCFcnCodes
  TransmitOk <- BusFails
  PipeDepth = 1
  MaxPublished = 2
  MaxRestarts = 1
  ToLimit = 1
  MaxReadings = 1
  MaxPresses = 1
  MaxDups = 1
INVARIANTS
  AutoCloseWasCommandedUnlessUnsent
  StatusIsCurrentUnlessRaced
PROPERTIES
  CriticalIsReported
\* RAD_APP may exit, and the bounds may be reached.
CHECK_DEADLOCK FALSE
