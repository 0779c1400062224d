SPECIFICATION FairSpec
CONSTANTS
  Levels <- MCLevels
  FcnCodes <- MCFcnCodes
  PipeDepth = 2
  TransmitOk <- AnyStatus
  MaxPublished = 3
  MaxRestarts = 1
INVARIANTS
  TypeOK
  CriticalTlmFollowsClose
  TlmInOrder
  CountersMatchCalls
PROPERTIES
  OnlyInitialisedAppSpeaks
  ImplementsFdir
  CriticalIsClosed
\* The application may exit, and the bounds may be reached.
CHECK_DEADLOCK FALSE
