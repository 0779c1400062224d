SPECIFICATION PathSpec
CONSTANTS
  Levels <- SomeLevels
  FcnCodes = {0, 2}
  PipeDepth = 2
  MaxPublished = 4
  MaxRestarts = 1
  Sessions = {s1, s2}
  Inputs <- SomeInputs
  SuiteLevels <- SomeSuiteLevels
  SeqMod = 2
  MaxSends = 3
  MaxDups = 1
SYMMETRY SessionSymmetry
INVARIANTS
  PathTypeOK
  TriggerCountsAreConsecutive
  ReportedWasSent
  SeqCountsSends
PROPERTIES
  ImplementsFdir
\* The application may exit and the bounds may be reached.
CHECK_DEADLOCK FALSE
