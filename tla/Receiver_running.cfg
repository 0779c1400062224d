SPECIFICATION Spec
CONSTANTS
  MaxThreads = 1
  MaxPackets = 1
  BufferSize = 1
  NumCallbacks = 1
  BindMayFail = TRUE
INVARIANTS
  RunningMeansListening

