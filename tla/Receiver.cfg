SPECIFICATION FairSpec
CONSTANTS
  MaxThreads = 2
  MaxPackets = 2
  BufferSize = 1
  NumCallbacks = 2
  BindMayFail = TRUE
INVARIANTS
  TypeOK
  AtMostOneListener
  StoppedMeansQuiet
  FaithfulRelay
  EachPacketOnce
PROPERTIES
  StopTerminates
  PacketsAreShown
