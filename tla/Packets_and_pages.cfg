SPECIFICATION BothSpec
INVARIANTS
  VerifierIsRight
  CommandSurvives
  NothingMisread
  ReadingSurvives
  NoEmptyPage
  PagesCoverList
  WalkSkipsNothing
CONSTANTS
  Mids <- AllMids
  FuncCodes <- EdgeCodes
  SeqCounts <- EdgeSeqs
  Times <- EdgeTimes
  Readings <- SomeReadings
  Healths = {0, 2, 7}
  Payloads <- SomePayloads
  AppNames <- EventNames
  Messages <- EventTexts
  AppNameSize = 20
  Types = {"evs", "unknown"}
  BufferSize = 4
  RecentMax = 3
  ItemsPerPage = 2
  MaxArrivals = 5
