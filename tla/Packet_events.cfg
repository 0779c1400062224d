SPECIFICATION LinkSpec
INVARIANTS
  EventMessageIsExtracted
CONSTANTS
  Mids <- AllMids
  FuncCodes <- EdgeCodes
  SeqCounts <- EdgeSeqs
  Times <- EdgeTimes
  Readings <- SomeReadings
  Healths = {0, 2, 7}
  Payloads <- SomePayloads
  AppNames <- EventNames
  Messages <- EventTexts
  AppNameSize = 20
