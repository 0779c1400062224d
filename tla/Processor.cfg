SPECIFICATION Spec
CONSTANTS
  Sessions = {s1, s2}
  Kinds <- SomeKinds
  MaxPoints = 1
  MaxEvents = 4
  MaxRaw = 1
  BufferSize = 2
  EventsShown = 3
  RawShown = 1
  ListShown = 1
  MaxEntries = 2
  MaxPresses = 2
SYMMETRY SessionSymmetry
INVARIANTS
  TypeOK
  StatusExplained
  ShownStatusIsLogged
  ShownPointIsCharted
  ShownRawIsListed
