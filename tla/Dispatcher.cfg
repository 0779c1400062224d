SPECIFICATION Spec
CONSTANTS
  Sessions = {s1, s2, s3}
  Commands <- OnePerMid
  SeqMod = 3
  MaxSends = 4
SYMMETRY SessionSymmetry
INVARIANTS
  TypeOK
  SeqNumbersCalls
  HistoryMatchesWire
\* The bound on calls may be reached.
CHECK_DEADLOCK FALSE
