SPECIFICATION Spec
CONSTANTS
  Sessions = {s1, s2}
  Commands <- OnePerMid
  SeqMod = 16384
  MaxSends = 2
INVARIANTS
  SeqOrdersPackets
CHECK_DEADLOCK FALSE
