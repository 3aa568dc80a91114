SPECIFICATION Spec
CONSTANTS
  Client = {c1, c2}
  Key = {a, b}
  Value = {v1, v2}
  Path <- TwoLevels
  GenLimit = 1
  NoOwner = NoOwner
INVARIANT TreeSound
PROPERTY EveryChangeAnnounced
SYMMETRY Symmetry
CHECK_DEADLOCK FALSE
