SPECIFICATION Spec
CONSTANTS
  Client = {c1, c2, c3}
  Rounds = 2
  Base = Base
  NodeKey = NodeKey
  ReadyKey = ReadyKey
  NoOwner = NoOwner
INVARIANT BarrierSound
SYMMETRY Symmetry
CHECK_DEADLOCK FALSE
