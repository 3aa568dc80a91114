SPECIFICATION ExclusiveSpec
CONSTANTS
  Producer = {p1, p2}
  Calls = 1
  MaxConnect = 2
INVARIANT NoAbort
CHECK_DEADLOCK FALSE
