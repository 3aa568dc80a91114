SPECIFICATION Spec
CONSTANTS
  Producer = {p1, p2}
  Calls = 2
  MaxConnect = 3
INVARIANT MessageComplete
CHECK_DEADLOCK FALSE
