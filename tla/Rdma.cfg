SPECIFICATION RdmaSpec
CONSTANTS
  p1 = p1
  p2 = p2
  Producer = {p1, p2}
  Calls = 1
  MaxConnect = 1
PROPERTY SendReturns
CHECK_DEADLOCK FALSE
