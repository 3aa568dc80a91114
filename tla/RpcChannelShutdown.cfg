SPECIFICATION Spec
CONSTANTS
  Sender = {s1, s2}
  Calls = 1
  Timeouts = {"forever"}
INVARIANT NoAbort
CHECK_DEADLOCK FALSE
