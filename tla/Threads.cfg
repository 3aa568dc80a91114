SPECIFICATION FairSpec
CONSTANTS
  Value = {v1, v2, v3, v4}
  Dummy = Dummy
  Null = Null
  s1 = s1  s2 = s2
  n0 = n0  n1 = n1  n2 = n2  n3 = n3
  o1 = o1  o2 = o2
  j1 = j1  j2 = j2  th1 = th1  th2 = th2  th3 = th3
  w1 = w1  w2 = w2  acc = acc
  p1 = p1  p2 = p2
  None = None
INVARIANTS
  MemorySafe
  ReplicatorSound
  FramingSound
  GroupSound
  MonitorSound
  AccumulatorSound
  FinalizeSound
PROPERTIES
  Refines
  ComesToRest
  WaitsEnd
  Settles
CHECK_DEADLOCK FALSE
