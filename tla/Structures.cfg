SPECIFICATION SumSpec
CONSTANTS
  Thread = {t1, t2, t3}
  MaxPermits = 3
  MaxRelease = 5
  t1 = t1  t2 = t2  t3 = t3
  w1 = w1  w2 = w2  r1 = r1  r2 = r2
  k1 = k1  k2 = k2  k3 = k3  f1 = f1  f2 = f2
  o1 = o1  o2 = o2  ty1 = ty1  ty2 = ty2
  c1 = c1  c2 = c2  c3 = c3
  srv = srv
  None = None
  Node = {n0, n1, n2, n3}
  Values = 4
  Null = Null
  Sender = {s1, s2}
  Calls = 2
  Timeouts = {"zero", "forever", "timed"}
INVARIANTS
  Exclusive
  BitsExact
  NodesApart
  ChannelSound
  LocksGoOn
  StoresExact
  ConfigureSound
  ArchivesOwn
  RpcChannelSound
  CallSound
  ReadsAgree
PROPERTY
  UpgradeFirst
CHECK_DEADLOCK FALSE
