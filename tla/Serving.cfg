SPECIFICATION FairSpec
CONSTANTS
  Proc = {p1, p2}
  Observer = Observer
  NodeKey = NodeKey
  RpcKey = RpcKey
  Svc = Svc
  IdKey = IdKey
  MaxStart = 1
  Mortal = {p1}
  Dialer = {p1}
  Deregisterer = {p2}
  NoOwner = NoOwner
INVARIANT
  DiscoverySound
PROPERTY
  ViewConverges
CHECK_DEADLOCK FALSE
