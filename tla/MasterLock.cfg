SPECIFICATION Spec
CONSTANTS
  Client = {d1, d2}
  Threads = 2
  Lock = Lock
  MaxGen = 3
  MayCrash = TRUE
  NoOwner = NoOwner
INVARIANT LockSound
CHECK_DEADLOCK FALSE
