SPECIFICATION Spec
CONSTANTS
  Req = {q1, q2}
  Sid = {s1, s2}
  Dealer = {d1, d2}
  AnySid = AnySid
  None = None
PROPERTY BackendSound
SYMMETRY Symmetry
