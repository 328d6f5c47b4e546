SPECIFICATION Spec
CHECK_DEADLOCK FALSE
CONSTANTS
  Keys = {k1, k2}
  Conns = {c1, c2}
  Listeners = {l1, l2}
  Writers = {w1, w2}
  Accepters = {a1}
  Backlog = 1
  AcceptCapacity = 1
  MaxConnections = 1
  None = None
INVARIANTS AdmissionSound CloseIsExact
SYMMETRY Symmetry
