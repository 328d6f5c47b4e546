SPECIFICATION Spec
CHECK_DEADLOCK FALSE
CONSTANTS
  Unit = 2
  FirstMaximum = 8
  OtherMaximum = 9
  Header = 3
  LastByte = 10
  Totals = {3, 5, 7, 8}
  Capacities = {1, 2, 3, 4, 5}
  OtherRanges <- AllRanges
  Identities = {a, b}
  Sent = a
  ECNs = {0, 1, 3}
  Keys = {k1, k2, k3}
  V6Keys = {k1}
  Arrivals <- Pieces
  Writers = {w1, w2}
  Updaters = {u1}
  MaximumSets = 2
  MaximumPieces = 2
  MaximumBytes = 12
  IPv4Lifetime = 1
  IPv6Lifetime = 2
  LastTime = 1
  UpdateBound = 1
  NetworkStates = {{k2, k3}}
SYMMETRY Symmetry
INVARIANTS ReassemblyFaithful TableFaithful
