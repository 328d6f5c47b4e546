SPECIFICATION Spec
CHECK_DEADLOCK FALSE
CONSTANTS
  Requests = {r1, r2}
  Flows = {f1, f2}
  Locals = {l1}
  LocalOf <- OneDestination
  Writers = {w1}
  Updaters = {u1}
  Networks <- Withdrawing
  Kinds = {"tcp", "udp", "icmp"}
  MaxInFlight = 1
  None = None
INVARIANTS DecidedOnce NothingLeftBehind EndpointsOwned UpdateIsComplete
SYMMETRY Symmetry
