CONSTANTS
  a4 = a4
  b4 = b4
  a6 = a6
  V4 = {a4, b4}
  V6 = {a6}
  Any4 = Any4
  Any6 = Any6
  Ports = {1}
  Networks <- MCNetworks
  Initial <- MCInitial
  Requests <- MCRequests
  Mixed = FALSE
  MaxSockets = 2
  MaxUpdates = 1
SPECIFICATION Spec
INVARIANT RemovedAddressesAreClosed
CHECK_DEADLOCK FALSE
