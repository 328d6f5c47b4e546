SPECIFICATION LiveSpec
CHECK_DEADLOCK FALSE
CONSTANTS
  Readers = {r1, r2}
  Capacities = {1, 2}
  MaxCalls = 4
INVARIANTS NoStrandedReader DeadlineIsTheLatest ChargedIsHeld
PROPERTY BlockedReadsReturn
