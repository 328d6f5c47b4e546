SPECIFICATION Spec
CONSTANTS
  A = A
  B = B
  Closed = Closed
  Writers = {A}
  Listeners = {B}
  HalfClosers = {B}
  MaxDials = 1
  MaxTalks = 1
  MaxSYNs = 2
  MaxRTOs = 2
  SlowRTOs = 1
  KeepAliveCount = 1
  MaxChallenges = 2
  MaxFaults = 2
INVARIANT TimeWaitOutlastsFIN
CHECK_DEADLOCK FALSE
