SPECIFICATION Unfair
CONSTANTS
  A = A
  B = B
  Closed = Closed
  Writers = {A}
  Listeners = {B}
  HalfClosers = {B}
  MaxDials = 2
  MaxTalks = 1
  MaxSYNs = 2
  MaxRTOs = 1
  SlowRTOs = 1
  KeepAliveCount = 1
  MaxChallenges = 2
  MaxFaults = 1
PROPERTY Stops
CHECK_DEADLOCK FALSE
