SPECIFICATION Spec
CHECK_DEADLOCK FALSE
CONSTANTS
  Writers = {w1, w2}
  Scales = {3, 7}
  LastPeriod = 1
  None = None
INVARIANT RestoredScaleIsAdvertised
