SPECIFICATION LiveSpec
CONSTANTS
    Sizes = {1, 2}
    ByteCapacity = 3
    ReceiveBatch = 2
    Wakers = {w1}
    Flags = {window, quickOn, quickOff}
    QuickACKMask = {quickOn, quickOff}
    Deadlines = {d1, d2}
INVARIANTS InboxSound
PROPERTIES LateArrivalsDoNotDelayTimers NothingStarves
CHECK_DEADLOCK FALSE
