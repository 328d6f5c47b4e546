SPECIFICATION Spec
CONSTANTS
    Data = 3
    SendCapacity = 3
    Slots = 1
    Window = 2
    DupThresh = 1
    MaxRTOs = 1
    MaxAcks = 2
    MaxFaults = 1
    Paths <- MCPaths
    None = None
    Probe = Probe
    Replaced = Replaced
INVARIANTS LossTimerArmed ZeroWindowProbed RecoverySound ScoreboardTruthful
PROPERTY TransferIsReliable
CHECK_DEADLOCK FALSE
