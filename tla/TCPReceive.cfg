SPECIFICATION LiveSpec
CONSTANTS
    SeqMod = 32
    ISN = 29
    StreamLen = 5
    FinPositions = {3, 5}
    MaxPayload = 3
    MaxOutOfOrder = 2
    MaxWireWindow = 255
    Shift = 1
    ReceiveMSS = 5
    InitialCapacity = 3
    MaxCapacity = 4
    ReadBufferSizes = {1}
    LingerZero = {TRUE, FALSE}
INVARIANTS StreamFaithful StorageSound
PROPERTIES RightEdgeNeverRetreats StreamCompletes
CHECK_DEADLOCK FALSE
