SPECIFICATION Spec
CONSTANTS
    SeqMod = 32
    ISN = 29
    StreamLen = 3
    FinPositions = {3}
    MaxPayload = 2
    MaxOutOfOrder = 2
    MaxWireWindow = 255
    Shift = 0
    ReceiveMSS = 2
    InitialCapacity = 3
    MaxCapacity = 3
    ReadBufferSizes = {}
    LingerZero = {FALSE}
PROPERTIES CloseWithoutUnreadDataRemainsGraceful
CHECK_DEADLOCK FALSE
