SPECIFICATION LiveSpec
CONSTANTS
    SeqMod = 32
    ISN = 30
    StreamLen = 3
    FinPositions = {3}
    MaxPayload = 2
    MaxOutOfOrder = 2
    MaxWireWindow = 255
    Shift = 0
    ReceiveMSS = 2
    InitialCapacity = 3
    MaxCapacity = 3
    ReadBufferSizes = {}
    LingerZero = {FALSE}
PROPERTIES PromisedSpaceIsNotWithdrawn
CHECK_DEADLOCK FALSE
