SPECIFICATION LiveSpec
CONSTANTS
    Slots = {s1, s2}
    FlowKeys = {f1, f2, f3}
    PacketSizes = {2}
    Quantum = 1
    InitialCredit = 1
    Publishers = {p1}
    Readers = {r1}
    Closers = {}
    NoSlot = NoSlot
    NoFlow = NoFlow
    Nobody = Nobody
PROPERTIES EveryPacketLeaves
CHECK_DEADLOCK FALSE
