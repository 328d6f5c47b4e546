SPECIFICATION Spec
CONSTANTS
    Slots = {s1, s2}
    FlowKeys = {f1, f2}
    PacketSizes = {3}
    Quantum = 2
    InitialCredit = 2
    Publishers = {p1, p2}
    Readers = {r1, r2}
    Closers = {closer}
    NoSlot = NoSlot
    NoFlow = NoFlow
    Nobody = Nobody
SYMMETRY Symmetry
INVARIANTS QueueSound NoStrandedPacket
CHECK_DEADLOCK FALSE
