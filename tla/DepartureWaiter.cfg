SPECIFICATION LiveSpec
CONSTANTS
    Registrars = {r1, r2, r3}
    NoWaiter = NoWaiter
    MaxGeneration = 3
INVARIANTS DeparturesSound
PROPERTIES DepartureReported
CHECK_DEADLOCK FALSE
