SPECIFICATION Spec
INVARIANTS
    TypeOK
    SaysItAll
PROPERTIES
    InSequence
    Finishes
CHECK_DEADLOCK FALSE
CONSTANTS
    N = 4
    Threads = 2
    Slots = 3
    PipeCap = 1
    Status = {0, 2}
    MaxSay = 2
    Faults = {"kill", "start"}
