SPECIFICATION Spec
INVARIANTS
    WaitsForNews
    HeldOnce
    ServedIsFaithful
PROPERTIES
    DiesOnlyIf
    CatchesUp
CHECK_DEADLOCK FALSE
CONSTANTS
    b1 = b1
    b2 = b2
    Browser = {b1, b2}
    FirstDocs <- MCFirstDocs
    Docs <- MCDocs
    Cap = 1
    QueueCap = 1
    MaxTime = 3
    MaxVersion = 3
