SPECIFICATION Spec
INVARIANTS
    TypeOK
    OneUser
    CleanExit
    SomeGoodCopy
PROPERTIES
    WrapperEnds
CONSTANTS
    w1 = w1
    w2 = w2
    Wrapper = {w1, w2}
    Faults = {"kill", "reboot", "rsync"}
    MaxVersion = 3
