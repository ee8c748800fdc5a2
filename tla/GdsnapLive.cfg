SPECIFICATION Spec
INVARIANTS
    TypeOK
    NoLostChange
    WatchCovers
PROPERTIES
    Settles
    EventuallySaved
CHECK_DEADLOCK FALSE
CONSTANTS
    root = root
    d1 = d1
    f1 = f1
    f2 = f2
    a = a
    b = b
    l = l
    File = {f2}
    Dir = {d1}
    Top = root
    Parent <- MCParent
    Content = {a, b, l}
    Link = {l}
    DirLink = {l}
    Large = {}
    Refused = {b}
    SizeOf <- MCSizeOf
    Ignored = {}
    Gone = gone
    EmptyLink = emptylink
    NoSha = nosha
    NoPath = nopath
    UserOps = {"write", "delete", "movein", "moveout"}
    Faults = {}
    MaxClock = 3
    MaxObjects = 2
    ChanCap = 1
