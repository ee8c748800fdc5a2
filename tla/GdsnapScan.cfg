SPECIFICATION Spec
INVARIANTS
    ScanArchivesDeletions
CHECK_DEADLOCK FALSE
CONSTANTS
    root = root
    d1 = d1
    f1 = f1
    f2 = f2
    a = a
    b = b
    l = l
    File = {f1}
    Dir = {d1}
    Top = root
    Parent <- MCParent
    Content = {a, b}
    Link = {}
    DirLink = {}
    Large = {}
    Refused = {}
    SizeOf <- MCSizeOf
    Ignored = {}
    Gone = gone
    EmptyLink = emptylink
    NoSha = nosha
    NoPath = nopath
    UserOps = {"delete"}
    Faults = {}
    MaxClock = 1
    MaxObjects = 2
    ChanCap = 2
