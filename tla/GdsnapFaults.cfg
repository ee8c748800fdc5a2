SPECIFICATION Spec
INVARIANTS
    IInv
PROPERTIES
    OneObjectPerFile
CHECK_DEADLOCK FALSE
CONSTANTS
    root = root
    d1 = d1
    f1 = f1
    f2 = f2
    a = a
    b = b
    l = l
    File = {f2}
    Dir = {d1}
    Top = root
    Parent <- MCParent
    Content = {a, b, l}
    Link = {l}
    DirLink = {l}
    Large = {b}
    Refused = {}
    SizeOf <- MCSizeOf
    Ignored = {}
    Gone = gone
    EmptyLink = emptylink
    NoSha = nosha
    NoPath = nopath
    UserOps = {"write", "delete", "moveout", "movein"}
    Faults = {"crash", "put", "list"}
    MaxClock = 2
    MaxObjects = 2
    ChanCap = 2
