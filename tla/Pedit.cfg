SPECIFICATION Spec
INVARIANTS
    TypeOK
    NoPlaintextLeft
    BackedUp
PROPERTIES
    ImplementsNotebook
SYMMETRY Swap
CONSTANTS
    p1 = p1
    p2 = p2
    f1 = f1
    f2 = f2
    Proc = {p1, p2}
    File = {f1, f2}
    Copied = {f1}
    MaxEdits = 2
