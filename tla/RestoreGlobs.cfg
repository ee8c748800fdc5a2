SPECIFICATION Spec
INVARIANTS
    AllThatIsMeant
CHECK_DEADLOCK FALSE
CONSTANTS
    x = x
    y = y
    Name <- MCName
    NameOrder <- MCOrder
    Content = {x, y}
    DirLink = {x}
    Globs <- MoreGlobs
    Cwd <- MCCwd
    Faults = {"dies"}
    ErrorPage = errorpage
    MaxRevs = 1
    MaxClock = 4
