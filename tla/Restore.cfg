SPECIFICATION Spec
INVARIANTS
    PointInTime
    RestoreExact
    SilentMeansSame
    SavedIsHead
PROPERTIES
    OnlyWhatIsMeant
CHECK_DEADLOCK FALSE
CONSTANTS
    x = x
    y = y
    Name <- MCName
    NameOrder <- MCOrder
    Content = {x, y}
    DirLink = {x}
    Globs <- MCGlobs
    Cwd <- MCCwd
    Faults = {"dies", "refused"}
    ErrorPage = errorpage
    MaxRevs = 1
    MaxClock = 4
