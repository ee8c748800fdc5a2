SPECIFICATION Spec
INVARIANTS
    Installed
PROPERTIES
    OwnFilesKept
    SecondRunIdle
    Converges
CONSTANTS
    x = x
    y = y
    NoName = noname
    Name = {x, y}
    DotName = {x}
    Cpus = 1
    MaxClock = 3
    MaxStops = 1
