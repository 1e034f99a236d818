SPECIFICATION Spec
CONSTANTS
    Procs = {p1, p2}
    Daemons = {p1}
    Threaded = {"window", "browser", "fs"}
    MaxRows = 2
    MaxClock = 1
    MaxBatch = 2
PROPERTY
    RebuildIsComplete
