SPECIFICATION FairSpec
CONSTANTS
    Procs = {p1, p2}
    Daemons = {p1}
    Threaded = {"browser", "fs"}
    MaxRows = 2
    MaxClock = 1
    MaxBatch = 2
INVARIANTS
    IndexMatchesDisk
    CapturedIsSearchable
    GracefulExit
PROPERTIES
    InterruptEndsDaemon
    KeepsTheLog
