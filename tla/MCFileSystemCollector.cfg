SPECIFICATION FairScanSpec
CONSTANTS
    Files = {f1, f2}
    MTimes = {m1, m2}
    Absent = absent
    MaxStarts = 2
INVARIANTS
    NoChangeForgotten
PROPERTIES
    DiscoveredOnce
    EventuallySeen
CHECK_DEADLOCK FALSE
