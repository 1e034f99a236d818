SPECIFICATION FairSpec
CONSTANTS
    Threads = {t1, t2, t3}
    Items = {a, b}
    Nothing = nullopt
    MaxLen = 2
INVARIANTS
    TypeOK
    WakeupsCoverItems
    StopReachesSleepers
PROPERTY
    KeepsThePromise
