SPECIFICATION FairSpec
CONSTANTS
    Workers = {w1, w2}
    Events = {e1, e2, e3}
    Nothing = nullopt
INVARIANTS
    EveryEventInOnePlace
    CountIsExact
    BoundedOvertaking
    QuietAfterStop
PROPERTIES
    StopReturns
    EventuallyHandled
CHECK_DEADLOCK FALSE
