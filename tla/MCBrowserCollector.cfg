SPECIFICATION FairSpec
CONSTANTS
    Visits = {v1, v2, v3}
    Second = 2
    MaxNow = 4
    MaxStarts = 2
INVARIANTS
    WatermarkCoversEmitted
    EmitsOnlyNew
PROPERTIES
    EventuallyEmitted
    StopReturns
CHECK_DEADLOCK FALSE
