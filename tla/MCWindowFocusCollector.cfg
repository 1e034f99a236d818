SPECIFICATION FairSpec
CONSTANTS
    Titles = {editor, browser, mail}
    NoTitle = none
    MaxStarts = 3
INVARIANTS
    InstanceOutlivesCallback
    StopLeavesNothing
PROPERTY
    StopReturnsIfHooked
CHECK_DEADLOCK FALSE
