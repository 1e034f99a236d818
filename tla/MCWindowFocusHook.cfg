SPECIFICATION FairSpec
CONSTANTS
    Titles = {editor}
    NoTitle = none
    MaxStarts = 2
PROPERTY
    StopReturns
CHECK_DEADLOCK FALSE
