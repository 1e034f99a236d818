SPECIFICATION Spec
CONSTANTS
    Times = {1, 2, 4, 5}
    Apps = {editor, browser}
    MaxEvents = 4
    gap_threshold = 1
    Day = 4
SYMMETRY Symmetry
INVARIANTS
    SessionsCover
    SessionsAreMaximal
    TimesAreThoseOfEvents
    EachEventOnce
    TimelineOfTheDay
CHECK_DEADLOCK FALSE
