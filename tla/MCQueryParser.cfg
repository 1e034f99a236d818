SPECIFICATION ParserSpec
CONSTANTS
    Clocks <- MCClocks
    Phrases = {"today", "yesterday", "this_week", "last_week", "monday", "tuesday", "wednesday",
               "thursday", "friday", "saturday", "sunday", "work_hours"}
    OtherWords = {"files", "profile", "edited", "opened", "modified", "websites", "browser",
                  "visited", "clipboard", "copied", "copy", "window", "focus", "screenshot",
                  "report", "did"}
    MaxPhrases = 4
INVARIANTS
    RangeIsDaysMeant
    WorkHoursOfDay
    QuestionGetsItsEvents
CHECK_DEADLOCK FALSE
