SPECIFICATION Spec
CONSTANTS
    early = early
    late = late
    log = log
    login = login
    main_cpp = main_cpp
    domain_cpp = domain_cpp
    opened = opened
    modified = modified
    Writers = {t1, t2}
    Events = {early, late}
    MaxId = 2
    MaxTime = 3
    Hour = 2
    Words = {log, login}
    Within <- MCWithin
    Apps = {main_cpp, domain_cpp}
    Types = {opened, modified}
    Stamp <- MCStamp
    Keywords <- MCKeywords
    App <- MCApp
    Type <- MCType
    Limit = 1
INVARIANTS
    ResultsMatch
    ResultsComplete
