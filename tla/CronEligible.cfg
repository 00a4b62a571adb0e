SPECIFICATION Spec
CONSTANTS
    w1 = w1
    s1 = s1
    r1 = r1
    r2 = r2
    Watchers <- MCWatchers
    Slas <- MCSlas
    Runs <- MCRuns
    Bodies <- WatcherBodies
    MaxEvents = 3
    Limit = 2
    StartPos = 0
    ShortPages = FALSE
INVARIANTS
    EligibleWhenCaughtUp
