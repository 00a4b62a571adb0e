SPECIFICATION Spec
CONSTANTS
    w1 = w1
    s1 = s1
    r1 = r1
    r2 = r2
    Watchers <- MCWatchers
    Slas <- MCSlas
    Runs <- MCRuns
    Bodies <- MCBodies
    MaxEvents = 4
    Limit = 2
    StartPos = 0
    ShortPages = TRUE
INVARIANTS
    CronTypeOK
    CheckpointNeverAhead
    EligibleUnlessStale
PROPERTIES
    ThresholdsStayCached
    ImplementsMirror
