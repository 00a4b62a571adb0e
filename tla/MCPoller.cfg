SPECIFICATION FairSpec
CONSTANTS
    w1 = w1
    s1 = s1
    Watchers <- MCWatchers
    Slas <- MCSlas
    Bodies <- MCBodies
    MaxEvents = 4
    Limit = 2
    StartPos <- MCTip
    MaxCrashes = 1
INVARIANTS
    PollerTypeOK
    CheckpointNeverAhead
    EligibleMatchesChain
PROPERTIES
    CursorNeverRegresses
    ImplementsMirror
    EventuallyIngested
