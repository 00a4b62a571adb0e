SPECIFICATION Spec
CONSTANTS
    s1 = s1
    q1 = q1
    q2 = q2
    Watchers = {}
    Slas <- MCSlas
    Bodies <- MCBodies
    MaxEvents = 5
    Requests <- MCRequests
    PageSize = 2
    Hosts = {"node", "worker"}
    SlaId = s1
    MaxReloads = 2
CHECK_DEADLOCK FALSE
INVARIANTS
    HistoryTypeOK
    ShownIsARun
    SpinnerMeansAwaited
    NodeAnswersCached
