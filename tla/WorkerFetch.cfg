SPECIFICATION Spec
CONSTANTS
    s1 = s1
    q1 = q1
    q2 = q2
    Watchers = {}
    Slas <- MCSlas
    Bodies <- MCBodies
    MaxEvents = 5
    Requests <- MCRequests
    PageSize = 2
    Hosts = {"worker"}
    SlaId = s1
    MaxReloads = 0
CHECK_DEADLOCK FALSE
INVARIANTS
    FetchedOnce
