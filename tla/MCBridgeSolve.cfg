SPECIFICATION FairSpec
CONSTANTS
    j1 = j1
    j2 = j2
    None = None
    Jobs <- MCJobs
    Events = {"edit", "delete", "stop", "reload"}
    MaxEvents = 1
    MaxClicks = 1
INVARIANTS
    TypeOK
    StopReachesServer
    ResultIsOfItsSchedule
PROPERTY
    PendingResolves
CHECK_DEADLOCK FALSE
