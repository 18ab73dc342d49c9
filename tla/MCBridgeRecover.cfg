SPECIFICATION Spec
CONSTANTS
    j1 = j1
    j2 = j2
    None = None
    Jobs <- MCJobs
    Events = {"reload"}
    MaxEvents = 1
    MaxClicks = 1
INVARIANT
    ResultRecoverable
CHECK_DEADLOCK FALSE
