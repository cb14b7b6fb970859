CONSTANTS
    j1 = j1
    j2 = j2
    a1 = a1
    Jobs <- MCJobs
    Agents <- MCAgents
    OwnerOf <- MCOwnerOf
    Kind <- RecurringKind
    Param <- MCParam
    Upcoming <- MCUpcoming
    OneShot <- MCNoJobs
    Turns <- MCJobs
    Clients = {c1, c2}
    MaxTotal = 2
    MaxPerAgent = 1
    MaxErrors = 2
    MaxTime = 5
    SplitErrors = TRUE
SPECIFICATION Spec
INVARIANTS
    EnabledBelowLimit
PROPERTIES
    Spacing
    RemovedStaysRemoved
CHECK_DEADLOCK FALSE
