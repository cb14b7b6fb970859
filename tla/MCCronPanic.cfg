CONSTANTS
    j1 = j1
    j2 = j2
    a1 = a1
    Jobs <- MCJobs
    Agents <- MCAgents
    OwnerOf <- MCOwnerOf
    Kind <- AtKind
    Param <- MCParam
    Upcoming <- MCUpcoming
    OneShot <- MCNoJobs
    Turns <- MCFirst
    Clients = {c1}
    MaxTotal = 2
    MaxPerAgent = 2
    MaxErrors = 2
    MaxTime = 4
    SplitErrors = TRUE
SPECIFICATION FairSpec
PROPERTY DueJobsFire
CHECK_DEADLOCK FALSE
