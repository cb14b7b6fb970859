CONSTANTS
    j1 = j1
    j2 = j2
    loop = loop
    w1 = w1
    StoredJobs <- MCJobs
    RunOnce <- MCOneShot
    Writers <- TwoWriters
    TickLoop = loop
    MaxCrashes = 1
    MaxFailures = 1
SPECIFICATION FairStoreSpec
INVARIANTS
    AnswersAreDurable
PROPERTY EventuallySaved
