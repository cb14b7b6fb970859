CONSTANTS
    c1 = c1
    c2 = c2
    c3 = c3
    Calls <- ThreeCalls
    PollCalls <- Polling
    UsedCalls <- OneCall
    WarnThreshold = 2
    BlockThreshold = 3
    PollMultiplier = 2
    DefaultBreaker = 3
    MinRepeats = 3
    MaxWarnings = 1
    HistorySize = 9
    KeepRecent = 2
    MaxHistory = 5
    KeepModerate = 4
    KeepAggressive = 2
    MaxIterations = 2
    MaxRetries = 1
    MaxContinuations = 2
    MaxCallsPerResponse = 2
    MaxCalls = 4
    MaxTurns = 2
    RepairMessages <- MCMessages
    MaxRepair = 4
    MaxGuarded = 9
SPECIFICATION FairSpec
INVARIANTS
    RequestsAccepted
    AnsweredIsStored
    RepairIsSound
    GuardIsSound
PROPERTIES
    OnlySilentTurnsVanish
    TurnEnds
CHECK_DEADLOCK FALSE
