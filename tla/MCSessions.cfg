CONSTANTS
    KeepRecent = 2
    MaxHistory = 8
    KeepModerate = 4
    KeepAggressive = 2
    MaxMessages = 2
    MaxSessions = 2
    MaxEvents = 2
    CompactAbove = 1
    CompactKeep = 1
    CanonicalAbove = 2
    CanonicalWindow = 1
SPECIFICATION SessionsSpec
INVARIANTS
    SessionsHoldWhatWasSaid
    RememberedAcrossSessions
CHECK_DEADLOCK FALSE
