SPECIFICATION Spec
CONSTANTS
    a1 = a1
    a2 = a2
    Upper = Upper
    Lower = Lower
    Other = Other
    NoId = NoId
    NoName = NoName
    Ids = {a1, a2}
    Names = {Upper, Lower, Other}
    Fold <- MCFold
    NameOf <- SameName
    Proactive = {a2}
    Looping = {a1}
    Renamed = {a1}
    Updated = {a2}
    Triggered = {a2}
    Damaged = {a2}
    MaxRequests = 2
INVARIANTS
    GrantsMatchRegistry
    IndexExact
    GoneForGood
PROPERTIES
    RestartKeepsAgents
