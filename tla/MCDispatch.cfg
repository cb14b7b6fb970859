CONSTANTS
    a1 = a1
    a2 = a2
    a3 = a3
    Agents = {a1, a2, a3}
    Looping = {a1, a2}
    Permits = 1
    MaxSent <- OnlyFirst
    TokenQuota <- OnlyFirst
    CostQuota <- OnlyFirst
    MaxCost <- OnlyFirst
SPECIFICATION FairSpec
INVARIANTS
    PermitsConserved
    QuotaOvershootBounded
PROPERTY LoopsGoOn
CHECK_DEADLOCK FALSE
