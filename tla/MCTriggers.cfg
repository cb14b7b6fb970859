CONSTANTS
    a1 = a1
    a2 = a2
    k1 = k1
    k2 = k2
    Agents = {a1, a2}
    Booted = {a1}
    Proactive <- MCProactive
    TriggerIds = {k1, k2}
    Limit <- MCLimit
    OnSpawn = {k1, k2}
    OnCustom = {k1}
    MaxEvents = 2
SPECIFICATION FairSpec
INVARIANTS
    FiresAccounted
    IndexSound
PROPERTY FiredIsServed
CHECK_DEADLOCK FALSE
