CONSTANTS
    i1 = i1
    i2 = i2
    hand = hand
    x1 = x1
    x2 = x2
    x3 = x3
    main = main
    nobody = nobody
    n1 = n1
    n2 = n2
    n3 = n3
    c1 = c1
    c2 = c2
    Nodes = {n1, n2, n3}
    SecretOf <- MCSecretOf
    Conns = {c1, c2}
    Self = n1
    Nobody = nobody
    MaxPosts = 2
    A2AIds = {x1, x2, x3}
    MaxStored = 1
    Instances = {i1, i2}
    HandOf <- MCHandOf
    Residents = {main}
    MaxRestarts = 1
CONSTRAINT Apart
SYMMETRY Symmetry
SPECIFICATION Spec
INVARIANTS
    HandedOutOnce
    A2AStoreSound
    HandAgentsSound
    ConnectedHasLoop
    LinksAreMutual
CHECK_DEADLOCK FALSE
