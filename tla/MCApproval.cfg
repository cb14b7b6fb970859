CONSTANTS
    r1 = r1
    r2 = r2
    r3 = r3
    a1 = a1
    t1 = t1
    Agents <- MCAgents
    Requests <- MCRequests
    AgentOf <- MCAgentOf
    Tools <- MCTools
    ToolOf <- MCToolOf
    RestRequests <- MCRest
    Droppable <- MCDroppable
    Approvers = {p1, p2}
    MaxPending = 1
    Workers = 2
SPECIFICATION FairSpec
INVARIANTS
    OvershootBounded
    OneAnswerPerRequest
PROPERTIES
    ImplementsGate
    EveryRequestEnds
