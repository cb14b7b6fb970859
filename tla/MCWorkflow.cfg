CONSTANTS
    r1 = r1
    r2 = r2
    r3 = r3
    a1 = a1
    a2 = a2
    gather = gather
    refine = refine
    single = single
    Runs <- MCRuns
    Agents <- MCAgents
    Workflows <- MCWorkflows
    StepsOf <- MCStepsOf
    WorkflowOf <- MCWorkflowOf
    Outputs = {"yes", "no"}
    Answers <- MCAnswers
    Mortal <- MCMortal
    Droppable <- MCDroppable
    MaxRetained = 2
    MaxActive = 2
SPECIFICATION FairSpec
INVARIANTS
    RecordsAreTrue
    CompletedRunsAreWhole
    InputIsLatest
    RetentionBounded
PROPERTIES
    OldestEndedEvicted
    EveryRunReturns
CHECK_DEADLOCK FALSE
