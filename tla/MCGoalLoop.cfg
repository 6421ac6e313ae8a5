SPECIFICATION FairSpec
CONSTANTS
    Stages = {1, 2}
    Obligations = {o1, o2}
    MaxSteps = 2
    MaxActions = 2
    MaxPatches = 2
    MaxRuns = 2
    max_transitions = 8
    ProtocolLimit = 2
    AuditLimit = 2
    FinalLimit = 2
    IdenticalLimit = 2
    TransportLimit = 2
    None = None
INVARIANTS ActionsAreJudged CompletedWorkIsClean CompletionIsReviewed
PROPERTIES StagesAreBarriers  RunEnds
CHECK_DEADLOCK FALSE
