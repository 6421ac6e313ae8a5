SPECIFICATION Spec
CONSTANTS
    Stages = {1}
    Obligations = {o1}
    MaxSteps = 1
    MaxActions = 1
    MaxPatches = 1
    MaxRuns = 3
    max_transitions = 10
    ProtocolLimit = 2
    AuditLimit = 2
    FinalLimit = 3
    IdenticalLimit = 2
    TransportLimit = 2
    None = None
PROPERTY BlockedRunsCanResume
CHECK_DEADLOCK FALSE
