SPECIFICATION FairSpec
CONSTANTS
    Controllers = {c1, c2}
    Operations = {"mutation", "once", "snapshot"}
    Kind <- KindByName
    max_transitions = 2
    TransportLimit = 2
    RejectionLimit = 2
    FailureLimit = 2
    ZeroProgressLimit = 2
    TerminalLimit = 2
    MaxActions = 2
    MaxCalls = 2
    MaxLapses = 1
    Nobody = Nobody
    Orphan = Orphan
INVARIANTS ActionsSeeEarlierResults
PROPERTIES ControllersKeepALog CompletionStands ControllerEnds
CHECK_DEADLOCK FALSE
