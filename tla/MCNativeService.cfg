SPECIFICATION FairServiceSpec
CONSTANTS
    Requests = {r1, r2, r3}
    Callers = {r3}
    Contents = {x}
    Operations = {"create", "generate", "commit", "release"}
    Persistent = FALSE
    MaxRestarts = 1
    MaxAttempts = 2
    None = None
INVARIANT VerdictsStand
PROPERTIES ServesTheClient RequestsAreServedOnce ClaimsAreResolved CallsEnd
CHECK_DEADLOCK FALSE
