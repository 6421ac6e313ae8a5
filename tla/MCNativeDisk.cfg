SPECIFICATION Spec
CONSTANTS
    Requests = {r1, r2, r3, r4, r5}
    Contents = {x}
    Operations <- AllButAppend
    Persistent = TRUE
    MaxRestarts = 1
    None = None
SYMMETRY Identities
INVARIANTS TensorsAreKept CandidatesKeepTheirParent TensorsAreOwned
PROPERTIES UncertainStatesFreeze
CHECK_DEADLOCK FALSE
