SPECIFICATION Spec
CONSTANTS
    i1 = i1
    i2 = i2
    i3 = i3
    b1 = b1
    b2 = b2
    b3 = b3
    Items = {i1, i2, i3}
    Batches = {b1, b2}
    Inventory <- Three
    target_tasks = 3
    concurrency = 2
    failure_limit = 2
    MaxRestarts = 1
    None = None
PROPERTY NoWorkAfterFault
CHECK_DEADLOCK FALSE
