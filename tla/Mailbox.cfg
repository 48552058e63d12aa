CONSTANTS
    Threads = {t1, t2}
    Msgs = {a, b}
    Size = 2
    None = None
    empty = empty
    full = full
    sem = sem
    Sems <- MCSems
    MaxCount = 2
    RacyReset = FALSE
SPECIFICATION Spec
INVARIANTS
    Consistent
    NoSlotLost
PROPERTIES
    NobodyPassedOver
    ImplementsQueue
