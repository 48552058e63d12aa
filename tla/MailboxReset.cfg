CONSTANTS
    Threads = {t1, t2, t3}
    Msgs = {a}
    Size = 1
    None = None
    empty = empty
    full = full
    sem = sem
    Sems <- MCSems
    MaxCount = 1
    RacyReset = TRUE
SPECIFICATION Spec
INVARIANT SlotForEveryPoster
