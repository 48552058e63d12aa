SPECIFICATION Spec
CONSTANTS
    Threads = {t1, t2}
    Size = 2
    MaxCall = 2
    Flags <- SdFlags
    Source = sdevent
    Uses = {"input", "output", "events"}
    Careless = FALSE
INVARIANTS
    Consistent
    NoLostWakeup
    InputAnnounced
PROPERTIES
    WriterServed
    EndReported
