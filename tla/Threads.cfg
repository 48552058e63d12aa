SPECIFICATION FairSpec
CONSTANTS
    CoreSize = 7
    MaxRequest = 2
    Clients = {c1, c2}
    Servers = {s1}
    Statics = 1
    PoolSize = 1
    ThreadCore = 2
    Area = 1
    Uses = {"heap", "threads", "messages"}
    Races = {}
INVARIANTS
    MemoryWhole
    ReferenceKeepsThread
    RegistryHoldsActive
PROPERTY SleepersWoken
