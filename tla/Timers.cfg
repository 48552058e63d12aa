CONSTANTS
    Timers = {sleep, v1, v2, v3}
    Sleeper = sleep
    Range32 = 5
    Period = 2
    Work = 2
SPECIFICATION Spec
INVARIANTS
    Consistent
    WrapIsHarmless
PROPERTIES
    ImplementsTimers
    TimerEnds
