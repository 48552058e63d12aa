SPECIFICATION FairSpec
CONSTANT Settings <- MCSettings
INVARIANTS
    ReadingsAreReplies
    ModemOffAtEnd
    AnswerIsGenuine
PROPERTIES
    DriverUsedWell
    SessionEnds
CHECK_DEADLOCK FALSE
