SPECIFICATION Spec
CONSTANTS
    MaxBytes = 2
    Restarts = {"RDY_OK"}
INVARIANTS
    TypeOK
    AnswerIsTrue
PROPERTIES
    BuffersGivenBack
    TimedCallReturns
