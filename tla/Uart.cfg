SPECIFICATION FairSpec
CONSTANTS
    MaxSize = 3
    TxEnd1Cb = TRUE
    TxEnd2Cb = TRUE
    RxEndCb = TRUE
    RxCharCb = TRUE
    RxErrCb = TRUE
INVARIANTS
    TypeOK
    BuffersGivenBack
    EndMeansDone
PROPERTIES
    StoppedIsSilent
    TransfersEnd
    PhysicalEndReported
    ImplementsService
