SPECIFICATION Spec
CONSTANTS
    MaxSize = 3
    TxEnd1Cb = TRUE
    TxEnd2Cb = TRUE
    RxEndCb = TRUE
    RxCharCb = FALSE
    RxErrCb = TRUE
INVARIANT RxEndMeansFull
