SPECIFICATION Spec
CONSTANTS
    Procs <- TwoProcs
    NumTrades = 3
    Window <- OneThenTwo
    InitialOffset = 0
    ChanBuf = 2
    MaxFaults = 3
    a = a
    b = b
INVARIANT TypeOK
INVARIANT RowsRepeatForgotten
INVARIANT CommittedHandled
SYMMETRY Alike
CHECK_DEADLOCK FALSE
