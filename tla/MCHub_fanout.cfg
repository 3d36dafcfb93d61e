SPECIFICATION FairSpec
CONSTANTS
    Conns <- TwoConns
    NumWriters = 1
    WriterOf <- Shared
    Symbols <- OneSymbol
    NumTrades = 2
    TradeSym <- AllOfOne
    ChanBuf = 1
    WriterBuf = 1
    SendBuf = 1
    MaxRequests <- ThreeAndOne
    Free = Free
    c1 = c1
    c2 = c2
    s1 = s1
INVARIANT TypeOK
INVARIANT NoSendOnClosed
INVARIANT TotalsRight
PROPERTY LeavingEnds
CHECK_DEADLOCK FALSE
