SPECIFICATION FairSpec
CONSTANTS
    NumTrades = 2
    TradeSym <- AllOfOne
    TradeTime <- Together
    Symbols <- OneSymbol
    Intervals <- Narrow
    Workers <- OneWorker
    MayFail = FALSE
    MayMiss = FALSE
    MayStop = FALSE
    MaxCrashes = 1
    MaxChanges = 0
    NoTrade = NoTrade
    NoKline = NoKline
    Free = Free
    s1 = s1
    s2 = s2
    w1 = w1
    w2 = w2
PROPERTY RecoveryEnds
CHECK_DEADLOCK FALSE
