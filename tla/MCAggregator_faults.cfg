SPECIFICATION Spec
CONSTANTS
    NumTrades = 3
    TradeSym <- AllOfOne
    TradeTime <- Paired
    Symbols <- OneSymbol
    Intervals <- Narrow
    Workers <- TwoWorkers
    MayFail = TRUE
    MayMiss = TRUE
    MayStop = TRUE
    MaxCrashes = 1
    MaxChanges = 1
    NoTrade = NoTrade
    NoKline = NoKline
    Free = Free
    s1 = s1
    s2 = s2
    w1 = w1
    w2 = w2
INVARIANT RowsSound
INVARIANT NothingDropped
PROPERTY ImplementsCandleStore
CHECK_DEADLOCK FALSE
