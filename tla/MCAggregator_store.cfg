SPECIFICATION FairSpec
CONSTANTS
    NumTrades = 3
    TradeSym <- InTurn
    TradeTime <- Paired
    Symbols <- TwoSymbols
    Intervals <- NarrowAndWide
    Workers <- OneWorker
    MayFail = TRUE
    MayMiss = TRUE
    MayStop = FALSE
    MaxCrashes = 1
    MaxChanges = 0
    NoTrade = NoTrade
    NoKline = NoKline
    Free = Free
    s1 = s1
    s2 = s2
    w1 = w1
    w2 = w2
INVARIANT TypeOK
PROPERTY EventuallyStored
CHECK_DEADLOCK FALSE
