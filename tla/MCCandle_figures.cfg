SPECIFICATION MCSpec
CONSTANTS
    MaxInt = 32767
    Precision = 2
    Scale = 100
    Direct = 128
    Ticks <- SomeTicks
    MaxTrades = 3
    Widths <- SmallWidths
    Day = 24
    Starts <- TwoStarts
    Horizon = 19200
    LastYear = 1973
INVARIANT KlineRight
INVARIANT MergeAgrees
INVARIANT RowReadsBack
INVARIANT AverageBetween
INVARIANT WindowsTile
PROPERTY WindowsTurn
CHECK_DEADLOCK FALSE
