SPECIFICATION MCSpec
CONSTANTS
    MaxInt = 32767
    Precision = 2
    Scale = 100
    Direct = 128
    Ticks <- SomeTicks
    MaxTrades = 2
    Widths <- SmallWidths
    Day = 24
    Starts <- NoClock
    Horizon = 0
    LastYear = 1973
INVARIANT AverageIsQuotient
CHECK_DEADLOCK FALSE
