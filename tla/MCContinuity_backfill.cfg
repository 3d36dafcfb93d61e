SPECIFICATION Spec
CONSTANTS
    NumTrades = 4
    TradeTime <- Times
    Ratio = 2
    CheckWindow = 2
    MaxItems = 2
    Ranges <- SomeRanges
    MaxEvents = 2
    MaxChecks = 1
INVARIANT TypeOK
INVARIANT OwnTradesOnly
INVARIANT PassedWindowsHaveRows
CHECK_DEADLOCK FALSE
