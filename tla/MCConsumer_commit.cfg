SPECIFICATION FairSpec
CONSTANTS
    Partitions <- OnePartition
    Workers <- TwoWorkers
    MaxLog = 3
    InitialLog <- EmptyLog
    TradeIds <- OwnTradeIds
    TradeId <- RepeatedTradeId
    Poison <- LastPoison
    ChanBuf = 1
    CompletedBuf = 2
    TopicImplied = TRUE
    CommitResults <- AnyResult
    MaxCrashes = 1
    MaxRebalances = 1
    MayExpire = TRUE
    MayStop = TRUE
    NoMsg = NoMsg
    p1 = p1
    w1 = w1
    w2 = w2
INVARIANT TypeOK
INVARIANT CommittedFinished
INVARIANT CommittedInHand
INVARIANT RepeatsBounded
PROPERTY CommitsAdvance
PROPERTY GroupOffsetMonotone
PROPERTY ImplementsOffsetLog
INVARIANT NothingSkipped
CHECK_DEADLOCK FALSE
