SPECIFICATION FairSpec
CONSTANTS
    Instances <- Two
    MaxSessions = 4
    MaxFaults = 2
    MayStop <- Second
    i1 = i1
    i2 = i2
INVARIANT TypeOK
INVARIANT OneLeaderWithLease
INVARIANT OnlyLeadersCheck
PROPERTY Failover
CHECK_DEADLOCK FALSE
