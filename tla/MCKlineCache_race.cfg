SPECIFICATION Spec
CONSTANTS
    Putters <- TwoPutters
    Getters <- OneGetter
    Lists <- SomeLists
    Asks <- SomeAsks
    MaxItems = 3
    MaxPuts = 3
    MayExpire = TRUE
    Nil = Nil
    u1 = u1
    u2 = u2
    g1 = g1
INVARIANT TypeOK
INVARIANT ReadersSeeKlines
INVARIANT ServedBeforeTo
INVARIANT QuietSorted
INVARIANT CalmGetExact
SYMMETRY PuttersAlike
CHECK_DEADLOCK FALSE
