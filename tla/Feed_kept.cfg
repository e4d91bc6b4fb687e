CONSTANTS
    w1 = w1
    w2 = w2
    p1 = p1
    p2 = p2
    None = None
    Wants <- Two
    Products <- Pair
    Of <- Each
    MaxTrade = 3
    BATCH = 2
    Budgets <- Mixed
CHECK_DEADLOCK FALSE
SPECIFICATION FairSpec
INVARIANTS NoneSkipped
PROPERTIES InLake AsStands
