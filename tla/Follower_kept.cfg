CONSTANTS
    a1 = a1
    a2 = a2
    k1 = k1
    k2 = k2
    None = None
    Accounts <- TwoAccounts
    Keys <- OneKey
    Seeds = TRUE
    HandlerRaises <- Other
    MaxLog = 3
    MaxDrops = 1
    Budgets <- Mixes
CHECK_DEADLOCK FALSE
SPECIFICATION FairSpec
INVARIANTS TypeOK
PROPERTIES PointsMoveForward Converges
