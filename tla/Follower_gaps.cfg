CONSTANTS
    a1 = a1
    a2 = a2
    k1 = k1
    k2 = k2
    None = None
    Accounts <- TwoAccounts
    Keys <- TwoKeys
    Seeds = TRUE
    HandlerRaises <- Other
    MaxLog = 3
    MaxDrops = 1
    Budgets <- Gaps
CHECK_DEADLOCK FALSE
SPECIFICATION Spec
SYMMETRY Interchangeable
INVARIANTS HadIsHeld
