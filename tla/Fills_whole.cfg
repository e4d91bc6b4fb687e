CONSTANTS
    Orders = 2
    Quantity = 3
    EndedPolls = 1
    MaxUpdates = 2
    None = None
    Budgets <- Whole
CHECK_DEADLOCK FALSE
SPECIFICATION FairSpec
INVARIANTS EndIsWhole
PROPERTIES FillsReachBook
