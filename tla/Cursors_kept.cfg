CONSTANTS
    a = a
    b = b
    k1 = k1
    k2 = k2
    d1 = d1
    i1 = i1
    i2 = i2
    i3 = i3
    None = None
    Roles <- TwoRoles
    Seeders <- Second
    Hearings <- Apart
    Keys <- TwoKeys
    Datasets <- OneDataset
    Ids <- ThreeIds
    PageSize = 1
    HandlerRaises <- Other
    MaxLog = 3
    Budgets <- Mixes
CHECK_DEADLOCK FALSE
SPECIFICATION FairSpec
INVARIANTS MapIsTrue NoTradeMissing
PROPERTIES NeverOlder Converges
