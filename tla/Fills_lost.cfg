CONSTANTS
    Orders = 2
    Quantity = 3
    EndedPolls = 1
    MaxUpdates = 2
    None = None
    Budgets <- Unheard
CHECK_DEADLOCK FALSE
SPECIFICATION Spec
INVARIANTS NeverOver
