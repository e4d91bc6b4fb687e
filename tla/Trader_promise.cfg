CONSTANTS
    p1 = p1
    p2 = p2
    None = None
    Placements <- Two
    Unsupported <- Second
    RuledEarly = TRUE
    Budgets <- Crowded
CHECK_DEADLOCK FALSE
SPECIFICATION Spec
INVARIANTS TypeOK NoDoubleSend
PROPERTIES KeepsPromise NothingNewUnderHold
