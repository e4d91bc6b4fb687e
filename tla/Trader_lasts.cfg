CONSTANTS
    p1 = p1
    p2 = p2
    None = None
    Placements <- One
    Unsupported <- NoPlacement
    RuledEarly = FALSE
    Budgets <- Lasting
CHECK_DEADLOCK FALSE
SPECIFICATION FairSpec
INVARIANTS SentIsWatched StopCancels InstructionIsKnown
PROPERTIES EndIsReported CancelIsAnswered QueuedIsTaken
