SPECIFICATION FairSpec
CONSTANTS
    Days = 2
    PerDay = 2
    Window = 1
    LateBy = 1
    Most = 3
    Choices <- Every
    None = None
    Budgets <- Mixed
INVARIANTS Findable AnsweredWhole BoundKept
PROPERTIES KeepsPromise MovesOn ComesBack
CHECK_DEADLOCK FALSE
