CONSTANTS
    s1 = s1
    s2 = s2
    v1 = v1
    v2 = v2
    None = None
    Subjects <- TwoSubjects
    Sources <- TwoSources
    MaxInFlight = 1
    Budgets <- Together
CHECK_DEADLOCK FALSE
SPECIFICATION FairSpec
INVARIANTS TypeOK AsAsked NotForgotten NothingMissed
PROPERTIES ComesToHold
