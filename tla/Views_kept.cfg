CONSTANTS
    r1 = r1
    r2 = r2
    k1 = k1
    k2 = k2
    None = None
    Readers <- TwoReaders
    Pages <- OnePage
    MaxViews = 2
    MaxLog = 2
    QuietOpens = TRUE
    Budgets <- OneStream
CHECK_DEADLOCK FALSE
SPECIFICATION Spec
SYMMETRY Symmetry
INVARIANTS Current ReaderHasView NoneLeftUnready
PROPERTIES NeverOlder
