SPECIFICATION Spec
CONSTANTS
    Callers = {c1, c2, c3}
    MaxVersion = 5
    MaxCrashes = 2
    ReadErrors = FALSE
    NoFile = NoFile
CHECK_DEADLOCK FALSE
INVARIANTS
    ReturnedIsOnFile
PROPERTIES
    ChangesReachFile
    EveryCallReturns
    ImplementsDurableStore
