SPECIFICATION Spec
CONSTANTS
    Runs = {r1, r2, r3, r4}
    NoRun = NoRun
CHECK_DEADLOCK FALSE
INVARIANTS
    MutualExclusion
    EntryWhileBusy
PROPERTIES
    ImplementsLockQueue
    EveryCallReturns
