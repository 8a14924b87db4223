SPECIFICATION Spec
CONSTANTS
    Mine = 1
    Others = {2}
    Foreign = {3}
    Misspelt = {4}
    Deposit = 4
    Fee = 1
    Draw = 2
    MaxRuns = 2
    MaxNonce = 3
CHECK_DEADLOCK FALSE
INVARIANTS
    ReadyIsSpendable
    ReadyIsExecutable
    DerivedIsObserved
