SPECIFICATION Spec
CONSTANTS
    Backends = {"json", "sqlite"}
    MaySwitchBack = FALSE
    MaxChanges = 3
    MaxResets = 1
    MaxCrashes = 3
CHECK_DEADLOCK FALSE
INVARIANTS
    ImportIsWhole
    ServesLatest
