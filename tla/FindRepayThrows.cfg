SPECIFICATION Spec
CONSTANTS
    Procs = {p1, p2}
    Admin = admin
    NoPosition = NoPosition
    NoRequest = NoRequest
    Failed = Failed
    Unusable = Unusable
    Signers = {k1}
    CreditUnitSats = 2
    MinHealthBps = 12500
    MaxDrawsPerPosition = 2
    MaxAmount = 2
    MaxNonce = 2
    NonceAhead = 0
    Collaterals = {2, 6}
    Readings = {6}
    Outcomes = {"ok"}
    Backend = "json"
    WriteErrors = FALSE
    MCRequests = 3
    MCConnects = 1
    MCProofs = 0
    MCResets = 0
    MCCrashes = 0
    Budget <- MCBudget
CHECK_DEADLOCK FALSE
PROPERTIES
    RepaymentIsRecorded
