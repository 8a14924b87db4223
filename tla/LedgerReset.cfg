SPECIFICATION FairSpec
CONSTANTS
    Procs = {p1, p2}
    Admin = admin
    NoPosition = NoPosition
    NoRequest = NoRequest
    Failed = Failed
    Unusable = Unusable
    Signers = {k1}
    CreditUnitSats = 2
    MinHealthBps = 12500
    MaxDrawsPerPosition = 2
    MaxAmount = 1
    MaxNonce = 1
    NonceAhead = 0
    Collaterals = {4}
    Readings = {Unusable, 4}
    Outcomes = {"ok", "pending"}
    Backend = "json"
    WriteErrors = TRUE
    MCRequests = 2
    MCConnects = 0
    MCProofs = 0
    MCResets = 1
    MCCrashes = 0
    Budget <- MCBudget
CHECK_DEADLOCK FALSE
INVARIANTS
    OneAllowPerNonce
PROPERTIES
    EveryRequestEnds
