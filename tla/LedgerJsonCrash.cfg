SPECIFICATION Spec
CONSTANTS
    Procs = {p1, p2}
    Admin = admin
    NoPosition = NoPosition
    NoRequest = NoRequest
    Failed = Failed
    Unusable = Unusable
    Signers = {k1}
    CreditUnitSats = 2
    MinHealthBps = 12500
    MaxDrawsPerPosition = 2
    MaxAmount = 2
    MaxNonce = 2
    NonceAhead = 0
    Collaterals = {4}
    Readings = {Failed, Unusable, 4}
    Outcomes = {"ok", "rejected", "pending", "lost"}
    Backend = "json"
    WriteErrors = FALSE
    MCRequests = 3
    MCConnects = 0
    MCProofs = 0
    MCResets = 0
    MCCrashes = 1
    Budget <- MCBudget
CHECK_DEADLOCK FALSE
SYMMETRY Symmetry
INVARIANTS
    TypeOK
    OneHolder
    FileDebtMatchesReceipts
    FileNonceIsPastReceipts
    ToldCommitIsOnFile
    FinalAnswerNeverResubmitted
PROPERTIES
    RetryAnsweredAlike
