SPECIFICATION Spec
CONSTANTS
    Keys = {a, b}
    RateMax = 2
    RateWindow = 2
    MaxTracked = 0
    MaxTime = 2
    Vaults = {v}
    DemoVaults = {}
    HomeVault = v
    RequireProof = FALSE
    AdminConnects = TRUE
    Sats = {0, 2}
    Requests = {r1, r2}
    Bystanders = {b}
    TokenTtl = 2
    ChallengeTtl = 1
    SweepInterval = 1
    MaxSessions = 1
    MaxTokens = 2
    MaxChallenges = 1
    MaxDebt = 2
    MaxLosses = 1
    NoToken = NoToken
    NoChallenge = NoChallenge
    NoPosition = NoPosition
    NoRequest = NoRequest
CHECK_DEADLOCK FALSE
INVARIANTS
    
    ChallengeOpensOneSession
    WindowBound
PROPERTIES
    RestoreKeepsLedger
