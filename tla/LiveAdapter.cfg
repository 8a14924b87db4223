SPECIFICATION Spec
CONSTANTS
    Positions = {p1}
    Readers = {r1}
    Txs = {t1}
    Implausible = Implausible
    Vaults = {v1, v2}
    BoundVaults = {v1}
    Amounts = {1, 2}
    MaxTestUnits = 1
    KillSwitch = FALSE
    RequireAttestation = TRUE
    ChainIds = {signet, other}
    ExpectedIds = {signet}
    Ttl = 2
    RequestTimeout = 1
    ConfirmTimeout = 3
    PollInterval = 1
    None = None
CHECK_DEADLOCK FALSE
INVARIANTS
    TypeOK
    PollEndsInTime
PROPERTIES
    WrongChainUnused
    EveryCallEnds
    ImplementsTransitionPromise
