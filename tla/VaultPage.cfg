SPECIFICATION Spec
CONSTANTS
    Vaults = {1}
    Slots = {1, 2}
    MaxConnects = 2
    MaxNonce = 2
    MaxDebt = 1
    MayNavigate = TRUE
CHECK_DEADLOCK FALSE
PROPERTIES
    AppliedAsShown
    ButtonsComeBack
