SPECIFICATION Spec
CONSTANTS
    Keys = {k1, k2}
    ClaimReference = ClaimReference
    Total = 2
    StartWindow = 1
    AttemptStatuses = {"requires_action"}
    MaxTime = 1
    MaxCalls = 2
SYMMETRY Symmetry
CHECK_DEADLOCK FALSE
INVARIANTS
    TypeOK
    StatusMatchesLedger
    AttemptsAgreeWithProvider
    
    CancelledKeepsNoMoney
PROPERTIES
    SuccessIsFinal
    KeepsPaymentContract
