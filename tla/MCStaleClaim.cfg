SPECIFICATION FairSpec
CONSTANTS
    Keys = {k1, k2}
    ClaimReference = ClaimReference
    Total = 1
    StartWindow = 1
    AttemptStatuses = {"requires_payment_method"}
    MaxTime = 0
    MaxCalls = 1
CHECK_DEADLOCK FALSE
PROPERTY
    StaleClaimsEnd
