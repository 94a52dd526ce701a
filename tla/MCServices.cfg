SPECIFICATION Spec
CONSTANTS
    Amendments = {a1, a2}
    NoAmendment = NoAmendment
    BookedCaptures <- TwoCaptures
    Deltas <- RaiseAndRefund
    MaxAmendmentRows = 2
    MaxAmendmentCalls = 1
    MaxBookingVersion = 1
    Rentals = {r1, r2}
    RentalUnitIds = {u1, u2}
    RentalBlockIds = {k1}
    LastRentalDay = 2
    NoRentalRow = NoRentalRow
    NoSnapshot = NoSnapshot
    SupplierWorkers = {w1, w2}
    RentalTotal = 3
    RentalDeltas <- RaiseAndReduce
    BondAmount = 2
    LiabilityAmounts = {1, 2}
    MaxRentalSources = 2
    MaxRentalAmendments = 2
    MaxSupplierAttempts = 5
SYMMETRY ServicesSymmetry
CHECK_DEADLOCK FALSE
INVARIANTS
    ServicesTypeOK
    PaidSessionsAreRecorded
    AmendmentMovesItsDifference
    UnitsAreNotShared
    AvailableUnitsAreClear
    RentalMoneyWithinTerms
    LiabilityMetOnce
    SoldOnce
    OutcomeIsSupplierTruth
PROPERTIES
    AmendmentsCloseBalanced
    AmendmentProtectsBooking
