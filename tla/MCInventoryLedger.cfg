SPECIFICATION MCSpec
CONSTANTS
    rt1 = rt1
    plan1 = plan1
    RoomTypes = {rt1}
    RatePlans = {plan1}
    AnyRoomType = AnyRoomType
    LastDay = 3
    MaxUnits = 1
    NoLimit = NoLimit
    Rooms = {r1}
    RoomTypeOf <- MCRoomTypeOf
    HoldKeys = {h1, h2}
    BookingKeys = {b1, b2}
    RescheduleKeys = {k1}
    ModificationKeys = {}
    WindowInputs = {}
    RestrictionInputs = {}
    HoldMinutes = {2}
    ExpiryBatch = 1
    MaxTime = 4
    StaffTime = 2
    PublicLimit = 1
    PublicUnits = 1
    PublicHoldMinutes = 2
    PaymentWindow = 2
    RecoveryTime = 6
    MaxLag = 1
SYMMETRY Symmetry
CHECK_DEADLOCK FALSE
INVARIANTS
    PublicTypeOK
    AbandonedBookingsLetGo
    LedgersAgree
PROPERTIES
    LimitHoldsUnlessLate
    PromotedWhileProtected
    HoldsEndOnce
    UnresolvedPaymentFreezesBooking
    ChangesHappenOnce
    BookingsKeepPaymentContract
