SPECIFICATION Spec
CONSTANTS
    rt1 = rt1
    plan1 = plan1
    RoomTypes = {rt1}
    RatePlans = {plan1}
    AnyRoomType = AnyRoomType
    LastDay = 3
    MaxUnits = 2
    NoLimit = NoLimit
    Rooms = {r1, r2}
    RoomTypeOf <- MCRoomTypeOf
    HoldKeys = {h1, h2}
    BookingKeys = {b1}
    RescheduleKeys = {}
    ModificationKeys = {m1}
    WindowInputs <- MCWindows
    RestrictionInputs <- MCRestrictions
    HoldMinutes = {1}
    ExpiryBatch = 1
    MaxTime = 1
    MaxLag = 1
SYMMETRY Symmetry
CHECK_DEADLOCK FALSE
INVARIANTS
    LiveHoldsStayBookable
PROPERTIES
    GrowthFitsUnlessLate
    OverbookingHasTwoCauses
