SPECIFICATION Spec
CONSTANTS
    rt1 = rt1
    plan1 = plan1
    RoomTypes = {rt1}
    RatePlans = {plan1}
    AnyRoomType = AnyRoomType
    LastDay = 3
    MaxUnits = 2
    NoLimit = NoLimit
    Rooms = {r1, r2}
    RoomTypeOf <- MCRoomTypeOf
    HoldKeys = {h1, h2}
    BookingKeys = {b1}
    RescheduleKeys = {k1}
    ModificationKeys = {}
    WindowInputs <- MCWindows
    RestrictionInputs <- MCRestrictions
    HoldMinutes = {2}
    ExpiryBatch = 1
    MaxTime = 2
    MaxLag = 1
SYMMETRY Symmetry
CHECK_DEADLOCK FALSE
PROPERTY GrowthFits
