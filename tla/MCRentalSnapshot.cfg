SPECIFICATION RentalsSpec
CONSTANTS
    Rentals = {r1, r2}
    RentalUnitIds = {u1, u2}
    RentalBlockIds = {k1}
    LastRentalDay = 2
    NoRentalRow = NoRentalRow
    NoSnapshot = NoSnapshot
SYMMETRY RentalSymmetry
CHECK_DEADLOCK FALSE
INVARIANTS HoldsKeepTheirUnit
