--------------------------- MODULE MCPublicBooking ---------------------------
(* Instances of PublicBooking: a behaviour chooses at its start between the    *)
(* inventory under staff, whose rows meet in every way, and one public booking *)
(* over a longer time, without changes of the catalogue and of its terms, its  *)
(* stays from the first day.                                                   *)
EXTENDS PublicBooking, TLC

CONSTANTS rt1, plan1, StaffTime

VARIABLE public

MCRoomTypeOf == [r \in Rooms |-> rt1]

MCInit == PublicInit /\ public \in BOOLEAN

Small ==
    /\ Cardinality(DOMAIN bookings') <= 1
    /\ changes' = {}
    /\ \A k \in DOMAIN holds' : holds'[k].space.arrival = 1
    /\ <<roomTypes, ratePlans, assigned>>' = <<roomTypes, ratePlans, assigned>>
    /\ \A r \in Rooms : rooms'[r] \in {"NONE", "ACTIVE"}

MCNext ==
    /\ UNCHANGED public
    /\ \/ ~public /\ Next /\ clock' <= StaffTime /\ UNCHANGED publicVars
       \/ public /\ PublicNext /\ Small

MCSpec == MCInit /\ [][MCNext]_<<public, publicSpecVars>>

Symmetry == Permutations(HoldKeys) \cup Permutations(BookingKeys) \cup Permutations(Rooms)

=============================================================================
