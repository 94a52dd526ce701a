----------------------- MODULE MCHospitalityInventory -----------------------
(* Instances of HospitalityInventory for TLC: one room type and one rate plan. *)
EXTENDS HospitalityInventory, TLC

CONSTANTS rt1, plan1

MCRoomTypeOf == [r \in Rooms |-> rt1]

MCWindows == {[roomType |-> rt1, startDate |-> 2, endDate |-> 2, capacityLimit |-> 1]}

\* Two nights at least for stays touching day 1.
MCRestrictions ==
    {[ratePlan |-> plan1, roomType |-> rt1, startDate |-> 1, endDate |-> 1,
      minStayNights |-> 2, maxStayNights |-> NoLimit,
      closedToArrival |-> FALSE, closedToDeparture |-> FALSE]}

Symmetry == Permutations(HoldKeys) \cup Permutations(BookingKeys) \cup Permutations(Rooms)

=============================================================================
