--------------------------- MODULE StayInventory ---------------------------
(***************************************************************************)
(* The vocabulary of hospitality inventory and the pure rules over it: the *)
(* nights of a stay, the units a set of claims takes on a night, the       *)
(* capacity left by rooms and availability windows, and the rate           *)
(* restrictions a stay must satisfy.                                       *)
(***************************************************************************)
EXTENDS Integers, FiniteSets

CONSTANTS
    RoomTypes,      \* room types of the one property modelled
    RatePlans,      \* its rate plans
    AnyRoomType,    \* the null roomTypeId of a restriction on every room type
    LastDay,        \* days are 1..LastDay; night n runs from day n to day n + 1
    MaxUnits,       \* largest quantity of one request (50 in the code)
    NoLimit         \* a null minStayNights, maxStayNights

ASSUME StayAssumption ==
    /\ LastDay \in Nat
    /\ MaxUnits \in Nat \ {0}
    /\ AnyRoomType \notin RoomTypes
    /\ NoLimit \notin Nat

Days == 1..LastDay
Units == 1..MaxUnits

\* What a hold, a booking and an allocation occupy: `quantity` rooms of a type
\* on every night from arrival up to, not including, the departure day.
Spaces == {s \in [roomType : RoomTypes, arrival : Days, departure : Days,
                  quantity : Units] : s.arrival < s.departure}

Nights(s) == s.arrival .. (s.departure - 1)
StayNights(s) == s.departure - s.arrival
Occupies(s, rt, n) == s.roomType = rt /\ n \in Nights(s)

\* One token for each unit that the claims spaceOf[k], k \in keys, take on night n of
\* room type rt: their number is the sum of the quantities.
UnitTokens(keys, spaceOf, rt, n) ==
    {ku \in keys \X Units : /\ Occupies(spaceOf[ku[1]], rt, n)
                            /\ ku[2] <= spaceOf[ku[1]].quantity}

----------------------------------------------------------------------------
\* Availability windows cap a room type over startDate..endDate, both included.

WindowRows == [roomType : RoomTypes, startDate : Days, endDate : Days, capacityLimit : Nat]

Covers(w, rt, n) == w.roomType = rt /\ w.startDate <= n /\ n <= w.endDate

WindowsOverlap(v, w) ==
    /\ v.roomType = w.roomType
    /\ v.startDate <= w.endDate
    /\ w.startDate <= v.endDate

\* `units` fit on night n: neither the rooms nor a window covering the night is exceeded.
FitsNight(rooms, windows, rt, n, units) ==
    /\ units <= rooms
    /\ \A w \in windows : Covers(w, rt, n) => units <= w.capacityLimit

----------------------------------------------------------------------------
\* Rate restrictions.

RestrictionRows ==
    [ratePlan : RatePlans, roomType : RoomTypes \cup {AnyRoomType},
     startDate : Days, endDate : Days,
     minStayNights : Nat \cup {NoLimit}, maxStayNights : Nat \cup {NoLimit},
     closedToArrival : BOOLEAN, closedToDeparture : BOOLEAN]

RestrictionsOverlap(r, q) ==
    /\ r.ratePlan = q.ratePlan
    /\ r.roomType = q.roomType
    /\ r.startDate <= q.endDate
    /\ q.startDate <= r.endDate

DateWithin(day, r) == r.startDate <= day /\ day <= r.endDate

OverlapsOccupiedNights(s, r) == r.startDate < s.departure /\ s.arrival <= r.endDate

Allows(r, s) ==
    /\ OverlapsOccupiedNights(s, r) =>
         /\ r.minStayNights # NoLimit => r.minStayNights <= StayNights(s)
         /\ r.maxStayNights # NoLimit => StayNights(s) <= r.maxStayNights
    /\ r.closedToArrival => ~DateWithin(s.arrival, r)
    /\ r.closedToDeparture => ~DateWithin(s.departure, r)

\* Every active restriction of the plan, on the room type or on all of them, allows
\* the stay. The code takes the largest minimum and the smallest maximum of the rows.
RestrictionsAllow(restrictions, s, plan) ==
    \A r \in restrictions :
        r.ratePlan = plan /\ r.roomType \in {s.roomType, AnyRoomType} => Allows(r, s)

=============================================================================
