------------------------ MODULE HospitalityInventory ------------------------
(***************************************************************************)
(* Rooms of one property sold through temporary holds and bookings: the    *)
(* catalogue a manager edits, the holds, the bookings with their permanent *)
(* allocations, and the booking's payment as far as it blocks a change.    *)
(*                                                                         *)
(* Each action is one serializable transaction that commits. A refused     *)
(* request, a replay answered from a stored row and a serialization        *)
(* failure change nothing. Most requests read the wall clock before they   *)
(* wait for a connection and for the advisory lock, so a transaction acts  *)
(* on a time up to MaxLag older than the time it commits at.               *)
(***************************************************************************)
EXTENDS StayInventory

CONSTANTS
    Rooms,           \* rooms that may ever be created
    RoomTypeOf,      \* the room type of each room
    HoldKeys,        \* idempotency keys of hold requests
    BookingKeys,     \* idempotency keys of confirmation requests
    RescheduleKeys,  \* idempotency keys of reschedule requests
    ModificationKeys, \* idempotency keys of commercial modifications, looked up apart
    WindowInputs,    \* windows a manager may create
    RestrictionInputs, \* restrictions a manager may create
    HoldMinutes,     \* hold durations requested (1..30 minutes in the code)
    ExpiryBatch,     \* rows one expiry call takes (1..500 in the code)
    MaxTime,         \* bound on the clock
    MaxLag           \* how old a captured time may be when its transaction commits

ASSUME InventoryAssumption ==
    /\ IsFiniteSet(Rooms) /\ IsFiniteSet(HoldKeys) /\ IsFiniteSet(BookingKeys)
    /\ RoomTypeOf \in [Rooms -> RoomTypes]
    /\ RescheduleKeys \cap ModificationKeys = {}
    /\ WindowInputs \subseteq WindowRows
    /\ RestrictionInputs \subseteq RestrictionRows
    /\ HoldMinutes \subseteq Nat \ {0}
    /\ ExpiryBatch \in Nat \ {0}
    /\ MaxTime \in Nat
    /\ MaxLag \in Nat

VARIABLES
    clock,          \* the wall clock
    roomTypes,      \* active room types
    ratePlans,      \* active rate plans
    assigned,       \* rate plans assigned to room types
    rooms,          \* status of each room
    windows,        \* active availability windows
    restrictions,   \* active restrictions
    holds,          \* hold rows by idempotency key
    bookings,       \* booking rows by idempotency key
    allocations,    \* the allocation row of each booking
    changes         \* booking.rescheduled and booking.commercial-modified audit rows,
                    \* as <<booking, key>>

catalogue == <<roomTypes, ratePlans, assigned, rooms, windows, restrictions>>
ledger == <<holds, bookings, allocations, changes>>
vars == <<clock, catalogue, ledger>>

----------------------------------------------------------------------------
\* Rows.

RoomStatus == {"NONE", "ACTIVE", "OUT_OF_SERVICE", "ARCHIVED"}
HoldStatus == {"ACTIVE", "CONSUMED", "RELEASED", "EXPIRED"}
BookingStatus == {"PENDING_CONFIRMATION", "CONFIRMED", "CANCELLED"}

\* The booking's paymentStatus, by what it permits: OPEN is UNPAID or FAILED, SETTLED is
\* AUTHORIZED, PAID or PARTIALLY_REFUNDED.
PaymentClass == {"OPEN", "SETTLED", "REFUNDED"}

\* The booking has a PENDING Checkout payment; or has a FAILED one, whose session the provider
\* may still report paid; or neither.
CheckoutState == {"NONE", "PENDING", "FAILED"}

HoldRows == [space : Spaces, plan : RatePlans, status : HoldStatus, expiresAt : Nat]

BookingRows == [hold : HoldKeys, space : Spaces, plan : RatePlans, status : BookingStatus,
                payment : PaymentClass, checkout : CheckoutState]

ChangeKeys == RescheduleKeys \cup ModificationKeys

\* A table is a function from the keys of its rows.
IsTable(table, K, Rows) == DOMAIN table \subseteq K /\ table \in [DOMAIN table -> Rows]
Put(table, k, row) == [j \in DOMAIN table \cup {k} |-> IF j = k THEN row ELSE table[j]]

TypeOK ==
    /\ clock \in Nat
    /\ roomTypes \subseteq RoomTypes
    /\ ratePlans \subseteq RatePlans
    /\ assigned \subseteq RoomTypes \X RatePlans
    /\ rooms \in [Rooms -> RoomStatus]
    /\ windows \subseteq WindowRows
    /\ restrictions \subseteq RestrictionRows
    /\ IsTable(holds, HoldKeys, HoldRows)
    /\ IsTable(bookings, BookingKeys, BookingRows)
    /\ IsTable(allocations, BookingKeys, Spaces)
    /\ changes \subseteq BookingKeys \X ChangeKeys

----------------------------------------------------------------------------
\* What the transactions read.

\* The times a request that commits now may have read before.
Captured == {t \in 0..clock : clock - t <= MaxLag}

PhysicalCapacity(rt) == Cardinality({r \in Rooms : RoomTypeOf[r] = rt /\ rooms[r] = "ACTIVE"})

Fits(rt, n, units) == FitsNight(PhysicalCapacity(rt), windows, rt, n, units)

LiveHolds(t) == {k \in DOMAIN holds : holds[k].status = "ACTIVE" /\ holds[k].expiresAt > t}
Unresolved(b) == bookings[b].checkout = "PENDING"
OpenBookings == {b \in DOMAIN bookings : bookings[b].status # "CANCELLED"}

HeldTokens(rt, n, t) == UnitTokens(LiveHolds(t), [k \in DOMAIN holds |-> holds[k].space], rt, n)
BookedTokens(rt, n, except) ==
    UnitTokens((OpenBookings \cap DOMAIN allocations) \ except, allocations, rt, n)

\* Units of a night that are held or allocated, leaving out the bookings in `except`.
ProtectedExcept(rt, n, t, except) ==
    Cardinality(HeldTokens(rt, n, t)) + Cardinality(BookedTokens(rt, n, except))
Protected(rt, n, t) == ProtectedExcept(rt, n, t, {})

\* Mutant: holds are left out of the capacity.
CapacityOfBookings(s, t, except) ==
    \A n \in Nights(s) :
        Fits(s.roomType, n, Cardinality(BookedTokens(s.roomType, n, except)) + s.quantity)

\* The request fits on every night: calculateAvailabilityHoldCapacity's sellableUnits,
\* the least remaining capacity of the nights, is at least its quantity.
CapacityAllows(s, t, except) ==
    \A n \in Nights(s) : Fits(s.roomType, n, ProtectedExcept(s.roomType, n, t, except) + s.quantity)

Bookable(rt, plan) == rt \in roomTypes /\ plan \in ratePlans /\ <<rt, plan>> \in assigned

----------------------------------------------------------------------------
\* Holds.

CreateHold(k, s, plan, minutes, now) ==
    /\ k \notin DOMAIN holds
    /\ Bookable(s.roomType, plan)
    /\ RestrictionsAllow(restrictions, s, plan)
    /\ CapacityAllows(s, now, {})
    /\ holds' = Put(holds, k, [space |-> s, plan |-> plan, status |-> "ACTIVE",
                               expiresAt |-> now + minutes])
    /\ UNCHANGED <<clock, catalogue, bookings, allocations, changes>>

ReleaseHold(k, now) ==
    /\ k \in DOMAIN holds
    /\ holds[k].status = "ACTIVE"
    /\ holds' = [holds EXCEPT ![k].status = IF holds[k].expiresAt <= now THEN "EXPIRED" ELSE "RELEASED"]
    /\ UNCHANGED <<clock, catalogue, bookings, allocations, changes>>

\* Mutant: the update is not conditional on the hold's status.
ExpireEndedHolds(now) ==
    \E k \in DOMAIN holds :
        /\ holds[k].expiresAt <= now
        /\ holds' = [holds EXCEPT ![k].status = "EXPIRED"]
        /\ UNCHANGED <<clock, catalogue, bookings, allocations, changes>>

\* The oldest ExpiryBatch due holds, without the allocation lock.
ExpireHolds(now) ==
    LET due == {k \in DOMAIN holds : holds[k].status = "ACTIVE" /\ holds[k].expiresAt <= now}
    IN  \E batch \in SUBSET due :
          /\ batch # {}
          /\ Cardinality(batch) <= ExpiryBatch
          /\ batch # due => Cardinality(batch) = ExpiryBatch
          /\ \A k \in batch, j \in due \ batch : holds[k].expiresAt <= holds[j].expiresAt
          /\ holds' = [k \in DOMAIN holds |->
                         IF k \in batch THEN [holds[k] EXCEPT !.status = "EXPIRED"] ELSE holds[k]]
          /\ UNCHANGED <<clock, catalogue, bookings, allocations, changes>>

----------------------------------------------------------------------------
\* Bookings.

\* Mutant: the hold is left active.
ConfirmKeepingHold(b, k, status, now) ==
    /\ b \notin DOMAIN bookings
    /\ k \in LiveHolds(now)
    /\ Bookable(holds[k].space.roomType, holds[k].plan)
    /\ bookings' = Put(bookings, b, [hold |-> k, space |-> holds[k].space, plan |-> holds[k].plan,
                                     status |-> status, payment |-> "OPEN", checkout |-> "NONE"])
    /\ allocations' = Put(allocations, b, holds[k].space)
    /\ UNCHANGED <<clock, catalogue, holds, changes>>

\* Consumes an unexpired hold into a booking and its allocation. Neither capacity nor
\* restrictions are read again.
Confirm(b, k, status, now) ==
    /\ b \notin DOMAIN bookings
    /\ k \in DOMAIN holds
    /\ holds[k].status = "ACTIVE"
    /\ holds[k].expiresAt > now
    /\ \A c \in DOMAIN bookings : bookings[c].hold # k
    /\ Bookable(holds[k].space.roomType, holds[k].plan)
    /\ bookings' = Put(bookings, b, [hold |-> k, space |-> holds[k].space, plan |-> holds[k].plan,
                                     status |-> status, payment |-> "OPEN", checkout |-> "NONE"])
    /\ allocations' = Put(allocations, b, holds[k].space)
    /\ holds' = [holds EXCEPT ![k].status = "CONSUMED"]
    /\ UNCHANGED <<clock, catalogue, changes>>

\* Mutants: a paid booking is cancelled; a booking is cancelled during a payment.
CancelPaid(b) ==
    /\ b \in OpenBookings
    /\ ~Unresolved(b)
    /\ bookings' = [bookings EXCEPT ![b].status = "CANCELLED"]
    /\ UNCHANGED <<clock, catalogue, holds, allocations, changes>>

CancelUnresolved(b) ==
    /\ b \in OpenBookings
    /\ bookings[b].payment \in {"OPEN", "REFUNDED"}
    /\ bookings' = [bookings EXCEPT ![b].status = "CANCELLED"]
    /\ UNCHANGED <<clock, catalogue, holds, allocations, changes>>

Cancel(b) ==
    /\ b \in DOMAIN bookings \cap DOMAIN allocations
    /\ allocations[b] = bookings[b].space
    /\ bookings[b].status \in {"PENDING_CONFIRMATION", "CONFIRMED"}
    /\ bookings[b].payment \in {"OPEN", "REFUNDED"}
    /\ ~Unresolved(b)
    /\ bookings' = [bookings EXCEPT ![b].status = "CANCELLED"]
    /\ UNCHANGED <<clock, catalogue, holds, allocations, changes>>

\* Mutant: the dates are swapped.
MovedBackwards(s, arrival, departure) == [s EXCEPT !.arrival = departure, !.departure = arrival]

Moved(s, arrival, departure) == [s EXCEPT !.arrival = arrival, !.departure = departure]

\* Mutant: the audit row is not written.
MoveUnrecorded(b, key, s, plan) ==
    /\ bookings' = [bookings EXCEPT ![b].space = s, ![b].plan = plan]
    /\ allocations' = [allocations EXCEPT ![b] = s]
    /\ UNCHANGED changes

\* The booking, its allocation and the audit row that keeps the key are written together.
MoveBooking(b, key, s, plan) ==
    /\ bookings' = [bookings EXCEPT ![b].space = s, ![b].plan = plan]
    /\ allocations' = [allocations EXCEPT ![b] = s]
    /\ changes' = changes \cup {<<b, key>>}

\* A confirmed booking changes its stay or plan at an unchanged price. A key already in the
\* audit trail is a replay or a conflict.
ChangeTerms(b, key, s, plan, now) ==
    /\ b \in DOMAIN bookings \cap DOMAIN allocations
    /\ bookings[b].status = "CONFIRMED"
    /\ allocations[b] = bookings[b].space
    /\ <<b, key>> \notin changes
    /\ ~Unresolved(b)
    /\ Bookable(s.roomType, plan)
    /\ RestrictionsAllow(restrictions, s, plan)
    /\ CapacityAllows(s, now, {b})
    /\ MoveBooking(b, key, s, plan)
    /\ UNCHANGED <<clock, catalogue, holds>>

\* Other dates; the same dates are answered without a change.
Reschedule(b, key, arrival, departure, now) ==
    /\ b \in DOMAIN bookings
    /\ arrival < departure
    /\ LET s == Moved(bookings[b].space, arrival, departure)
       IN  s # bookings[b].space /\ ChangeTerms(b, key, s, bookings[b].plan, now)

\* Another room type, plan or quantity on the same dates, or, if all three stay, other add-ons.
Reselected(s, rt, units) == [s EXCEPT !.roomType = rt, !.quantity = units]

ModifyTerms(b, key, rt, units, plan, now) ==
    /\ b \in DOMAIN bookings
    /\ ChangeTerms(b, key, Reselected(bookings[b].space, rt, units), plan, now)

----------------------------------------------------------------------------
\* The booking's payment, as far as it decides whether the booking may change.

PaymentStep(b, row) ==
    /\ bookings' = [bookings EXCEPT ![b] = row]
    /\ UNCHANGED <<clock, catalogue, holds, allocations, changes>>

\* A Checkout claim is written as a PENDING payment.
StartPayment(b) ==
    /\ b \in DOMAIN bookings
    /\ bookings[b].status \in {"PENDING_CONFIRMATION", "CONFIRMED"}
    /\ bookings[b].payment = "OPEN"
    /\ ~Unresolved(b)
    /\ PaymentStep(b, [bookings[b] EXCEPT !.checkout = "PENDING"])

\* The provider's session is bound to the pending claim and promotes the booking.
Promote(b) ==
    /\ b \in DOMAIN bookings
    /\ Unresolved(b)
    /\ bookings[b].status = "PENDING_CONFIRMATION"
    /\ bookings[b].payment = "OPEN"
    /\ PaymentStep(b, [bookings[b] EXCEPT !.status = "CONFIRMED"])

\* The provider refuses the claim, at first or when a retry finds its session again.
FailPayment(b) ==
    /\ b \in DOMAIN bookings
    /\ Unresolved(b)
    /\ PaymentStep(b, [bookings[b] EXCEPT !.checkout = "FAILED"])

\* The provider reports an attempt paid, be it pending or failed meanwhile; other attempts
\* may remain, and a booking already paid or refunded may keep that payment status.
SettlePayment(b, payment, checkout) ==
    /\ b \in DOMAIN bookings
    /\ bookings[b].checkout \in {"PENDING", "FAILED"}
    /\ bookings[b].status = "CONFIRMED"
    /\ payment = "SETTLED" \/ payment = bookings[b].payment
    /\ payment # "OPEN"
    /\ checkout \in {"NONE", "FAILED", bookings[b].checkout}
    /\ PaymentStep(b, [bookings[b] EXCEPT !.checkout = checkout, !.payment = payment])

\* The provider reports the session expired: an unpaid confirmed booking is cancelled.
ExpireCheckout(b) ==
    /\ b \in DOMAIN bookings
    /\ Unresolved(b)
    /\ bookings[b].status = "CONFIRMED"
    /\ bookings[b].payment = "OPEN"
    /\ PaymentStep(b, [bookings[b] EXCEPT !.checkout = "FAILED", !.status = "CANCELLED"])

\* An offline payment does not look at unresolved provider payments.
RecordOfflinePayment(b) ==
    /\ b \in DOMAIN bookings
    /\ bookings[b].status = "CONFIRMED"
    /\ bookings[b].payment = "OPEN"
    /\ PaymentStep(b, [bookings[b] EXCEPT !.payment = "SETTLED"])

\* The refund of all that is left. Its plan refuses an unresolved payment, and also a
\* ledger it cannot divide over its sources, which this model does not tell apart.
RecordRefund(b) ==
    /\ b \in DOMAIN bookings
    /\ bookings[b].status = "CONFIRMED"
    /\ bookings[b].payment = "SETTLED"
    /\ ~Unresolved(b)
    /\ PaymentStep(b, [bookings[b] EXCEPT !.payment = "REFUNDED"])

\* The provider reports a refund failed that had succeeded: the booking has money again.
ReturnRefund(b) ==
    /\ b \in DOMAIN bookings
    /\ bookings[b].status = "CONFIRMED"
    /\ bookings[b].payment = "REFUNDED"
    /\ ~Unresolved(b)
    /\ PaymentStep(b, [bookings[b] EXCEPT !.payment = "SETTLED"])

----------------------------------------------------------------------------
\* The catalogue.

CreateRoom(r, status) ==
    /\ rooms[r] = "NONE"
    /\ RoomTypeOf[r] \in roomTypes
    /\ rooms' = [rooms EXCEPT ![r] = status]
    /\ UNCHANGED <<clock, roomTypes, ratePlans, assigned, windows, restrictions, ledger>>

\* Looks at unexpired holds of the room type, not at its allocations.
ArchiveRoom(r, now) ==
    /\ rooms[r] \in {"ACTIVE", "OUT_OF_SERVICE"}
    /\ \A k \in LiveHolds(now) : holds[k].space.roomType # RoomTypeOf[r]
    /\ rooms' = [rooms EXCEPT ![r] = "ARCHIVED"]
    /\ UNCHANGED <<clock, roomTypes, ratePlans, assigned, windows, restrictions, ledger>>

ArchiveRoomType(rt) ==
    /\ rt \in roomTypes
    /\ \A r \in Rooms : RoomTypeOf[r] = rt => rooms[r] \in {"NONE", "ARCHIVED"}
    /\ \A plan \in RatePlans : <<rt, plan>> \notin assigned
    /\ roomTypes' = roomTypes \ {rt}
    /\ UNCHANGED <<clock, ratePlans, assigned, rooms, windows, restrictions, ledger>>

AssignRatePlan(rt, plan) ==
    /\ rt \in roomTypes
    /\ plan \in ratePlans
    /\ <<rt, plan>> \notin assigned
    /\ assigned' = assigned \cup {<<rt, plan>>}
    /\ UNCHANGED <<clock, roomTypes, ratePlans, rooms, windows, restrictions, ledger>>

\* Mutant: unexpired holds are not looked at.
RemoveHeldRatePlan(rt, plan, now) ==
    /\ Bookable(rt, plan)
    /\ \A r \in restrictions : ~(r.ratePlan = plan /\ r.roomType = rt)
    /\ assigned' = assigned \ {<<rt, plan>>}
    /\ UNCHANGED <<clock, roomTypes, ratePlans, rooms, windows, restrictions, ledger>>

RemoveRatePlan(rt, plan, now) ==
    /\ Bookable(rt, plan)
    /\ \A r \in restrictions : ~(r.ratePlan = plan /\ r.roomType = rt)
    /\ \A k \in LiveHolds(now) : ~(holds[k].space.roomType = rt /\ holds[k].plan = plan)
    /\ assigned' = assigned \ {<<rt, plan>>}
    /\ UNCHANGED <<clock, roomTypes, ratePlans, rooms, windows, restrictions, ledger>>

ArchiveRatePlan(plan) ==
    /\ plan \in ratePlans
    /\ \A rt \in RoomTypes : <<rt, plan>> \notin assigned
    /\ \A r \in restrictions : r.ratePlan # plan
    /\ ratePlans' = ratePlans \ {plan}
    /\ UNCHANGED <<clock, roomTypes, assigned, rooms, windows, restrictions, ledger>>

\* Mutant: protected units are not looked at.
CreateUndercuttingWindow(w, now) ==
    /\ w.roomType \in roomTypes
    /\ \A v \in windows : ~WindowsOverlap(v, w)
    /\ windows' = windows \cup {w}
    /\ UNCHANGED <<clock, roomTypes, ratePlans, assigned, rooms, restrictions, ledger>>

\* A window may not overlap another, nor undercut what is protected on its nights.
CreateWindow(w, now) ==
    /\ w.roomType \in roomTypes
    /\ \A v \in windows : ~WindowsOverlap(v, w)
    /\ \A n \in w.startDate..w.endDate : Protected(w.roomType, n, now) <= w.capacityLimit
    /\ windows' = windows \cup {w}
    /\ UNCHANGED <<clock, roomTypes, ratePlans, assigned, rooms, restrictions, ledger>>

ArchiveWindow(w) ==
    /\ w \in windows
    /\ windows' = windows \ {w}
    /\ UNCHANGED <<clock, roomTypes, ratePlans, assigned, rooms, restrictions, ledger>>

CreateRestriction(r) ==
    /\ r.ratePlan \in ratePlans
    /\ r.roomType # AnyRoomType => Bookable(r.roomType, r.ratePlan)
    /\ \A q \in restrictions : ~RestrictionsOverlap(q, r)
    /\ restrictions' = restrictions \cup {r}
    /\ UNCHANGED <<clock, roomTypes, ratePlans, assigned, rooms, windows, ledger>>

ArchiveRestriction(r) ==
    /\ r \in restrictions
    /\ r.ratePlan \in ratePlans
    /\ restrictions' = restrictions \ {r}
    /\ UNCHANGED <<clock, roomTypes, ratePlans, assigned, rooms, windows, ledger>>

----------------------------------------------------------------------------
Tick ==
    /\ clock < MaxTime
    /\ clock' = clock + 1
    /\ UNCHANGED <<catalogue, ledger>>

\* A property just set up: active room types and plans, each plan assigned, no rooms yet.
Init ==
    /\ clock = 0
    /\ roomTypes = RoomTypes
    /\ ratePlans = RatePlans
    /\ assigned = RoomTypes \X RatePlans
    /\ rooms = [r \in Rooms |-> "NONE"]
    /\ windows = {}
    /\ restrictions = {}
    /\ holds = [k \in {} |-> {}]
    /\ bookings = [b \in {} |-> {}]
    /\ allocations = [b \in {} |-> {}]
    /\ changes = {}

HoldNext ==
    \E k \in HoldKeys, now \in Captured :
      \/ \E s \in Spaces, plan \in RatePlans, minutes \in HoldMinutes :
            CreateHold(k, s, plan, minutes, now)
      \/ ReleaseHold(k, now)

BookingNext ==
    \E b \in BookingKeys, now \in Captured :
      \/ \E k \in HoldKeys, status \in {"CONFIRMED", "PENDING_CONFIRMATION"} :
            Confirm(b, k, status, now)
      \/ \E key \in RescheduleKeys, arrival, departure \in Days :
            Reschedule(b, key, arrival, departure, now)
      \/ \E key \in ModificationKeys, rt \in RoomTypes, units \in Units, plan \in RatePlans :
            ModifyTerms(b, key, rt, units, plan, now)

PaymentNext ==
    \E b \in BookingKeys :
      \/ Cancel(b)
      \/ StartPayment(b)
      \/ Promote(b)
      \/ FailPayment(b)
      \/ \E payment \in PaymentClass, checkout \in CheckoutState : SettlePayment(b, payment, checkout)
      \/ ExpireCheckout(b)
      \/ RecordOfflinePayment(b)
      \/ RecordRefund(b)
      \/ ReturnRefund(b)

CatalogueNext ==
    \/ \E r \in Rooms, status \in {"ACTIVE", "OUT_OF_SERVICE"} : CreateRoom(r, status)
    \/ \E r \in Rooms, now \in Captured : ArchiveRoom(r, now)
    \/ \E rt \in RoomTypes : ArchiveRoomType(rt)
    \/ \E rt \in RoomTypes, plan \in RatePlans : AssignRatePlan(rt, plan)
    \/ \E rt \in RoomTypes, plan \in RatePlans, now \in Captured : RemoveRatePlan(rt, plan, now)
    \/ \E plan \in RatePlans : ArchiveRatePlan(plan)
    \/ \E w \in WindowInputs, now \in Captured : CreateWindow(w, now)
    \/ \E w \in WindowInputs : ArchiveWindow(w)
    \/ \E r \in RestrictionInputs : CreateRestriction(r)
    \/ \E r \in RestrictionInputs : ArchiveRestriction(r)

Next ==
    \/ Tick
    \/ HoldNext
    \/ \E now \in Captured : ExpireHolds(now)
    \/ BookingNext
    \/ PaymentNext
    \/ CatalogueNext

Spec == Init /\ [][Next]_vars

----------------------------------------------------------------------------
\* Properties.

\* A hold is consumed exactly when a booking was made from it, and by one booking only,
\* although holds, bookings and their keys are written by different requests.
HoldsBookedOnce ==
    /\ \A b \in DOMAIN bookings : bookings[b].hold \in DOMAIN holds
    /\ \A k \in DOMAIN holds :
         holds[k].status = "CONSUMED" <=> \E b \in DOMAIN bookings : bookings[b].hold = k
    /\ \A b, c \in DOMAIN bookings : bookings[b].hold = bookings[c].hold => b = c

\* Every booking keeps one allocation with its own room type, dates and quantity, through
\* changes, payments and cancellation.
AllocationsMatchBookings ==
    /\ DOMAIN allocations = DOMAIN bookings
    /\ \A b \in DOMAIN bookings : allocations[b] = bookings[b].space

\* What is held, booked and allocated is the same stay, counted once: the three tables agree
\* although different requests write them.
LedgersAgree == HoldsBookedOnce /\ AllocationsMatchBookings

\* A cancelled booking holds no money and no open payment that could still bring some in:
\* cancellation, Checkout, the provider's events and offline payments exclude each other.
CancelledHasNoMoney ==
    \A b \in DOMAIN bookings :
        bookings[b].status = "CANCELLED" => bookings[b].payment # "SETTLED" /\ ~Unresolved(b)

\* What a guest still holds can be booked: the room type, the plan and their assignment
\* are not retired under an unexpired hold.
LiveHoldsStayBookable ==
    \A k \in LiveHolds(clock) : Bookable(holds[k].space.roomType, holds[k].plan)

\* A hold row stays for ever: its terms and expiry never change, once ended by release,
\* expiry or confirmation it ends no second time, and it is marked expired only once it is
\* due, whatever time the request captured.
HoldsEndOnce ==
    [][\A k \in DOMAIN holds :
          /\ k \in DOMAIN holds'
          /\ holds'[k] = [holds[k] EXCEPT !.status = holds'[k].status]
          /\ holds[k].status # "ACTIVE" => holds'[k].status = holds[k].status
          /\ holds'[k].status = "EXPIRED" => holds[k].expiresAt <= clock]_vars

\* The terms of a booking do not move, and it is not cancelled under the guest, while one
\* of its payments is unresolved: only the step that fails that payment cancels it.
UnresolvedPaymentFreezesBooking ==
    [][\A b \in DOMAIN bookings :
          Unresolved(b) /\ Unresolved(b)' =>
              /\ bookings'[b].space = bookings[b].space
              /\ bookings'[b].plan = bookings[b].plan
              /\ bookings'[b].status = "CANCELLED" => bookings[b].status = "CANCELLED"]_vars

\* A booking's terms change only under a request key it has not used, so that a repeated
\* request cannot move it back after another change; once cancelled, nothing of it and of
\* its allocation changes again.
ChangesHappenOnce ==
    [][\A b \in DOMAIN bookings :
          /\ <<bookings'[b].space, bookings'[b].plan>> # <<bookings[b].space, bookings[b].plan>> =>
                 \E key \in ChangeKeys : <<b, key>> \in changes' \ changes
          /\ bookings[b].status = "CANCELLED" =>
                 bookings'[b] = bookings[b] /\ allocations'[b] = allocations[b]]_vars

\* The payment of a booking as the payment services keep it: see BookingPayments.
PaymentOf(b) == INSTANCE PaymentContract WITH
    status <- IF b \in DOMAIN bookings THEN bookings[b].status ELSE "NONE",
    payment <- IF b \in DOMAIN bookings THEN bookings[b].payment ELSE "OPEN",
    checkout <- IF b \in DOMAIN bookings THEN bookings[b].checkout ELSE "NONE"

\* Whatever requests, events and requests of staff are interleaved over the inventory, every
\* booking's payment takes only steps of its contract.
BookingsKeepPaymentContract ==
    [][\A b \in BookingKeys : PaymentOf(b)!Next \/ UNCHANGED PaymentOf(b)!vars]_vars

\* A hold that has expired by the clock is consumed: the confirmation captured its time
\* before the expiry and commits after it.
LateConfirmation ==
    \E k \in DOMAIN holds :
        /\ holds[k].status = "ACTIVE" /\ holds[k].expiresAt <= clock
        /\ holds'[k].status = "CONSUMED"

RoomArchived(rt) == \E r \in Rooms : RoomTypeOf[r] = rt /\ rooms[r] = "ACTIVE" /\ rooms'[r] = "ARCHIVED"

Fitting(rt, n) == Fits(rt, n, Protected(rt, n, clock))

\* No step adds held or allocated units to a night beyond its rooms and windows, except a
\* late confirmation.
GrowthFitsUnlessLate ==
    [][\A rt \in RoomTypes, n \in Days :
          (Protected(rt, n, clock))' > Protected(rt, n, clock) =>
              Fitting(rt, n)' \/ LateConfirmation]_vars

\* A night within capacity becomes overbooked in two ways only: a late confirmation, or the
\* archival of a room whose type has allocations.
OverbookingHasTwoCauses ==
    [][\A rt \in RoomTypes, n \in Days :
          Fitting(rt, n) /\ ~Fitting(rt, n)' => LateConfirmation \/ RoomArchived(rt)]_vars

----------------------------------------------------------------------------
\* What the documentation says and the code does not keep.

\* docs/availability.md: "The core internal hospitality policy is **no overbooking**".
\* No step adds protected units to a night beyond its capacity.
GrowthFits ==
    [][\A rt \in RoomTypes, n \in Days :
          (Protected(rt, n, clock))' > Protected(rt, n, clock) => Fitting(rt, n)']_vars

=============================================================================
