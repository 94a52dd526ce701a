---------------------------- MODULE RentalUnits ----------------------------
(* Physical rental units: holds, bookings, unavailable dates, custody, return *)
(* inspection, damage cases, maintenance and archival.                        *)
(*                                                                            *)
(* Writers of one unit take the advisory lock sf:rental-unit and run one       *)
(* after the other. All but the two hold services are Serializable: they       *)
(* take their snapshot BEFORE they wait for the lock. Rows written by other    *)
(* Serializable transactions since then make them fail and retry, so they      *)
(* read those as they are; a hold, created at READ COMMITTED, is simply        *)
(* invisible to them. rentalSnapshot is the set of holds visible to the one    *)
(* request that waits (bound: one such request at a time).                     *)
(* Prices, customers, tenancy, bonds and commercial amendments are refusals    *)
(* the model takes as passed.                                                  *)
EXTENDS Integers, FiniteSets

CONSTANTS
    Rentals,        \* holds and the bookings made from them
    RentalUnitIds,  \* units of one type at one location
    RentalBlockIds, \* rows of unavailable dates
    LastRentalDay,  \* bound: days run from 0 to LastRentalDay
    NoRentalRow,    \* a row not yet inserted, deleted, ended or cancelled
    NoSnapshot      \* no request waits

ASSUME RentalDaysAssumption == LastRentalDay \in Nat \ {0}
ASSUME RentalRowsAssumption == NoRentalRow \notin Rentals

VARIABLES rentals, rentalUnits, rentalBlocks, rentalDay, rentalSnapshot
rentalVars == <<rentals, rentalUnits, rentalBlocks, rentalDay, rentalSnapshot>>

-----------------------------------------------------------------------------
(* Rows *)

RentalPeriods == {p \in [from : 0..LastRentalDay, to : 0..LastRentalDay] : p.from < p.to}

RentalStatus == {"HELD", "CONFIRMED"}
CustodyState == {"AWAITING_PICKUP", "PICKED_UP", "RETURNED"}
InspectionOutcome == {"PENDING", "CLEAR", "NON_CLEAR"}
DamageStatus == {"NONE", "OPEN", "ASSESSED", "WAIVED", "CLOSED"}

(* period is the committed one; until is the end of the allocation, which an   *)
(* early return shortens; returnedOn is the local day of the RETURNED event.   *)
RentalRows ==
    [status : RentalStatus, unit : RentalUnitIds, period : RentalPeriods,
     until : 0..LastRentalDay, custody : CustodyState, returnedOn : 0..LastRentalDay,
     inspection : InspectionOutcome, damage : DamageStatus]

UnitRows ==
    [archived : BOOLEAN, service : {"AVAILABLE", "OUT_OF_SERVICE"},
     work : {"NONE", "OPEN"}]

BlockRows == [unit : RentalUnitIds, period : RentalPeriods]

RentalsTypeOK ==
    /\ rentals \in [Rentals -> RentalRows \cup {NoRentalRow}]
    /\ \A r \in Rentals : rentals[r] # NoRentalRow =>
           rentals[r].period.from < rentals[r].until /\ rentals[r].until <= rentals[r].period.to
    /\ rentalUnits \in [RentalUnitIds -> UnitRows]
    /\ rentalBlocks \in [RentalBlockIds -> BlockRows \cup {NoRentalRow}]
    /\ rentalDay \in 0..LastRentalDay
    /\ rentalSnapshot \in (SUBSET Rentals) \cup {NoSnapshot}

PeriodsOverlap(p, q) == p.from < q.to /\ q.from < p.to

Has(r, status) == rentals[r] # NoRentalRow /\ rentals[r].status = status
HeldRentals == {r \in Rentals : Has(r, "HELD")}
BookedRentals == {r \in Rentals : Has(r, "CONFIRMED")}
Blocked == {k \in RentalBlockIds : rentalBlocks[k] # NoRentalRow}

(* The dates a row takes from its unit: a hold's, or a booking's allocation. *)
Taken(r) == [from |-> rentals[r].period.from, to |-> rentals[r].until]

(* Readers at READ COMMITTED see every live hold, the others their snapshot. *)
SeenHolds == {r \in HeldRentals : rentalSnapshot # NoSnapshot /\ r \in rentalSnapshot}

UnitTaken(u, p, holds, own) ==
    \/ \E k \in Blocked : rentalBlocks[k].unit = u /\ PeriodsOverlap(rentalBlocks[k].period, p)
    \/ \E r \in (holds \cup BookedRentals) \ {own} :
           rentals[r].unit = u /\ PeriodsOverlap(Taken(r), p)

-----------------------------------------------------------------------------
(* Custody and condition *)

InCustody(r) == r \in BookedRentals /\ rentals[r].custody = "PICKED_UP"
CustodyOverdue(r) == InCustody(r) /\ rentalDay >= rentals[r].period.to
UnitOverdue(u, own) == \E r \in Rentals \ {own} : CustodyOverdue(r) /\ rentals[r].unit = u

ReturnsOf(u) ==
    {r \in BookedRentals : rentals[r].unit = u /\ rentals[r].custody = "RETURNED"}
ReturnsInspected(u) == \A r \in ReturnsOf(u) : rentals[r].inspection # "PENDING"
DamageResolved(u) ==
    \A r \in ReturnsOf(u) :
        rentals[r].inspection = "NON_CLEAR" => rentals[r].damage \in {"WAIVED", "CLOSED"}

UnitReady(u) ==
    /\ rentalUnits[u].service = "AVAILABLE"
    /\ ReturnsInspected(u)
    /\ DamageResolved(u)

(* A unit takes dates that no block, no other booking and no hold the request   *)
(* sees has, if its condition and custody permit.                              *)
UnitAccepts(u, p, holds, own) ==
    /\ ~rentalUnits[u].archived
    /\ UnitReady(u)
    /\ ~UnitTaken(u, p, holds, own)
    /\ ~UnitOverdue(u, own)

Writes(r, row) == rentals' = [rentals EXCEPT ![r] = row]
Quarantine(u) == rentalUnits' = [rentalUnits EXCEPT ![u].service = "OUT_OF_SERVICE"]
SnapshotUsed == rentalSnapshot # NoSnapshot /\ rentalSnapshot' = NoSnapshot

-----------------------------------------------------------------------------
(* Serializable requests wait for the unit lock *)

TakeSnapshot ==
    /\ rentalSnapshot = NoSnapshot
    /\ rentalSnapshot' = HeldRentals
    /\ UNCHANGED <<rentals, rentalUnits, rentalBlocks, rentalDay>>

RollBack ==
    /\ SnapshotUsed
    /\ UNCHANGED <<rentals, rentalUnits, rentalBlocks, rentalDay>>

-----------------------------------------------------------------------------
(* Holds and bookings *)

CreateRentalHold(r, u, p) ==
    /\ rentals[r] = NoRentalRow
    /\ UnitAccepts(u, p, HeldRentals, r)
    /\ Writes(r, [status |-> "HELD", unit |-> u, period |-> p, until |-> p.to,
                  custody |-> "AWAITING_PICKUP", returnedOn |-> 0,
                  inspection |-> "PENDING", damage |-> "NONE"])
    /\ UNCHANGED <<rentalUnits, rentalBlocks, rentalDay, rentalSnapshot>>

(* Released by staff or past its expiresAt: a row that counts nowhere, whose    *)
(* name another hold may take (one the waiting request does not see).          *)
EndRentalHold(r) ==
    /\ Has(r, "HELD")
    /\ Writes(r, NoRentalRow)
    /\ rentalSnapshot' = IF rentalSnapshot = NoSnapshot THEN NoSnapshot ELSE rentalSnapshot \ {r}
    /\ UNCHANGED <<rentalUnits, rentalBlocks, rentalDay>>

(* The hold is live, seen by the request, and its unit still takes its dates. *)
Convertible(r) ==
    /\ Has(r, "HELD")
    /\ r \in SeenHolds
    /\ UnitAccepts(rentals[r].unit, rentals[r].period, SeenHolds, r)

ConfirmRental(r) ==
    /\ SnapshotUsed
    /\ Convertible(r)
    /\ Writes(r, [rentals[r] EXCEPT !.status = "CONFIRMED"])
    /\ UNCHANGED <<rentalUnits, rentalBlocks, rentalDay>>

CancelRental(r) ==
    /\ Has(r, "CONFIRMED")
    /\ rentals[r].custody = "AWAITING_PICKUP"
    /\ Writes(r, NoRentalRow)
    /\ UNCHANGED <<rentalUnits, rentalBlocks, rentalDay, rentalSnapshot>>

IsExtension(p, q) == q.from = p.from /\ q.to > p.to

(* A move before pickup, an extension after it, never of a returned rental. *)
MayMoveTo(r, p) ==
    /\ Has(r, "CONFIRMED")
    /\ rentals[r].custody # "RETURNED"
    /\ rentals[r].custody = "PICKED_UP" => IsExtension(rentals[r].period, p)
    /\ p # rentals[r].period

(* The readiness of the unit is checked by a trigger. *)
RescheduleRental(r, p) ==
    /\ SnapshotUsed
    /\ MayMoveTo(r, p)
    /\ UnitAccepts(rentals[r].unit, p, SeenHolds, r)
    /\ Writes(r, [rentals[r] EXCEPT !.period = p, !.until = p.to])
    /\ UNCHANGED <<rentalUnits, rentalBlocks, rentalDay>>

(* Before pickup and until the pickup window closes. *)
MaySubstitute(r, u) ==
    /\ Has(r, "CONFIRMED")
    /\ rentals[r].custody = "AWAITING_PICKUP"
    /\ rentalDay < rentals[r].period.to
    /\ u # rentals[r].unit
    /\ ~rentalUnits[rentals[r].unit].archived

(* Readiness and custody of the target are checked by triggers. *)
SubstituteUnit(r, u) ==
    /\ SnapshotUsed
    /\ MaySubstitute(r, u)
    /\ UnitAccepts(u, rentals[r].period, SeenHolds, r)
    /\ Writes(r, [rentals[r] EXCEPT !.unit = u])
    /\ UNCHANGED <<rentalUnits, rentalBlocks, rentalDay>>

-----------------------------------------------------------------------------
(* Custody *)

(* Within the committed period, at a ready unit. *)
PickupIsOpen(r) ==
    LET row == rentals[r] IN
    /\ Has(r, "CONFIRMED")
    /\ row.custody = "AWAITING_PICKUP"
    /\ ~rentalUnits[row.unit].archived
    /\ UnitReady(row.unit)
    /\ row.period.from <= rentalDay /\ rentalDay < row.period.to

PickUpRental(r) ==
    /\ PickupIsOpen(r)
    /\ Writes(r, [rentals[r] EXCEPT !.custody = "PICKED_UP"])
    /\ UNCHANGED <<rentalUnits, rentalBlocks, rentalDay, rentalSnapshot>>

(* A repeated return quarantines again unless inspected: never needed here. *)
ReturnRental(r) ==
    /\ InCustody(r)
    /\ ~rentalUnits[rentals[r].unit].archived
    /\ Quarantine(rentals[r].unit)
    /\ Writes(r, [rentals[r] EXCEPT !.custody = "RETURNED", !.returnedOn = rentalDay])
    /\ UNCHANGED <<rentalBlocks, rentalDay, rentalSnapshot>>

(* Mutant: the day of the return is freed too. *)
ReleaseReturnDay(r) ==
    LET row == rentals[r] IN
    /\ Has(r, "CONFIRMED")
    /\ row.custody = "RETURNED"
    /\ row.until = row.period.to
    /\ row.returnedOn < row.period.to
    /\ ~rentalUnits[row.unit].archived
    /\ Writes(r, [row EXCEPT !.until = row.returnedOn])
    /\ UNCHANGED <<rentalUnits, rentalBlocks, rentalDay, rentalSnapshot>>

(* Returned, not released before, with whole days left. *)
ReturnedEarly(r) ==
    LET row == rentals[r] IN
    /\ Has(r, "CONFIRMED")
    /\ row.custody = "RETURNED"
    /\ row.until = row.period.to
    /\ row.returnedOn + 1 < row.period.to
    /\ ~rentalUnits[row.unit].archived

(* Frees the whole days after the return, at least one day being kept. *)
ReleaseEarlyReturn(r) ==
    /\ ReturnedEarly(r)
    /\ Writes(r, [rentals[r] EXCEPT !.until = rentals[r].returnedOn + 1])
    /\ UNCHANGED <<rentalUnits, rentalBlocks, rentalDay, rentalSnapshot>>

RecordInspection(r, outcome) ==
    LET u == rentals[r].unit IN
    /\ Has(r, "CONFIRMED")
    /\ rentals[r].custody = "RETURNED"
    /\ rentals[r].inspection = "PENDING"
    /\ ~rentalUnits[u].archived
    /\ IF outcome = "CLEAR" THEN UNCHANGED rentalUnits ELSE Quarantine(u)
    /\ Writes(r, [rentals[r] EXCEPT !.inspection = outcome])
    /\ UNCHANGED <<rentalBlocks, rentalDay, rentalSnapshot>>

OpenDamageCase(r) ==
    /\ Has(r, "CONFIRMED")
    /\ rentals[r].inspection = "NON_CLEAR"
    /\ rentals[r].damage = "NONE"
    /\ ~rentalUnits[rentals[r].unit].archived
    /\ Quarantine(rentals[r].unit)
    /\ Writes(r, [rentals[r] EXCEPT !.damage = "OPEN"])
    /\ UNCHANGED <<rentalBlocks, rentalDay, rentalSnapshot>>

DamageTransition(from, to) ==
    \/ from = "OPEN" /\ to \in {"ASSESSED", "WAIVED"}
    \/ from = "ASSESSED" /\ to \in {"WAIVED", "CLOSED"}

MoveDamageCase(r, status) ==
    /\ rentals[r] # NoRentalRow
    /\ DamageTransition(rentals[r].damage, status)
    /\ Writes(r, [rentals[r] EXCEPT !.damage = status])
    /\ UNCHANGED <<rentalUnits, rentalBlocks, rentalDay, rentalSnapshot>>

AssessDamageCase(r) == MoveDamageCase(r, "ASSESSED")
WaiveDamageCase(r) == MoveDamageCase(r, "WAIVED")
CloseDamageCase(r) == MoveDamageCase(r, "CLOSED")

-----------------------------------------------------------------------------
(* Units *)

(* Bound: one open work order per unit at a time. *)
OpenWorkOrder(u) ==
    /\ ~rentalUnits[u].archived
    /\ rentalUnits[u].work = "NONE"
    /\ rentalUnits' = [rentalUnits EXCEPT ![u].work = "OPEN", ![u].service = "OUT_OF_SERVICE"]
    /\ UNCHANGED <<rentals, rentalBlocks, rentalDay, rentalSnapshot>>

(* Completed or cancelled; an order in progress counts as one that is open. *)
CloseWorkOrder(u) ==
    /\ rentalUnits[u].work = "OPEN"
    /\ rentalUnits' = [rentalUnits EXCEPT ![u].work = "NONE"]
    /\ UNCHANGED <<rentals, rentalBlocks, rentalDay, rentalSnapshot>>

(* Mutant: an assessed case no longer counts as active. *)
UnassessedDamageCase(u) == \E r \in ReturnsOf(u) : rentals[r].damage = "OPEN"

ActiveDamageCase(u) ==
    \E r \in ReturnsOf(u) : rentals[r].damage \in {"OPEN", "ASSESSED"}
UnreportedDamage(u) ==
    \E r \in ReturnsOf(u) : rentals[r].inspection = "NON_CLEAR" /\ rentals[r].damage = "NONE"

ReturnToService(u) ==
    /\ ~rentalUnits[u].archived
    /\ rentalUnits[u].service = "OUT_OF_SERVICE"
    /\ ReturnsInspected(u)
    /\ ~UnreportedDamage(u)
    /\ rentalUnits[u].work = "NONE"
    /\ ~ActiveDamageCase(u)
    /\ rentalUnits' = [rentalUnits EXCEPT ![u].service = "AVAILABLE"]
    /\ UNCHANGED <<rentals, rentalBlocks, rentalDay, rentalSnapshot>>

TakeOutOfService(u) ==
    /\ ~rentalUnits[u].archived
    /\ rentalUnits[u].service = "AVAILABLE"
    /\ Quarantine(u)
    /\ UNCHANGED <<rentals, rentalBlocks, rentalDay, rentalSnapshot>>

ArchiveUnit(u) ==
    /\ SnapshotUsed
    /\ ~rentalUnits[u].archived
    /\ \A r \in SeenHolds : rentals[r].unit # u
    /\ \A r \in BookedRentals : rentals[r].unit = u => rentals[r].until <= rentalDay
    /\ ~UnitOverdue(u, NoRentalRow)
    /\ ReturnsInspected(u)
    /\ rentalUnits[u].work = "NONE"
    /\ DamageResolved(u)
    /\ rentalUnits' = [rentalUnits EXCEPT ![u].archived = TRUE]
    /\ UNCHANGED <<rentals, rentalBlocks, rentalDay>>

(* Mutant: a block that looks at holds only. *)
CreateBlockOverBookings(k, u, p) ==
    /\ SnapshotUsed
    /\ rentalBlocks[k] = NoRentalRow
    /\ ~rentalUnits[u].archived
    /\ \A r \in SeenHolds : rentals[r].unit = u => ~PeriodsOverlap(Taken(r), p)
    /\ rentalBlocks' = [rentalBlocks EXCEPT ![k] = [unit |-> u, period |-> p]]
    /\ UNCHANGED <<rentals, rentalUnits, rentalDay>>

CreateBlock(k, u, p) ==
    /\ SnapshotUsed
    /\ rentalBlocks[k] = NoRentalRow
    /\ ~rentalUnits[u].archived
    /\ ~UnitTaken(u, p, SeenHolds, NoRentalRow)
    /\ rentalBlocks' = [rentalBlocks EXCEPT ![k] = [unit |-> u, period |-> p]]
    /\ UNCHANGED <<rentals, rentalUnits, rentalDay>>

RemoveBlock(k) ==
    /\ rentalBlocks[k] # NoRentalRow
    /\ rentalBlocks' = [rentalBlocks EXCEPT ![k] = NoRentalRow]
    /\ UNCHANGED <<rentals, rentalUnits, rentalDay, rentalSnapshot>>

NextRentalDay ==
    /\ rentalDay < LastRentalDay
    /\ rentalDay' = rentalDay + 1
    /\ UNCHANGED <<rentals, rentalUnits, rentalBlocks, rentalSnapshot>>

-----------------------------------------------------------------------------
RentalsInit ==
    /\ rentals = [r \in Rentals |-> NoRentalRow]
    /\ rentalUnits = [u \in RentalUnitIds |->
                         [archived |-> FALSE, service |-> "AVAILABLE", work |-> "NONE"]]
    /\ rentalBlocks = [k \in RentalBlockIds |-> NoRentalRow]
    /\ rentalDay = 0
    /\ rentalSnapshot = NoSnapshot

RentalStep(r) ==
    \/ \E u \in RentalUnitIds, p \in RentalPeriods : CreateRentalHold(r, u, p)
    \/ EndRentalHold(r)
    \/ ConfirmRental(r)
    \/ CancelRental(r)
    \/ \E p \in RentalPeriods : RescheduleRental(r, p)
    \/ \E u \in RentalUnitIds : SubstituteUnit(r, u)
    \/ PickUpRental(r)
    \/ ReturnRental(r)
    \/ ReleaseEarlyReturn(r)
    \/ \E outcome \in {"CLEAR", "NON_CLEAR"} : RecordInspection(r, outcome)
    \/ OpenDamageCase(r)
    \/ AssessDamageCase(r)
    \/ WaiveDamageCase(r)
    \/ CloseDamageCase(r)

UnitStep(u) ==
    \/ OpenWorkOrder(u)
    \/ CloseWorkOrder(u)
    \/ ReturnToService(u)
    \/ TakeOutOfService(u)
    \/ ArchiveUnit(u)
    \/ \E k \in RentalBlockIds, p \in RentalPeriods : CreateBlock(k, u, p)

RentalsNext ==
    \/ TakeSnapshot
    \/ RollBack
    \/ \E r \in Rentals : RentalStep(r)
    \/ \E u \in RentalUnitIds : UnitStep(u)
    \/ \E k \in RentalBlockIds : RemoveBlock(k)
    \/ NextRentalDay

RentalsSpec == RentalsInit /\ [][RentalsNext]_rentalVars

-----------------------------------------------------------------------------
(* Properties *)

(* Accepted stays never collide: the allocations of two confirmed bookings of  *)
(* one unit share no day, and none of them shares a day with a block, through  *)
(* reschedules, substitutions, early releases and holds that two Serializable  *)
(* requests did not see.                                                       *)
AcceptedStaysAreDisjoint ==
    \A r \in BookedRentals :
        ~UnitTaken(rentals[r].unit, Taken(r), {}, r)

(* A unit is in two customers' hands only because one of them is overdue: of   *)
(* the open custodies of a unit at most one is within its committed dates, and *)
(* a unit in custody is never archived, whatever extensions, releases and      *)
(* substitutions happened in between (pickup itself does not look at other     *)
(* bookings' custody).                                                         *)
SecondCustodyIsOverdue ==
    \A r \in Rentals : InCustody(r) =>
        /\ ~rentalUnits[rentals[r].unit].archived
        /\ \A s \in Rentals \ {r} :
               InCustody(s) /\ rentals[s].unit = rentals[r].unit =>
                   CustodyOverdue(r) \/ CustodyOverdue(s)

(* A unit is promised to one customer and in the hands of one, up to overdue   *)
(* custody.                                                                    *)
UnitsAreNotShared == AcceptedStaysAreDisjoint /\ SecondCustodyIsOverdue

(* A unit offered as AVAILABLE has every return inspected, every reported      *)
(* damage waived or closed and no open work order: six services write these    *)
(* rows, and the readiness check of holds, bookings and pickups does not look  *)
(* at work orders at all.                                                      *)
AvailableUnitsAreClear ==
    \A u \in RentalUnitIds : rentalUnits[u].service = "AVAILABLE" =>
        UnitReady(u) /\ rentalUnits[u].work = "NONE"

(* A live hold keeps its unit: no booking, block or archival takes its dates   *)
(* (docs/rental-availability-block-booking-authority.md:20). Violated: a       *)
(* Serializable request that waited for the unit lock does not see a hold      *)
(* created meanwhile.                                                          *)
HoldsKeepTheirUnit ==
    \A r \in HeldRentals :
        ~UnitTaken(rentals[r].unit, Taken(r), HeldRentals, r)

=============================================================================
