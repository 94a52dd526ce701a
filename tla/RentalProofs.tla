------------------------- MODULE RentalProofs -------------------------
(***************************************************************************)
(* Theorems about RentalUnits, for every set of rentals, units and blocks  *)
(* and every number of days: the rows keep their columns, units are not    *)
(* shared, a unit offered as available is clear, and only a stale snapshot *)
(* takes dates from a hold.  Theorems about RentalLedger, for every price, *)
(* difference, bond and liability: a liability is met once, and the price  *)
(* stays within the accepted terms.                                        *)
(***************************************************************************)
EXTENDS RentalUnits, RentalLedger, SumProofs

\* How the columns of a live row go together. An allocation is cut short only after the
\* return, and a rental is picked up, hence returned, on or after its first day.
RowFollows(r) ==
    rentals[r] # NoRentalRow =>
        /\ rentals[r].status = "HELD" => rentals[r].custody = "AWAITING_PICKUP"
        /\ rentals[r].custody # "RETURNED" => rentals[r].until = rentals[r].period.to
        /\ rentals[r].custody = "PICKED_UP" => rentals[r].period.from <= rentalDay
        /\ rentals[r].custody = "RETURNED" => rentals[r].period.from <= rentals[r].returnedOn

RowsFollow == \A r \in Rentals : RowFollows(r)

RowsInv == RentalsTypeOK /\ RowsFollow

----------------------------------------------------------------------------
\* Rows.

LEMMA PeriodType ==
    \A p \in RentalPeriods : p.from \in Nat /\ p.to \in Nat /\ p.from < p.to
                             /\ p.to \in 0..LastRentalDay
BY RentalDaysAssumption DEF RentalPeriods

LEMMA RowType ==
    ASSUME RentalsTypeOK, NEW r \in Rentals, rentals[r] # NoRentalRow
    PROVE  /\ rentals[r] \in RentalRows
           /\ rentals[r].period.from < rentals[r].until /\ rentals[r].until <= rentals[r].period.to
           /\ rentals[r].period \in RentalPeriods
           /\ rentals[r].until \in Nat /\ rentals[r].returnedOn \in Nat
           /\ rentals[r].unit \in RentalUnitIds
BY RentalDaysAssumption DEF RentalsTypeOK, RentalRows

LEMMA DayType ==
    ASSUME RentalsTypeOK
    PROVE  rentalDay \in Nat /\ LastRentalDay \in Nat
BY RentalDaysAssumption DEF RentalsTypeOK

OnlyRow(r) == rentals' = [rentals EXCEPT ![r] = rentals'[r]]

LEMMA WriteRow ==
    ASSUME RentalsTypeOK, NEW r \in Rentals, NEW row, Writes(r, row)
    PROVE  rentals'[r] = row /\ OnlyRow(r)
BY DEF RentalsTypeOK, Writes, OnlyRow

LEMMA OtherRows ==
    ASSUME RentalsTypeOK, NEW r \in Rentals, OnlyRow(r)
    PROVE  \A s \in Rentals : s # r => rentals'[s] = rentals[s]
BY DEF RentalsTypeOK, OnlyRow

\* What each step of a rental writes: a new row, no row, or some columns of the row.
IsHeld(r, u, p) ==
    /\ rentals[r] = NoRentalRow
    /\ rentals'[r] = [status |-> "HELD", unit |-> u, period |-> p, until |-> p.to,
                      custody |-> "AWAITING_PICKUP", returnedOn |-> 0,
                      inspection |-> "PENDING", damage |-> "NONE"]
IsDropped(r) ==
    /\ Has(r, "HELD") \/ (Has(r, "CONFIRMED") /\ rentals[r].custody = "AWAITING_PICKUP")
    /\ rentals'[r] = NoRentalRow
IsConfirmed(r) == Convertible(r) /\ rentals'[r] = [rentals[r] EXCEPT !.status = "CONFIRMED"]
IsMoved(r, p) ==
    /\ rentalSnapshot # NoSnapshot
    /\ MayMoveTo(r, p) /\ UnitAccepts(rentals[r].unit, p, SeenHolds, r)
    /\ rentals'[r] = [rentals[r] EXCEPT !.period = p, !.until = p.to]
IsSubstituted(r, u) ==
    /\ rentalSnapshot # NoSnapshot
    /\ MaySubstitute(r, u) /\ UnitAccepts(u, rentals[r].period, SeenHolds, r)
    /\ rentals'[r] = [rentals[r] EXCEPT !.unit = u]
IsPickedUp(r) == PickupIsOpen(r) /\ rentals'[r] = [rentals[r] EXCEPT !.custody = "PICKED_UP"]
IsReturned(r) ==
    InCustody(r) /\ rentals'[r] = [rentals[r] EXCEPT !.custody = "RETURNED", !.returnedOn = rentalDay]
IsCutShort(r) == ReturnedEarly(r) /\ rentals'[r] = [rentals[r] EXCEPT !.until = rentals[r].returnedOn + 1]
IsInspected(r, outcome) ==
    /\ Has(r, "CONFIRMED") /\ rentals[r].custody = "RETURNED"
    /\ rentals'[r] = [rentals[r] EXCEPT !.inspection = outcome]
IsAssessed(r, status) == rentals[r] # NoRentalRow /\ rentals'[r] = [rentals[r] EXCEPT !.damage = status]

RowMoves(r) ==
    \/ \E u \in RentalUnitIds, p \in RentalPeriods : IsHeld(r, u, p)
    \/ IsDropped(r)
    \/ IsConfirmed(r)
    \/ \E p \in RentalPeriods : IsMoved(r, p)
    \/ \E u \in RentalUnitIds : IsSubstituted(r, u)
    \/ IsPickedUp(r)
    \/ IsReturned(r)
    \/ IsCutShort(r)
    \/ \E outcome \in {"CLEAR", "NON_CLEAR"} : IsInspected(r, outcome)
    \/ \E status \in {"OPEN", "ASSESSED", "WAIVED", "CLOSED"} : IsAssessed(r, status)

LEMMA RentalRowStep ==
    ASSUME RentalsTypeOK, NEW r \in Rentals, RentalStep(r)
    PROVE  /\ RowMoves(r)
           /\ OnlyRow(r)
           /\ UNCHANGED <<rentalBlocks, rentalDay>>
<1>1. ASSUME NEW u \in RentalUnitIds, NEW p \in RentalPeriods, CreateRentalHold(r, u, p)
      PROVE  /\ RowMoves(r)
             /\ OnlyRow(r)
             /\ UNCHANGED <<rentalBlocks, rentalDay>>
  BY <1>1, WriteRow DEF CreateRentalHold, RowMoves, IsHeld
<1>2. CASE EndRentalHold(r) \/ CancelRental(r)
  BY <1>2, WriteRow DEF EndRentalHold, CancelRental, RowMoves, IsDropped
<1>3. CASE ConfirmRental(r)
  BY <1>3, WriteRow DEF ConfirmRental, RowMoves, IsConfirmed
<1>4. ASSUME NEW p \in RentalPeriods, RescheduleRental(r, p)
      PROVE  /\ RowMoves(r)
             /\ OnlyRow(r)
             /\ UNCHANGED <<rentalBlocks, rentalDay>>
  BY <1>4, WriteRow DEF RescheduleRental, SnapshotUsed, RowMoves, IsMoved
<1>5. ASSUME NEW u \in RentalUnitIds, SubstituteUnit(r, u)
      PROVE  /\ RowMoves(r)
             /\ OnlyRow(r)
             /\ UNCHANGED <<rentalBlocks, rentalDay>>
  BY <1>5, WriteRow DEF SubstituteUnit, SnapshotUsed, RowMoves, IsSubstituted
<1>6. CASE PickUpRental(r)
  BY <1>6, WriteRow DEF PickUpRental, RowMoves, IsPickedUp
<1>7. CASE ReturnRental(r)
  BY <1>7, WriteRow DEF ReturnRental, RowMoves, IsReturned
<1>8. CASE ReleaseEarlyReturn(r)
  BY <1>8, WriteRow DEF ReleaseEarlyReturn, RowMoves, IsCutShort
<1>9. ASSUME NEW outcome \in {"CLEAR", "NON_CLEAR"}, RecordInspection(r, outcome)
      PROVE  /\ RowMoves(r)
             /\ OnlyRow(r)
             /\ UNCHANGED <<rentalBlocks, rentalDay>>
  BY <1>9, WriteRow DEF RecordInspection, RowMoves, IsInspected
<1>10. CASE OpenDamageCase(r)
  BY <1>10, WriteRow DEF OpenDamageCase, RowMoves, IsAssessed, Has
<1>11. CASE AssessDamageCase(r) \/ WaiveDamageCase(r) \/ CloseDamageCase(r)
  BY <1>11, WriteRow DEF AssessDamageCase, WaiveDamageCase, CloseDamageCase, MoveDamageCase, RowMoves, IsAssessed
<1>. QED BY <1>1, <1>2, <1>3, <1>4, <1>5, <1>6, <1>7, <1>8, <1>9, <1>10, <1>11 DEF RentalStep

\* The row a step leaves behind is a row, and its columns go together.
GoodRow(row) ==
    row = NoRentalRow \/
        /\ row \in RentalRows
        /\ row.period.from < row.until /\ row.until <= row.period.to
        /\ row.status = "HELD" => row.custody = "AWAITING_PICKUP"
        /\ row.custody # "RETURNED" => row.until = row.period.to
        /\ row.custody = "PICKED_UP" => row.period.from <= rentalDay
        /\ row.custody = "RETURNED" => row.period.from <= row.returnedOn

LEMMA GoodRows == RowsInv => \A r \in Rentals : GoodRow(rentals[r])
BY DEF RowsInv, RentalsTypeOK, RowsFollow, RowFollows, GoodRow

LEMMA RowStepIsGood ==
    ASSUME RowsInv, NEW r \in Rentals, RowMoves(r)
    PROVE  GoodRow(rentals'[r])
<1>. DEFINE a == rentals[r]
            b == rentals'[r]
<1>1. a # NoRentalRow =>
        /\ a \in RentalRows /\ a.period \in RentalPeriods
        /\ a.period.from < a.until /\ a.until <= a.period.to
        /\ a.status = "HELD" => a.custody = "AWAITING_PICKUP"
        /\ a.custody # "RETURNED" => a.until = a.period.to
        /\ a.custody = "PICKED_UP" => a.period.from <= rentalDay
        /\ a.custody = "RETURNED" => a.period.from <= a.returnedOn
        /\ a.period.from \in Nat /\ a.period.to \in 0..LastRentalDay
        /\ a.until \in Nat /\ a.returnedOn \in Nat
  BY RowType, PeriodType DEF RowsInv, RowsFollow, RowFollows
<1>2. rentalDay \in 0..LastRentalDay /\ LastRentalDay \in Nat /\ rentalDay \in Nat
  BY DayType DEF RowsInv, RentalsTypeOK
<1>3. ASSUME NEW u \in RentalUnitIds, NEW p \in RentalPeriods, IsHeld(r, u, p)
      PROVE  GoodRow(b)
  BY <1>2, <1>3, PeriodType DEF IsHeld, GoodRow, RentalRows, RentalStatus, CustodyState, InspectionOutcome, DamageStatus
<1>4. CASE IsDropped(r)
  BY <1>4 DEF IsDropped, GoodRow
<1>5. CASE IsConfirmed(r)
  <2>1. a # NoRentalRow
    BY <1>5 DEF IsConfirmed, Convertible, Has
  <2>2. /\ b \in RentalRows /\ b.period = a.period /\ b.until = a.until /\ b.custody = a.custody
        /\ b.status = "CONFIRMED" /\ b.returnedOn = a.returnedOn
    BY <1>1, <1>5, <2>1 DEF IsConfirmed, RentalRows, RentalStatus
  <2>. QED BY <1>1, <2>1, <2>2 DEF GoodRow
<1>6. ASSUME NEW p \in RentalPeriods, IsMoved(r, p)
      PROVE  GoodRow(b)
  <2>1. /\ a # NoRentalRow /\ a.status = "CONFIRMED" /\ a.custody # "RETURNED"
        /\ a.custody = "PICKED_UP" => p.from = a.period.from
    BY <1>6 DEF IsMoved, MayMoveTo, IsExtension, Has
  <2>2. p.to \in 0..LastRentalDay /\ p.from < p.to /\ p.to \in Nat
    BY PeriodType
  <2>3. b \in RentalRows /\ b.period = p /\ b.until = p.to /\ b.custody = a.custody /\ b.status = "CONFIRMED"
    BY <1>1, <1>6, <2>1, <2>2 DEF IsMoved, RentalRows
  <2>. QED BY <1>1, <2>1, <2>2, <2>3 DEF GoodRow
<1>7. ASSUME NEW u \in RentalUnitIds, IsSubstituted(r, u)
      PROVE  GoodRow(b)
  <2>1. a # NoRentalRow
    BY <1>7 DEF IsSubstituted, MaySubstitute, Has
  <2>2. /\ b \in RentalRows /\ b.period = a.period /\ b.until = a.until /\ b.custody = a.custody
        /\ b.status = a.status /\ b.returnedOn = a.returnedOn
    BY <1>1, <1>7, <2>1 DEF IsSubstituted, RentalRows
  <2>. QED BY <1>1, <2>1, <2>2 DEF GoodRow
<1>8. CASE IsPickedUp(r)
  <2>1. a # NoRentalRow /\ a.status = "CONFIRMED" /\ a.custody = "AWAITING_PICKUP" /\ a.period.from <= rentalDay
    BY <1>8 DEF IsPickedUp, PickupIsOpen, Has
  <2>2. /\ b \in RentalRows /\ b.period = a.period /\ b.until = a.until /\ b.custody = "PICKED_UP"
        /\ b.status = "CONFIRMED"
    BY <1>1, <1>8, <2>1 DEF IsPickedUp, RentalRows, CustodyState
  <2>. QED BY <1>1, <2>1, <2>2 DEF GoodRow
<1>9. CASE IsReturned(r)
  <2>1. a # NoRentalRow /\ a.status = "CONFIRMED" /\ a.custody = "PICKED_UP"
    BY <1>9 DEF IsReturned, InCustody, BookedRentals, Has
  <2>2. /\ b \in RentalRows /\ b.period = a.period /\ b.until = a.until /\ b.custody = "RETURNED"
        /\ b.status = "CONFIRMED" /\ b.returnedOn = rentalDay
    BY <1>1, <1>2, <1>9, <2>1 DEF IsReturned, RentalRows, CustodyState
  <2>. QED BY <1>1, <2>1, <2>2 DEF GoodRow
<1>10. CASE IsCutShort(r)
  <2>1. a # NoRentalRow /\ a.status = "CONFIRMED" /\ a.custody = "RETURNED" /\ a.returnedOn + 1 < a.period.to
    BY <1>10 DEF IsCutShort, ReturnedEarly, Has
  <2>2. a.returnedOn + 1 \in 0..LastRentalDay /\ a.period.from < a.returnedOn + 1
    BY <1>1, <1>2, <2>1
  <2>3. /\ b \in RentalRows /\ b.period = a.period /\ b.until = a.returnedOn + 1 /\ b.custody = "RETURNED"
        /\ b.status = "CONFIRMED" /\ b.returnedOn = a.returnedOn
    BY <1>1, <1>10, <2>1, <2>2 DEF IsCutShort, RentalRows
  <2>. QED BY <1>1, <2>1, <2>2, <2>3 DEF GoodRow
<1>11. ASSUME NEW outcome \in {"CLEAR", "NON_CLEAR"}, IsInspected(r, outcome)
       PROVE  GoodRow(b)
  <2>1. a # NoRentalRow
    BY <1>11 DEF IsInspected, Has
  <2>2. /\ b \in RentalRows /\ b.period = a.period /\ b.until = a.until /\ b.custody = a.custody
        /\ b.status = a.status /\ b.returnedOn = a.returnedOn
    BY <1>1, <1>11, <2>1 DEF IsInspected, RentalRows, InspectionOutcome
  <2>. QED BY <1>1, <2>1, <2>2 DEF GoodRow
<1>12. ASSUME NEW status \in {"OPEN", "ASSESSED", "WAIVED", "CLOSED"}, IsAssessed(r, status)
       PROVE  GoodRow(b)
  <2>1. a # NoRentalRow
    BY <1>12 DEF IsAssessed
  <2>2. /\ b \in RentalRows /\ b.period = a.period /\ b.until = a.until /\ b.custody = a.custody
        /\ b.status = a.status /\ b.returnedOn = a.returnedOn
    BY <1>1, <1>12, <2>1 DEF IsAssessed, RentalRows, DamageStatus
  <2>. QED BY <1>1, <2>1, <2>2 DEF GoodRow
<1>. QED BY <1>3, <1>4, <1>5, <1>6, <1>7, <1>8, <1>9, <1>10, <1>11, <1>12 DEF RowMoves

----------------------------------------------------------------------------
\* Type correctness.

\* Rows that are good for their period, written on any day.
LEMMA RowsFromGood ==
    ASSUME RentalsTypeOK, NEW s \in Rentals, OnlyRow(s), \A r \in Rentals : GoodRow(rentals[r])'
    PROVE  /\ rentals' \in [Rentals -> RentalRows \cup {NoRentalRow}]
           /\ \A r \in Rentals : rentals'[r] # NoRentalRow =>
                  rentals'[r].period.from < rentals'[r].until /\ rentals'[r].until <= rentals'[r].period.to
           /\ RowsFollow'
<1>1. /\ \A r \in Rentals : rentals'[r] \in RentalRows \cup {NoRentalRow}
      /\ \A r \in Rentals : rentals'[r] # NoRentalRow =>
                  rentals'[r].period.from < rentals'[r].until /\ rentals'[r].until <= rentals'[r].period.to
      /\ RowsFollow'
  BY DEF GoodRow, RowsFollow, RowFollows
<1>. QED BY <1>1 DEF RentalsTypeOK, OnlyRow

LEMMA RentalStepRows ==
    ASSUME RowsInv, NEW r \in Rentals, RentalStep(r)
    PROVE  \A s \in Rentals : GoodRow(rentals[s])'
<1>1. RentalsTypeOK /\ \A s \in Rentals : GoodRow(rentals[s])
  BY GoodRows DEF RowsInv
<1>2. /\ GoodRow(rentals'[r]) /\ rentalDay' = rentalDay
      /\ \A s \in Rentals : s # r => rentals'[s] = rentals[s]
  BY <1>1, RentalRowStep, RowStepIsGood, OtherRows
<1>. QED BY <1>1, <1>2 DEF GoodRow

LEMMA UnitRow ==
    ASSUME RentalsTypeOK, NEW u \in RentalUnitIds
    PROVE  /\ \A work \in {"NONE", "OPEN"} : [rentalUnits EXCEPT ![u].work = work] \in [RentalUnitIds -> UnitRows]
           /\ \A service \in {"AVAILABLE", "OUT_OF_SERVICE"} :
                [rentalUnits EXCEPT ![u].service = service] \in [RentalUnitIds -> UnitRows]
           /\ [rentalUnits EXCEPT ![u].archived = TRUE] \in [RentalUnitIds -> UnitRows]
           /\ [rentalUnits EXCEPT ![u].work = "OPEN", ![u].service = "OUT_OF_SERVICE"] \in [RentalUnitIds -> UnitRows]
<1>1. rentalUnits[u] \in UnitRows
  BY DEF RentalsTypeOK
<1>2. ASSUME NEW work \in {"NONE", "OPEN"}
      PROVE  [rentalUnits EXCEPT ![u].work = work] \in [RentalUnitIds -> UnitRows]
  <2>1. [rentalUnits[u] EXCEPT !.work = work] \in UnitRows
    BY <1>1 DEF UnitRows
  <2>. QED BY <2>1 DEF RentalsTypeOK
<1>3. ASSUME NEW service \in {"AVAILABLE", "OUT_OF_SERVICE"}
      PROVE  [rentalUnits EXCEPT ![u].service = service] \in [RentalUnitIds -> UnitRows]
  <2>1. [rentalUnits[u] EXCEPT !.service = service] \in UnitRows
    BY <1>1 DEF UnitRows
  <2>. QED BY <2>1 DEF RentalsTypeOK
<1>4. [rentalUnits EXCEPT ![u].archived = TRUE] \in [RentalUnitIds -> UnitRows]
  <2>1. [rentalUnits[u] EXCEPT !.archived = TRUE] \in UnitRows
    BY <1>1 DEF UnitRows
  <2>. QED BY <2>1 DEF RentalsTypeOK
<1>5. [rentalUnits EXCEPT ![u].work = "OPEN", ![u].service = "OUT_OF_SERVICE"] \in [RentalUnitIds -> UnitRows]
  <2>1. [rentalUnits[u] EXCEPT !.work = "OPEN", !.service = "OUT_OF_SERVICE"] \in UnitRows
    BY <1>1 DEF UnitRows
  <2>. QED BY <2>1 DEF RentalsTypeOK
<1>. QED BY <1>2, <1>3, <1>4, <1>5

LEMMA RentalStepOthers ==
    ASSUME RentalsTypeOK, NEW r \in Rentals, RentalStep(r)
    PROVE  /\ rentalUnits' \in [RentalUnitIds -> UnitRows]
           /\ rentalSnapshot' \in (SUBSET Rentals) \cup {NoSnapshot}
<1>. USE DEF RentalsTypeOK
<1>1. CASE UNCHANGED <<rentalUnits, rentalSnapshot>> \/ (UNCHANGED rentalUnits /\ SnapshotUsed)
  BY <1>1 DEF SnapshotUsed
<1>2. CASE EndRentalHold(r)
  BY <1>2 DEF EndRentalHold
<1>3. ASSUME rentals[r] # NoRentalRow, Quarantine(rentals[r].unit), UNCHANGED rentalSnapshot
      PROVE  /\ rentalUnits' \in [RentalUnitIds -> UnitRows]
             /\ rentalSnapshot' \in (SUBSET Rentals) \cup {NoSnapshot}
  BY <1>3, RowType, UnitRow DEF Quarantine
<1>4. CASE ReturnRental(r)
  BY <1>3, <1>4 DEF ReturnRental, InCustody, BookedRentals, Has
<1>5. ASSUME NEW outcome \in {"CLEAR", "NON_CLEAR"}, RecordInspection(r, outcome)
      PROVE  /\ rentalUnits' \in [RentalUnitIds -> UnitRows]
             /\ rentalSnapshot' \in (SUBSET Rentals) \cup {NoSnapshot}
  <2>1. CASE UNCHANGED rentalUnits
    BY <1>1, <1>5, <2>1 DEF RecordInspection
  <2>2. CASE Quarantine(rentals[r].unit)
    BY <1>3, <1>5, <2>2 DEF RecordInspection, Has
  <2>. QED BY <1>5, <2>1, <2>2 DEF RecordInspection
<1>6. CASE OpenDamageCase(r)
  BY <1>3, <1>6 DEF OpenDamageCase, Has
<1>. QED BY <1>1, <1>2, <1>4, <1>5, <1>6
     DEF RentalStep, CreateRentalHold, ConfirmRental, CancelRental, RescheduleRental, SubstituteUnit,
         PickUpRental, ReleaseEarlyReturn, AssessDamageCase, WaiveDamageCase, CloseDamageCase, MoveDamageCase

LEMMA UnitStepType ==
    ASSUME RentalsTypeOK, NEW u \in RentalUnitIds, UnitStep(u)
    PROVE  RentalsTypeOK' /\ UNCHANGED <<rentals, rentalDay>>
<1>1. UNCHANGED <<rentals, rentalDay>>
  BY DEF UnitStep, OpenWorkOrder, CloseWorkOrder, ReturnToService, TakeOutOfService, ArchiveUnit, CreateBlock
<1>2. rentalSnapshot' \in (SUBSET Rentals) \cup {NoSnapshot}
  BY DEF RentalsTypeOK, UnitStep, OpenWorkOrder, CloseWorkOrder, ReturnToService, TakeOutOfService, ArchiveUnit,
         CreateBlock, SnapshotUsed
<1>3. rentalUnits' \in [RentalUnitIds -> UnitRows]
  <2>1. CASE OpenWorkOrder(u) \/ ArchiveUnit(u)
    BY <2>1, UnitRow DEF OpenWorkOrder, ArchiveUnit
  <2>2. CASE CloseWorkOrder(u)
    <3>1. [rentalUnits EXCEPT ![u].work = "NONE"] \in [RentalUnitIds -> UnitRows]
      BY UnitRow
    <3>. QED BY <2>2, <3>1 DEF CloseWorkOrder
  <2>3. CASE ReturnToService(u) \/ TakeOutOfService(u)
    <3>1. /\ [rentalUnits EXCEPT ![u].service = "AVAILABLE"] \in [RentalUnitIds -> UnitRows]
          /\ [rentalUnits EXCEPT ![u].service = "OUT_OF_SERVICE"] \in [RentalUnitIds -> UnitRows]
      BY UnitRow
    <3>. QED BY <2>3, <3>1 DEF ReturnToService, TakeOutOfService, Quarantine
  <2>4. CASE UNCHANGED rentalUnits
    BY <2>4 DEF RentalsTypeOK
  <2>. QED BY <2>1, <2>2, <2>3, <2>4 DEF UnitStep, CreateBlock
<1>4. rentalBlocks' \in [RentalBlockIds -> BlockRows \cup {NoRentalRow}]
  BY DEF RentalsTypeOK, UnitStep, OpenWorkOrder, CloseWorkOrder, ReturnToService, TakeOutOfService, ArchiveUnit,
         CreateBlock, BlockRows
<1>. QED BY <1>1, <1>2, <1>3, <1>4 DEF RentalsTypeOK

LEMMA RowsStep == RowsInv /\ [RentalsNext]_rentalVars => RowsInv'
<1>. SUFFICES ASSUME RowsInv, [RentalsNext]_rentalVars PROVE RowsInv'
  OBVIOUS
<1>. USE DEF RowsInv
<1>1. ASSUME NEW r \in Rentals, RentalStep(r)
      PROVE  RowsInv'
  <2>1. \A s \in Rentals : GoodRow(rentals[s])'
    BY <1>1, RentalStepRows
  <2>2. OnlyRow(r) /\ UNCHANGED <<rentalBlocks, rentalDay>>
    BY <1>1, RentalRowStep
  <2>3. /\ rentalUnits' \in [RentalUnitIds -> UnitRows]
        /\ rentalSnapshot' \in (SUBSET Rentals) \cup {NoSnapshot}
    BY <1>1, RentalStepOthers
  <2>. QED BY <2>1, <2>2, <2>3, RowsFromGood DEF RentalsTypeOK
<1>2. ASSUME NEW u \in RentalUnitIds, UnitStep(u)
      PROVE  RowsInv'
  BY <1>2, UnitStepType DEF RowsFollow, RowFollows
<1>3. CASE TakeSnapshot
  BY <1>3 DEF TakeSnapshot, HeldRentals, RentalsTypeOK, RowsFollow, RowFollows
<1>4. CASE RollBack
  BY <1>4 DEF RollBack, SnapshotUsed, RentalsTypeOK, RowsFollow, RowFollows
<1>5. ASSUME NEW k \in RentalBlockIds, RemoveBlock(k)
      PROVE  RowsInv'
  BY <1>5 DEF RemoveBlock, RentalsTypeOK, RowsFollow, RowFollows
<1>6. CASE NextRentalDay
  <2>1. rentalDay \in Nat /\ LastRentalDay \in Nat
    BY DayType
  <2>2. \A r \in Rentals : rentals[r] # NoRentalRow => rentals[r].period.from \in Nat
    BY RowType, PeriodType
  <2>. QED BY <1>6, <2>1, <2>2 DEF NextRentalDay, RentalsTypeOK, RowsFollow, RowFollows
<1>7. CASE UNCHANGED rentalVars
  BY <1>7 DEF rentalVars, RentalsTypeOK, RowsFollow, RowFollows
<1>. HIDE DEF RowsInv
<1>. QED BY <1>1, <1>2, <1>3, <1>4, <1>5, <1>6, <1>7 DEF RentalsNext

LEMMA RowsInit == RentalsInit => RowsInv
BY RentalDaysAssumption DEF RentalsInit, RowsInv, RentalsTypeOK, RowsFollow, RowFollows, UnitRows

\* Type correctness: no row leaves its states, and an allocation keeps at least one day,
\* within the committed ones.
THEOREM RentalTypeCorrect == RentalsSpec => []RentalsTypeOK
<1>1. RowsInv => RentalsTypeOK
  BY DEF RowsInv
<1>. QED BY <1>1, RowsInit, RowsStep, PTL DEF RentalsSpec

----------------------------------------------------------------------------
\* Accepted stays. Stays of one unit are compared two by two.

LEMMA DisjointPairs ==
    AcceptedStaysAreDisjoint <=>
        \A r \in BookedRentals :
            /\ \A k \in Blocked : rentalBlocks[k].unit = rentals[r].unit =>
                   ~PeriodsOverlap(rentalBlocks[k].period, Taken(r))
            /\ \A s \in BookedRentals : s # r /\ rentals[s].unit = rentals[r].unit =>
                   ~PeriodsOverlap(Taken(s), Taken(r))
BY DEF AcceptedStaysAreDisjoint, UnitTaken

\* A step of a rental leaves it no stay, shortens its stay, or gives it dates of a unit that
\* no block, no other booking and no hold in its snapshot takes.
StayLeaves(r) == ~Has(r, "CONFIRMED")'
StayShrinks(r) ==
    /\ Has(r, "CONFIRMED")
    /\ rentals'[r].unit = rentals[r].unit
    /\ rentals'[r].period.from = rentals[r].period.from
    /\ rentals'[r].until <= rentals[r].until
StayIsFree(r) ==
    /\ rentalSnapshot # NoSnapshot
    /\ \E p \in RentalPeriods :
           /\ ~UnitTaken(rentals'[r].unit, p, SeenHolds, r)
           /\ rentals'[r].period.from = p.from
           /\ rentals'[r].until = p.to

LEMMA StayStep ==
    ASSUME RowsInv, NEW r \in Rentals, RowMoves(r)
    PROVE  StayLeaves(r) \/ StayShrinks(r) \/ StayIsFree(r)
<1>. DEFINE a == rentals[r]
            b == rentals'[r]
<1>1. a # NoRentalRow =>
        /\ a \in RentalRows /\ a.period \in RentalPeriods /\ a.until \in Nat /\ a.returnedOn \in Nat
        /\ a.period.to \in Nat
        /\ a.until <= a.period.to
        /\ a.status = "HELD" => a.custody = "AWAITING_PICKUP"
        /\ a.custody # "RETURNED" => a.until = a.period.to
  BY RowType, PeriodType DEF RowsInv, RowsFollow, RowFollows
<1>2. ASSUME NEW u \in RentalUnitIds, NEW p \in RentalPeriods, IsHeld(r, u, p)
      PROVE  StayLeaves(r)
  BY <1>2 DEF IsHeld, StayLeaves, Has
<1>3. CASE IsDropped(r)
  BY <1>3 DEF IsDropped, StayLeaves, Has
<1>4. CASE IsConfirmed(r)
  <2>1. a # NoRentalRow /\ a.status = "HELD" /\ UnitAccepts(a.unit, a.period, SeenHolds, r)
        /\ rentalSnapshot # NoSnapshot
    BY <1>4 DEF IsConfirmed, Convertible, Has, SeenHolds
  <2>2. b.unit = a.unit /\ b.period = a.period /\ b.until = a.until
    BY <1>1, <1>4, <2>1 DEF IsConfirmed, RentalRows
  <2>. QED BY <1>1, <2>1, <2>2 DEF UnitAccepts, StayIsFree
<1>5. ASSUME NEW p \in RentalPeriods, IsMoved(r, p)
      PROVE  StayIsFree(r)
  <2>1. a # NoRentalRow /\ UnitAccepts(a.unit, p, SeenHolds, r) /\ rentalSnapshot # NoSnapshot
    BY <1>5 DEF IsMoved, MayMoveTo, Has
  <2>2. b.unit = a.unit /\ b.period = p /\ b.until = p.to
    BY <1>1, <1>5, <2>1 DEF IsMoved, RentalRows
  <2>. QED BY <2>1, <2>2 DEF UnitAccepts, StayIsFree
<1>6. ASSUME NEW u \in RentalUnitIds, IsSubstituted(r, u)
      PROVE  StayIsFree(r)
  <2>1. a # NoRentalRow /\ a.custody = "AWAITING_PICKUP" /\ UnitAccepts(u, a.period, SeenHolds, r)
        /\ rentalSnapshot # NoSnapshot
    BY <1>6 DEF IsSubstituted, MaySubstitute, Has
  <2>2. b.unit = u /\ b.period = a.period /\ b.until = a.until
    BY <1>1, <1>6, <2>1 DEF IsSubstituted, RentalRows
  <2>. QED BY <1>1, <2>1, <2>2 DEF UnitAccepts, StayIsFree
<1>7. ASSUME Has(r, "CONFIRMED"), b.unit = a.unit, b.period = a.period, b.until = a.until
      PROVE  StayShrinks(r)
  BY <1>1, <1>7 DEF StayShrinks, Has
<1>8. CASE IsPickedUp(r)
  <2>1. Has(r, "CONFIRMED") /\ a # NoRentalRow
    BY <1>8 DEF IsPickedUp, PickupIsOpen, Has
  <2>. QED BY <1>1, <1>7, <1>8, <2>1 DEF IsPickedUp, RentalRows
<1>9. CASE IsReturned(r)
  <2>1. Has(r, "CONFIRMED") /\ a # NoRentalRow
    BY <1>9 DEF IsReturned, InCustody, BookedRentals, Has
  <2>. QED BY <1>1, <1>7, <1>9, <2>1 DEF IsReturned, RentalRows
<1>10. CASE IsCutShort(r)
  <2>1. Has(r, "CONFIRMED") /\ a # NoRentalRow /\ a.until = a.period.to /\ a.returnedOn + 1 < a.period.to
    BY <1>10 DEF IsCutShort, ReturnedEarly, Has
  <2>2. b.unit = a.unit /\ b.period = a.period /\ b.until = a.returnedOn + 1
    BY <1>1, <1>10, <2>1 DEF IsCutShort, RentalRows
  <2>3. b.until <= a.until
    BY <1>1, <2>1, <2>2
  <2>. QED BY <2>1, <2>2, <2>3 DEF StayShrinks
<1>11. ASSUME NEW outcome \in {"CLEAR", "NON_CLEAR"}, IsInspected(r, outcome)
       PROVE  StayShrinks(r)
  <2>1. Has(r, "CONFIRMED") /\ a # NoRentalRow
    BY <1>11 DEF IsInspected, Has
  <2>. QED BY <1>1, <1>7, <1>11, <2>1 DEF IsInspected, RentalRows
<1>12. ASSUME NEW status \in {"OPEN", "ASSESSED", "WAIVED", "CLOSED"}, IsAssessed(r, status)
       PROVE  StayLeaves(r) \/ StayShrinks(r)
  <2>1. /\ a # NoRentalRow /\ b.unit = a.unit /\ b.period = a.period /\ b.until = a.until
        /\ b.status = a.status
    BY <1>1, <1>12 DEF IsAssessed, RentalRows
  <2>. QED BY <1>7, <2>1 DEF StayLeaves, Has
<1>. QED BY <1>2, <1>3, <1>4, <1>5, <1>6, <1>8, <1>9, <1>10, <1>11, <1>12 DEF RowMoves

LEMMA OverlapSymmetric == \A p, q : PeriodsOverlap(p, q) <=> PeriodsOverlap(q, p)
BY DEF PeriodsOverlap

LEMMA RentalStepKeepsStays ==
    ASSUME RowsInv, RowsInv', AcceptedStaysAreDisjoint, NEW r \in Rentals, RentalStep(r)
    PROVE  AcceptedStaysAreDisjoint'
<1>1. RentalsTypeOK
  BY DEF RowsInv
<1>2. /\ RowMoves(r) /\ UNCHANGED rentalBlocks
      /\ \A s \in Rentals : s # r => rentals'[s] = rentals[s]
  BY <1>1, RentalRowStep, OtherRows
<1>3. \A s \in Rentals : s # r => /\ Taken(s)' = Taken(s)
                                  /\ s \in BookedRentals' <=> s \in BookedRentals
  BY <1>2 DEF Taken, BookedRentals, Has
\* The new stay of r, if any, is free of every block and every other booking.
<1>4. ASSUME r \in BookedRentals', NEW q, q.to \in Int, q.from \in Int, PeriodsOverlap(q, Taken(r))',
             StayShrinks(r)
      PROVE  PeriodsOverlap(q, Taken(r))
  <2>1. /\ rentals'[r].until \in Nat /\ rentals[r].until \in Nat
        /\ rentals'[r].period.from = rentals[r].period.from /\ rentals'[r].until <= rentals[r].until
    <3>1. RentalsTypeOK' /\ rentals'[r] # NoRentalRow /\ rentals[r] # NoRentalRow
      BY <1>4 DEF RowsInv, BookedRentals, Has, StayShrinks
    <3>2. rentals'[r].until \in Nat
      BY <3>1, RentalDaysAssumption DEF RentalsTypeOK, RentalRows
    <3>. QED BY <1>1, <1>4, <3>1, <3>2, RowType DEF StayShrinks
  <2>. QED BY <1>4, <2>1 DEF PeriodsOverlap, Taken
<1>5. ASSUME r \in BookedRentals'
      PROVE  /\ \A k \in Blocked : rentalBlocks[k].unit = rentals'[r].unit =>
                   ~PeriodsOverlap(rentalBlocks[k].period, Taken(r)')
             /\ \A s \in BookedRentals : s # r /\ rentals[s].unit = rentals'[r].unit =>
                   ~PeriodsOverlap(Taken(s), Taken(r)')
  <2>1. CASE StayShrinks(r)
    <3>1. r \in BookedRentals /\ rentals'[r].unit = rentals[r].unit
      BY <2>1 DEF StayShrinks, BookedRentals
    <3>2. ASSUME NEW k \in Blocked, rentalBlocks[k].unit = rentals'[r].unit
          PROVE  ~PeriodsOverlap(rentalBlocks[k].period, Taken(r)')
      <4>1. rentalBlocks[k].period \in RentalPeriods
        BY <1>1 DEF RentalsTypeOK, Blocked, BlockRows
      <4>. QED BY <1>4, <1>5, <2>1, <3>1, <3>2, <4>1, DisjointPairs, PeriodType
    <3>3. ASSUME NEW s \in BookedRentals, s # r, rentals[s].unit = rentals'[r].unit
          PROVE  ~PeriodsOverlap(Taken(s), Taken(r)')
      <4>1. Taken(s).from \in Int /\ Taken(s).to \in Int
        BY <1>1, RowType, PeriodType DEF Taken, BookedRentals, Has
      <4>. QED BY <1>4, <1>5, <2>1, <3>1, <3>3, <4>1, DisjointPairs
    <3>. QED BY <3>2, <3>3
  <2>2. CASE StayIsFree(r)
    BY <2>2 DEF StayIsFree, UnitTaken, PeriodsOverlap, Taken
  <2>. QED BY <1>2, <1>5, <2>1, <2>2, StayStep DEF StayLeaves, BookedRentals
<1>6. SUFFICES ASSUME NEW s \in BookedRentals'
               PROVE  /\ \A k \in Blocked' : rentalBlocks'[k].unit = rentals'[s].unit =>
                             ~PeriodsOverlap(rentalBlocks'[k].period, Taken(s)')
                      /\ \A q \in BookedRentals' : q # s /\ rentals'[q].unit = rentals'[s].unit =>
                             ~PeriodsOverlap(Taken(q)', Taken(s)')
  BY DEF AcceptedStaysAreDisjoint, UnitTaken
<1>7. s \in Rentals /\ Blocked' = Blocked /\ BookedRentals' \subseteq Rentals
  BY <1>2 DEF BookedRentals, Blocked
<1>8. CASE s = r
  BY <1>2, <1>3, <1>5, <1>7, <1>8
<1>9. CASE s # r
  <2>1. s \in BookedRentals /\ Taken(s)' = Taken(s) /\ rentals'[s] = rentals[s]
    BY <1>2, <1>3, <1>7, <1>9
  <2>2. \A k \in Blocked : rentalBlocks[k].unit = rentals[s].unit => ~PeriodsOverlap(rentalBlocks[k].period, Taken(s))
    BY <2>1, DisjointPairs
  <2>3. ASSUME NEW q \in BookedRentals', q # s, rentals'[q].unit = rentals'[s].unit
        PROVE  ~PeriodsOverlap(Taken(q)', Taken(s)')
    <3>1. CASE q = r
      BY <1>5, <2>1, <2>3, <3>1, <1>9, OverlapSymmetric
    <3>2. CASE q # r
      BY <1>2, <1>3, <1>7, <2>1, <2>3, <3>2, DisjointPairs
    <3>. QED BY <3>1, <3>2
  <2>. QED BY <1>2, <1>7, <2>1, <2>2, <2>3
<1>. QED BY <1>8, <1>9

\* Blocks: a new one is free of every booking, and taking one away frees its dates.
LEMMA BlockStepKeepsStays ==
    ASSUME RentalsTypeOK, AcceptedStaysAreDisjoint, UNCHANGED rentals,
           \/ \E k \in RentalBlockIds, u \in RentalUnitIds, p \in RentalPeriods : CreateBlock(k, u, p)
           \/ \E k \in RentalBlockIds : RemoveBlock(k)
           \/ UNCHANGED rentalBlocks
    PROVE  AcceptedStaysAreDisjoint'
<1>1. BookedRentals' = BookedRentals /\ \A r \in Rentals : Taken(r)' = Taken(r)
  BY DEF BookedRentals, Has, Taken
<1>2. ASSUME \A k \in Blocked' : \/ k \in Blocked /\ rentalBlocks'[k] = rentalBlocks[k]
                                 \/ \A r \in BookedRentals : rentalBlocks'[k].unit = rentals[r].unit =>
                                        ~PeriodsOverlap(rentalBlocks'[k].period, Taken(r))
      PROVE  AcceptedStaysAreDisjoint'
  <2>1. SUFFICES ASSUME NEW r \in BookedRentals
                 PROVE  /\ \A k \in Blocked' : rentalBlocks'[k].unit = rentals[r].unit =>
                               ~PeriodsOverlap(rentalBlocks'[k].period, Taken(r))
                        /\ \A s \in BookedRentals : s # r /\ rentals[s].unit = rentals[r].unit =>
                               ~PeriodsOverlap(Taken(s), Taken(r))
    <3>1. BookedRentals \subseteq Rentals
      BY DEF BookedRentals
    <3>. QED BY <1>1, <3>1 DEF AcceptedStaysAreDisjoint, UnitTaken
  <2>. QED BY <1>2, DisjointPairs
<1>3. ASSUME NEW k \in RentalBlockIds, NEW u \in RentalUnitIds, NEW p \in RentalPeriods, CreateBlock(k, u, p)
      PROVE  AcceptedStaysAreDisjoint'
  <2>1. ~UnitTaken(u, p, SeenHolds, NoRentalRow)
    BY <1>3 DEF CreateBlock
  <2>2. \A r \in BookedRentals : rentals[r].unit = u => ~PeriodsOverlap(p, Taken(r))
    BY <2>1, RentalRowsAssumption DEF UnitTaken, BookedRentals, PeriodsOverlap
  <2>3. /\ rentalBlocks'[k] = [unit |-> u, period |-> p]
        /\ \A j \in RentalBlockIds : j # k => rentalBlocks'[j] = rentalBlocks[j]
    BY <1>3 DEF CreateBlock, RentalsTypeOK
  <2>. QED BY <1>2, <2>2, <2>3 DEF Blocked
<1>4. ASSUME NEW k \in RentalBlockIds, RemoveBlock(k)
      PROVE  AcceptedStaysAreDisjoint'
  BY <1>2, <1>4 DEF RemoveBlock, RentalsTypeOK, Blocked
<1>5. CASE UNCHANGED rentalBlocks
  BY <1>2, <1>5 DEF Blocked
<1>. QED BY <1>3, <1>4, <1>5

LEMMA StaysStep ==
    ASSUME RowsInv, AcceptedStaysAreDisjoint, [RentalsNext]_rentalVars
    PROVE  AcceptedStaysAreDisjoint'
<1>1. RowsInv' /\ RentalsTypeOK
  BY RowsStep DEF RowsInv
<1>2. ASSUME NEW r \in Rentals, RentalStep(r)
      PROVE  AcceptedStaysAreDisjoint'
  BY <1>1, <1>2, RentalStepKeepsStays
<1>3. ASSUME NEW u \in RentalUnitIds, UnitStep(u)
      PROVE  AcceptedStaysAreDisjoint'
  BY <1>1, <1>3, UnitStepType, BlockStepKeepsStays
     DEF UnitStep, OpenWorkOrder, CloseWorkOrder, ReturnToService, TakeOutOfService, ArchiveUnit
<1>4. CASE TakeSnapshot \/ RollBack \/ NextRentalDay \/ UNCHANGED rentalVars
  BY <1>1, <1>4, BlockStepKeepsStays DEF TakeSnapshot, RollBack, NextRentalDay, rentalVars
<1>5. ASSUME NEW k \in RentalBlockIds, RemoveBlock(k)
      PROVE  AcceptedStaysAreDisjoint'
  BY <1>1, <1>5, BlockStepKeepsStays DEF RemoveBlock
<1>. QED BY <1>2, <1>3, <1>4, <1>5 DEF RentalsNext

----------------------------------------------------------------------------
\* Custody.

\* Two open custodies within their committed dates would be two stays that share today.
LEMMA OneCustodyInTime ==
    ASSUME RowsInv, AcceptedStaysAreDisjoint, NEW r \in Rentals, NEW s \in Rentals \ {r},
           InCustody(r), InCustody(s), rentals[s].unit = rentals[r].unit
    PROVE  CustodyOverdue(r) \/ CustodyOverdue(s)
<1>1. ASSUME NEW q \in {r, s}
      PROVE  /\ q \in BookedRentals
             /\ rentals[q].until = rentals[q].period.to /\ rentals[q].period.from <= rentalDay
             /\ rentals[q].period.from \in Nat /\ rentals[q].period.to \in Nat
  <2>1. q \in Rentals /\ q \in BookedRentals /\ rentals[q] # NoRentalRow /\ rentals[q].custody = "PICKED_UP"
    BY <1>1 DEF InCustody, BookedRentals, Has
  <2>. QED BY <2>1, RowType, PeriodType DEF RowsInv, RowsFollow, RowFollows
<1>2. rentalDay \in Nat
  BY DayType DEF RowsInv
<1>3. ~PeriodsOverlap(Taken(s), Taken(r))
  BY <1>1, DisjointPairs
<1>. QED BY <1>1, <1>2, <1>3 DEF PeriodsOverlap, Taken, CustodyOverdue

CustodyIsNotArchived == \A r \in Rentals : InCustody(r) => ~rentalUnits[rentals[r].unit].archived

\* The rental that a step leaves in custody was so before, at the same unit, or was picked up
\* at a unit that is not archived.
LEMMA CustodyRowStep ==
    ASSUME RowsInv, NEW r \in Rentals, RowMoves(r), InCustody(r)'
    PROVE  /\ InCustody(r) \/ PickupIsOpen(r)
           /\ rentals'[r].unit = rentals[r].unit
<1>. DEFINE a == rentals[r]
            b == rentals'[r]
<1>1. b # NoRentalRow /\ b.status = "CONFIRMED" /\ b.custody = "PICKED_UP"
  BY DEF InCustody, BookedRentals, Has
<1>2. a # NoRentalRow => a \in RentalRows /\ (a.status = "HELD" => a.custody = "AWAITING_PICKUP")
  BY RowType DEF RowsInv, RowsFollow, RowFollows
<1>3. ASSUME NEW u \in RentalUnitIds, NEW p \in RentalPeriods, IsHeld(r, u, p)
      PROVE  FALSE
  BY <1>1, <1>3 DEF IsHeld
<1>4. CASE IsDropped(r)
  BY <1>1, <1>4 DEF IsDropped
<1>5. ASSUME a # NoRentalRow, b.status = a.status, b.custody = a.custody, b.unit = a.unit
      PROVE  InCustody(r) /\ b.unit = a.unit
  BY <1>1, <1>5 DEF InCustody, BookedRentals, Has
<1>6. CASE IsConfirmed(r)
  <2>1. a # NoRentalRow /\ a.status = "HELD"
    BY <1>6 DEF IsConfirmed, Convertible, Has
  <2>2. b.custody = a.custody
    BY <1>2, <1>6, <2>1 DEF IsConfirmed, RentalRows
  <2>. QED BY <1>1, <1>2, <2>1, <2>2
<1>7. ASSUME NEW p \in RentalPeriods, IsMoved(r, p)
      PROVE  InCustody(r) /\ b.unit = a.unit
  <2>1. a # NoRentalRow
    BY <1>7 DEF IsMoved, MayMoveTo, Has
  <2>. QED BY <1>2, <1>5, <1>7, <2>1 DEF IsMoved, RentalRows
<1>8. ASSUME NEW u \in RentalUnitIds, IsSubstituted(r, u)
      PROVE  FALSE
  <2>1. a # NoRentalRow /\ a.custody = "AWAITING_PICKUP"
    BY <1>8 DEF IsSubstituted, MaySubstitute, Has
  <2>. QED BY <1>1, <1>2, <1>8, <2>1 DEF IsSubstituted, RentalRows
<1>9. CASE IsPickedUp(r)
  <2>1. a # NoRentalRow
    BY <1>9 DEF IsPickedUp, PickupIsOpen, Has
  <2>. QED BY <1>2, <1>9, <2>1 DEF IsPickedUp, RentalRows
<1>10. CASE IsReturned(r)
  <2>1. a # NoRentalRow
    BY <1>10 DEF IsReturned, InCustody, BookedRentals, Has
  <2>. QED BY <1>1, <1>2, <1>10, <2>1 DEF IsReturned, RentalRows
<1>11. CASE IsCutShort(r)
  <2>1. a # NoRentalRow
    BY <1>11 DEF IsCutShort, ReturnedEarly, Has
  <2>. QED BY <1>2, <1>5, <1>11, <2>1 DEF IsCutShort, RentalRows
<1>12. ASSUME NEW outcome \in {"CLEAR", "NON_CLEAR"}, IsInspected(r, outcome)
       PROVE  InCustody(r) /\ b.unit = a.unit
  <2>1. a # NoRentalRow
    BY <1>12 DEF IsInspected, Has
  <2>. QED BY <1>2, <1>5, <1>12, <2>1 DEF IsInspected, RentalRows
<1>13. ASSUME NEW status \in {"OPEN", "ASSESSED", "WAIVED", "CLOSED"}, IsAssessed(r, status)
       PROVE  InCustody(r) /\ b.unit = a.unit
  <2>1. a # NoRentalRow
    BY <1>13 DEF IsAssessed
  <2>. QED BY <1>2, <1>5, <1>13, <2>1 DEF IsAssessed, RentalRows
<1>. QED BY <1>3, <1>4, <1>6, <1>7, <1>8, <1>9, <1>10, <1>11, <1>12, <1>13 DEF RowMoves

\* What a step of a rental does to the units: nothing, or it quarantines its own.
LEMMA RentalStepUnits ==
    ASSUME RentalsTypeOK, NEW r \in Rentals, RentalStep(r)
    PROVE  \/ UNCHANGED rentalUnits
           \/ rentals[r].unit \in RentalUnitIds /\ Quarantine(rentals[r].unit)
<1>1. rentals[r] # NoRentalRow => rentals[r].unit \in RentalUnitIds
  BY RowType
<1>2. CASE ReturnRental(r)
  BY <1>1, <1>2 DEF ReturnRental, InCustody, BookedRentals, Has
<1>3. ASSUME NEW outcome \in {"CLEAR", "NON_CLEAR"}, RecordInspection(r, outcome)
      PROVE  \/ UNCHANGED rentalUnits
             \/ rentals[r].unit \in RentalUnitIds /\ Quarantine(rentals[r].unit)
  BY <1>1, <1>3 DEF RecordInspection, Has
<1>4. CASE OpenDamageCase(r)
  BY <1>1, <1>4 DEF OpenDamageCase, Has
<1>. QED BY <1>2, <1>3, <1>4
     DEF RentalStep, CreateRentalHold, EndRentalHold, ConfirmRental, CancelRental, RescheduleRental, SubstituteUnit,
         PickUpRental, ReleaseEarlyReturn, AssessDamageCase, WaiveDamageCase, CloseDamageCase, MoveDamageCase

LEMMA Quarantined ==
    ASSUME RentalsTypeOK, NEW u \in RentalUnitIds, Quarantine(u)
    PROVE  /\ rentalUnits'[u].service = "OUT_OF_SERVICE"
           /\ \A v \in RentalUnitIds : /\ rentalUnits'[v].archived = rentalUnits[v].archived
                                       /\ v # u => rentalUnits'[v] = rentalUnits[v]
<1>1. rentalUnits[u] \in UnitRows
  BY DEF RentalsTypeOK
<1>. QED BY <1>1 DEF Quarantine, RentalsTypeOK, UnitRows

\* A unit in custody past its dates is overdue, and no unit is archived before its stays end.
LEMMA ArchivedIsReturned ==
    ASSUME RowsInv, NEW u \in RentalUnitIds, ArchiveUnit(u), NEW r \in Rentals, InCustody(r)
    PROVE  rentals[r].unit # u
<1>1. SUFFICES ASSUME rentals[r].unit = u PROVE FALSE
  OBVIOUS
<1>2. r \in BookedRentals /\ rentals[r] # NoRentalRow /\ rentals[r].custody = "PICKED_UP"
  BY DEF InCustody, BookedRentals, Has
<1>3. rentals[r].until <= rentalDay /\ rentals[r].until = rentals[r].period.to
  BY <1>1, <1>2 DEF ArchiveUnit, RowsInv, RowsFollow, RowFollows
<1>4. CustodyOverdue(r)
  <2>1. rentals[r].period.to \in Nat /\ rentalDay \in Nat
    BY <1>2, RowType, PeriodType, DayType DEF RowsInv
  <2>. QED BY <1>3, <2>1 DEF CustodyOverdue
<1>. QED BY <1>1, <1>4, RentalRowsAssumption DEF ArchiveUnit, UnitOverdue

LEMMA CustodyStep ==
    ASSUME RowsInv, CustodyIsNotArchived, [RentalsNext]_rentalVars
    PROVE  CustodyIsNotArchived'
<1>1. RentalsTypeOK
  BY DEF RowsInv
<1>2. ASSUME UNCHANGED <<rentals, rentalUnits>>
      PROVE  CustodyIsNotArchived'
  BY <1>2 DEF CustodyIsNotArchived, InCustody, BookedRentals, Has
<1>3. ASSUME NEW r \in Rentals, RentalStep(r)
      PROVE  CustodyIsNotArchived'
  <2>1. /\ RowMoves(r)
        /\ \A s \in Rentals : s # r => rentals'[s] = rentals[s]
    BY <1>1, <1>3, RentalRowStep, OtherRows
  <2>2. \A u \in RentalUnitIds : rentalUnits'[u].archived = rentalUnits[u].archived
    BY <1>1, <1>3, RentalStepUnits, Quarantined
  <2>3. ASSUME NEW s \in Rentals, InCustody(s)'
        PROVE  ~rentalUnits'[rentals'[s].unit].archived
    <3>1. (InCustody(s) \/ PickupIsOpen(s)) /\ rentals'[s].unit = rentals[s].unit
      <4>1. CASE s = r
        BY <2>1, <2>3, <4>1, CustodyRowStep
      <4>2. CASE s # r
        BY <2>1, <2>3, <4>2 DEF InCustody, BookedRentals, Has
      <4>. QED BY <4>1, <4>2
    <3>2. rentals[s] # NoRentalRow /\ ~rentalUnits[rentals[s].unit].archived
      BY <3>1 DEF CustodyIsNotArchived, InCustody, BookedRentals, Has, PickupIsOpen
    <3>3. rentals[s].unit \in RentalUnitIds
      BY <1>1, <3>2, RowType
    <3>. QED BY <2>2, <3>1, <3>2, <3>3
  <2>. QED BY <2>3 DEF CustodyIsNotArchived
<1>4. ASSUME NEW u \in RentalUnitIds, UnitStep(u)
      PROVE  CustodyIsNotArchived'
  <2>1. UNCHANGED rentals
    BY <1>1, <1>4, UnitStepType
  <2>2. \A v \in RentalUnitIds : rentalUnits'[v].archived => rentalUnits[v].archived \/ (v = u /\ ArchiveUnit(u))
    <3>1. \A v \in RentalUnitIds : rentalUnits[v] \in UnitRows
      BY <1>1 DEF RentalsTypeOK
    <3>2. CASE OpenWorkOrder(u) \/ CloseWorkOrder(u) \/ ReturnToService(u)
      BY <1>1, <3>1, <3>2 DEF OpenWorkOrder, CloseWorkOrder, ReturnToService, RentalsTypeOK, UnitRows
    <3>3. CASE TakeOutOfService(u)
      BY <1>1, <3>3, Quarantined DEF TakeOutOfService
    <3>4. CASE ArchiveUnit(u)
      BY <1>1, <3>1, <3>4 DEF ArchiveUnit, RentalsTypeOK
    <3>5. CASE UNCHANGED rentalUnits
      BY <3>5
    <3>. QED BY <1>4, <3>2, <3>3, <3>4, <3>5 DEF UnitStep, CreateBlock
  <2>3. \A r \in Rentals : InCustody(r) => rentals[r].unit \in RentalUnitIds
    BY <1>1, RowType DEF InCustody, BookedRentals, Has
  <2>. QED BY <2>1, <2>2, <2>3, ArchivedIsReturned DEF CustodyIsNotArchived, InCustody, BookedRentals, Has
<1>. QED BY <1>2, <1>3, <1>4 DEF RentalsNext, TakeSnapshot, RollBack, RemoveBlock, NextRentalDay, rentalVars

SharingInv == RowsInv /\ AcceptedStaysAreDisjoint /\ CustodyIsNotArchived

LEMMA SharingInit == RentalsInit => SharingInv
BY RowsInit DEF RentalsInit, SharingInv, AcceptedStaysAreDisjoint, CustodyIsNotArchived, InCustody, BookedRentals, Has

\* A unit is promised to one customer, and in the hands of one up to overdue custody, whatever
\* holds the requests did not see.
THEOREM UnitsStaySeparate == RentalsSpec => []UnitsAreNotShared
<1>1. SharingInv => UnitsAreNotShared
  BY OneCustodyInTime DEF SharingInv, CustodyIsNotArchived, UnitsAreNotShared, SecondCustodyIsOverdue
<1>2. SharingInv /\ [RentalsNext]_rentalVars => SharingInv'
  BY RowsStep, StaysStep, CustodyStep DEF SharingInv
<1>. QED BY <1>1, <1>2, SharingInit, PTL DEF RentalsSpec

----------------------------------------------------------------------------
\* Holds. A row takes its dates whether it is held or booked.

HoldTaken(h) == UnitTaken(rentals[h].unit, Taken(h), HeldRentals, h)

\* The waiting request took its snapshot before the hold was made.
Unseen(h) == rentalSnapshot # NoSnapshot /\ h \notin rentalSnapshot

LEMMA HeldTaken ==
    ASSUME NEW h
    PROVE  HoldTaken(h) <=>
               \/ \E k \in Blocked : /\ rentalBlocks[k].unit = rentals[h].unit
                                     /\ PeriodsOverlap(rentalBlocks[k].period, Taken(h))
               \/ \E s \in HeldRentals \cup BookedRentals : /\ s # h /\ rentals[s].unit = rentals[h].unit
                                                            /\ PeriodsOverlap(Taken(s), Taken(h))
BY DEF HoldTaken, UnitTaken

\* A row that is held after a step was just made, or was held for the same dates of the same unit.
LEMMA HeldStep ==
    ASSUME RowsInv, NEW r \in Rentals, RentalStep(r), Has(r, "HELD")'
    PROVE  \/ \E u \in RentalUnitIds, p \in RentalPeriods : CreateRentalHold(r, u, p)
           \/ Has(r, "HELD") /\ rentals'[r].unit = rentals[r].unit /\ Taken(r)' = Taken(r)
<1>. DEFINE a == rentals[r]
            b == rentals'[r]
<1>1. /\ RowMoves(r) /\ RentalsTypeOK
      /\ a # NoRentalRow => a \in RentalRows /\ (a.status = "HELD" => a.custody = "AWAITING_PICKUP")
      /\ b # NoRentalRow /\ b.status = "HELD"
  BY RentalRowStep, RowType DEF RowsInv, RowsFollow, RowFollows, Has
<1>2. ASSUME ~\E u \in RentalUnitIds, p \in RentalPeriods : CreateRentalHold(r, u, p)
      PROVE  Has(r, "HELD") /\ b.unit = a.unit /\ Taken(r)' = Taken(r)
  <2>1. \/ EndRentalHold(r) \/ ConfirmRental(r) \/ CancelRental(r)
        \/ \E p \in RentalPeriods : RescheduleRental(r, p)
        \/ \E u \in RentalUnitIds : SubstituteUnit(r, u)
        \/ PickUpRental(r) \/ ReturnRental(r) \/ ReleaseEarlyReturn(r)
        \/ \E outcome \in {"CLEAR", "NON_CLEAR"} : RecordInspection(r, outcome)
        \/ OpenDamageCase(r) \/ AssessDamageCase(r) \/ WaiveDamageCase(r) \/ CloseDamageCase(r)
    BY <1>2 DEF RentalStep
  <2>2. CASE EndRentalHold(r) \/ CancelRental(r)
    BY <1>1, <2>2, WriteRow DEF EndRentalHold, CancelRental
  <2>3. ASSUME NEW row, Writes(r, row), row.status = "CONFIRMED"
        PROVE  FALSE
    <3>1. b = row
      BY <1>1, <2>3, WriteRow
    <3>. QED BY <1>1, <2>3, <3>1
  <2>4. CASE ConfirmRental(r)
    <3>1. [a EXCEPT !.status = "CONFIRMED"].status = "CONFIRMED"
      BY <1>1, <2>4 DEF ConfirmRental, Convertible, Has, RentalRows
    <3>. QED BY <2>3, <2>4, <3>1 DEF ConfirmRental
  <2>5. ASSUME Has(r, "CONFIRMED")
        PROVE  /\ \A p : [a EXCEPT !.period = p, !.until = p.to].status = "CONFIRMED"
               /\ \A u : [a EXCEPT !.unit = u].status = "CONFIRMED"
               /\ \A custody : [a EXCEPT !.custody = custody].status = "CONFIRMED"
               /\ \A custody, day : [a EXCEPT !.custody = custody, !.returnedOn = day].status = "CONFIRMED"
               /\ \A day : [a EXCEPT !.until = day].status = "CONFIRMED"
               /\ \A outcome : [a EXCEPT !.inspection = outcome].status = "CONFIRMED"
    BY <1>1, <2>5 DEF Has, RentalRows
  <2>6. ASSUME NEW p, NEW u, RescheduleRental(r, p) \/ SubstituteUnit(r, u)
        PROVE  FALSE
    <3>1. Has(r, "CONFIRMED")
      BY <2>6 DEF RescheduleRental, MayMoveTo, SubstituteUnit, MaySubstitute
    <3>2. CASE RescheduleRental(r, p)
      BY <2>3, <2>5, <3>1, <3>2 DEF RescheduleRental
    <3>3. CASE SubstituteUnit(r, u)
      BY <2>3, <2>5, <3>1, <3>3 DEF SubstituteUnit
    <3>. QED BY <2>6, <3>2, <3>3
  <2>7. ASSUME NEW outcome, PickUpRental(r) \/ ReturnRental(r) \/ ReleaseEarlyReturn(r) \/ RecordInspection(r, outcome)
        PROVE  FALSE
    <3>1. Has(r, "CONFIRMED")
      BY <2>7 DEF PickUpRental, PickupIsOpen, ReturnRental, InCustody, BookedRentals, ReleaseEarlyReturn, ReturnedEarly,
                  RecordInspection
    <3>2. CASE PickUpRental(r)
      BY <2>3, <2>5, <3>1, <3>2 DEF PickUpRental
    <3>3. CASE ReturnRental(r)
      BY <2>3, <2>5, <3>1, <3>3 DEF ReturnRental
    <3>4. CASE ReleaseEarlyReturn(r)
      BY <2>3, <2>5, <3>1, <3>4 DEF ReleaseEarlyReturn
    <3>5. CASE RecordInspection(r, outcome)
      BY <2>3, <2>5, <3>1, <3>5 DEF RecordInspection
    <3>. QED BY <2>7, <3>2, <3>3, <3>4, <3>5
  <2>8. ASSUME NEW status, a # NoRentalRow, Writes(r, [a EXCEPT !.damage = status])
        PROVE  Has(r, "HELD") /\ b.unit = a.unit /\ Taken(r)' = Taken(r)
    <3>1. b = [a EXCEPT !.damage = status]
      BY <1>1, <2>8, WriteRow
    <3>. QED BY <1>1, <2>8, <3>1 DEF Has, Taken, RentalRows
  <2>9. CASE OpenDamageCase(r) \/ AssessDamageCase(r) \/ WaiveDamageCase(r) \/ CloseDamageCase(r)
    BY <2>8, <2>9 DEF OpenDamageCase, AssessDamageCase, WaiveDamageCase, CloseDamageCase, MoveDamageCase, Has
  <2>. QED BY <2>1, <2>2, <2>4, <2>6, <2>7, <2>9
<1>. QED BY <1>2

\* A row that takes no more of its unit than it did takes nothing from a hold.
LEMMA FewerDatesOverlap ==
    ASSUME RowsInv, RowsInv', NEW r \in Rentals, StayShrinks(r), Has(r, "CONFIRMED")',
           NEW q, q.from \in Int, q.to \in Int, PeriodsOverlap(Taken(r)', q)
    PROVE  PeriodsOverlap(Taken(r), q)
<1>1. RentalsTypeOK /\ RentalsTypeOK' /\ rentals[r] # NoRentalRow /\ rentals'[r] # NoRentalRow
  BY DEF RowsInv, StayShrinks, Has
<1>2. rentals'[r].until \in Nat
  BY <1>1, RentalDaysAssumption DEF RentalsTypeOK, RentalRows
<1>3. rentals[r].until \in Nat /\ rentals'[r].until <= rentals[r].until
      /\ rentals'[r].period.from = rentals[r].period.from
  BY <1>1, RowType DEF StayShrinks
<1>4. q.from < rentals'[r].until => q.from < rentals[r].until
  BY <1>2, <1>3
<1>. QED BY <1>3, <1>4 DEF PeriodsOverlap, Taken

LEMMA HoldLosesToStale ==
    ASSUME RowsInv, RowsInv', NEW r \in Rentals, RentalStep(r), NEW h \in HeldRentals', HoldTaken(h)'
    PROVE  h \in HeldRentals /\ (HoldTaken(h) \/ Unseen(h))
<1>1. /\ RowMoves(r) /\ UNCHANGED rentalBlocks /\ RentalsTypeOK
      /\ \A s \in Rentals : s # r => rentals'[s] = rentals[s]
  BY RentalRowStep, OtherRows DEF RowsInv
<1>2. /\ h \in Rentals /\ Blocked' = Blocked
      /\ \A s \in Rentals : s # r =>
             /\ Taken(s)' = Taken(s)
             /\ s \in HeldRentals' <=> s \in HeldRentals
             /\ s \in BookedRentals' <=> s \in BookedRentals
      /\ HeldRentals \cup BookedRentals \subseteq Rentals
      /\ (HeldRentals \cup BookedRentals)' \subseteq Rentals
  BY <1>1 DEF HeldRentals, BookedRentals, Blocked, Has, Taken
<1>3. \/ \E k \in Blocked : /\ rentalBlocks[k].unit = rentals'[h].unit
                            /\ PeriodsOverlap(rentalBlocks[k].period, Taken(h)')
      \/ \E s \in (HeldRentals \cup BookedRentals)' : /\ s # h /\ rentals'[s].unit = rentals'[h].unit
                                                      /\ PeriodsOverlap(Taken(s)', Taken(h)')
  BY <1>1, <1>2 DEF HoldTaken, UnitTaken
<1>4. CASE h = r
  <2>1. Has(r, "HELD")'
    BY <1>4 DEF HeldRentals
  <2>2. ASSUME NEW u \in RentalUnitIds, NEW p \in RentalPeriods, CreateRentalHold(r, u, p)
        PROVE  FALSE
    <3>1. rentals'[r].unit = u /\ Taken(r)' = [from |-> p.from, to |-> p.to]
      BY <1>1, <2>2, WriteRow DEF CreateRentalHold, Taken
    <3>2. ~UnitTaken(u, p, HeldRentals, r)
      BY <2>2 DEF CreateRentalHold, UnitAccepts
    <3>. QED BY <1>1, <1>2, <1>3, <1>4, <3>1, <3>2 DEF UnitTaken, PeriodsOverlap
  <2>3. CASE Has(r, "HELD") /\ rentals'[r].unit = rentals[r].unit /\ Taken(r)' = Taken(r)
    <3>1. h \in HeldRentals
      BY <1>4, <2>3 DEF HeldRentals
    <3>. QED BY <1>1, <1>2, <1>3, <1>4, <2>3, <3>1, HeldTaken
  <2>. QED BY <2>1, <2>2, <2>3, HeldStep
<1>5. CASE h # r
  <2>1. h \in HeldRentals /\ rentals'[h] = rentals[h] /\ Taken(h)' = Taken(h)
    BY <1>1, <1>2, <1>5
  <2>2. ASSUME NEW k \in Blocked, rentalBlocks[k].unit = rentals[h].unit,
               PeriodsOverlap(rentalBlocks[k].period, Taken(h))
        PROVE  HoldTaken(h)
    BY <2>2, HeldTaken
  <2>3. ASSUME NEW s \in (HeldRentals \cup BookedRentals)', s # r, s # h, rentals'[s].unit = rentals[h].unit,
               PeriodsOverlap(Taken(s)', Taken(h))
        PROVE  HoldTaken(h)
    BY <1>1, <1>2, <2>3, HeldTaken
  <2>4. ASSUME r \in (HeldRentals \cup BookedRentals)', rentals'[r].unit = rentals[h].unit,
               PeriodsOverlap(Taken(r)', Taken(h))
        PROVE  HoldTaken(h) \/ Unseen(h)
    <3>1. ASSUME NEW u \in RentalUnitIds, NEW p \in RentalPeriods, CreateRentalHold(r, u, p)
          PROVE  FALSE
      <4>1. rentals'[r].unit = u /\ Taken(r)' = [from |-> p.from, to |-> p.to]
        BY <1>1, <3>1, WriteRow DEF CreateRentalHold, Taken
      <4>2. ~UnitTaken(u, p, HeldRentals, r)
        BY <3>1 DEF CreateRentalHold, UnitAccepts
      <4>3. h \in (HeldRentals \cup BookedRentals) \ {r} /\ rentals[h].unit = u
        BY <1>5, <2>1, <2>4, <4>1
      <4>4. PeriodsOverlap(Taken(h), p)
        BY <2>4, <4>1 DEF PeriodsOverlap
      <4>. QED BY <4>2, <4>3, <4>4 DEF UnitTaken
    <3>2. CASE Has(r, "HELD") /\ rentals'[r].unit = rentals[r].unit /\ Taken(r)' = Taken(r)
      <4>1. r \in HeldRentals
        BY <3>2 DEF HeldRentals
      <4>. QED BY <1>5, <2>4, <3>2, <4>1, HeldTaken
    <3>3. CASE Has(r, "CONFIRMED")'
      <4>1. CASE StayShrinks(r)
        <5>1. r \in BookedRentals /\ rentals'[r].unit = rentals[r].unit
          BY <4>1 DEF StayShrinks, BookedRentals
        <5>2. Taken(h).from \in Int /\ Taken(h).to \in Int
          BY <1>1, <2>1, RowType, PeriodType DEF Taken, HeldRentals, Has
        <5>3. PeriodsOverlap(Taken(r), Taken(h))
          BY <2>4, <3>3, <4>1, <5>2, FewerDatesOverlap
        <5>. QED BY <1>5, <2>4, <5>1, <5>3, HeldTaken
      <4>2. CASE StayIsFree(r)
        <5>1. rentalSnapshot # NoSnapshot
          BY <4>2 DEF StayIsFree
        <5>2. h \notin SeenHolds
          BY <1>5, <2>4, <4>2 DEF StayIsFree, UnitTaken, PeriodsOverlap, Taken
        <5>. QED BY <2>1, <5>1, <5>2 DEF SeenHolds, Unseen
      <4>. QED BY <1>1, <3>3, <4>1, <4>2, StayStep DEF StayLeaves
    <3>4. Has(r, "HELD")' \/ Has(r, "CONFIRMED")'
      BY <2>4 DEF HeldRentals, BookedRentals
    <3>. QED BY <3>1, <3>2, <3>3, <3>4, HeldStep
  <2>. QED BY <1>1, <1>3, <2>1, <2>2, <2>3, <2>4
<1>. QED BY <1>4, <1>5

LEMMA BlockTakesFromStale ==
    ASSUME RentalsTypeOK, UNCHANGED rentals, NEW h \in HeldRentals', HoldTaken(h)',
           \/ \E k \in RentalBlockIds, u \in RentalUnitIds, p \in RentalPeriods : CreateBlock(k, u, p)
           \/ \E k \in RentalBlockIds : RemoveBlock(k)
           \/ UNCHANGED rentalBlocks
    PROVE  h \in HeldRentals /\ (HoldTaken(h) \/ Unseen(h))
<1>1. /\ HeldRentals' = HeldRentals /\ BookedRentals' = BookedRentals
      /\ h \in HeldRentals /\ h \in Rentals
      /\ \A s : Taken(s)' = Taken(s)
  BY DEF HeldRentals, BookedRentals, Has, Taken
<1>2. \/ \E k \in Blocked' : /\ rentalBlocks'[k].unit = rentals[h].unit
                             /\ PeriodsOverlap(rentalBlocks'[k].period, Taken(h))
      \/ \E s \in HeldRentals \cup BookedRentals : /\ s # h /\ rentals[s].unit = rentals[h].unit
                                                   /\ PeriodsOverlap(Taken(s), Taken(h))
  BY <1>1 DEF HoldTaken, UnitTaken
<1>3. ASSUME \A k \in Blocked' : k \in Blocked /\ rentalBlocks'[k] = rentalBlocks[k]
      PROVE  HoldTaken(h)
  BY <1>2, <1>3, HeldTaken
<1>4. ASSUME NEW k \in RentalBlockIds, NEW u \in RentalUnitIds, NEW p \in RentalPeriods, CreateBlock(k, u, p)
      PROVE  HoldTaken(h) \/ Unseen(h)
  <2>1. /\ rentalBlocks'[k] = [unit |-> u, period |-> p]
        /\ \A j \in RentalBlockIds : j # k => rentalBlocks'[j] = rentalBlocks[j]
        /\ ~UnitTaken(u, p, SeenHolds, NoRentalRow) /\ rentalSnapshot # NoSnapshot
    BY <1>4 DEF CreateBlock, RentalsTypeOK, SnapshotUsed
  <2>2. ASSUME u = rentals[h].unit, PeriodsOverlap(p, Taken(h))
        PROVE  Unseen(h)
    <3>1. h \notin SeenHolds
      BY <1>1, <2>1, <2>2, RentalRowsAssumption DEF UnitTaken, PeriodsOverlap
    <3>. QED BY <1>1, <2>1, <3>1 DEF SeenHolds, Unseen
  <2>3. \A j \in Blocked' : j # k => j \in Blocked /\ rentalBlocks'[j] = rentalBlocks[j]
    BY <2>1 DEF Blocked
  <2>. QED BY <1>2, <2>1, <2>2, <2>3, HeldTaken
<1>5. ASSUME NEW k \in RentalBlockIds, RemoveBlock(k)
      PROVE  HoldTaken(h)
  BY <1>3, <1>5 DEF RemoveBlock, RentalsTypeOK, Blocked
<1>6. CASE UNCHANGED rentalBlocks
  BY <1>1, <1>3, <1>6 DEF Blocked
<1>. QED BY <1>1, <1>4, <1>5, <1>6

\* A hold is made for dates nobody takes, and it loses them only to a request whose snapshot
\* was older than the hold.
HoldsLoseOnlyToStale ==
    \A h \in HeldRentals' : HoldTaken(h)' => h \in HeldRentals /\ (HoldTaken(h) \/ Unseen(h))

LEMMA HoldsStep == RowsInv /\ [RentalsNext]_rentalVars => HoldsLoseOnlyToStale
<1>. SUFFICES ASSUME RowsInv, [RentalsNext]_rentalVars, NEW h \in HeldRentals', HoldTaken(h)'
              PROVE  h \in HeldRentals /\ (HoldTaken(h) \/ Unseen(h))
  BY DEF HoldsLoseOnlyToStale
<1>1. RowsInv' /\ RentalsTypeOK
  BY RowsStep DEF RowsInv
<1>2. ASSUME NEW r \in Rentals, RentalStep(r)
      PROVE  h \in HeldRentals /\ (HoldTaken(h) \/ Unseen(h))
  BY <1>1, <1>2, HoldLosesToStale
<1>3. ASSUME NEW u \in RentalUnitIds, UnitStep(u)
      PROVE  h \in HeldRentals /\ (HoldTaken(h) \/ Unseen(h))
  BY <1>1, <1>3, UnitStepType, BlockTakesFromStale
     DEF UnitStep, OpenWorkOrder, CloseWorkOrder, ReturnToService, TakeOutOfService, ArchiveUnit
<1>4. CASE TakeSnapshot \/ RollBack \/ NextRentalDay \/ UNCHANGED rentalVars
  BY <1>1, <1>4, BlockTakesFromStale DEF TakeSnapshot, RollBack, NextRentalDay, rentalVars
<1>5. ASSUME NEW k \in RentalBlockIds, RemoveBlock(k)
      PROVE  h \in HeldRentals /\ (HoldTaken(h) \/ Unseen(h))
  BY <1>1, <1>5, BlockTakesFromStale DEF RemoveBlock
<1>. QED BY <1>2, <1>3, <1>4, <1>5 DEF RentalsNext

\* No hold is made for dates that a block, a booking or another hold takes, and a live hold
\* loses its dates only to a Serializable request that took its snapshot before the hold was
\* made.
THEOREM HoldsLoseToSnapshots == RentalsSpec => [][HoldsLoseOnlyToStale]_rentalVars
BY RowsInit, RowsStep, HoldsStep, PTL DEF RentalsSpec

\* The snapshot a request took before it waited for the unit lock is all that is behind a hold
\* without its unit: if every waiting request saw every live hold, each hold would keep its unit.
THEOREM SnapshotsAreBehindLostHolds ==
    RentalsSpec /\ [](\A h \in HeldRentals : ~Unseen(h)) => []HoldsKeepTheirUnit
<1>1. RentalsInit => HoldsKeepTheirUnit
  BY DEF RentalsInit, HoldsKeepTheirUnit, HeldRentals, Has
<1>2. /\ RowsInv /\ HoldsKeepTheirUnit /\ (\A h \in HeldRentals : ~Unseen(h))
      /\ [RentalsNext]_rentalVars
      => HoldsKeepTheirUnit'
  BY HoldsStep DEF HoldsLoseOnlyToStale, HoldsKeepTheirUnit, HoldTaken
<1>. QED BY <1>1, <1>2, RowsInit, RowsStep, PTL DEF RentalsSpec

----------------------------------------------------------------------------
\* Units offered as available.

\* A return that leaves its unit fit to be offered.
ReturnSettled(r) ==
    /\ rentals[r].inspection # "PENDING"
    /\ rentals[r].inspection = "NON_CLEAR" => rentals[r].damage \in {"WAIVED", "CLOSED"}

LEMMA ClearUnits ==
    AvailableUnitsAreClear <=>
        \A u \in RentalUnitIds : rentalUnits[u].service = "AVAILABLE" =>
            rentalUnits[u].work = "NONE" /\ \A r \in ReturnsOf(u) : ReturnSettled(r)
BY DEF AvailableUnitsAreClear, UnitReady, ReturnsInspected, DamageResolved, ReturnSettled

\* A step that leaves a rental returned to a unit not settled quarantines the unit, or the
\* return was not settled before.
LEMMA ReturnStep ==
    ASSUME RowsInv, NEW r \in Rentals, RentalStep(r), NEW u \in RentalUnitIds, r \in ReturnsOf(u)'
    PROVE  \/ Quarantine(u)
           \/ ReturnSettled(r)'
           \/ r \in ReturnsOf(u) /\ ~ReturnSettled(r)
<1>. DEFINE a == rentals[r]
            b == rentals'[r]
<1>1. b # NoRentalRow /\ b.status = "CONFIRMED" /\ b.custody = "RETURNED" /\ b.unit = u
  BY DEF ReturnsOf, BookedRentals, Has
<1>2. RentalsTypeOK
  BY DEF RowsInv
<1>3. a # NoRentalRow => a \in RentalRows /\ (a.status = "HELD" => a.custody = "AWAITING_PICKUP")
  BY <1>2, RowType DEF RowsInv, RowsFollow, RowFollows
<1>4. ASSUME a # NoRentalRow, b.status = a.status, b.custody = a.custody, b.unit = a.unit,
             b.inspection = a.inspection, b.damage = a.damage
      PROVE  ReturnSettled(r)' \/ (r \in ReturnsOf(u) /\ ~ReturnSettled(r))
  BY <1>1, <1>4 DEF ReturnsOf, BookedRentals, Has, ReturnSettled
\* Steps whose row is not returned.
<1>5. ASSUME NEW v \in RentalUnitIds, NEW p \in RentalPeriods, CreateRentalHold(r, v, p)
      PROVE  FALSE
  BY <1>1, <1>2, <1>5, WriteRow DEF CreateRentalHold
<1>6. CASE EndRentalHold(r) \/ CancelRental(r)
  BY <1>1, <1>2, <1>6, WriteRow DEF EndRentalHold, CancelRental
<1>7. CASE ConfirmRental(r)
  <2>1. a # NoRentalRow /\ a.status = "HELD" /\ b = [a EXCEPT !.status = "CONFIRMED"]
    BY <1>2, <1>7, WriteRow DEF ConfirmRental, Convertible, Has
  <2>. QED BY <1>1, <1>3, <2>1 DEF RentalRows
<1>8. ASSUME NEW p \in RentalPeriods, RescheduleRental(r, p)
      PROVE  FALSE
  <2>1. a # NoRentalRow /\ a.custody # "RETURNED" /\ b = [a EXCEPT !.period = p, !.until = p.to]
    BY <1>2, <1>8, WriteRow DEF RescheduleRental, MayMoveTo, Has
  <2>. QED BY <1>1, <1>3, <2>1 DEF RentalRows
<1>9. ASSUME NEW v \in RentalUnitIds, SubstituteUnit(r, v)
      PROVE  FALSE
  <2>1. a # NoRentalRow /\ a.custody = "AWAITING_PICKUP" /\ b = [a EXCEPT !.unit = v]
    BY <1>2, <1>9, WriteRow DEF SubstituteUnit, MaySubstitute, Has
  <2>. QED BY <1>1, <1>3, <2>1 DEF RentalRows
<1>10. CASE PickUpRental(r)
  <2>1. a # NoRentalRow /\ b = [a EXCEPT !.custody = "PICKED_UP"]
    BY <1>2, <1>10, WriteRow DEF PickUpRental, PickupIsOpen, Has
  <2>. QED BY <1>1, <1>3, <2>1 DEF RentalRows
\* Steps that quarantine.
<1>11. CASE ReturnRental(r)
  <2>1. a # NoRentalRow /\ b = [a EXCEPT !.custody = "RETURNED", !.returnedOn = rentalDay]
    BY <1>2, <1>11, WriteRow DEF ReturnRental, InCustody, BookedRentals, Has
  <2>2. b.unit = a.unit
    BY <1>3, <2>1 DEF RentalRows
  <2>. QED BY <1>1, <1>11, <2>2 DEF ReturnRental
<1>12. CASE OpenDamageCase(r)
  <2>1. a # NoRentalRow /\ b = [a EXCEPT !.damage = "OPEN"]
    BY <1>2, <1>12, WriteRow DEF OpenDamageCase, Has
  <2>2. b.unit = a.unit
    BY <1>3, <2>1 DEF RentalRows
  <2>. QED BY <1>1, <1>12, <2>2 DEF OpenDamageCase
<1>13. ASSUME NEW outcome \in {"CLEAR", "NON_CLEAR"}, RecordInspection(r, outcome)
       PROVE  Quarantine(u) \/ ReturnSettled(r)'
  <2>1. a # NoRentalRow /\ b = [a EXCEPT !.inspection = outcome]
    BY <1>2, <1>13, WriteRow DEF RecordInspection, Has
  <2>2. b.unit = a.unit /\ b.inspection = outcome
    BY <1>3, <2>1 DEF RentalRows
  <2>3. outcome # "CLEAR" => Quarantine(a.unit)
    BY <1>13 DEF RecordInspection
  <2>. QED BY <1>1, <1>13, <2>2, <2>3 DEF ReturnSettled
\* The others.
<1>14. CASE ReleaseEarlyReturn(r)
  <2>1. a # NoRentalRow /\ b = [a EXCEPT !.until = a.returnedOn + 1]
    BY <1>2, <1>14, WriteRow DEF ReleaseEarlyReturn, ReturnedEarly, Has
  <2>. QED BY <1>3, <1>4, <2>1 DEF RentalRows
<1>15. ASSUME NEW status \in {"ASSESSED", "WAIVED", "CLOSED"}, MoveDamageCase(r, status)
       PROVE  ReturnSettled(r)' \/ (r \in ReturnsOf(u) /\ ~ReturnSettled(r))
  <2>1. /\ a # NoRentalRow /\ b = [a EXCEPT !.damage = status]
        /\ a.damage \in {"OPEN", "ASSESSED"}
    BY <1>2, <1>15, WriteRow DEF MoveDamageCase, DamageTransition
  <2>2. b.status = a.status /\ b.custody = a.custody /\ b.unit = a.unit /\ b.inspection = a.inspection
    BY <1>3, <2>1 DEF RentalRows
  <2>. QED BY <1>1, <2>1, <2>2 DEF ReturnsOf, BookedRentals, Has, ReturnSettled
<1>. QED BY <1>5, <1>6, <1>7, <1>8, <1>9, <1>10, <1>11, <1>12, <1>13, <1>14, <1>15
     DEF RentalStep, AssessDamageCase, WaiveDamageCase, CloseDamageCase

LEMMA ClearStep ==
    ASSUME RowsInv, AvailableUnitsAreClear, [RentalsNext]_rentalVars
    PROVE  AvailableUnitsAreClear'
<1>1. RentalsTypeOK
  BY DEF RowsInv
<1>2. ASSUME UNCHANGED <<rentals, rentalUnits>>
      PROVE  AvailableUnitsAreClear'
  BY <1>2 DEF AvailableUnitsAreClear, UnitReady, ReturnsInspected, DamageResolved, ReturnsOf, BookedRentals, Has
<1>3. ASSUME NEW r \in Rentals, RentalStep(r)
      PROVE  AvailableUnitsAreClear'
  <2>1. \A s \in Rentals : s # r => rentals'[s] = rentals[s]
    BY <1>1, <1>3, RentalRowStep, OtherRows
  <2>2. SUFFICES ASSUME NEW u \in RentalUnitIds, rentalUnits'[u].service = "AVAILABLE"
                 PROVE  rentalUnits'[u].work = "NONE" /\ \A s \in ReturnsOf(u)' : ReturnSettled(s)'
    BY DEF AvailableUnitsAreClear, UnitReady, ReturnsInspected, DamageResolved, ReturnSettled
  <2>3. rentalUnits'[u] = rentalUnits[u] /\ ~Quarantine(u)
    BY <1>1, <1>3, <2>2, RentalStepUnits, Quarantined
  <2>4. rentalUnits[u].work = "NONE" /\ \A s \in ReturnsOf(u) : ReturnSettled(s)
    BY <2>2, <2>3, ClearUnits
  <2>5. ASSUME NEW s \in ReturnsOf(u)'
        PROVE  ReturnSettled(s)'
    <3>1. s \in Rentals
      BY DEF ReturnsOf, BookedRentals
    <3>2. CASE s = r
      BY <1>3, <2>3, <2>4, <2>5, <3>1, <3>2, ReturnStep
    <3>3. CASE s # r
      BY <2>1, <2>4, <2>5, <3>1, <3>3 DEF ReturnsOf, BookedRentals, Has, ReturnSettled
    <3>. QED BY <3>2, <3>3
  <2>. QED BY <2>3, <2>4, <2>5
<1>4. ASSUME NEW u \in RentalUnitIds, UnitStep(u)
      PROVE  AvailableUnitsAreClear'
  <2>1. UNCHANGED rentals /\ \A v \in RentalUnitIds : rentalUnits[v] \in UnitRows
    BY <1>1, <1>4, UnitStepType DEF RentalsTypeOK
  <2>2. \A v \in RentalUnitIds : ReturnsOf(v)' = ReturnsOf(v) /\ \A r \in Rentals : ReturnSettled(r)' <=> ReturnSettled(r)
    BY <2>1 DEF ReturnsOf, BookedRentals, Has, ReturnSettled
  <2>3. \A v \in RentalUnitIds : rentalUnits'[v].service = "AVAILABLE" =>
          \/ rentalUnits[v].service = "AVAILABLE" /\ (rentalUnits[v].work = "NONE" => rentalUnits'[v].work = "NONE")
          \/ v = u /\ ReturnToService(u) /\ rentalUnits'[u].work = "NONE"
    <3>1. CASE OpenWorkOrder(u)
      BY <1>1, <2>1, <3>1 DEF OpenWorkOrder, RentalsTypeOK, UnitRows
    <3>2. CASE CloseWorkOrder(u) \/ ArchiveUnit(u)
      BY <1>1, <2>1, <3>2 DEF CloseWorkOrder, ArchiveUnit, RentalsTypeOK, UnitRows
    <3>3. CASE ReturnToService(u)
      BY <1>1, <2>1, <3>3 DEF ReturnToService, RentalsTypeOK, UnitRows
    <3>4. CASE TakeOutOfService(u)
      BY <1>1, <3>4, Quarantined DEF TakeOutOfService
    <3>5. CASE UNCHANGED rentalUnits
      BY <3>5
    <3>. QED BY <1>4, <3>1, <3>2, <3>3, <3>4, <3>5 DEF UnitStep, CreateBlock
  <2>4. ASSUME ReturnToService(u), NEW r \in ReturnsOf(u)
        PROVE  ReturnSettled(r)
    <3>1. r \in Rentals /\ rentals[r] \in RentalRows
      BY <1>1, RowType DEF ReturnsOf, BookedRentals, Has
    <3>. QED BY <2>4, <3>1 DEF ReturnToService, ReturnsInspected, UnreportedDamage, ActiveDamageCase, ReturnSettled,
             RentalRows, DamageStatus
  <2>5. \A v \in RentalUnitIds : ReturnsOf(v) \subseteq Rentals
    BY DEF ReturnsOf, BookedRentals
  <2>6. ASSUME NEW v \in RentalUnitIds, rentalUnits'[v].service = "AVAILABLE"
        PROVE  rentalUnits'[v].work = "NONE" /\ \A r \in ReturnsOf(v)' : ReturnSettled(r)'
    BY <2>2, <2>3, <2>4, <2>5, <2>6, ClearUnits
  <2>. QED BY <2>6 DEF AvailableUnitsAreClear, UnitReady, ReturnsInspected, DamageResolved, ReturnSettled
<1>. QED BY <1>2, <1>3, <1>4 DEF RentalsNext, TakeSnapshot, RollBack, RemoveBlock, NextRentalDay, rentalVars

\* A unit offered as available has every return inspected, every reported damage waived or
\* closed and no open work order, although the services that write these rows do not look at
\* each other's.
THEOREM AvailableIsClear == RentalsSpec => []AvailableUnitsAreClear
<1>1. RentalsInit => AvailableUnitsAreClear
  BY DEF RentalsInit, AvailableUnitsAreClear, UnitReady, ReturnsInspected, DamageResolved, ReturnsOf, BookedRentals, Has
<1>2. RowsInv /\ AvailableUnitsAreClear /\ [RentalsNext]_rentalVars => AvailableUnitsAreClear'
  BY ClearStep
<1>. QED BY <1>1, <1>2, RowsInit, RowsStep, PTL DEF RentalsSpec

-----------------------------------------------------------------------------
(* Rental charges *)

(* What a damage liability and the bond rely on: their rows have their types,   *)
(* and a bond was only ever kept for a liability of its own amount that nobody  *)
(* has paid, which no later payment or decision may then touch.                 *)
ChargesInv ==
    /\ rentalBond \in BondStates
    /\ rentalDamage \in [amount : LiabilityAmounts \cup {0}, settlement : ChargeStates]
    /\ rentalBond = "FORFEITED" => rentalDamage = [amount |-> BondAmount, settlement |-> "UNPAID"]

(* The steps that touch neither the bond nor the liability. *)
LEMMA PriceKeepsCharges ==
    ASSUME PriceNext
    PROVE UNCHANGED <<rentalBond, rentalDamage>>
  <1> USE DEF rentalCharges
  <1>1. CASE \E amount \in 1..EffectiveTotal :
                PayRental(amount) \/ RefundRental(amount) \/ RefundAppliedRental(amount)
    BY <1>1 DEF PayRental, RefundRental, RefundAppliedRental
  <1>2. CASE \E delta \in RentalDeltas : PrepareRentalAmendment(delta)
    BY <1>2 DEF PrepareRentalAmendment
  <1>3. CASE \E n \in DOMAIN rentalAmendments :
                \/ RentalAmendmentFallsDue(n) \/ CancelRentalAmendment(n)
                \/ SettleRentalAmendment(n) \/ CompensateRentalAmendment(n)
                \/ ApplyRentalAmendment(n)
    BY <1>3 DEF RentalAmendmentFallsDue, CancelRentalAmendment, SettleRentalAmendment,
                CompensateRentalAmendment, ApplyRentalAmendment
  <1>4. CASE CancelRentalBooking
    BY <1>4 DEF CancelRentalBooking
  <1>5. QED  BY <1>1, <1>2, <1>3, <1>4 DEF PriceNext

LEMMA ChargesInit == RentalLedgerInit => ChargesInv
  BY DEF RentalLedgerInit, ChargesInv, BondStates, ChargeStates

(* Decisions and payments of the liability find no forfeited bond.             *)
LEMMA DamageStepKeepsCharges ==
    ASSUME ChargesInv,
           \/ \E amount \in LiabilityAmounts \cup {0} : DecideLiability(amount)
           \/ PayDamage \/ RefundDamage
    PROVE ChargesInv'
  <1> USE DEF ChargesInv, BondStates, ChargeStates
  <1>1. ASSUME NEW amount \in LiabilityAmounts \cup {0}, DecideLiability(amount)
        PROVE ChargesInv'
    BY <1>1 DEF DecideLiability
  <1>2. CASE PayDamage
    BY <1>2 DEF PayDamage, SettleDamage
  <1>3. CASE RefundDamage
    BY <1>3 DEF RefundDamage, SettleDamage
  <1>4. QED  BY <1>1, <1>2, <1>3

(* Of the bond's own steps, forfeiture alone looks at the liability.           *)
LEMMA BondStepKeepsCharges ==
    ASSUME ChargesInv, RequireBond \/ CollectBond \/ ReleaseBond \/ ForfeitBond
    PROVE ChargesInv'
  <1> USE DEF ChargesInv, BondStates
  <1>1. CASE RequireBond  BY <1>1 DEF RequireBond
  <1>2. CASE CollectBond  BY <1>2 DEF CollectBond
  <1>3. CASE ReleaseBond  BY <1>3 DEF ReleaseBond
  <1>4. CASE ForfeitBond  BY <1>4 DEF ForfeitBond
  <1>5. QED  BY <1>1, <1>2, <1>3, <1>4

LEMMA ChargesStep == ChargesInv /\ [RentalLedgerNext]_ledgerVars => ChargesInv'
  <1> SUFFICES ASSUME ChargesInv, [RentalLedgerNext]_ledgerVars
               PROVE ChargesInv'
    OBVIOUS
  <1>0. ASSUME UNCHANGED <<rentalBond, rentalDamage>>
        PROVE ChargesInv'
    BY <1>0 DEF ChargesInv
  <1>1. CASE PriceNext  BY <1>0, <1>1, PriceKeepsCharges
  <1>2. CASE CustodyNext
    <2>1. CASE RecordPickup \/ RecordReturn
      BY <1>0, <2>1 DEF RecordPickup, RecordReturn, rentalCharges
    <2>2. CASE RequireBond \/ CollectBond \/ ReleaseBond \/ ForfeitBond
      BY <2>2, BondStepKeepsCharges
    <2>3. CASE \/ \E amount \in LiabilityAmounts \cup {0} : DecideLiability(amount)
               \/ PayDamage \/ RefundDamage
      BY <2>3, DamageStepKeepsCharges
    <2>4. CASE \/ \E outcome \in {"NOTHING_DUE", "UNPAID"} : AssessLateReturn(outcome)
               \/ PayLateReturn \/ RefundLateReturn
      BY <1>0, <2>4 DEF AssessLateReturn, PayLateReturn, RefundLateReturn, SettleLateReturn
    <2>5. QED  BY <1>2, <2>1, <2>2, <2>3, <2>4 DEF CustodyNext
  <1>3. CASE UNCHANGED ledgerVars  BY <1>0, <1>3 DEF ledgerVars, rentalCharges
  <1>4. QED  BY <1>1, <1>2, <1>3 DEF RentalLedgerNext

(* A damage liability is met once, by a payment or by the bond, in every order  *)
(* of decisions, payments, refunds, release and forfeiture                      *)
(* (rental-damage-settlement-service.ts, rental-security-bond-forfeiture-       *)
(* service.ts).                                                                *)
THEOREM LiabilityIsMetOnce == RentalLedgerSpec => []LiabilityMetOnce
  <1>1. ASSUME ChargesInv  PROVE LiabilityMetOnce
    <2>1. rentalDamage.amount \in Nat /\ BondAmount \in Nat
      <3>1. LiabilityAmounts \subseteq Nat /\ BondAmount \in Nat
        BY RentalMoneyAssumption DEF RentalMoneyAssumption
      <3>2. rentalDamage.amount \in LiabilityAmounts \cup {0}
        BY <1>1 DEF ChargesInv
      <3>3. \A amount \in LiabilityAmounts \cup {0} : amount \in Nat
        BY <3>1
      <3>4. QED  BY <3>1, <3>2, <3>3, Zenon
    <2>2. CASE rentalBond = "FORFEITED"
      <3>1. rentalDamage.amount = BondAmount /\ rentalDamage.settlement = "UNPAID"
        BY <1>1, <2>2 DEF ChargesInv
      <3>2. QED  BY <2>1, <2>2, <3>1 DEF LiabilityMetOnce
    <2>3. CASE rentalBond # "FORFEITED"
      BY <2>1, <2>3 DEF LiabilityMetOnce
    <2>4. QED  BY <2>2, <2>3
  <1>2. QED  BY <1>1, ChargesInit, ChargesStep, PTL DEF RentalLedgerSpec

----------------------------------------------------------------------------
\* The price: payments, refunds and amendments. An invariant the steps keep.

Unended == AmendmentsIn("PREPARED") \cup AmendmentsIn("APPLIED")

\* How the columns of an amendment go together: an ended one holds nothing, an applied one is
\* settled, and a settled decrease is within the balance of its source.
RowFits(r) ==
    /\ r.status \in {"CANCELLED", "EXPIRED"} => r.settlement # "SETTLED"
    /\ r.status = "APPLIED" => r.settlement = "SETTLED"
    /\ r.status # "APPLIED" => r.returned = 0
    /\ r.delta > 0 => r.returned <= r.delta /\ r.taken = 0
    /\ r.delta < 0 => r.returned = 0
    /\ r.settlement = "SETTLED" /\ r.delta < 0 =>
           r.taken \in DOMAIN rentalSources /\ Balances[r.taken] + r.delta >= 0

AmendmentFits(n) == RowFits(rentalAmendments[n])

MoneyInv ==
    /\ RentalLedgerTypeOK
    /\ \A s \in DOMAIN rentalSources : Balances[s] >= 0
    /\ OriginalNet <= RentalTotal
    /\ AmendmentsIn("PREPARED") # {} => PaidInFull
    /\ \A m, n \in Unended : m = n
    /\ \A n \in DOMAIN rentalAmendments : AmendmentFits(n)
    /\ ~Confirmed =>
          /\ CustomerNet = 0 /\ AmendmentsIn("PREPARED") = {}
          /\ rentalBond # "COLLECTED" /\ Custody("AWAITING_PICKUP")
    /\ ~Custody("RETURNED") => rentalDamage.settlement = "UNDECIDED" /\ rentalLate = "UNDECIDED"

----------------------------------------------------------------------------
\* What the types say of payments and amendments.
RentalRowsTyped ==
    /\ DOMAIN rentalSources = 1..Len(rentalSources) /\ IsFiniteSet(DOMAIN rentalSources)
    /\ \A s \in DOMAIN rentalSources : rentalSources[s] \in SourceRows
    /\ DOMAIN rentalAmendments = 1..Len(rentalAmendments) /\ IsFiniteSet(DOMAIN rentalAmendments)
    /\ \A n \in DOMAIN rentalAmendments :
          /\ rentalAmendments[n] \in RentalAmendmentRows
          /\ rentalAmendments[n].delta \in Int /\ rentalAmendments[n].delta # 0
          /\ RentalTotal + rentalAmendments[n].delta > 0
          /\ rentalAmendments[n].returned \in Nat
    /\ RentalTotal \in Nat /\ RentalTotal > 0
    /\ DOMAIN Balances = DOMAIN rentalSources
    /\ \A s \in DOMAIN rentalSources :
          Balances[s] \in Int /\ Balances[s] = rentalSources[s].paid - rentalSources[s].refunded

LEMMA RentalTypedRows == RentalLedgerTypeOK => RentalRowsTyped
  <1> SUFFICES ASSUME RentalLedgerTypeOK PROVE RentalRowsTyped
    OBVIOUS
  <1>1. rentalSources \in Seq(SourceRows) /\ rentalAmendments \in Seq(RentalAmendmentRows)
    BY DEF RentalLedgerTypeOK
  <1>2. /\ DOMAIN rentalSources = 1..Len(rentalSources) /\ Len(rentalSources) \in Nat
        /\ DOMAIN rentalAmendments = 1..Len(rentalAmendments) /\ Len(rentalAmendments) \in Nat
    BY <1>1
  <1>3. IsFiniteSet(DOMAIN rentalSources) /\ IsFiniteSet(DOMAIN rentalAmendments)
    BY <1>2, FS_Interval
  <1>4. /\ \A s \in DOMAIN rentalSources : rentalSources[s] \in SourceRows
        /\ \A n \in DOMAIN rentalAmendments : rentalAmendments[n] \in RentalAmendmentRows
    BY <1>1, <1>2
  <1>5. /\ RentalTotal \in Nat /\ RentalTotal > 0
        /\ RentalDeltas \subseteq {d \in Int : d # 0 /\ RentalTotal + d > 0}
    BY RentalMoneyAssumption DEF RentalMoneyAssumption
  <1>6. \A n \in DOMAIN rentalAmendments :
          /\ rentalAmendments[n].delta \in RentalDeltas /\ rentalAmendments[n].returned \in Nat
    BY <1>4 DEF RentalAmendmentRows
  <1>7. \A s \in DOMAIN rentalSources : rentalSources[s].paid \in Nat /\ rentalSources[s].refunded \in Nat
    BY <1>4 DEF SourceRows
  <1>8. /\ DOMAIN Balances = DOMAIN rentalSources
        /\ \A s \in DOMAIN rentalSources :
              Balances[s] \in Int /\ Balances[s] = rentalSources[s].paid - rentalSources[s].refunded
    BY <1>7 DEF Balances
  <1>9. QED  BY <1>2, <1>3, <1>4, <1>5, <1>6, <1>8 DEF RentalRowsTyped

LEMMA RentalTypedRowsNext == (RentalLedgerTypeOK => RentalRowsTyped)'
  BY RentalTypedRows, PTL

LEMMA NetIs ==
    ASSUME MoneyInv
    PROVE  OriginalNet = SumFunctionOnSet(Balances, DOMAIN rentalSources) /\ OriginalNet \in Nat
  <1>1. RentalRowsTyped /\ \A s \in DOMAIN rentalSources : Balances[s] \in Nat
    BY RentalTypedRows DEF MoneyInv, RentalRowsTyped
  <1>2. OriginalNet = SumFunctionOnSet(Balances, DOMAIN rentalSources)
    BY <1>1 DEF OriginalNet, SumFunction, RentalRowsTyped
  <1>3. QED  BY <1>1, <1>2, SumNat DEF RentalRowsTyped

\* What the ended amendments and the open one add to the customer's money.
LEMMA CustomerNetIs ==
    ASSUME MoneyInv
    PROVE  /\ Unended = {} => CustomerNet = OriginalNet
           /\ \A n \in Unended : CustomerNet = OriginalNet + AmendmentMoney(n) /\ AmendmentMoney(n) \in Int
  <1> DEFINE S == DOMAIN rentalAmendments
             f == [n \in S |-> AmendmentMoney(n)]
  <1>1. RentalRowsTyped /\ OriginalNet \in Nat
    BY RentalTypedRows, NetIs DEF MoneyInv
  <1>2. IsFiniteSet(S) /\ CustomerNet = OriginalNet + SumFunctionOnSet(f, S)
    BY <1>1 DEF CustomerNet, SumFunction, RentalRowsTyped
  <1>3. \A n \in S : n \notin Unended => f[n] = 0
    <2>1. SUFFICES ASSUME NEW n \in S, n \notin Unended PROVE AmendmentMoney(n) = 0
      OBVIOUS
    <2>2. rentalAmendments[n].status \in {"CANCELLED", "EXPIRED"}
      BY <1>1, <2>1 DEF Unended, AmendmentsIn, RentalRowsTyped, RentalAmendmentRows
    <2>3. rentalAmendments[n].settlement # "SETTLED"
      BY <2>2 DEF MoneyInv, RowFits, AmendmentFits
    <2>4. QED  BY <2>3 DEF AmendmentMoney
  <1>4. \A n \in S : f[n] \in Int /\ AmendmentMoney(n) \in Int /\ f[n] = AmendmentMoney(n)
    BY <1>1 DEF RentalRowsTyped, AmendmentMoney
  <1>5. \A n \in Unended : n \in S /\ \A m \in S \ {n} : m \notin Unended
    BY DEF MoneyInv, Unended, AmendmentsIn
  <1> HIDE DEF f, S
  <1>6. CASE Unended = {}
    <2>1. SumFunctionOnSet(f, S) = 0
      BY <1>2, <1>3, <1>6, SumZero
    <2>2. QED  BY <1>1, <1>2, <1>6, <2>1
  <1>7. ASSUME NEW n \in Unended
        PROVE  CustomerNet = OriginalNet + AmendmentMoney(n) /\ AmendmentMoney(n) \in Int
    <2>1. SumFunctionOnSet(f, S) = f[n]
      BY <1>2, <1>3, <1>4, <1>5, SumOnly
    <2>2. QED  BY <1>2, <1>4, <1>5, <2>1
  <1>8. QED  BY <1>6, <1>7

LEMMA DeltasOne ==
    ASSUME NEW n, rentalAmendments[n].delta \in Int
    PROVE  DeltasOf({n}) = rentalAmendments[n].delta
  <1> DEFINE f == [m \in {n} |-> rentalAmendments[m].delta]
  <1>1. DeltasOf({n}) = SumFunctionOnSet(f, {n})
    BY DEF DeltasOf, SumFunction
  <1>2. IsFiniteSet({n}) /\ n \in {n} /\ f[n] = rentalAmendments[n].delta /\ \A y \in {n} \ {n} : f[y] = 0
    BY FS_Singleton
  <1> HIDE DEF f
  <1>3. SumFunctionOnSet(f, {n}) = f[n]
    BY <1>2, SumOnly
  <1>4. QED  BY <1>1, <1>2, <1>3

LEMMA DeltasNone == DeltasOf({}) = 0
  <1> DEFINE f == [m \in {} |-> rentalAmendments[m].delta]
  <1>1. DeltasOf({}) = SumFunctionOnSet(f, {})
    BY DEF DeltasOf, SumFunction
  <1>2. QED  BY <1>1, SumEmpty

\* The effective settlement, without and with an applied amendment.
LEMMA EffectiveWithout ==
    ASSUME MoneyInv, AmendmentsIn("APPLIED") = {}
    PROVE  /\ ChargeLeft = 0 /\ EffectiveTotal = RentalTotal /\ EffectiveNet = OriginalNet
           /\ DOMAIN EffectiveBalances = DOMAIN rentalSources
           /\ \A s \in DOMAIN rentalSources : EffectiveBalances[s] = Balances[s]
  <1>1. RentalRowsTyped /\ OriginalNet \in Nat /\ OriginalNet = SumFunctionOnSet(Balances, DOMAIN rentalSources)
    BY RentalTypedRows, NetIs DEF MoneyInv
  <1>2. ChargeLeft = 0
    <2> DEFINE f == [n \in {} |-> AppliedCharge(n)]
    <2>1. ChargeLeft = SumFunctionOnSet(f, {})
      BY DEF ChargeLeft, SumFunction
    <2>2. QED  BY <2>1, SumEmpty
  <1>3. EffectiveTotal = RentalTotal
    <2>1. DeltasOf(AmendmentsIn("APPLIED")) = 0
      BY DeltasNone
    <2>2. RentalTotal \in Nat
      BY <1>1 DEF RentalRowsTyped
    <2>3. QED  BY <2>1, <2>2 DEF EffectiveTotal
  <1>4. ASSUME NEW s \in DOMAIN rentalSources
        PROVE  EffectiveBalances[s] = Balances[s]
    <2> DEFINE T == {m \in AmendmentsIn("APPLIED") : rentalAmendments[m].taken = s}
    <2>1. EffectiveBalances[s] = Balances[s] + DeltasOf(T) /\ Balances[s] \in Int
      BY <1>1 DEF EffectiveBalances, RentalRowsTyped
    <2>2. T = {}
      OBVIOUS
    <2> HIDE DEF T
    <2>3. QED  BY <2>1, <2>2, DeltasNone
  <1>5. /\ DOMAIN EffectiveBalances = DOMAIN rentalSources
        /\ \A s \in DOMAIN rentalSources : EffectiveBalances[s] = Balances[s]
    BY <1>1, <1>4 DEF EffectiveBalances, RentalRowsTyped
  <1>6. SumFunction(EffectiveBalances) = SumFunctionOnSet(EffectiveBalances, DOMAIN rentalSources)
    BY <1>5 DEF SumFunction
  <1>7. SumFunctionOnSet(EffectiveBalances, DOMAIN rentalSources) = OriginalNet
    BY <1>1, <1>5, SumAgrees DEF RentalRowsTyped
  <1>8. EffectiveNet = OriginalNet
    BY <1>1, <1>2, <1>6, <1>7 DEF EffectiveNet
  <1>9. QED  BY <1>2, <1>3, <1>5, <1>8

LEMMA EffectiveWith ==
    ASSUME MoneyInv, NEW n \in AmendmentsIn("APPLIED")
    PROVE  LET r == rentalAmendments[n] IN
           /\ AmendmentsIn("APPLIED") = {n} /\ AmendmentsIn("PREPARED") = {}
           /\ ChargeLeft = AppliedCharge(n) /\ EffectiveTotal = RentalTotal + r.delta
           /\ DOMAIN EffectiveBalances = DOMAIN rentalSources
           /\ \A s \in DOMAIN rentalSources :
                 EffectiveBalances[s] = IF r.delta < 0 /\ r.taken = s THEN Balances[s] + r.delta ELSE Balances[s]
           /\ EffectiveNet = CustomerNet /\ CustomerNet = OriginalNet + r.delta - r.returned
           /\ OriginalNet + (IF r.delta < 0 THEN r.delta ELSE 0) >= 0
  <1> DEFINE r == rentalAmendments[n]
             S == DOMAIN rentalSources
  <1>1. /\ RentalRowsTyped /\ OriginalNet \in Nat /\ OriginalNet = SumFunctionOnSet(Balances, S)
        /\ \A s \in S : Balances[s] >= 0
    BY RentalTypedRows, NetIs DEF MoneyInv
  <1>2. n \in DOMAIN rentalAmendments /\ n \in Unended /\ r.status = "APPLIED"
    BY DEF AmendmentsIn, Unended
  <1>3. /\ r \in RentalAmendmentRows /\ r.delta \in Int /\ r.delta # 0 /\ r.returned \in Nat
        /\ AmendmentFits(n) /\ r.settlement = "SETTLED"
    BY <1>1, <1>2 DEF RentalRowsTyped, MoneyInv, RowFits, AmendmentFits
  <1>4. AmendmentsIn("APPLIED") = {n} /\ AmendmentsIn("PREPARED") = {}
    <2>1. \A m \in Unended : m = n
      BY <1>2 DEF MoneyInv
    <2>2. \A m \in AmendmentsIn("PREPARED") : m \in Unended /\ rentalAmendments[m].status = "PREPARED"
      BY DEF Unended, AmendmentsIn
    <2>3. \A m \in AmendmentsIn("APPLIED") : m \in Unended
      BY DEF Unended
    <2>4. AmendmentsIn("PREPARED") = {}
      BY <1>2, <2>1, <2>2
    <2>5. QED  BY <2>1, <2>3, <2>4
  <1>5. AppliedCharge(n) \in Int
    BY <1>3 DEF AppliedCharge
  <1>6. ChargeLeft = AppliedCharge(n)
    <2> DEFINE f == [m \in {n} |-> AppliedCharge(m)]
    <2>1. ChargeLeft = SumFunctionOnSet(f, {n})
      BY <1>4 DEF ChargeLeft, SumFunction
    <2>2. IsFiniteSet({n}) /\ n \in {n} /\ f[n] = AppliedCharge(n) /\ \A y \in {n} \ {n} : f[y] = 0
      BY FS_Singleton
    <2> HIDE DEF f
    <2>3. SumFunctionOnSet(f, {n}) = f[n]
      BY <1>5, <2>2, SumOnly
    <2>4. QED  BY <2>1, <2>2, <2>3
  <1>7. EffectiveTotal = RentalTotal + r.delta
    BY <1>3, <1>4, DeltasOne DEF EffectiveTotal
  <1>8. ASSUME NEW s \in S
        PROVE  EffectiveBalances[s] = IF r.delta < 0 /\ r.taken = s THEN Balances[s] + r.delta ELSE Balances[s]
    <2> DEFINE T == {m \in AmendmentsIn("APPLIED") : rentalAmendments[m].taken = s}
    <2>1. EffectiveBalances[s] = Balances[s] + DeltasOf(T)
      BY <1>1 DEF EffectiveBalances, RentalRowsTyped
    <2>2. CASE r.taken = s
      <3>1. T = {n}
        BY <1>4, <2>2
      <3>2. r.delta < 0
        <4>1. s # 0
          BY <1>1 DEF RentalRowsTyped
        <4>2. QED  BY <1>3, <2>2, <4>1 DEF RowFits, AmendmentFits
      <3> HIDE DEF T
      <3>3. QED  BY <1>3, <2>1, <2>2, <3>1, <3>2, DeltasOne
    <2>3. CASE r.taken # s
      <3>1. T = {}
        BY <1>4, <2>3
      <3> HIDE DEF T
      <3>2. QED  BY <1>1, <2>1, <2>3, <3>1, DeltasNone DEF RentalRowsTyped
    <2>4. QED  BY <2>2, <2>3
  <1>9. DOMAIN EffectiveBalances = S
    BY <1>1 DEF EffectiveBalances, RentalRowsTyped
  <1>10. SumFunction(EffectiveBalances) = OriginalNet + (IF r.delta < 0 THEN r.delta ELSE 0)
    <2>1. SumFunction(EffectiveBalances) = SumFunctionOnSet(EffectiveBalances, S)
      BY <1>9 DEF SumFunction
    <2>2. \A s \in S : Balances[s] \in Int
      BY <1>1 DEF RentalRowsTyped
    <2>3. CASE r.delta < 0
      <3>1. r.taken \in S
        BY <1>3, <2>3 DEF RowFits, AmendmentFits
      <3>2. /\ EffectiveBalances[r.taken] = Balances[r.taken] + r.delta
            /\ \A s \in S \ {r.taken} : EffectiveBalances[s] = Balances[s]
        BY <1>8, <2>3, <3>1
      <3>3. EffectiveBalances[r.taken] \in Int
        BY <1>3, <2>2, <3>1, <3>2
      <3>4. SumFunctionOnSet(EffectiveBalances, S)
              = SumFunctionOnSet(Balances, S) - Balances[r.taken] + EffectiveBalances[r.taken]
        <4>1. PICK B, E, x : B = Balances /\ E = EffectiveBalances /\ x = r.taken
          OBVIOUS
        <4>2. IsFiniteSet(S)
          BY <1>1 DEF RentalRowsTyped
        <4> HIDE DEF r, S
        <4>3. /\ x \in S /\ E[x] \in Int
              /\ \A y \in S : B[y] \in Int
              /\ \A y \in S \ {x} : E[y] = B[y]
          BY <2>2, <3>1, <3>2, <3>3, <4>1
        <4>4. SumFunctionOnSet(E, S) = SumFunctionOnSet(B, S) - B[x] + E[x]
          BY <4>2, <4>3, SumChange
        <4>5. QED  BY <4>1, <4>4
      <3>5. Balances[r.taken] \in Int
        BY <2>2, <3>1
      <3> HIDE DEF r, S
      <3>6. QED  BY <1>1, <1>3, <2>1, <2>3, <3>2, <3>4, <3>5
    <2>4. CASE ~(r.delta < 0)
      <3>1. \A s \in S : EffectiveBalances[s] = Balances[s]
        BY <1>8, <2>4
      <3>2. SumFunctionOnSet(EffectiveBalances, S) = SumFunctionOnSet(Balances, S)
        BY <1>1, <3>1, SumAgrees DEF RentalRowsTyped
      <3>3. QED  BY <1>1, <2>1, <2>4, <3>2
    <2>5. QED  BY <2>3, <2>4
  <1>11. CustomerNet = OriginalNet + r.delta - r.returned
    BY <1>1, <1>2, <1>3, CustomerNetIs DEF AmendmentMoney
  <1>12. EffectiveNet = CustomerNet
    <2>1. AppliedCharge(n) = IF r.delta > 0 THEN r.delta - r.returned ELSE 0
      BY DEF AppliedCharge
    <2>2. r.delta < 0 => r.returned = 0
      BY <1>3 DEF RowFits, AmendmentFits
    <2> HIDE DEF r, S
    <2>3. QED  BY <1>1, <1>3, <1>6, <1>10, <1>11, <2>1, <2>2 DEF EffectiveNet
  <1>13. OriginalNet + (IF r.delta < 0 THEN r.delta ELSE 0) >= 0
    <2>1. CASE r.delta < 0
      <3>1. \A s \in S : EffectiveBalances[s] \in Nat
        BY <1>1, <1>3, <1>8, <2>1 DEF RentalRowsTyped, RowFits, AmendmentFits
      <3>2. SumFunctionOnSet(EffectiveBalances, S) \in Nat
        BY <1>1, <3>1, SumNat DEF RentalRowsTyped
      <3>3. QED  BY <1>9, <1>10, <3>2 DEF SumFunction
    <2>2. QED  BY <1>1, <2>1
  <1>14. QED  BY <1>4, <1>6, <1>7, <1>8, <1>9, <1>11, <1>12, <1>13

\* The invariant is enough.
LEMMA MoneyIsWithinTerms == MoneyInv => RentalMoneyWithinTerms
  <1> SUFFICES ASSUME MoneyInv PROVE RentalMoneyWithinTerms
    OBVIOUS
  <1> DEFINE counted == {n \in DOMAIN rentalAmendments :
                           \/ rentalAmendments[n].status = "APPLIED"
                           \/ rentalAmendments[n].status = "PREPARED"
                                  /\ rentalAmendments[n].settlement = "SETTLED"}
             terms == RentalTotal + DeltasOf(counted)
  <1>1. RentalRowsTyped /\ OriginalNet \in Nat /\ OriginalNet <= RentalTotal /\ RentalTotal \in Nat
    BY RentalTypedRows, NetIs DEF MoneyInv, RentalRowsTyped
  <1>2. \A m, n \in Unended : m = n
    BY DEF MoneyInv
  <1>3. ~Confirmed =>
          /\ CustomerNet = 0 /\ AmendmentsIn("PREPARED") = {}
          /\ rentalBond # "COLLECTED" /\ Custody("AWAITING_PICKUP")
          /\ rentalDamage.settlement = "UNDECIDED" /\ rentalLate = "UNDECIDED"
    BY DEF MoneyInv, Custody
  <1>4. counted \subseteq Unended
    BY DEF Unended, AmendmentsIn
  <1>5. ASSUME AmendmentsIn("APPLIED") = {}, AmendmentsIn("PREPARED") = {}
        PROVE  CustomerNet \in 0..terms /\ Reconciled /\ EffectiveNet = CustomerNet
    <2>1. Unended = {} /\ counted = {}
      BY <1>4, <1>5 DEF Unended
    <2>2. CustomerNet = OriginalNet /\ EffectiveNet = OriginalNet /\ EffectiveTotal = RentalTotal
      BY <1>5, <2>1, CustomerNetIs, EffectiveWithout
    <2>3. terms = RentalTotal
      BY <1>1, <2>1, DeltasNone
    <2>4. \A s \in DOMAIN EffectiveBalances : EffectiveBalances[s] >= 0
      BY <1>5, EffectiveWithout DEF MoneyInv
    <2>5. QED  BY <1>1, <1>5, <2>2, <2>3, <2>4 DEF Reconciled
  <1>6. ASSUME NEW n \in AmendmentsIn("APPLIED")
        PROVE  /\ CustomerNet \in 0..terms /\ Reconciled /\ EffectiveNet = CustomerNet
               /\ AmendmentsIn("PREPARED") = {}
    <2> DEFINE r == rentalAmendments[n]
    <2>1. /\ AmendmentsIn("APPLIED") = {n} /\ AmendmentsIn("PREPARED") = {}
          /\ EffectiveTotal = RentalTotal + r.delta /\ EffectiveNet = CustomerNet
          /\ CustomerNet = OriginalNet + r.delta - r.returned
          /\ OriginalNet + (IF r.delta < 0 THEN r.delta ELSE 0) >= 0
          /\ DOMAIN EffectiveBalances = DOMAIN rentalSources
          /\ \A s \in DOMAIN rentalSources :
                 EffectiveBalances[s] = IF r.delta < 0 /\ r.taken = s THEN Balances[s] + r.delta ELSE Balances[s]
      BY EffectiveWith
    <2>2. n \in DOMAIN rentalAmendments /\ r.status = "APPLIED" /\ n \in Unended
      BY DEF AmendmentsIn, Unended
    <2>3. AmendmentFits(n) /\ r.delta \in Int /\ r.delta # 0 /\ r.returned \in Nat
      BY <1>1, <2>2 DEF MoneyInv, RentalRowsTyped
    <2>4. counted = {n}
      <3>1. n \in counted
        BY <2>2
      <3>2. QED  BY <1>2, <1>4, <2>2, <3>1
    <2>5. terms = RentalTotal + r.delta
      BY <2>3, <2>4, DeltasOne
    <2>6. \A s \in DOMAIN EffectiveBalances : EffectiveBalances[s] >= 0
      BY <2>1, <2>2, <2>3 DEF MoneyInv, RowFits, AmendmentFits
    <2>7. r.delta < 0 => r.returned = 0
      BY <2>3 DEF RowFits, AmendmentFits
    <2>8. r.delta > 0 => r.returned <= r.delta
      BY <2>3 DEF RowFits, AmendmentFits
    <2> HIDE DEF r, terms, counted
    <2>9. CustomerNet \in 0..(RentalTotal + r.delta)
      BY <1>1, <2>1, <2>3, <2>7, <2>8
    <2>10. QED  BY <2>1, <2>5, <2>6, <2>9 DEF Reconciled
  <1>7. ASSUME NEW n \in AmendmentsIn("PREPARED")
        PROVE  CustomerNet \in 0..terms /\ CustomerNet = terms
    <2> DEFINE r == rentalAmendments[n]
    <2>1. n \in DOMAIN rentalAmendments /\ r.status = "PREPARED" /\ n \in Unended
      BY DEF AmendmentsIn, Unended
    <2>2. /\ AmendmentFits(n) /\ r.delta \in Int /\ r.returned \in Nat /\ RentalTotal + r.delta > 0
          /\ OriginalNet = RentalTotal
      BY <1>1, <2>1 DEF MoneyInv, RentalRowsTyped, PaidInFull
    <2>3. r.returned = 0
      BY <2>1, <2>2 DEF RowFits, AmendmentFits
    <2>4. CustomerNet = OriginalNet + AmendmentMoney(n)
      BY <2>1, CustomerNetIs
    <2>5. CASE r.settlement = "SETTLED"
      <3>1. n \in counted
        BY <2>1, <2>5
      <3>2. counted = {n}
        BY <1>2, <1>4, <2>1, <3>1
      <3>3. terms = RentalTotal + r.delta
        BY <2>2, <3>2, DeltasOne
      <3>4. AmendmentMoney(n) = r.delta
        BY <2>2, <2>3, <2>5 DEF AmendmentMoney
      <3>5. QED  BY <1>1, <2>2, <2>4, <3>3, <3>4
    <2>6. CASE r.settlement # "SETTLED"
      <3>1. n \notin counted
        BY <2>1, <2>6
      <3>2. counted = {}
        BY <1>2, <1>4, <2>1, <3>1
      <3>3. terms = RentalTotal
        <4> HIDE DEF counted
        <4>1. DeltasOf(counted) = 0
          BY <3>2, DeltasNone
        <4>2. QED  BY <1>1, <4>1
      <3>4. AmendmentMoney(n) = 0
        BY <2>6 DEF AmendmentMoney
      <3>5. QED  BY <1>1, <2>2, <2>4, <3>3, <3>4
    <2>7. QED  BY <2>5, <2>6
  <1>8. CustomerNet \in 0..terms
    BY <1>5, <1>6, <1>7
  <1>9. IF AmendmentsIn("PREPARED") # {}
          THEN CustomerNet = terms
          ELSE Reconciled /\ EffectiveNet = CustomerNet
    BY <1>5, <1>6, <1>7
  <1>10. QED  BY <1>2, <1>3, <1>8, <1>9 DEF RentalMoneyWithinTerms, Unended

----------------------------------------------------------------------------
\* The steps of the price.

LEMMA MoneyInit == RentalLedgerInit => MoneyInv
  <1> SUFFICES ASSUME RentalLedgerInit PROVE MoneyInv
    OBVIOUS
  <1>1. /\ rentalBooking = [status |-> "CONFIRMED", custody |-> "AWAITING_PICKUP"]
        /\ rentalSources = <<>> /\ rentalAmendments = <<>>
        /\ rentalDamage = [amount |-> 0, settlement |-> "UNDECIDED"] /\ rentalLate = "UNDECIDED"
    BY DEF RentalLedgerInit
  <1>2. RentalLedgerTypeOK
    BY RentalMoneyAssumption
       DEF RentalLedgerInit, RentalLedgerTypeOK, RentalMoneyAssumption, BondStates, ChargeStates
  <1>3. /\ AmendmentsIn("PREPARED") = {} /\ AmendmentsIn("APPLIED") = {} /\ Confirmed
        /\ DOMAIN rentalSources = {} /\ DOMAIN rentalAmendments = {}
    BY <1>1 DEF AmendmentsIn, Confirmed
  <1>4. OriginalNet = 0
    <2>1. DOMAIN Balances = {}
      BY <1>3 DEF Balances
    <2>2. QED  BY <2>1, SumEmpty DEF OriginalNet, SumFunction
  <1>5. OriginalNet <= RentalTotal
    BY <1>2, <1>4, RentalTypedRows DEF RentalRowsTyped
  <1>6. QED  BY <1>1, <1>2, <1>3, <1>5 DEF MoneyInv, Unended

\* A step that leaves the price and its amendments alone.
LEMMA MoneyIsKept ==
    ASSUME MoneyInv, RentalLedgerTypeOK', UNCHANGED rentalMoney,
           ~Confirmed' =>
               /\ CustomerNet = 0 /\ AmendmentsIn("PREPARED") = {}
               /\ rentalBond' # "COLLECTED" /\ rentalBooking'.custody = "AWAITING_PICKUP",
           rentalBooking'.custody # "RETURNED" =>
               rentalDamage'.settlement = "UNDECIDED" /\ rentalLate' = "UNDECIDED"
    PROVE  MoneyInv'
  <1>1. rentalSources' = rentalSources /\ rentalAmendments' = rentalAmendments
    BY DEF rentalMoney
  <1>2. Balances' = Balances
    BY <1>1 DEF Balances
  <1>3. /\ OriginalNet' = OriginalNet /\ PaidInFull' = PaidInFull
        /\ AmendmentsIn("PREPARED")' = AmendmentsIn("PREPARED") /\ Unended' = Unended
        /\ \A n : AmendmentFits(n)' = AmendmentFits(n)
    BY <1>1, <1>2 DEF OriginalNet, PaidInFull, AmendmentsIn, Unended, AmendmentFits, RowFits
  <1>4. CustomerNet' = CustomerNet
    BY <1>1, <1>3 DEF CustomerNet, AmendmentMoney
  <1>5. ~Confirmed' => /\ CustomerNet' = 0 /\ AmendmentsIn("PREPARED")' = {}
                       /\ rentalBond' # "COLLECTED" /\ Custody("AWAITING_PICKUP")'
    BY <1>3, <1>4 DEF Custody
  <1>6. ~Custody("RETURNED")' => rentalDamage'.settlement = "UNDECIDED" /\ rentalLate' = "UNDECIDED"
    BY DEF Custody
  <1>7. QED  BY <1>1, <1>2, <1>3, <1>5, <1>6 DEF MoneyInv

\* A step that rewrites the amendment that has not ended.
LEMMA RowIsWritten ==
    ASSUME MoneyInv, Confirmed, NEW n \in Unended, NEW row \in RentalAmendmentRows,
           Sets(n, row), UNCHANGED <<rentalBooking, rentalSources, rentalCharges>>,
           RowFits(row), row.status = "PREPARED" => rentalAmendments[n].status = "PREPARED"
    PROVE  MoneyInv'
  <1>1. n \in DOMAIN rentalAmendments /\ RentalLedgerTypeOK
    BY DEF Unended, AmendmentsIn, MoneyInv
  <1>2. /\ rentalAmendments' = [rentalAmendments EXCEPT ![n] = row]
        /\ rentalBooking' = rentalBooking /\ rentalSources' = rentalSources
        /\ rentalBond' = rentalBond /\ rentalDamage' = rentalDamage /\ rentalLate' = rentalLate
    BY DEF Sets, rentalCharges
  <1>3. /\ rentalAmendments' \in Seq(RentalAmendmentRows)
        /\ Len(rentalAmendments') = Len(rentalAmendments)
        /\ DOMAIN rentalAmendments' = DOMAIN rentalAmendments
        /\ rentalAmendments'[n] = row
        /\ \A m \in DOMAIN rentalAmendments : m # n => rentalAmendments'[m] = rentalAmendments[m]
    BY <1>1, <1>2 DEF RentalLedgerTypeOK
  <1>4. RentalLedgerTypeOK'
    BY <1>1, <1>2, <1>3 DEF RentalLedgerTypeOK
  <1>5. Balances' = Balances
    BY <1>2 DEF Balances
  <1>6. OriginalNet' = OriginalNet /\ PaidInFull' = PaidInFull /\ Confirmed'
    BY <1>2, <1>5 DEF OriginalNet, PaidInFull, Confirmed
  <1>7. \A m \in Unended' : m = n
    BY <1>3 DEF MoneyInv, Unended, AmendmentsIn
  <1>8. AmendmentsIn("PREPARED")' # {} => AmendmentsIn("PREPARED") # {}
    <2>1. ASSUME NEW m \in AmendmentsIn("PREPARED")' PROVE m \in AmendmentsIn("PREPARED")
      BY <1>3, <1>7 DEF Unended, AmendmentsIn
    <2>2. QED  BY <2>1
  <1>9. \A m \in DOMAIN rentalAmendments' : AmendmentFits(m)'
    <2>1. RowFits(row)'
      BY <1>2, <1>5 DEF RowFits
    <2>2. ASSUME NEW m \in DOMAIN rentalAmendments, m # n PROVE AmendmentFits(m)'
      BY <1>2, <1>3, <1>5, <2>2 DEF MoneyInv, AmendmentFits, RowFits
    <2>3. AmendmentFits(n)'
      BY <1>3, <2>1 DEF AmendmentFits, RowFits
    <2>4. QED  BY <1>3, <2>2, <2>3
  <1>10. QED
    BY <1>2, <1>4, <1>5, <1>6, <1>7, <1>8, <1>9 DEF MoneyInv, Custody

LEMMA PayKeepsMoney ==
    ASSUME MoneyInv, NEW amount \in Int, amount > 0, PayRental(amount)
    PROVE  MoneyInv'
  <1> DEFINE row == [paid |-> amount, refunded |-> 0]
             S == DOMAIN rentalSources
             new == Len(rentalSources) + 1
  <1>1. /\ Confirmed /\ AmendmentsIn("PREPARED") = {} /\ AmendmentsIn("APPLIED") = {}
        /\ amount <= RentalTotal - OriginalNet /\ Len(rentalSources) < MaxRentalSources
        /\ rentalSources' = Append(rentalSources, row)
        /\ rentalBooking' = rentalBooking /\ rentalAmendments' = rentalAmendments
        /\ rentalBond' = rentalBond /\ rentalDamage' = rentalDamage /\ rentalLate' = rentalLate
    BY DEF PayRental, Unamended, rentalCharges
  <1>2. /\ RentalLedgerTypeOK /\ RentalRowsTyped /\ OriginalNet \in Nat
        /\ OriginalNet = SumFunctionOnSet(Balances, S)
    BY RentalTypedRows, NetIs DEF MoneyInv
  <1>3. row \in SourceRows
    BY DEF SourceRows
  <1>4. /\ rentalSources' \in Seq(SourceRows) /\ Len(rentalSources') = new
        /\ DOMAIN rentalSources' = S \cup {new} /\ new \notin S /\ new \in Int
        /\ rentalSources'[new] = row
        /\ \A s \in S : rentalSources'[s] = rentalSources[s]
    <2>1. rentalSources \in Seq(SourceRows)
      BY <1>2 DEF RentalLedgerTypeOK
    <2> HIDE DEF row
    <2>2. QED  BY <1>1, <1>3, <2>1
  <1>5. RentalLedgerTypeOK'
    BY <1>1, <1>2, <1>4, RentalMoneyAssumption DEF RentalLedgerTypeOK, RentalMoneyAssumption
  <1>6. /\ Balances'[new] = amount /\ \A s \in S : Balances'[s] = Balances[s]
        /\ DOMAIN Balances' = S \cup {new}
    BY <1>4 DEF Balances
  <1>7. OriginalNet' = OriginalNet + amount
    <2>1. OriginalNet' = SumFunctionOnSet(Balances', S \cup {new})
      BY <1>6 DEF OriginalNet, SumFunction
    <2>2. PICK B, C : B = Balances /\ C = Balances'
      OBVIOUS
    <2>3. PICK T, x : T = S /\ x = new
      OBVIOUS
    <2>4. IsFiniteSet(T) /\ x \notin T /\ \A s \in T : B[s] \in Int /\ C[s] = B[s]
      BY <1>2, <1>4, <1>6, <2>2, <2>3 DEF RentalRowsTyped
    <2>5. SumFunctionOnSet(C, T) = SumFunctionOnSet(B, T)
      BY <2>4, SumAgrees
    <2>6. C[x] = amount
      BY <1>6, <2>2, <2>3
    <2>7. SumFunctionOnSet(C, T \cup {x}) = SumFunctionOnSet(C, T) + C[x]
      BY <2>4, <2>6, SumAdd
    <2> HIDE DEF S, new
    <2>8. QED  BY <1>2, <2>1, <2>2, <2>3, <2>5, <2>6, <2>7
  <1>8. /\ \A s \in DOMAIN rentalSources' : Balances'[s] >= 0
        /\ OriginalNet' <= RentalTotal
    BY <1>1, <1>2, <1>4, <1>6, <1>7 DEF MoneyInv, RentalRowsTyped
  <1>9. /\ AmendmentsIn("PREPARED")' = {} /\ Unended' = {} /\ Confirmed'
    BY <1>1 DEF AmendmentsIn, Unended, Confirmed
  <1>10. \A n \in DOMAIN rentalAmendments' : AmendmentFits(n)'
    <2>1. ASSUME NEW n \in DOMAIN rentalAmendments PROVE AmendmentFits(n)'
      <3>1. AmendmentFits(n)
        BY DEF MoneyInv
      <3> HIDE DEF S, new
      <3>2. QED  BY <1>1, <1>4, <1>6, <3>1 DEF AmendmentFits, RowFits, S
    <2>2. QED  BY <1>1, <2>1
  <1>11. QED  BY <1>1, <1>5, <1>8, <1>9, <1>10 DEF MoneyInv, Custody

\* A refund of the original ledger, before any amendment or within what the applied one leaves.
LEMMA TakeKeepsMoney ==
    ASSUME MoneyInv, Confirmed, AmendmentsIn("PREPARED") = {},
           NEW s \in DOMAIN rentalSources, NEW amount \in Nat, amount <= Balances[s],
           \A n \in AmendmentsIn("APPLIED") : LET r == rentalAmendments[n] IN
               r.delta < 0 /\ r.taken = s => amount <= Balances[s] + r.delta,
           TakeFrom(s, amount), UNCHANGED <<rentalBooking, rentalAmendments, rentalCharges>>
    PROVE  MoneyInv'
  <1> DEFINE S == DOMAIN rentalSources
             row == [rentalSources[s] EXCEPT !.refunded = @ + amount]
  <1>1. /\ rentalSources' = [rentalSources EXCEPT ![s] = row]
        /\ rentalBooking' = rentalBooking /\ rentalAmendments' = rentalAmendments
        /\ rentalBond' = rentalBond /\ rentalDamage' = rentalDamage /\ rentalLate' = rentalLate
    BY DEF TakeFrom, rentalCharges
  <1>2. /\ RentalLedgerTypeOK /\ RentalRowsTyped /\ OriginalNet \in Nat
        /\ OriginalNet = SumFunctionOnSet(Balances, S)
    BY RentalTypedRows, NetIs DEF MoneyInv
  <1>3. row \in SourceRows /\ row.paid = rentalSources[s].paid
        /\ row.refunded = rentalSources[s].refunded + amount
        /\ row.paid \in Nat /\ rentalSources[s].refunded \in Nat
    BY <1>2 DEF SourceRows, RentalRowsTyped
  <1> HIDE DEF row
  <1>4. /\ rentalSources' \in Seq(SourceRows) /\ Len(rentalSources') = Len(rentalSources)
        /\ DOMAIN rentalSources' = S /\ rentalSources'[s] = row
        /\ \A t \in S \ {s} : rentalSources'[t] = rentalSources[t]
    BY <1>1, <1>2, <1>3 DEF RentalLedgerTypeOK
  <1>5. RentalLedgerTypeOK'
    BY <1>1, <1>2, <1>4 DEF RentalLedgerTypeOK
  <1>6. /\ DOMAIN Balances' = S /\ \A t \in S \ {s} : Balances'[t] = Balances[t]
    BY <1>4 DEF Balances
  <1>7. Balances[s] \in Int /\ Balances'[s] = Balances[s] - amount
    <2>1. Balances'[s] = row.paid - row.refunded
      BY <1>4 DEF Balances
    <2>2. Balances[s] = rentalSources[s].paid - rentalSources[s].refunded
      BY <1>2 DEF RentalRowsTyped
    <2>3. QED  BY <1>3, <2>1, <2>2
  <1>8. OriginalNet' = OriginalNet - amount
    <2>1. OriginalNet' = SumFunctionOnSet(Balances', S)
      BY <1>6 DEF OriginalNet, SumFunction
    <2>2. PICK B, C, T : B = Balances /\ C = Balances' /\ T = S
      OBVIOUS
    <2>3. /\ IsFiniteSet(T) /\ s \in T /\ C[s] \in Int
          /\ \A t \in T : B[t] \in Int
          /\ \A t \in T \ {s} : C[t] = B[t]
      BY <1>2, <1>6, <1>7, <2>2 DEF RentalRowsTyped
    <2>4. SumFunctionOnSet(C, T) = SumFunctionOnSet(B, T) - B[s] + C[s]
      BY <2>3, SumChange
    <2> HIDE DEF S
    <2>5. QED  BY <1>2, <1>7, <2>1, <2>2, <2>4
  <1>9. /\ \A t \in DOMAIN rentalSources' : Balances'[t] >= 0
        /\ OriginalNet' <= RentalTotal
    BY <1>2, <1>4, <1>6, <1>7, <1>8 DEF MoneyInv, RentalRowsTyped
  <1>10. AmendmentsIn("PREPARED")' = {} /\ Unended' = Unended /\ Confirmed'
    BY <1>1 DEF AmendmentsIn, Unended, Confirmed
  <1>11. \A n \in DOMAIN rentalAmendments' : AmendmentFits(n)'
    <2>1. ASSUME NEW n \in DOMAIN rentalAmendments PROVE AmendmentFits(n)'
      <3> DEFINE r == rentalAmendments[n]
      <3>1. AmendmentFits(n) /\ r.delta \in Int
        BY <1>2 DEF MoneyInv, RentalRowsTyped
      <3>2. r.status # "APPLIED" => r.settlement # "SETTLED"
        <4>1. r.status \in {"PREPARED", "CANCELLED", "EXPIRED", "APPLIED"}
          BY <1>2 DEF RentalRowsTyped, RentalAmendmentRows
        <4>2. r.status # "PREPARED"
          BY DEF AmendmentsIn
        <4>3. QED  BY <3>1, <4>1, <4>2 DEF AmendmentFits, RowFits
      <3>3. ASSUME r.settlement = "SETTLED", r.delta < 0
            PROVE  r.taken \in S /\ Balances'[r.taken] + r.delta >= 0
        <4>1. n \in AmendmentsIn("APPLIED")
          BY <3>2, <3>3 DEF AmendmentsIn
        <4>2. r.taken \in S /\ Balances[r.taken] + r.delta >= 0
          BY <3>1, <3>3 DEF AmendmentFits, RowFits
        <4>3. CASE r.taken = s
          BY <1>7, <3>1, <3>3, <4>1, <4>2, <4>3
        <4>4. CASE r.taken # s
          BY <1>6, <4>2, <4>4
        <4>5. QED  BY <4>3, <4>4
      <3>4. QED  BY <1>1, <1>4, <3>1, <3>3 DEF AmendmentFits, RowFits
    <2>2. QED  BY <1>1, <2>1
  <1>12. QED  BY <1>1, <1>5, <1>9, <1>10, <1>11 DEF MoneyInv, Custody

LEMMA RefundKeepsMoney ==
    ASSUME MoneyInv, NEW amount \in Nat, amount > 0,
           RefundRental(amount) \/ RefundAppliedRental(amount)
    PROVE  MoneyInv'
  <1>1. RentalRowsTyped /\ Confirmed
    BY RentalTypedRows DEF MoneyInv, RefundRental, RefundAppliedRental
  <1>2. CASE RefundRental(amount)
    <2>1. /\ AmendmentsIn("PREPARED") = {} /\ AmendmentsIn("APPLIED") = {}
          /\ UNCHANGED <<rentalBooking, rentalAmendments, rentalCharges>>
      BY <1>2 DEF RefundRental, Unamended
    <2>2. PICK s \in Largest(Balances) : amount <= Balances[s] /\ TakeFrom(s, amount)
      BY <1>2 DEF RefundRental
    <2>3. s \in DOMAIN rentalSources
      BY <1>1, <2>2 DEF Largest, RentalRowsTyped
    <2>4. QED  BY <1>1, <2>1, <2>2, <2>3, TakeKeepsMoney
  <1>3. CASE RefundAppliedRental(amount)
    <2>1. PICK n \in AmendmentsIn("APPLIED") :
             IF ChargeLeft > 0
                 THEN /\ amount <= ChargeLeft
                      /\ Sets(n, [rentalAmendments[n] EXCEPT !.returned = @ + amount])
                      /\ UNCHANGED rentalSources
                 ELSE /\ \E s \in Largest(EffectiveBalances) :
                            amount <= EffectiveBalances[s] /\ TakeFrom(s, amount)
                      /\ UNCHANGED rentalAmendments
      BY <1>3 DEF RefundAppliedRental
    <2>2. UNCHANGED <<rentalBooking, rentalCharges>>
      BY <1>3 DEF RefundAppliedRental
    <2> DEFINE r == rentalAmendments[n]
    <2>3. /\ AmendmentsIn("APPLIED") = {n} /\ AmendmentsIn("PREPARED") = {}
          /\ ChargeLeft = AppliedCharge(n)
          /\ DOMAIN EffectiveBalances = DOMAIN rentalSources
          /\ \A s \in DOMAIN rentalSources :
                EffectiveBalances[s] = IF r.delta < 0 /\ r.taken = s THEN Balances[s] + r.delta ELSE Balances[s]
      BY EffectiveWith
    <2>4. /\ n \in DOMAIN rentalAmendments /\ n \in Unended /\ r.status = "APPLIED"
      BY DEF AmendmentsIn, Unended
    <2>5. r \in RentalAmendmentRows /\ RowFits(r) /\ r.delta \in Int /\ r.returned \in Nat
      BY <1>1, <2>4 DEF RentalRowsTyped, MoneyInv, AmendmentFits
    <2>6. CASE ChargeLeft > 0
      <3> DEFINE row == [r EXCEPT !.returned = @ + amount]
      <3>1. amount <= AppliedCharge(n) /\ Sets(n, row) /\ UNCHANGED rentalSources /\ AppliedCharge(n) > 0
        BY <2>1, <2>3, <2>6
      <3>2. r.delta > 0 /\ amount <= r.delta - r.returned
        BY <2>5, <3>1 DEF AppliedCharge
      <3>3. /\ row \in RentalAmendmentRows
            /\ row.status = r.status /\ row.delta = r.delta /\ row.settlement = r.settlement
            /\ row.taken = r.taken /\ row.returned = r.returned + amount
        BY <2>5 DEF RentalAmendmentRows
      <3>4. RowFits(row)
        <4> HIDE DEF row, r
        <4>1. QED  BY <2>4, <2>5, <3>2, <3>3 DEF RowFits
      <3>5. row.status # "PREPARED"
        BY <2>4, <3>3
      <3> HIDE DEF row
      <3>6. QED  BY <1>1, <2>2, <2>4, <3>1, <3>3, <3>4, <3>5, RowIsWritten
    <2>7. CASE ~(ChargeLeft > 0)
      <3>1. UNCHANGED <<rentalBooking, rentalAmendments, rentalCharges>>
        BY <2>1, <2>2, <2>7
      <3>2. PICK s \in Largest(EffectiveBalances) : amount <= EffectiveBalances[s] /\ TakeFrom(s, amount)
        BY <2>1, <2>7
      <3>3. s \in DOMAIN rentalSources
        BY <2>3, <3>2 DEF Largest
      <3>4. amount <= Balances[s]
        BY <1>1, <2>3, <2>5, <3>2, <3>3 DEF RentalRowsTyped
      <3>5. \A m \in AmendmentsIn("APPLIED") :
               rentalAmendments[m].delta < 0 /\ rentalAmendments[m].taken = s
                   => amount <= Balances[s] + rentalAmendments[m].delta
        BY <2>3, <3>2, <3>3
      <3>6. QED  BY <1>1, <2>3, <3>1, <3>2, <3>3, <3>4, <3>5, TakeKeepsMoney
    <2>8. QED  BY <2>6, <2>7
  <1>4. QED  BY <1>2, <1>3

LEMMA PrepareKeepsMoney ==
    ASSUME MoneyInv, NEW delta \in RentalDeltas, PrepareRentalAmendment(delta)
    PROVE  MoneyInv'
  <1> DEFINE A == rentalAmendments
             D == DOMAIN rentalAmendments
             old == [n \in D |-> IF n \in AmendmentsIn("PREPARED")
                                     THEN [A[n] EXCEPT !.status = "EXPIRED"] ELSE A[n]]
             row == [delta |-> delta, status |-> "PREPARED", due |-> FALSE,
                     settlement |-> "UNSETTLED", taken |-> 0, returned |-> 0]
  <1>0. PICK new : new = Len(A) + 1
    OBVIOUS
  <1>1. /\ Confirmed /\ AmendmentsIn("APPLIED") = {} /\ PaidInFull
        /\ \A n \in AmendmentsIn("PREPARED") : A[n].settlement # "SETTLED"
        /\ Len(A) < MaxRentalAmendments /\ A' = Append(old, row)
        /\ rentalBooking' = rentalBooking /\ rentalSources' = rentalSources
        /\ rentalBond' = rentalBond /\ rentalDamage' = rentalDamage /\ rentalLate' = rentalLate
    BY DEF PrepareRentalAmendment, MayEnd, rentalCharges
  <1>2. RentalLedgerTypeOK /\ RentalRowsTyped
    BY RentalTypedRows DEF MoneyInv
  <1>3. row \in RentalAmendmentRows
    BY RentalMoneyAssumption DEF RentalAmendmentRows, RentalMoneyAssumption
  <1>4. /\ old \in Seq(RentalAmendmentRows) /\ Len(old) = Len(A)
    <2>1. A \in Seq(RentalAmendmentRows)
      BY <1>2 DEF RentalLedgerTypeOK
    <2>2. ASSUME NEW n \in D PROVE old[n] \in RentalAmendmentRows
      <3>1. A[n] \in RentalAmendmentRows
        BY <2>1
      <3>2. [A[n] EXCEPT !.status = "EXPIRED"] \in RentalAmendmentRows
        BY <3>1 DEF RentalAmendmentRows
      <3>3. QED  BY <3>1, <3>2
    <2>3. D = 1..Len(A) /\ Len(A) \in Nat /\ DOMAIN old = D
      BY <2>1
    <2> HIDE DEF old
    <2>4. old \in Seq(RentalAmendmentRows)
      <3>1. \A n \in 1..Len(A) : old[n] \in RentalAmendmentRows
        BY <2>2, <2>3
      <3>2. \E f \in [1..Len(A) -> RentalAmendmentRows] : old = f
        <4>1. old = [n \in 1..Len(A) |-> old[n]]
          BY <2>3 DEF old
        <4>2. QED  BY <3>1, <4>1
      <3>3. QED  BY <2>3, <3>2
    <2>5. QED  BY <2>3, <2>4
  <1>5. /\ A' \in Seq(RentalAmendmentRows) /\ Len(A') = new
        /\ DOMAIN A' = D \cup {new} /\ A'[new] = row
        /\ \A n \in D : n # new /\ A'[n] = old[n]
    <2>1. A \in Seq(RentalAmendmentRows)
      BY <1>2 DEF RentalLedgerTypeOK
    <2> HIDE DEF row, old
    <2>2. QED  BY <1>0, <1>1, <1>3, <1>4, <2>1
  <1>6. RentalLedgerTypeOK'
    BY <1>0, <1>1, <1>2, <1>5, RentalMoneyAssumption DEF RentalLedgerTypeOK, RentalMoneyAssumption
  <1>7. Balances' = Balances
    BY <1>1 DEF Balances
  <1>8. OriginalNet' = OriginalNet /\ PaidInFull' /\ Confirmed'
    BY <1>1, <1>7 DEF OriginalNet, PaidInFull, Confirmed
  <1>9. ASSUME NEW n \in D
        PROVE  /\ A'[n].status \in {"CANCELLED", "EXPIRED"}
               /\ AmendmentFits(n)'
    <2>1. A[n] \in RentalAmendmentRows /\ AmendmentFits(n) /\ A[n].status # "APPLIED"
      BY <1>1, <1>2 DEF RentalRowsTyped, MoneyInv, AmendmentsIn
    <2>2. CASE n \in AmendmentsIn("PREPARED")
      <3>1. /\ A'[n].status = "EXPIRED" /\ A'[n].settlement = A[n].settlement
            /\ A'[n].returned = A[n].returned /\ A'[n].delta = A[n].delta /\ A'[n].taken = A[n].taken
        BY <1>5, <2>1, <2>2 DEF RentalAmendmentRows
      <3>2. A[n].settlement # "SETTLED" /\ A[n].status = "PREPARED"
        BY <1>1, <2>2 DEF AmendmentsIn
      <3> HIDE DEF A
      <3>3. QED  BY <2>1, <3>1, <3>2 DEF AmendmentFits, RowFits, A
    <2>3. CASE n \notin AmendmentsIn("PREPARED")
      <3>1. A'[n] = A[n]
        BY <1>5, <2>3
      <3>2. A[n].status \in {"CANCELLED", "EXPIRED"}
        BY <2>1, <2>3 DEF RentalAmendmentRows, AmendmentsIn
      <3>3. QED  BY <1>1, <1>7, <2>1, <3>1, <3>2 DEF AmendmentFits, RowFits
    <2>4. QED  BY <2>2, <2>3
  <1>10. AmendmentFits(new)'
    <2>1. /\ A'[new].status = "PREPARED" /\ A'[new].settlement = "UNSETTLED"
          /\ A'[new].returned = 0 /\ A'[new].taken = 0 /\ A'[new].delta = delta
      BY <1>5
    <2>2. delta \in Int
      BY RentalMoneyAssumption DEF RentalMoneyAssumption
    <2> HIDE DEF A, row, old
    <2>3. QED  BY <2>1, <2>2 DEF AmendmentFits, RowFits, A
  <1>11. \A n \in Unended' : n = new
    BY <1>5, <1>9 DEF Unended, AmendmentsIn
  <1>12. \A n \in DOMAIN A' : AmendmentFits(n)'
    BY <1>5, <1>9, <1>10
  <1>13. QED
    BY <1>1, <1>6, <1>7, <1>8, <1>11, <1>12 DEF MoneyInv, Custody

\* What other decreases took of a source is not negative: none of them is a charge.
LEMMA TakenIsNatural ==
    ASSUME MoneyInv, NEW n, NEW s \in DOMAIN rentalSources
    PROVE  TakenByOthers(s, n) \in Nat
  <1> DEFINE T == {m \in DOMAIN rentalAmendments \ {n} : rentalAmendments[m].taken = s}
             f == [m \in T |-> -rentalAmendments[m].delta]
  <1>1. RentalRowsTyped
    BY RentalTypedRows DEF MoneyInv
  <1>2. IsFiniteSet(T)
    <2>1. IsFiniteSet(DOMAIN rentalAmendments) /\ T \subseteq DOMAIN rentalAmendments
      BY <1>1 DEF RentalRowsTyped
    <2>2. QED  BY <2>1, FS_Subset
  <1>3. ASSUME NEW m \in T PROVE f[m] \in Nat
    <2>1. rentalAmendments[m].taken = s /\ s # 0
      BY <1>1 DEF RentalRowsTyped
    <2>2. /\ rentalAmendments[m].delta \in Int /\ rentalAmendments[m].delta # 0
          /\ AmendmentFits(m)
      BY <1>1 DEF RentalRowsTyped, MoneyInv
    <2>3. rentalAmendments[m].delta < 0
      BY <2>1, <2>2 DEF AmendmentFits, RowFits
    <2>4. QED  BY <2>2, <2>3
  <1>4. TakenByOthers(s, n) = SumFunctionOnSet(f, T)
    BY DEF TakenByOthers, SumFunction
  <1> HIDE DEF f, T
  <1>5. QED  BY <1>2, <1>3, <1>4, SumNat

LEMMA AmendmentKeepsMoney ==
    ASSUME MoneyInv, NEW n \in DOMAIN rentalAmendments,
           \/ RentalAmendmentFallsDue(n) \/ CancelRentalAmendment(n)
           \/ SettleRentalAmendment(n) \/ CompensateRentalAmendment(n)
           \/ ApplyRentalAmendment(n)
    PROVE  MoneyInv'
  <1> DEFINE r == rentalAmendments[n]
  <1>1. RentalRowsTyped
    BY RentalTypedRows DEF MoneyInv
  <1>2. n \in AmendmentsIn("PREPARED")
    BY DEF RentalAmendmentFallsDue, CancelRentalAmendment, SettleRentalAmendment,
           CompensateRentalAmendment, ApplyRentalAmendment
  <1>3. n \in Unended /\ Confirmed /\ r.status = "PREPARED"
    BY <1>2 DEF Unended, AmendmentsIn, MoneyInv
  <1>4. /\ r \in RentalAmendmentRows /\ RowFits(r) /\ r.returned = 0
        /\ r.delta \in Int /\ r.delta # 0
    BY <1>1, <1>3 DEF RentalRowsTyped, MoneyInv, AmendmentFits, RowFits
  <1>5. UNCHANGED <<rentalBooking, rentalSources, rentalCharges>>
    BY DEF RentalAmendmentFallsDue, CancelRentalAmendment, SettleRentalAmendment,
           CompensateRentalAmendment, ApplyRentalAmendment
  <1>6. SUFFICES \E row \in RentalAmendmentRows : RowFits(row) /\ Sets(n, row)
    BY <1>3, <1>5, RowIsWritten
  <1>7. CASE RentalAmendmentFallsDue(n)
    <2> DEFINE row == [r EXCEPT !.due = TRUE]
    <2>1. Sets(n, row)
      BY <1>7 DEF RentalAmendmentFallsDue
    <2>2. row \in RentalAmendmentRows
      BY <1>4 DEF RentalAmendmentRows
    <2>3. RowFits(row)
      BY <1>4 DEF RowFits, RentalAmendmentRows
    <2>4. QED  BY <2>1, <2>2, <2>3
  <1>8. CASE CancelRentalAmendment(n)
    <2> DEFINE row == [r EXCEPT !.status = IF r.due THEN "EXPIRED" ELSE "CANCELLED"]
    <2>1. Sets(n, row) /\ r.settlement # "SETTLED"
      BY <1>8 DEF CancelRentalAmendment, MayEnd
    <2>2. row \in RentalAmendmentRows
      BY <1>4 DEF RentalAmendmentRows
    <2>3. /\ row.status # "APPLIED" /\ row.settlement # "SETTLED"
          /\ row.returned = 0 /\ row.delta = r.delta /\ row.taken = r.taken
      BY <1>4, <2>1 DEF RentalAmendmentRows
    <2> HIDE DEF row, r
    <2>4. RowFits(row)
      BY <1>4, <2>3 DEF RowFits
    <2>5. QED  BY <2>1, <2>2, <2>4 DEF r
  <1>9. CASE SettleRentalAmendment(n)
    <2>1. PICK s \in IF r.delta > 0 THEN {0} ELSE DecreaseSources(n) :
             Sets(n, [r EXCEPT !.settlement = "SETTLED", !.taken = s])
      BY <1>9 DEF SettleRentalAmendment
    <2> DEFINE row == [r EXCEPT !.settlement = "SETTLED", !.taken = s]
    <2>2. r.delta > 0 => s = 0
      BY <2>1
    <2>3. ASSUME r.delta < 0
          PROVE  s \in DOMAIN rentalSources /\ Balances[s] + r.delta >= 0
      <3> DEFINE left == [t \in DOMAIN Balances |-> Balances[t] - TakenByOthers(t, n)]
      <3>1. s \in DecreaseSources(n)
        BY <1>4, <2>1, <2>3
      <3>2. s \in Largest(left) /\ left[s] >= -r.delta
        BY <3>1 DEF DecreaseSources
      <3>3. s \in DOMAIN left
        BY <3>2 DEF Largest
      <3>4. s \in DOMAIN rentalSources /\ left[s] = Balances[s] - TakenByOthers(s, n)
        BY <1>1, <3>3 DEF RentalRowsTyped
      <3>5. TakenByOthers(s, n) \in Nat /\ Balances[s] \in Int
        BY <1>1, <3>4, TakenIsNatural DEF RentalRowsTyped
      <3> HIDE DEF left, r
      <3>6. QED  BY <1>4, <3>2, <3>4, <3>5
    <2>4. s \in 0..MaxRentalSources
      <3>1. Len(rentalSources) <= MaxRentalSources /\ MaxRentalSources \in Nat
        BY RentalMoneyAssumption DEF MoneyInv, RentalLedgerTypeOK, RentalMoneyAssumption
      <3>2. rentalSources \in Seq(SourceRows)
        BY DEF MoneyInv, RentalLedgerTypeOK
      <3>3. Len(rentalSources) \in Nat /\ DOMAIN rentalSources = 1..Len(rentalSources)
        BY <3>2
      <3>4. s = 0 \/ s \in DOMAIN rentalSources
        BY <1>4, <2>2, <2>3
      <3>5. QED  BY <3>1, <3>3, <3>4
    <2>5. row \in RentalAmendmentRows
      BY <1>4, <2>4 DEF RentalAmendmentRows
    <2>6. /\ row.status = "PREPARED" /\ row.settlement = "SETTLED"
          /\ row.returned = 0 /\ row.delta = r.delta /\ row.taken = s
      BY <1>3, <1>4 DEF RentalAmendmentRows
    <2>7. RowFits(row)
      <3> HIDE DEF row, r
      <3>1. QED  BY <1>4, <2>2, <2>3, <2>6 DEF RowFits
    <2>8. QED  BY <2>1, <2>5, <2>7
  <1>10. CASE CompensateRentalAmendment(n)
    <2> DEFINE row == [r EXCEPT !.settlement = "COMPENSATED"]
    <2>1. Sets(n, row)
      BY <1>10 DEF CompensateRentalAmendment
    <2>2. row \in RentalAmendmentRows
      BY <1>4 DEF RentalAmendmentRows
    <2>3. RowFits(row)
      BY <1>3, <1>4 DEF RowFits, RentalAmendmentRows
    <2>4. QED  BY <2>1, <2>2, <2>3
  <1>11. CASE ApplyRentalAmendment(n)
    <2> DEFINE row == [r EXCEPT !.status = "APPLIED"]
    <2>1. Sets(n, row) /\ r.settlement = "SETTLED"
      BY <1>11 DEF ApplyRentalAmendment
    <2>2. row \in RentalAmendmentRows
      BY <1>4 DEF RentalAmendmentRows
    <2>3. RowFits(row)
      BY <1>4, <2>1 DEF RowFits, RentalAmendmentRows
    <2>4. QED  BY <2>1, <2>2, <2>3
  <1>12. QED  BY <1>7, <1>8, <1>9, <1>10, <1>11

LEMMA CancelKeepsMoney == ASSUME MoneyInv, CancelRentalBooking PROVE MoneyInv'
  <1>1. /\ Confirmed /\ rentalBooking.custody = "AWAITING_PICKUP" /\ rentalBond # "COLLECTED"
        /\ AmendmentsIn("PREPARED") = {} /\ EffectiveNet = 0
        /\ rentalBooking' = [rentalBooking EXCEPT !.status = "CANCELLED"]
        /\ UNCHANGED rentalMoney /\ rentalBond' = rentalBond
        /\ rentalDamage' = rentalDamage /\ rentalLate' = rentalLate
    BY DEF CancelRentalBooking, Reconciled, Custody, rentalCharges
  <1>2. CustomerNet = 0
    <2>1. CASE AmendmentsIn("APPLIED") = {}
      <3>1. Unended = {}
        BY <1>1, <2>1 DEF Unended
      <3>2. QED  BY <1>1, <2>1, <3>1, CustomerNetIs, EffectiveWithout
    <2>2. CASE AmendmentsIn("APPLIED") # {}
      BY <1>1, <2>2, EffectiveWith
    <2>3. QED  BY <2>1, <2>2
  <1>3. /\ RentalLedgerTypeOK
        /\ rentalDamage.settlement = "UNDECIDED" /\ rentalLate = "UNDECIDED"
    BY <1>1 DEF MoneyInv, Custody
  <1>4. rentalBooking'.custody = "AWAITING_PICKUP" /\ RentalLedgerTypeOK'
    BY <1>1, <1>3 DEF RentalLedgerTypeOK, rentalMoney
  <1>5. QED  BY <1>1, <1>2, <1>3, <1>4, MoneyIsKept

\* Custody, the bond and the charges after a return leave the price alone; they need a
\* confirmed booking, the charges a returned unit, or a charge that was decided after one.
LEMMA CustodyKeepsMoney == ASSUME MoneyInv, CustodyNext \/ UNCHANGED ledgerVars PROVE MoneyInv'
  <1>1. /\ RentalLedgerTypeOK
        /\ rentalBooking \in [status : {"CONFIRMED", "CANCELLED"},
                              custody : {"AWAITING_PICKUP", "PICKED_UP", "RETURNED"}]
        /\ rentalDamage \in [amount : LiabilityAmounts \cup {0}, settlement : ChargeStates]
    BY DEF MoneyInv, RentalLedgerTypeOK
  <1>2. /\ ~Confirmed => /\ CustomerNet = 0 /\ AmendmentsIn("PREPARED") = {}
                         /\ rentalBond # "COLLECTED" /\ rentalBooking.custody = "AWAITING_PICKUP"
        /\ rentalBooking.custody # "RETURNED" =>
               rentalDamage.settlement = "UNDECIDED" /\ rentalLate = "UNDECIDED"
    BY DEF MoneyInv, Custody
  <1>3. CASE RecordPickup \/ RecordReturn
    <2>1. /\ Confirmed /\ rentalBooking.custody # "RETURNED"
          /\ \E c \in {"PICKED_UP", "RETURNED"} :
                rentalBooking' = [rentalBooking EXCEPT !.custody = c]
          /\ UNCHANGED rentalMoney /\ rentalBond' = rentalBond
          /\ rentalDamage' = rentalDamage /\ rentalLate' = rentalLate
      BY <1>3 DEF RecordPickup, RecordReturn, Custody, rentalCharges
    <2>2. RentalLedgerTypeOK' /\ Confirmed'
      BY <1>1, <2>1 DEF RentalLedgerTypeOK, rentalMoney, Confirmed
    <2>3. QED  BY <1>2, <2>1, <2>2, MoneyIsKept
  <1>4. CASE RequireBond \/ CollectBond \/ ReleaseBond \/ ForfeitBond
    <2>1. /\ rentalBond' \in BondStates
          /\ ~Confirmed => rentalBond' # "COLLECTED"
          /\ UNCHANGED rentalMoney /\ rentalBooking' = rentalBooking
          /\ rentalDamage' = rentalDamage /\ rentalLate' = rentalLate
      BY <1>4 DEF RequireBond, CollectBond, ReleaseBond, ForfeitBond, BondStates
    <2>2. RentalLedgerTypeOK' /\ Confirmed' = Confirmed
      BY <1>1, <2>1 DEF RentalLedgerTypeOK, rentalMoney, Confirmed
    <2>3. QED  BY <1>2, <2>1, <2>2, MoneyIsKept
  <1>5. CASE \/ \E amount \in LiabilityAmounts \cup {0} : DecideLiability(amount)
             \/ PayDamage \/ RefundDamage
    <2>1. /\ rentalBooking.custody = "RETURNED"
          /\ UNCHANGED rentalMoney /\ rentalBooking' = rentalBooking
          /\ rentalBond' = rentalBond /\ rentalLate' = rentalLate
          /\ rentalDamage' \in [amount : LiabilityAmounts \cup {0}, settlement : ChargeStates]
      BY <1>1, <1>2, <1>5 DEF DecideLiability, PayDamage, RefundDamage, SettleDamage, Custody, ChargeStates
    <2>2. RentalLedgerTypeOK' /\ Confirmed' = Confirmed
      BY <1>1, <2>1 DEF RentalLedgerTypeOK, rentalMoney, Confirmed
    <2>3. QED  BY <1>2, <2>1, <2>2, MoneyIsKept
  <1>6. CASE \/ \E outcome \in {"NOTHING_DUE", "UNPAID"} : AssessLateReturn(outcome)
             \/ PayLateReturn \/ RefundLateReturn
    <2>1. /\ rentalBooking.custody = "RETURNED"
          /\ UNCHANGED rentalMoney /\ rentalBooking' = rentalBooking
          /\ rentalBond' = rentalBond /\ rentalDamage' = rentalDamage
          /\ rentalLate' \in ChargeStates
      BY <1>2, <1>6 DEF AssessLateReturn, PayLateReturn, RefundLateReturn, SettleLateReturn, Custody, ChargeStates
    <2>2. RentalLedgerTypeOK' /\ Confirmed' = Confirmed
      BY <1>1, <2>1 DEF RentalLedgerTypeOK, rentalMoney, Confirmed
    <2>3. QED  BY <1>2, <2>1, <2>2, MoneyIsKept
  <1>7. CASE UNCHANGED ledgerVars
    <2>1. /\ UNCHANGED rentalMoney /\ rentalBooking' = rentalBooking
          /\ rentalBond' = rentalBond /\ rentalDamage' = rentalDamage /\ rentalLate' = rentalLate
      BY <1>7 DEF ledgerVars, rentalCharges
    <2>2. RentalLedgerTypeOK' /\ Confirmed' = Confirmed
      BY <1>1, <2>1 DEF RentalLedgerTypeOK, rentalMoney, Confirmed
    <2>3. QED  BY <1>2, <2>1, <2>2, MoneyIsKept
  <1>8. QED  BY <1>3, <1>4, <1>5, <1>6, <1>7 DEF CustodyNext

LEMMA MoneyStep == MoneyInv /\ [RentalLedgerNext]_ledgerVars => MoneyInv'
  <1> SUFFICES ASSUME MoneyInv, [RentalLedgerNext]_ledgerVars PROVE MoneyInv'
    OBVIOUS
  <1>1. ASSUME NEW amount \in 1..EffectiveTotal,
               PayRental(amount) \/ RefundRental(amount) \/ RefundAppliedRental(amount)
        PROVE  MoneyInv'
    <2>1. amount \in Nat /\ amount > 0
      OBVIOUS
    <2>2. QED  BY <1>1, <2>1, PayKeepsMoney, RefundKeepsMoney
  <1>2. ASSUME NEW delta \in RentalDeltas, PrepareRentalAmendment(delta) PROVE MoneyInv'
    BY <1>2, PrepareKeepsMoney
  <1>3. ASSUME NEW n \in DOMAIN rentalAmendments,
               \/ RentalAmendmentFallsDue(n) \/ CancelRentalAmendment(n)
               \/ SettleRentalAmendment(n) \/ CompensateRentalAmendment(n)
               \/ ApplyRentalAmendment(n)
        PROVE  MoneyInv'
    BY <1>3, AmendmentKeepsMoney
  <1>4. CASE PriceNext
    BY <1>1, <1>2, <1>3, <1>4, CancelKeepsMoney DEF PriceNext
  <1>5. QED  BY <1>4, CustodyKeepsMoney DEF RentalLedgerNext

\* Every row of a rental's price, amendments, bond and charges keeps its columns.
THEOREM RentalLedgerTypeCorrect == RentalLedgerSpec => []RentalLedgerTypeOK
  <1>1. MoneyInv => RentalLedgerTypeOK
    BY DEF MoneyInv
  <1>2. QED  BY <1>1, MoneyInit, MoneyStep, PTL DEF RentalLedgerSpec

\* The money of a rental stays within its terms, whatever is paid, refunded, amended and
\* cancelled, for every price, every set of amendment differences and every number of
\* payments and amendments: an open amendment owns the terms alone, the effective
\* settlement that refunds and cancels by (rental-commercial-settlement) finds what the
\* rows add up to and never a conflict, and a cancelled rental keeps nothing.
THEOREM RentalMoneyKept == RentalLedgerSpec => []RentalMoneyWithinTerms
  <1>1. QED  BY MoneyInit, MoneyStep, MoneyIsWithinTerms, PTL DEF RentalLedgerSpec

===============================================================================
