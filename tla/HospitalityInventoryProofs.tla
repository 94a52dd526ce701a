---------------------- MODULE HospitalityInventoryProofs ----------------------
(***************************************************************************)
(* Theorems about HospitalityInventory, for every property, catalogue, set *)
(* of idempotency keys, lag of a captured time and bound on the clock.     *)
(***************************************************************************)
EXTENDS HospitalityInventory, FiniteSetTheorems, TLAPS

----------------------------------------------------------------------------
\* Lemmas about the operators.

\* Writing a row keeps a table a table.
LEMMA PutTable ==
    ASSUME NEW K, NEW Rows, NEW table, IsTable(table, K, Rows), NEW k \in K, NEW row \in Rows
    PROVE  /\ IsTable(Put(table, k, row), K, Rows)
           /\ DOMAIN Put(table, k, row) = DOMAIN table \cup {k}
           /\ Put(table, k, row)[k] = row
           /\ \A j \in DOMAIN table : j # k => Put(table, k, row)[j] = table[j]
BY DEF IsTable, Put

\* Updating a row in place does, too.
LEMMA ExceptTable ==
    ASSUME NEW K, NEW Rows, NEW table, IsTable(table, K, Rows), NEW k \in DOMAIN table,
           NEW row \in Rows
    PROVE  /\ IsTable([table EXCEPT ![k] = row], K, Rows)
           /\ DOMAIN [table EXCEPT ![k] = row] = DOMAIN table
           /\ [table EXCEPT ![k] = row][k] = row
           /\ \A j \in DOMAIN table : j # k => [table EXCEPT ![k] = row][j] = table[j]
BY DEF IsTable

\* Moving a stay to other dates keeps its room type and quantity.
LEMMA MovedSpace ==
    ASSUME NEW s \in Spaces, NEW a \in Days, NEW d \in Days, a < d
    PROVE  /\ Moved(s, a, d) \in Spaces
           /\ Moved(s, a, d).roomType = s.roomType
           /\ Moved(s, a, d).quantity = s.quantity
BY DEF Moved, Spaces

\* A step of a booking's terms either confirms it or changes it to another stay and plan.
LEMMA BookingSteps ==
    ASSUME TypeOK, BookingNext
    PROVE  \E b \in BookingKeys, now \in Captured :
             \/ \E k \in HoldKeys, status \in {"CONFIRMED", "PENDING_CONFIRMATION"} :
                   Confirm(b, k, status, now)
             \/ \E key \in ChangeKeys, s \in Spaces, plan \in RatePlans :
                   ChangeTerms(b, key, s, plan, now)
<1>1. ASSUME NEW b \in DOMAIN bookings
      PROVE  bookings[b].space \in Spaces /\ bookings[b].plan \in RatePlans
  BY <1>1 DEF TypeOK, IsTable, BookingRows
<1>2. ASSUME NEW b \in BookingKeys, NEW now \in Captured, NEW key \in RescheduleKeys,
             NEW arrival \in Days, NEW departure \in Days, Reschedule(b, key, arrival, departure, now)
      PROVE  \E s \in Spaces, plan \in RatePlans : ChangeTerms(b, key, s, plan, now)
  BY <1>1, <1>2, MovedSpace DEF Reschedule
<1>3. ASSUME NEW b \in BookingKeys, NEW now \in Captured, NEW key \in ModificationKeys,
             NEW rt \in RoomTypes, NEW units \in Units, NEW plan \in RatePlans,
             ModifyTerms(b, key, rt, units, plan, now)
      PROVE  \E s \in Spaces : ChangeTerms(b, key, s, plan, now)
  <2>1. Reselected(bookings[b].space, rt, units) \in Spaces
    BY <1>1, <1>3 DEF ModifyTerms, Reselected, Spaces
  <2>. QED BY <1>3, <2>1 DEF ModifyTerms
<1>. QED BY <1>2, <1>3 DEF BookingNext, ChangeKeys

\* A transaction that changes no catalogue row, and one that changes nothing else.
LEMMA CatalogueFrame == CatalogueNext => UNCHANGED <<clock, holds, bookings, allocations, changes>>
BY DEF CatalogueNext, CreateRoom, ArchiveRoom, ArchiveRoomType, AssignRatePlan, RemoveRatePlan,
       ArchiveRatePlan, CreateWindow, ArchiveWindow, CreateRestriction, ArchiveRestriction, ledger

\* A payment event, and a cancellation, writes the status, payment class and checkout
\* flag of one booking.
LEMMA PaymentFrame ==
    ASSUME TypeOK, PaymentNext
    PROVE  /\ UNCHANGED <<clock, catalogue, holds, allocations, changes>>
           /\ \E b \in DOMAIN bookings, row \in BookingRows :
                /\ bookings' = [bookings EXCEPT ![b] = row]
                /\ row.hold = bookings[b].hold
                /\ row.space = bookings[b].space
                /\ row.plan = bookings[b].plan
<1>. DEFINE KeptRows(b) == {row \in BookingRows : /\ row.hold = bookings[b].hold
                                                 /\ row.space = bookings[b].space
                                                 /\ row.plan = bookings[b].plan}
<1>1. PICK b \in BookingKeys :
         \/ Cancel(b) \/ StartPayment(b) \/ Promote(b) \/ FailPayment(b)
         \/ \E payment \in PaymentClass, checkout \in CheckoutState : SettlePayment(b, payment, checkout)
         \/ ExpireCheckout(b) \/ RecordOfflinePayment(b) \/ RecordRefund(b) \/ ReturnRefund(b)
  BY DEF PaymentNext
<1>2. b \in DOMAIN bookings => bookings[b] \in BookingRows
  BY DEF TypeOK, IsTable
<1>3. CASE Cancel(b)
  <2>1. [bookings[b] EXCEPT !.status = "CANCELLED"] \in KeptRows(b)
    BY <1>3, <1>2 DEF Cancel, BookingRows, BookingStatus
  <2>. QED BY <1>3, <2>1 DEF Cancel
<1>4. CASE StartPayment(b)
  <2>1. [bookings[b] EXCEPT !.checkout = "PENDING"] \in KeptRows(b)
    BY <1>4, <1>2 DEF StartPayment, BookingRows, CheckoutState
  <2>. QED BY <1>4, <2>1 DEF StartPayment, PaymentStep
<1>5. CASE Promote(b)
  <2>1. [bookings[b] EXCEPT !.status = "CONFIRMED"] \in KeptRows(b)
    BY <1>5, <1>2 DEF Promote, BookingRows, BookingStatus
  <2>. QED BY <1>5, <2>1 DEF Promote, PaymentStep
<1>6. CASE FailPayment(b)
  <2>1. [bookings[b] EXCEPT !.checkout = "FAILED"] \in KeptRows(b)
    BY <1>6, <1>2 DEF FailPayment, BookingRows, CheckoutState
  <2>. QED BY <1>6, <2>1 DEF FailPayment, PaymentStep
<1>7. ASSUME NEW payment \in PaymentClass, NEW checkout \in CheckoutState,
             SettlePayment(b, payment, checkout)
      PROVE  \E row \in KeptRows(b) : b \in DOMAIN bookings /\ PaymentStep(b, row)
  <2>1. [bookings[b] EXCEPT !.checkout = checkout, !.payment = payment] \in KeptRows(b)
    BY <1>7, <1>2 DEF SettlePayment, BookingRows
  <2>. QED BY <1>7, <2>1 DEF SettlePayment
<1>8. CASE ExpireCheckout(b)
  <2>1. [bookings[b] EXCEPT !.checkout = "FAILED", !.status = "CANCELLED"] \in KeptRows(b)
    BY <1>8, <1>2 DEF ExpireCheckout, BookingRows, BookingStatus, CheckoutState
  <2>. QED BY <1>8, <2>1 DEF ExpireCheckout, PaymentStep
<1>9. CASE RecordOfflinePayment(b)
  <2>1. [bookings[b] EXCEPT !.payment = "SETTLED"] \in KeptRows(b)
    BY <1>9, <1>2 DEF RecordOfflinePayment, BookingRows, PaymentClass
  <2>. QED BY <1>9, <2>1 DEF RecordOfflinePayment, PaymentStep
<1>10. CASE RecordRefund(b)
  <2>1. [bookings[b] EXCEPT !.payment = "REFUNDED"] \in KeptRows(b)
    BY <1>10, <1>2 DEF RecordRefund, BookingRows, PaymentClass
  <2>. QED BY <1>10, <2>1 DEF RecordRefund, PaymentStep
<1>11. CASE ReturnRefund(b)
  <2>1. [bookings[b] EXCEPT !.payment = "SETTLED"] \in KeptRows(b)
    BY <1>11, <1>2 DEF ReturnRefund, BookingRows, PaymentClass
  <2>. QED BY <1>11, <2>1 DEF ReturnRefund, PaymentStep
<1>. QED BY <1>1, <1>3, <1>4, <1>5, <1>6, <1>7, <1>8, <1>9, <1>10, <1>11 DEF PaymentStep

\* A step edits the catalogue or leaves it alone.
LEMMA CatalogueOrLedger ==
    ASSUME TypeOK, [Next]_vars
    PROVE  CatalogueNext \/ UNCHANGED catalogue
<1>1. CASE Tick \/ HoldNext \/ (\E now \in Captured : ExpireHolds(now))
  BY <1>1 DEF Tick, HoldNext, CreateHold, ReleaseHold, ExpireHolds
<1>2. CASE BookingNext
  BY <1>2, BookingSteps DEF Confirm, ChangeTerms
<1>3. CASE PaymentNext
  BY <1>3, PaymentFrame
<1>. QED BY <1>1, <1>2, <1>3 DEF Next, vars

----------------------------------------------------------------------------
\* Type correctness.

\* Every captured time is a natural number, not after the clock.
LEMMA CapturedNat ==
    ASSUME TypeOK, NEW now \in Captured
    PROVE  now \in Nat /\ now <= clock /\ clock - now <= MaxLag
BY DEF Captured, TypeOK

LEMMA CatalogueTypeStep ==
    ASSUME TypeOK, CatalogueNext
    PROVE  TypeOK'
<1>. USE DEF TypeOK, ledger
<1>1. UNCHANGED <<clock, holds, bookings, allocations, changes>>
  BY CatalogueFrame
<1>2. /\ roomTypes' \subseteq RoomTypes
      /\ ratePlans' \subseteq RatePlans
      /\ assigned' \subseteq RoomTypes \X RatePlans
      /\ rooms' \in [Rooms -> RoomStatus]
      /\ windows' \subseteq WindowRows
      /\ restrictions' \subseteq RestrictionRows
  <2>1. CASE \E r \in Rooms, status \in {"ACTIVE", "OUT_OF_SERVICE"} : CreateRoom(r, status)
    BY <2>1 DEF CreateRoom, RoomStatus
  <2>2. CASE \E r \in Rooms, now \in Captured : ArchiveRoom(r, now)
    BY <2>2 DEF ArchiveRoom, RoomStatus
  <2>3. CASE \E rt \in RoomTypes : ArchiveRoomType(rt)
    BY <2>3 DEF ArchiveRoomType
  <2>4. CASE \E rt \in RoomTypes, plan \in RatePlans : AssignRatePlan(rt, plan)
    BY <2>4 DEF AssignRatePlan
  <2>5. CASE \E rt \in RoomTypes, plan \in RatePlans, now \in Captured : RemoveRatePlan(rt, plan, now)
    BY <2>5 DEF RemoveRatePlan
  <2>6. CASE \E plan \in RatePlans : ArchiveRatePlan(plan)
    BY <2>6 DEF ArchiveRatePlan
  <2>7. CASE \E w \in WindowInputs, now \in Captured : CreateWindow(w, now)
    BY <2>7, InventoryAssumption DEF CreateWindow
  <2>8. CASE \E w \in WindowInputs : ArchiveWindow(w)
    BY <2>8 DEF ArchiveWindow
  <2>9. CASE \E r \in RestrictionInputs : CreateRestriction(r)
    BY <2>9, InventoryAssumption DEF CreateRestriction
  <2>10. CASE \E r \in RestrictionInputs : ArchiveRestriction(r)
    BY <2>10 DEF ArchiveRestriction
  <2>. QED BY <2>1, <2>2, <2>3, <2>4, <2>5, <2>6, <2>7, <2>8, <2>9, <2>10 DEF CatalogueNext
<1>. QED BY <1>1, <1>2 DEF IsTable

\* The transactions on holds and bookings write rows of the right shape.
LEMMA LedgerTypeStep ==
    ASSUME TypeOK, HoldNext \/ (\E now \in Captured : ExpireHolds(now)) \/ BookingNext
    PROVE  TypeOK'
<1>1. ASSUME NEW k \in HoldKeys, NEW now \in Captured, NEW s \in Spaces, NEW plan \in RatePlans,
             NEW minutes \in HoldMinutes, CreateHold(k, s, plan, minutes, now)
      PROVE  TypeOK'
  <2>. DEFINE row == [space |-> s, plan |-> plan, status |-> "ACTIVE", expiresAt |-> now + minutes]
  <2>1. row \in HoldRows
    BY CapturedNat, InventoryAssumption DEF HoldRows, HoldStatus
  <2>2. IsTable(Put(holds, k, row), HoldKeys, HoldRows)
    BY <2>1, PutTable DEF TypeOK
  <2>. QED BY <1>1, <2>2 DEF CreateHold, TypeOK, catalogue, IsTable
<1>2. ASSUME NEW k \in HoldKeys, NEW now \in Captured, ReleaseHold(k, now)
      PROVE  TypeOK'
  <2>. DEFINE row == [holds[k] EXCEPT !.status = IF holds[k].expiresAt <= now THEN "EXPIRED" ELSE "RELEASED"]
  <2>1. k \in DOMAIN holds /\ holds' = [holds EXCEPT ![k] = row]
    BY <1>2 DEF ReleaseHold
  <2>2. row \in HoldRows
    BY <2>1 DEF TypeOK, IsTable, HoldRows, HoldStatus
  <2>3. IsTable([holds EXCEPT ![k] = row], HoldKeys, HoldRows)
    BY <2>1, <2>2, ExceptTable DEF TypeOK
  <2>. QED BY <1>2, <2>1, <2>3 DEF ReleaseHold, TypeOK, catalogue, IsTable
<1>3. ASSUME NEW now \in Captured, ExpireHolds(now)
      PROVE  TypeOK'
  <2>1. PICK batch : holds' = [k \in DOMAIN holds |->
                 IF k \in batch THEN [holds[k] EXCEPT !.status = "EXPIRED"] ELSE holds[k]]
    BY <1>3 DEF ExpireHolds
  <2>2. \A k \in DOMAIN holds : [holds[k] EXCEPT !.status = "EXPIRED"] \in HoldRows
    BY DEF TypeOK, IsTable, HoldRows, HoldStatus
  <2>3. IsTable(holds', HoldKeys, HoldRows)
    BY <2>1, <2>2 DEF TypeOK, IsTable
  <2>. QED BY <1>3, <2>3 DEF ExpireHolds, TypeOK, catalogue, IsTable
<1>4. ASSUME NEW b \in BookingKeys, NEW now \in Captured, NEW k \in HoldKeys,
             NEW status \in {"CONFIRMED", "PENDING_CONFIRMATION"}, Confirm(b, k, status, now)
      PROVE  TypeOK'
  <2>. DEFINE booking == [hold |-> k, space |-> holds[k].space, plan |-> holds[k].plan,
                          status |-> status, payment |-> "OPEN", checkout |-> "NONE"]
              hold == [holds[k] EXCEPT !.status = "CONSUMED"]
  <2>1. k \in DOMAIN holds /\ holds[k] \in HoldRows
    BY <1>4 DEF Confirm, TypeOK, IsTable
  <2>2. booking \in BookingRows /\ hold \in HoldRows /\ holds[k].space \in Spaces
    BY <2>1 DEF BookingRows, HoldRows, BookingStatus, PaymentClass, CheckoutState, HoldStatus
  <2>3. /\ IsTable(Put(bookings, b, booking), BookingKeys, BookingRows)
        /\ IsTable(Put(allocations, b, holds[k].space), BookingKeys, Spaces)
    BY <2>2, PutTable DEF TypeOK
  <2>4. IsTable([holds EXCEPT ![k] = hold], HoldKeys, HoldRows)
    BY <2>1, <2>2, ExceptTable DEF TypeOK
  <2>. QED BY <1>4, <2>3, <2>4 DEF Confirm, TypeOK, catalogue, IsTable
<1>5. ASSUME NEW b \in BookingKeys, NEW now \in Captured, NEW key \in ChangeKeys,
             NEW s \in Spaces, NEW plan \in RatePlans, ChangeTerms(b, key, s, plan, now)
      PROVE  TypeOK'
  <2>. DEFINE row == [bookings[b] EXCEPT !.space = s, !.plan = plan]
  <2>1. b \in DOMAIN bookings /\ bookings[b] \in BookingRows
    BY <1>5 DEF ChangeTerms, TypeOK, IsTable
  <2>3. row \in BookingRows
    BY <2>1 DEF BookingRows
  <2>4. IsTable([bookings EXCEPT ![b] = row], BookingKeys, BookingRows)
    BY <2>1, <2>3, ExceptTable DEF TypeOK
  <2>5. IsTable([allocations EXCEPT ![b] = s], BookingKeys, Spaces)
    <3>1. b \in DOMAIN allocations
      BY <1>5 DEF ChangeTerms
    <3>2. IsTable(allocations, BookingKeys, Spaces)
      BY DEF TypeOK
    <3>. QED BY <3>1, <3>2, ExceptTable
  <2>. QED BY <1>5, <2>4, <2>5 DEF ChangeTerms, MoveBooking, TypeOK, catalogue, IsTable
<1>. QED BY <1>1, <1>2, <1>3, <1>4, <1>5, BookingSteps DEF HoldNext

LEMMA TypeStep ==
    ASSUME TypeOK, [Next]_vars
    PROVE  TypeOK'
<1>1. CASE Tick
  BY <1>1 DEF Tick, TypeOK, catalogue, ledger, IsTable
<1>2. CASE HoldNext \/ (\E now \in Captured : ExpireHolds(now)) \/ BookingNext
  BY <1>2, LedgerTypeStep
<1>3. CASE PaymentNext
  <2>1. IsTable(bookings', BookingKeys, BookingRows)
    BY <1>3, PaymentFrame, ExceptTable DEF TypeOK
  <2>2. UNCHANGED <<clock, catalogue, holds, allocations, changes>>
    BY <1>3, PaymentFrame
  <2>. QED BY <2>1, <2>2 DEF TypeOK, catalogue, IsTable
<1>4. CASE CatalogueNext
  BY <1>4, CatalogueTypeStep
<1>5. CASE UNCHANGED vars
  BY <1>5 DEF vars, catalogue, ledger, TypeOK, IsTable
<1>. QED BY <1>1, <1>2, <1>3, <1>4, <1>5 DEF Next

\* Type correctness: every row the transactions write is one the tables can hold.
THEOREM TypeCorrect == Spec => []TypeOK
<1>1. Init => TypeOK
  BY InventoryAssumption DEF Init, TypeOK, IsTable, RoomStatus
<1>2. TypeOK /\ [Next]_vars => TypeOK'
  BY TypeStep
<1>. QED BY <1>1, <1>2, PTL DEF Spec

----------------------------------------------------------------------------
\* One hold, one booking, one allocation.

\* The inductive invariant of the ledger. HoldsBookedOnce alone is not inductive: a
\* confirmation keeps it because the hold it consumes has no booking yet, and the
\* allocations are written together with the bookings they mirror.
LedgerInv == TypeOK /\ HoldsBookedOnce /\ AllocationsMatchBookings

LEMMA LedgerStep ==
    ASSUME LedgerInv, [Next]_vars
    PROVE  LedgerInv'
<1>. USE DEF LedgerInv
<1>0. SUFFICES HoldsBookedOnce' /\ AllocationsMatchBookings'
  BY TypeStep
<1>1. ASSUME UNCHANGED <<holds, bookings, allocations>>
      PROVE  HoldsBookedOnce' /\ AllocationsMatchBookings'
  BY <1>1 DEF HoldsBookedOnce, AllocationsMatchBookings
<1>2. ASSUME NEW k \in HoldKeys, NEW row \in HoldRows, row.status = "ACTIVE", k \notin DOMAIN holds,
             holds' = Put(holds, k, row), UNCHANGED <<bookings, allocations>>
      PROVE  HoldsBookedOnce' /\ AllocationsMatchBookings'
  <2>1. /\ DOMAIN holds' = DOMAIN holds \cup {k}
        /\ holds'[k] = row
        /\ \A j \in DOMAIN holds : j # k => holds'[j] = holds[j]
    BY <1>2 DEF Put
  <2>. QED BY <1>2, <2>1 DEF HoldsBookedOnce, AllocationsMatchBookings
<1>3. ASSUME DOMAIN holds' = DOMAIN holds,
             \A k \in DOMAIN holds : holds'[k].status = "CONSUMED" <=> holds[k].status = "CONSUMED",
             UNCHANGED <<bookings, allocations>>
      PROVE  HoldsBookedOnce' /\ AllocationsMatchBookings'
  BY <1>3 DEF HoldsBookedOnce, AllocationsMatchBookings
<1>4. ASSUME NEW b \in BookingKeys, NEW now \in Captured, NEW k \in HoldKeys,
             NEW status \in {"CONFIRMED", "PENDING_CONFIRMATION"}, Confirm(b, k, status, now)
      PROVE  HoldsBookedOnce' /\ AllocationsMatchBookings'
  <2>1. /\ DOMAIN bookings' = DOMAIN bookings \cup {b}
        /\ bookings'[b].hold = k /\ bookings'[b].space = holds[k].space
        /\ \A c \in DOMAIN bookings : c # b /\ bookings'[c] = bookings[c]
    BY <1>4 DEF Confirm, Put
  <2>2. /\ DOMAIN allocations' = DOMAIN allocations \cup {b}
        /\ allocations'[b] = holds[k].space
        /\ \A c \in DOMAIN allocations : c # b => allocations'[c] = allocations[c]
    BY <1>4 DEF Confirm, Put
  <2>3. /\ k \in DOMAIN holds /\ DOMAIN holds' = DOMAIN holds
        /\ holds'[k].status = "CONSUMED"
        /\ \A j \in DOMAIN holds : j # k => holds'[j] = holds[j]
    <3>1. k \in DOMAIN holds /\ holds[k] \in HoldRows
      BY <1>4 DEF Confirm, TypeOK, IsTable
    <3>. QED BY <1>4, <3>1 DEF Confirm, TypeOK, IsTable, HoldRows
  <2>4. \A c \in DOMAIN bookings : bookings[c].hold # k
    BY <1>4 DEF Confirm
  <2>5. HoldsBookedOnce'
    BY <2>1, <2>3, <2>4 DEF HoldsBookedOnce
  <2>6. AllocationsMatchBookings'
    BY <2>1, <2>2 DEF AllocationsMatchBookings
  <2>. QED BY <2>5, <2>6
<1>5. ASSUME NEW b \in BookingKeys, NEW now \in Captured, NEW key \in ChangeKeys,
             NEW s \in Spaces, NEW plan \in RatePlans, ChangeTerms(b, key, s, plan, now)
      PROVE  HoldsBookedOnce' /\ AllocationsMatchBookings'
  <2>1. /\ bookings' = [bookings EXCEPT ![b].space = s, ![b].plan = plan]
        /\ allocations' = [allocations EXCEPT ![b] = s]
    BY <1>5 DEF ChangeTerms, MoveBooking
  <2>2. b \in DOMAIN bookings /\ b \in DOMAIN allocations /\ bookings[b] \in BookingRows
    BY <1>5 DEF ChangeTerms, TypeOK, IsTable
  <2>3. /\ DOMAIN bookings' = DOMAIN bookings
        /\ bookings'[b].hold = bookings[b].hold /\ bookings'[b].space = s
        /\ \A c \in DOMAIN bookings : c # b => bookings'[c] = bookings[c]
    BY <2>1, <2>2 DEF TypeOK, IsTable, BookingRows
  <2>4. /\ DOMAIN allocations' = DOMAIN allocations
        /\ allocations'[b] = s
        /\ \A c \in DOMAIN allocations : c # b => allocations'[c] = allocations[c]
    BY <2>1, <2>2 DEF TypeOK, IsTable
  <2>5. holds' = holds
    BY <1>5 DEF ChangeTerms
  <2>6. \A c \in DOMAIN bookings : bookings'[c].hold = bookings[c].hold
    BY <2>3
  <2>. QED BY <2>3, <2>4, <2>5, <2>6 DEF HoldsBookedOnce, AllocationsMatchBookings
<1>6. CASE Tick
  BY <1>6, <1>1 DEF Tick, ledger
<1>7. CASE HoldNext
  <2>1. ASSUME NEW k \in HoldKeys, NEW now \in Captured, NEW s \in Spaces, NEW plan \in RatePlans,
               NEW minutes \in HoldMinutes, CreateHold(k, s, plan, minutes, now)
        PROVE  HoldsBookedOnce' /\ AllocationsMatchBookings'
    <3>. DEFINE row == [space |-> s, plan |-> plan, status |-> "ACTIVE", expiresAt |-> now + minutes]
    <3>1. row \in HoldRows
      BY CapturedNat, InventoryAssumption DEF HoldRows, HoldStatus
    <3>. QED BY <2>1, <3>1, <1>2 DEF CreateHold
  <2>2. ASSUME NEW k \in HoldKeys, NEW now \in Captured, ReleaseHold(k, now)
        PROVE  HoldsBookedOnce' /\ AllocationsMatchBookings'
    BY <2>2, <1>3 DEF ReleaseHold, TypeOK, IsTable, HoldRows
  <2>. QED BY <1>7, <2>1, <2>2 DEF HoldNext
<1>8. ASSUME NEW now \in Captured, ExpireHolds(now)
      PROVE  HoldsBookedOnce' /\ AllocationsMatchBookings'
  <2>1. PICK batch :
            /\ \A k \in batch : k \in DOMAIN holds /\ holds[k].status = "ACTIVE"
            /\ holds' = [k \in DOMAIN holds |->
                 IF k \in batch THEN [holds[k] EXCEPT !.status = "EXPIRED"] ELSE holds[k]]
    BY <1>8 DEF ExpireHolds
  <2>. QED BY <1>8, <2>1, <1>3 DEF ExpireHolds, TypeOK, IsTable, HoldRows
<1>9. CASE BookingNext
  BY <1>9, <1>4, <1>5, BookingSteps
<1>10. CASE PaymentNext
  <2>1. /\ UNCHANGED <<holds, allocations>>
        /\ DOMAIN bookings' = DOMAIN bookings
        /\ \A c \in DOMAIN bookings : /\ bookings'[c].hold = bookings[c].hold
                                      /\ bookings'[c].space = bookings[c].space
    BY <1>10, PaymentFrame DEF TypeOK, IsTable
  <2>. QED BY <2>1 DEF HoldsBookedOnce, AllocationsMatchBookings
<1>11. CASE CatalogueNext
  BY <1>11, <1>1, CatalogueFrame
<1>12. CASE UNCHANGED vars
  BY <1>12, <1>1 DEF vars, ledger
<1>. QED BY <1>6, <1>7, <1>8, <1>9, <1>10, <1>11, <1>12 DEF Next

\* One hold becomes one booking with one allocation of its own terms, however requests are
\* repeated and interleaved.
THEOREM OneHoldOneBooking == Spec => []LedgersAgree
<1>1. Init => LedgerInv
  <2>1. Init => TypeOK
    BY InventoryAssumption DEF Init, TypeOK, IsTable, RoomStatus
  <2>. QED BY <2>1 DEF Init, LedgerInv, HoldsBookedOnce, AllocationsMatchBookings
<1>2. LedgerInv /\ [Next]_vars => LedgerInv'
  BY LedgerStep
<1>3. LedgerInv => LedgersAgree
  BY DEF LedgerInv, LedgersAgree
<1>. QED BY <1>1, <1>2, <1>3, PTL DEF Spec

----------------------------------------------------------------------------
\* Holds.

\* What one step may do to the hold rows: an active one ends, and is marked expired only once
\* due; a new one is active and of a bookable room type and plan; time does not run back.
LEMMA HoldStep ==
    ASSUME TypeOK, [Next]_vars
    PROVE  /\ \A k \in DOMAIN holds :
                /\ k \in DOMAIN holds'
                /\ holds'[k] = [holds[k] EXCEPT !.status = holds'[k].status]
                /\ \/ holds'[k].status = holds[k].status
                   \/ /\ holds[k].status = "ACTIVE"
                      /\ holds'[k].status = "EXPIRED" => holds[k].expiresAt <= clock
           /\ \A k \in DOMAIN holds' \ DOMAIN holds :
                /\ holds'[k].status = "ACTIVE"
                /\ Bookable(holds'[k].space.roomType, holds'[k].plan)
           /\ clock' \in {clock, clock + 1}
           /\ UNCHANGED catalogue \/ UNCHANGED <<clock, holds>>
<1>. DEFINE Ends(k) == /\ k \in DOMAIN holds'
                       /\ holds'[k] = [holds[k] EXCEPT !.status = holds'[k].status]
                       /\ \/ holds'[k].status = holds[k].status
                          \/ /\ holds[k].status = "ACTIVE"
                             /\ holds'[k].status = "EXPIRED" => holds[k].expiresAt <= clock
            Step == /\ \A k \in DOMAIN holds : Ends(k)
                    /\ \A k \in DOMAIN holds' \ DOMAIN holds :
                         /\ holds'[k].status = "ACTIVE"
                         /\ Bookable(holds'[k].space.roomType, holds'[k].plan)
                    /\ clock' \in {clock, clock + 1}
                    /\ UNCHANGED catalogue \/ UNCHANGED <<clock, holds>>
<1>0. \A k \in DOMAIN holds : holds[k] \in HoldRows
  BY DEF TypeOK, IsTable
<1>1. ASSUME UNCHANGED holds, clock' \in {clock, clock + 1},
             UNCHANGED catalogue \/ UNCHANGED clock
      PROVE  Step
  BY <1>0, <1>1 DEF HoldRows
<1>2. ASSUME NEW k \in HoldKeys, NEW now \in Captured, NEW s \in Spaces, NEW plan \in RatePlans,
             NEW minutes \in HoldMinutes, CreateHold(k, s, plan, minutes, now)
      PROVE  Step
  <2>. DEFINE row == [space |-> s, plan |-> plan, status |-> "ACTIVE", expiresAt |-> now + minutes]
  <2>1. /\ DOMAIN holds' = DOMAIN holds \cup {k}
        /\ holds'[k] = row
        /\ \A j \in DOMAIN holds : holds'[j] = holds[j]
    BY <1>2 DEF CreateHold, Put
  <2>2. Bookable(s.roomType, plan) /\ UNCHANGED <<clock, catalogue>>
    BY <1>2 DEF CreateHold
  <2>. QED BY <1>0, <2>1, <2>2 DEF HoldRows
<1>3. ASSUME NEW k \in DOMAIN holds, NEW status,
             holds' = [holds EXCEPT ![k].status = status], holds[k].status = "ACTIVE",
             status = "EXPIRED" => holds[k].expiresAt <= clock,
             UNCHANGED <<clock, catalogue>>
      PROVE  Step
  <2>1. holds' = [holds EXCEPT ![k] = [holds[k] EXCEPT !.status = status]]
    BY <1>3
  <2>2. /\ DOMAIN holds' = DOMAIN holds
        /\ holds'[k] = [holds[k] EXCEPT !.status = status] /\ holds'[k].status = status
        /\ \A j \in DOMAIN holds : j # k => holds'[j] = holds[j]
    BY <1>0, <2>1 DEF TypeOK, IsTable, HoldRows
  <2>. QED BY <1>0, <1>3, <2>2 DEF HoldRows
<1>4. ASSUME NEW k \in HoldKeys, NEW now \in Captured, ReleaseHold(k, now)
      PROVE  Step
  <2>1. k \in DOMAIN holds /\ holds[k].expiresAt \in Nat
    BY <1>0, <1>4 DEF ReleaseHold, HoldRows
  <2>2. holds[k].expiresAt <= now => holds[k].expiresAt <= clock
    BY <2>1, CapturedNat DEF TypeOK
  <2>. QED BY <1>3, <1>4, <2>1, <2>2 DEF ReleaseHold
<1>5. ASSUME NEW now \in Captured, ExpireHolds(now)
      PROVE  Step
  <2>1. PICK batch :
          /\ \A k \in batch : /\ k \in DOMAIN holds
                              /\ holds[k].status = "ACTIVE" /\ holds[k].expiresAt <= now
          /\ holds' = [k \in DOMAIN holds |->
               IF k \in batch THEN [holds[k] EXCEPT !.status = "EXPIRED"] ELSE holds[k]]
    BY <1>5 DEF ExpireHolds
  <2>2. \A k \in batch : holds[k].expiresAt <= clock
    BY <1>0, <2>1, CapturedNat DEF HoldRows, TypeOK
  <2>3. DOMAIN holds' = DOMAIN holds /\ UNCHANGED <<clock, catalogue>>
    BY <1>5, <2>1 DEF ExpireHolds
  <2>4. ASSUME NEW k \in DOMAIN holds PROVE Ends(k)
    <3>1. CASE k \in batch
      <4>1. holds'[k] = [holds[k] EXCEPT !.status = "EXPIRED"]
        BY <2>1, <3>1
      <4>2. holds'[k].status = "EXPIRED"
        BY <1>0, <4>1 DEF HoldRows
      <4>. QED BY <2>1, <2>2, <2>3, <3>1, <4>1, <4>2
    <3>2. CASE k \notin batch
      BY <1>0, <2>1, <2>3, <3>2 DEF HoldRows
    <3>. QED BY <3>1, <3>2
  <2>. QED BY <2>3, <2>4
<1>6. ASSUME NEW b \in BookingKeys, NEW now \in Captured, NEW k \in HoldKeys,
             NEW status \in {"CONFIRMED", "PENDING_CONFIRMATION"}, Confirm(b, k, status, now)
      PROVE  Step
  BY <1>3, <1>6 DEF Confirm
<1>7. CASE HoldNext
  BY <1>2, <1>4, <1>7 DEF HoldNext
<1>8. CASE BookingNext
  <2>1. ASSUME NEW b, NEW key, NEW s, NEW plan, NEW now, ChangeTerms(b, key, s, plan, now)
        PROVE  Step
    BY <1>1, <2>1 DEF ChangeTerms
  <2>. QED BY <1>6, <1>8, <2>1, BookingSteps
<1>9. CASE Tick
  BY <1>1, <1>9 DEF Tick, ledger
<1>10. CASE PaymentNext \/ CatalogueNext
  BY <1>1, <1>10, PaymentFrame, CatalogueFrame
<1>11. CASE UNCHANGED vars
  BY <1>1, <1>11 DEF vars, ledger
<1>12. Step
  BY <1>5, <1>7, <1>8, <1>9, <1>10, <1>11 DEF Next
<1>. QED BY <1>12

\* The invariant that HoldsEndOnce needs: a step that leaves an expired hold alone found it due.
ExpiredWereDue == \A k \in DOMAIN holds : holds[k].status = "EXPIRED" => holds[k].expiresAt <= clock

\* A hold row stays for ever, ends once, and is marked expired only once it is due, whatever
\* time the requests captured.
THEOREM HoldsEndOnceOnly == Spec => HoldsEndOnce
<1>. DEFINE Inv == TypeOK /\ ExpiredWereDue
<1>1. Init => Inv
  <2>1. Init => TypeOK
    BY InventoryAssumption DEF Init, TypeOK, IsTable, RoomStatus
  <2>. QED BY <2>1 DEF Init, ExpiredWereDue
<1>2. Inv /\ [Next]_vars => Inv'
  <2>. SUFFICES ASSUME Inv, [Next]_vars PROVE TypeOK' /\ ExpiredWereDue'
    OBVIOUS
  <2>1. TypeOK'
    BY TypeStep
  <2>2. ASSUME NEW k \in DOMAIN holds', holds'[k].status = "EXPIRED"
        PROVE  holds'[k].expiresAt <= clock'
    <3>1. k \in DOMAIN holds /\ holds[k] \in HoldRows
      BY <2>2, HoldStep DEF TypeOK, IsTable
    <3>2. holds'[k].expiresAt = holds[k].expiresAt /\ holds[k].expiresAt \in Nat
      <4>1. holds'[k] = [holds[k] EXCEPT !.status = holds'[k].status]
        BY <3>1, HoldStep
      <4>. QED BY <3>1, <4>1 DEF HoldRows
    <3>3. holds[k].expiresAt <= clock
      BY <2>2, <3>1, HoldStep DEF ExpiredWereDue
    <3>. QED BY <3>2, <3>3, HoldStep DEF TypeOK
  <2>. QED BY <2>1, <2>2 DEF ExpiredWereDue
<1>3. Inv /\ [Next]_vars =>
        [\A k \in DOMAIN holds :
          /\ k \in DOMAIN holds'
          /\ holds'[k] = [holds[k] EXCEPT !.status = holds'[k].status]
          /\ holds[k].status # "ACTIVE" => holds'[k].status = holds[k].status
          /\ holds'[k].status = "EXPIRED" => holds[k].expiresAt <= clock]_vars
  BY HoldStep DEF ExpiredWereDue
<1>. QED BY <1>1, <1>2, <1>3, PTL DEF Spec, HoldsEndOnce

\* What a guest holds stays bookable: a catalogue edit looks at the holds alive at the time it
\* captured, and those include the holds alive when it commits.
THEOREM HeldStaysBookable == Spec => []LiveHoldsStayBookable
<1>. DEFINE Inv == TypeOK /\ LiveHoldsStayBookable
<1>1. Init => Inv
  <2>1. Init => TypeOK
    BY InventoryAssumption DEF Init, TypeOK, IsTable, RoomStatus
  <2>. QED BY <2>1 DEF Init, LiveHoldsStayBookable, LiveHolds
<1>2. Inv /\ [Next]_vars => Inv'
  <2>. SUFFICES ASSUME Inv, [Next]_vars PROVE LiveHoldsStayBookable'
    BY TypeStep
  <2>1. ASSUME NEW k \in DOMAIN holds, k \in LiveHolds(clock)'
        PROVE  /\ k \in LiveHolds(clock)
               /\ holds'[k].space = holds[k].space /\ holds'[k].plan = holds[k].plan
    <3>1. holds[k] \in HoldRows /\ clock \in Nat
      BY DEF TypeOK, IsTable
    <3>2. /\ holds'[k].space = holds[k].space /\ holds'[k].plan = holds[k].plan
          /\ holds'[k].expiresAt = holds[k].expiresAt
      <4>1. holds'[k] = [holds[k] EXCEPT !.status = holds'[k].status]
        BY HoldStep
      <4>. QED BY <3>1, <4>1 DEF HoldRows
    <3>3. holds[k].status = "ACTIVE"
      BY <2>1, HoldStep DEF LiveHolds
    <3>4. holds[k].expiresAt > clock
      BY <2>1, <3>1, <3>2, HoldStep DEF LiveHolds, HoldRows
    <3>. QED BY <3>2, <3>3, <3>4 DEF LiveHolds
  <2>2. CASE UNCHANGED catalogue
    <3>1. ASSUME NEW k \in LiveHolds(clock)'
          PROVE  Bookable(holds'[k].space.roomType, holds'[k].plan)
      <4>1. k \in DOMAIN holds'
        BY DEF LiveHolds
      <4>. QED BY <2>1, <4>1, HoldStep DEF LiveHoldsStayBookable
    <3>. QED BY <2>2, <3>1 DEF LiveHoldsStayBookable, Bookable, catalogue
  <2>3. CASE CatalogueNext
    <3>1. UNCHANGED <<clock, holds>>
      BY <2>3, CatalogueFrame
    <3>2. LiveHolds(clock)' = LiveHolds(clock)
      BY <3>1 DEF LiveHolds
    <3>3. ASSUME NEW k \in LiveHolds(clock)
          PROVE  Bookable(holds[k].space.roomType, holds[k].plan)'
      <4>. DEFINE rt == holds[k].space.roomType
                  plan == holds[k].plan
      <4>0. rt \in RoomTypes /\ plan \in RatePlans
        BY DEF LiveHolds, TypeOK, IsTable, HoldRows, Spaces
      <4>1. rt \in roomTypes /\ plan \in ratePlans /\ <<rt, plan>> \in assigned
        BY DEF LiveHoldsStayBookable, Bookable
      <4>2. ASSUME NEW q \in RoomTypes, ArchiveRoomType(q)
            PROVE  rt \in roomTypes' /\ plan \in ratePlans' /\ <<rt, plan>> \in assigned'
        BY <4>0, <4>1, <4>2 DEF ArchiveRoomType
      <4>3. ASSUME NEW q \in RoomTypes, NEW p \in RatePlans, NEW now \in Captured,
                   RemoveRatePlan(q, p, now)
            PROVE  rt \in roomTypes' /\ plan \in ratePlans' /\ <<rt, plan>> \in assigned'
        <5>1. k \in LiveHolds(now)
          BY CapturedNat DEF LiveHolds, TypeOK, IsTable, HoldRows
        <5>. QED BY <4>1, <4>3, <5>1 DEF RemoveRatePlan
      <4>4. ASSUME NEW p \in RatePlans, ArchiveRatePlan(p)
            PROVE  rt \in roomTypes' /\ plan \in ratePlans' /\ <<rt, plan>> \in assigned'
        BY <4>0, <4>1, <4>4 DEF ArchiveRatePlan
      <4>5. ASSUME UNCHANGED <<roomTypes, ratePlans, assigned>>
            PROVE  rt \in roomTypes' /\ plan \in ratePlans' /\ <<rt, plan>> \in assigned'
        BY <4>1, <4>5
      <4>6. rt \in roomTypes' /\ plan \in ratePlans' /\ <<rt, plan>> \in assigned'
        <5>1. CASE \/ \E q \in RoomTypes : ArchiveRoomType(q)
                   \/ \E q \in RoomTypes, p \in RatePlans, now \in Captured : RemoveRatePlan(q, p, now)
                   \/ \E p \in RatePlans : ArchiveRatePlan(p)
          BY <4>2, <4>3, <4>4, <5>1
        <5>2. CASE \E q \in RoomTypes, p \in RatePlans : AssignRatePlan(q, p)
          BY <4>1, <5>2 DEF AssignRatePlan
        <5>3. CASE \/ \E r \in Rooms, status \in {"ACTIVE", "OUT_OF_SERVICE"} : CreateRoom(r, status)
                   \/ \E r \in Rooms, now \in Captured : ArchiveRoom(r, now)
                   \/ \E w \in WindowInputs, now \in Captured : CreateWindow(w, now)
                   \/ \E w \in WindowInputs : ArchiveWindow(w)
                   \/ \E r \in RestrictionInputs : CreateRestriction(r)
                   \/ \E r \in RestrictionInputs : ArchiveRestriction(r)
          BY <4>5, <5>3 DEF CreateRoom, ArchiveRoom, CreateWindow, ArchiveWindow,
                            CreateRestriction, ArchiveRestriction
        <5>. QED BY <2>3, <5>1, <5>2, <5>3 DEF CatalogueNext
      <4>. QED BY <3>1, <4>6 DEF Bookable
    <3>. QED BY <3>1, <3>2, <3>3 DEF LiveHoldsStayBookable
  <2>. QED BY <2>2, <2>3, CatalogueOrLedger
<1>3. Inv => LiveHoldsStayBookable
  OBVIOUS
<1>. QED BY <1>1, <1>2, <1>3, PTL DEF Spec

----------------------------------------------------------------------------
(* Capacity: no step adds units to a night beyond its capacity, except a     *)
(* confirmation that commits after its hold expired. Units are counted as    *)
(* tokens, one for each unit of each claim, so that every step of the        *)
(* argument is an inclusion between finite sets.                             *)

----------------------------------------------------------------------------
\* Counting tokens.

\* The tokens of finitely many claims are finitely many.
LEMMA TokensFinite ==
    ASSUME NEW keys, IsFiniteSet(keys), NEW spaceOf, NEW rt, NEW n
    PROVE  /\ IsFiniteSet(UnitTokens(keys, spaceOf, rt, n))
           /\ Cardinality(UnitTokens(keys, spaceOf, rt, n)) \in Nat
<1>1. IsFiniteSet(Units)
  BY FS_Interval, StayAssumption DEF Units
<1>2. IsFiniteSet(keys \X Units)
  BY <1>1, FS_Product
<1>3. UnitTokens(keys, spaceOf, rt, n) \in SUBSET (keys \X Units)
  BY DEF UnitTokens
<1>. QED BY <1>2, <1>3, FS_Subset, FS_CardinalityType

\* A claim of q units has q tokens.
LEMMA ClaimTokens ==
    ASSUME NEW k, NEW q \in Units
    PROVE  IsFiniteSet({k} \X (1..q)) /\ Cardinality({k} \X (1..q)) = q
<1>1. q \in Nat /\ q >= 1
  BY StayAssumption DEF Units
<1>2. IsFiniteSet(1..q) /\ Cardinality(1..q) = q
  BY <1>1, FS_Interval
<1>3. IsFiniteSet({k}) /\ Cardinality({k}) = 1
  BY FS_Singleton
<1>. QED BY <1>1, <1>2, <1>3, FS_Product

\* Adding at most the tokens of one claim adds at most its quantity.
LEMMA GrowByClaim ==
    ASSUME NEW S, IsFiniteSet(S), NEW T, NEW k, NEW q \in Units, T \subseteq S \cup ({k} \X (1..q))
    PROVE  Cardinality(T) <= Cardinality(S) + q
<1>1. IsFiniteSet({k} \X (1..q)) /\ Cardinality({k} \X (1..q)) = q
  BY ClaimTokens
<1>. DEFINE C == {k} \X (1..q)
<1>2. q \in Nat
  BY StayAssumption DEF Units
<1>3. /\ IsFiniteSet(S \cup C)
      /\ Cardinality(S \cup C) = Cardinality(S) + Cardinality(C) - Cardinality(S \cap C)
  BY <1>1, FS_Union
<1>4. IsFiniteSet(S \cap C) /\ Cardinality(S \cap C) \in Nat
  BY FS_Intersection, FS_CardinalityType
<1>5. IsFiniteSet(T) /\ Cardinality(T) <= Cardinality(S \cup C)
  BY <1>3, FS_Subset
<1>6. Cardinality(S) \in Nat /\ Cardinality(T) \in Nat
  BY <1>5, FS_CardinalityType
<1>. QED BY <1>1, <1>2, <1>3, <1>4, <1>5, <1>6

\* Removing all the tokens of one claim removes its quantity.
LEMMA ShrinkByClaim ==
    ASSUME NEW S, IsFiniteSet(S), NEW T, NEW k, NEW q \in Units,
           {k} \X (1..q) \subseteq S, T \subseteq S \ ({k} \X (1..q))
    PROVE  Cardinality(T) + q <= Cardinality(S)
<1>. DEFINE C == {k} \X (1..q)
<1>1. IsFiniteSet(C) /\ Cardinality(C) = q
  BY ClaimTokens
<1>2. q \in Nat
  BY StayAssumption DEF Units
<1>3. S \cap C = C
  OBVIOUS
<1>4. IsFiniteSet(S \ C) /\ Cardinality(S \ C) = Cardinality(S) - Cardinality(S \cap C)
  BY FS_Difference
<1>5. IsFiniteSet(T) /\ Cardinality(T) <= Cardinality(S \ C)
  BY <1>4, FS_Subset
<1>6. Cardinality(S) \in Nat /\ Cardinality(T) \in Nat /\ Cardinality(S \ C) \in Nat
  BY <1>4, <1>5, FS_CardinalityType
<1>7. Cardinality(S \ C) = Cardinality(S) - q
  BY ONLY <1>1, <1>3, <1>4
<1>. HIDE DEF C
<1>. QED BY <1>2, <1>5, <1>6, <1>7

----------------------------------------------------------------------------
\* The holds and bookings that count.

\* They are finitely many, and so are their tokens.
LEMMA CountsFinite ==
    ASSUME TypeOK, NEW rt, NEW n, NEW t, NEW except
    PROVE  /\ IsFiniteSet(HeldTokens(rt, n, t)) /\ Cardinality(HeldTokens(rt, n, t)) \in Nat
           /\ IsFiniteSet(BookedTokens(rt, n, except))
           /\ Cardinality(BookedTokens(rt, n, except)) \in Nat
<1>1. LiveHolds(t) \in SUBSET HoldKeys
  BY DEF LiveHolds, TypeOK, IsTable
<1>2. (OpenBookings \cap DOMAIN allocations) \ except \in SUBSET BookingKeys
  BY DEF OpenBookings, TypeOK, IsTable
<1>3. IsFiniteSet(LiveHolds(t)) /\ IsFiniteSet((OpenBookings \cap DOMAIN allocations) \ except)
  BY <1>1, <1>2, FS_Subset, InventoryAssumption
<1>. QED BY <1>3, TokensFinite DEF HeldTokens, BookedTokens

LEMMA CountsFinitePrime ==
    ASSUME TypeOK', NEW rt, NEW n
    PROVE  /\ IsFiniteSet(HeldTokens(rt, n, clock)') /\ Cardinality(HeldTokens(rt, n, clock)') \in Nat
           /\ IsFiniteSet(BookedTokens(rt, n, {})')
           /\ Cardinality(BookedTokens(rt, n, {})') \in Nat
<1>1. LiveHolds(clock)' \in SUBSET HoldKeys
  BY DEF LiveHolds, TypeOK, IsTable
<1>2. ((OpenBookings \cap DOMAIN allocations) \ {})' \in SUBSET BookingKeys
  BY DEF OpenBookings, TypeOK, IsTable
<1>3. IsFiniteSet(LiveHolds(clock)') /\ IsFiniteSet(((OpenBookings \cap DOMAIN allocations) \ {})')
  BY <1>1, <1>2, FS_Subset, InventoryAssumption
<1>. QED BY <1>3, TokensFinite DEF HeldTokens, BookedTokens

\* A step after which no new unit is held and none is booked does not grow.
LEMMA NoGrowth ==
    ASSUME TypeOK, TypeOK', NEW rt, NEW n,
           HeldTokens(rt, n, clock)' \subseteq HeldTokens(rt, n, clock),
           BookedTokens(rt, n, {})' \subseteq BookedTokens(rt, n, {})
    PROVE  ~((Protected(rt, n, clock))' > Protected(rt, n, clock))
<1>1. /\ IsFiniteSet(HeldTokens(rt, n, clock)) /\ Cardinality(HeldTokens(rt, n, clock)) \in Nat
      /\ IsFiniteSet(BookedTokens(rt, n, {})) /\ Cardinality(BookedTokens(rt, n, {})) \in Nat
  BY CountsFinite
<1>2. /\ Cardinality(HeldTokens(rt, n, clock)') \in Nat
      /\ Cardinality(BookedTokens(rt, n, {})') \in Nat
  BY CountsFinitePrime
<1>3. /\ Cardinality(HeldTokens(rt, n, clock)') <= Cardinality(HeldTokens(rt, n, clock))
      /\ Cardinality(BookedTokens(rt, n, {})') <= Cardinality(BookedTokens(rt, n, {}))
  BY <1>1, FS_Subset
<1>4. (Protected(rt, n, clock))' = Cardinality(HeldTokens(rt, n, clock)') + Cardinality(BookedTokens(rt, n, {})')
  BY DEF Protected, ProtectedExcept
<1>5. Protected(rt, n, clock) = Cardinality(HeldTokens(rt, n, clock)) + Cardinality(BookedTokens(rt, n, {}))
  BY DEF Protected, ProtectedExcept
<1>. QED BY <1>1, <1>2, <1>3, <1>4, <1>5

----------------------------------------------------------------------------
\* The steps.

\* What fits still fits when there are fewer units.
LEMMA FitsFewer ==
    ASSUME NEW rt, NEW n, NEW u \in Nat, NEW v \in Nat, u <= v, TypeOK,
           UNCHANGED <<rooms, windows>>, Fits(rt, n, v)
    PROVE  FitsNight(PhysicalCapacity(rt)', windows', rt, n, u)
<1>1. IsFiniteSet({r \in Rooms : RoomTypeOf[r] = rt /\ rooms[r] = "ACTIVE"})
  BY FS_Subset, InventoryAssumption
<1>2. PhysicalCapacity(rt) \in Nat /\ PhysicalCapacity(rt)' = PhysicalCapacity(rt)
  BY <1>1, FS_CardinalityType DEF PhysicalCapacity
<1>3. \A w \in windows : w.capacityLimit \in Nat
  BY DEF TypeOK, WindowRows
<1>. QED BY <1>2, <1>3 DEF Fits, FitsNight

\* What a captured time protects includes what the clock protects.
LEMMA CapturedProtectsMore ==
    ASSUME TypeOK, NEW now \in Captured, NEW rt, NEW n
    PROVE  HeldTokens(rt, n, clock) \subseteq HeldTokens(rt, n, now)
<1>1. LiveHolds(clock) \subseteq LiveHolds(now)
  BY CapturedNat DEF LiveHolds, TypeOK, IsTable, HoldRows
<1>. QED BY <1>1 DEF HeldTokens, UnitTokens

\* A new hold takes units that fit beside everything protected.
LEMMA CreateHoldFits ==
    ASSUME TypeOK, TypeOK', NEW rt \in RoomTypes, NEW n \in Days,
           NEW k \in HoldKeys, NEW now \in Captured, NEW s \in Spaces, NEW plan \in RatePlans,
           NEW minutes \in HoldMinutes, CreateHold(k, s, plan, minutes, now),
           (Protected(rt, n, clock))' > Protected(rt, n, clock)
    PROVE  Fitting(rt, n)'
<1>. DEFINE row == [space |-> s, plan |-> plan, status |-> "ACTIVE", expiresAt |-> now + minutes]
            H == HeldTokens(rt, n, clock)
            B == BookedTokens(rt, n, {})
<1>1. /\ holds' = Put(holds, k, row) /\ k \notin DOMAIN holds
      /\ UNCHANGED <<clock, rooms, windows, bookings, allocations>>
  BY DEF CreateHold, catalogue
<1>2. /\ DOMAIN holds' = DOMAIN holds \cup {k}
      /\ holds'[k].space = s
      /\ \A j \in DOMAIN holds : holds'[j] = holds[j]
  BY <1>1 DEF Put
<1>3. B' = B
  BY <1>1 DEF BookedTokens, OpenBookings
<1>4. H' \subseteq H \cup {ku \in {k} \X Units : Occupies(s, rt, n) /\ ku[2] <= s.quantity}
  <2>1. LiveHolds(clock)' \subseteq LiveHolds(clock) \cup {k}
    BY <1>1, <1>2 DEF LiveHolds
  <2>. QED BY <1>1, <1>2, <2>1 DEF HeldTokens, UnitTokens, LiveHolds
<1>5. Occupies(s, rt, n)
  <2>1. SUFFICES ASSUME ~Occupies(s, rt, n) PROVE FALSE
    OBVIOUS
  <2>2. H' \subseteq H /\ B' \subseteq B
    BY <1>3, <1>4, <2>1
  <2>. QED BY <2>2, NoGrowth
<1>6. s.quantity \in Units /\ s.quantity \in Nat
  BY StayAssumption DEF Spaces, Units
<1>7. H' \subseteq HeldTokens(rt, n, now) \cup ({k} \X (1..s.quantity))
  BY <1>4, <1>6, CapturedProtectsMore DEF Units
<1>8. /\ IsFiniteSet(HeldTokens(rt, n, now)) /\ Cardinality(HeldTokens(rt, n, now)) \in Nat
      /\ Cardinality(B) \in Nat
  BY CountsFinite
<1>9. Cardinality(H') <= Cardinality(HeldTokens(rt, n, now)) + s.quantity
  BY <1>6, <1>7, <1>8, GrowByClaim
<1>10. (Protected(rt, n, clock))' = Cardinality(H') + Cardinality(B)
  BY <1>3 DEF Protected, ProtectedExcept
<1>11. Cardinality(H') \in Nat
  BY CountsFinitePrime
<1>12. Fits(rt, n, Protected(rt, n, now) + s.quantity)
  BY <1>5 DEF CreateHold, CapacityAllows, Occupies, Protected
<1>13. Protected(rt, n, now) + s.quantity
         = Cardinality(HeldTokens(rt, n, now)) + Cardinality(B) + s.quantity
  BY <1>6, <1>8 DEF Protected, ProtectedExcept
<1>. HIDE DEF H, B
<1>14. /\ (Protected(rt, n, clock))' \in Nat
       /\ Protected(rt, n, now) + s.quantity \in Nat
       /\ (Protected(rt, n, clock))' <= Protected(rt, n, now) + s.quantity
  BY <1>6, <1>8, <1>9, <1>10, <1>11, <1>13
<1>. QED BY <1>1, <1>12, <1>14, FitsFewer DEF Fitting, Fits

\* A confirmation moves the units of its hold, unexpired at the commit, to an allocation.
LEMMA ConfirmKeepsUnits ==
    ASSUME TypeOK, TypeOK', NEW rt \in RoomTypes, NEW n \in Days,
           NEW b \in BookingKeys, NEW k \in HoldKeys, NEW now \in Captured,
           NEW status \in {"CONFIRMED", "PENDING_CONFIRMATION"},
           Confirm(b, k, status, now), ~LateConfirmation
    PROVE  ~((Protected(rt, n, clock))' > Protected(rt, n, clock))
<1>. DEFINE s == holds[k].space
            H == HeldTokens(rt, n, clock)
            B == BookedTokens(rt, n, {})
<1>1. /\ k \in DOMAIN holds /\ holds[k] \in HoldRows /\ holds[k].status = "ACTIVE"
      /\ b \notin DOMAIN bookings /\ clock' = clock
  BY DEF Confirm, TypeOK, IsTable
<1>2. s \in Spaces /\ s.quantity \in Units /\ s.quantity \in Nat
  BY <1>1, StayAssumption DEF HoldRows, Spaces, Units
<1>3. /\ DOMAIN holds' = DOMAIN holds
      /\ holds'[k].status = "CONSUMED"
      /\ \A j \in DOMAIN holds : j # k => holds'[j] = holds[j]
  BY <1>1 DEF Confirm, TypeOK, IsTable, HoldRows
<1>4. holds[k].expiresAt > clock
  <2>1. ~(holds[k].expiresAt <= clock)
    BY <1>1, <1>3 DEF LateConfirmation
  <2>. QED BY <1>1, <2>1 DEF HoldRows, TypeOK
<1>5. /\ DOMAIN bookings' = DOMAIN bookings \cup {b}
      /\ DOMAIN allocations' = DOMAIN allocations \cup {b}
      /\ allocations'[b] = s
      /\ \A c \in DOMAIN bookings : bookings'[c] = bookings[c]
      /\ \A c \in DOMAIN allocations : c # b => allocations'[c] = allocations[c]
  BY <1>1 DEF Confirm, Put
<1>6. k \in LiveHolds(clock) /\ LiveHolds(clock)' \subseteq LiveHolds(clock) \ {k}
  BY <1>1, <1>3, <1>4 DEF LiveHolds
<1>7. H' \subseteq {ku \in H : ku[1] # k}
  BY <1>3, <1>6 DEF HeldTokens, UnitTokens, LiveHolds
<1>8. (OpenBookings \cap DOMAIN allocations)' \subseteq (OpenBookings \cap DOMAIN allocations) \cup {b}
  BY <1>5 DEF OpenBookings
<1>9. B' \subseteq B \cup {cu \in {b} \X Units : Occupies(s, rt, n) /\ cu[2] <= s.quantity}
  BY <1>5, <1>8 DEF BookedTokens, UnitTokens
<1>10. CASE ~Occupies(s, rt, n)
  <2>1. H' \subseteq H /\ B' \subseteq B
    BY <1>7, <1>9, <1>10
  <2>. QED BY <2>1, NoGrowth
<1>11. CASE Occupies(s, rt, n)
  <2>1. {k} \X (1..s.quantity) \subseteq H
    <3>1. SUFFICES ASSUME NEW u \in 1..s.quantity PROVE <<k, u>> \in H
      OBVIOUS
    <3>2. u \in Units /\ u <= s.quantity
      BY <1>2, StayAssumption DEF Units
    <3>3. [j \in DOMAIN holds |-> holds[j].space][k] = s
      BY <1>1
    <3>. QED BY <1>6, <1>11, <3>2, <3>3 DEF HeldTokens, UnitTokens
  <2>2. H' \subseteq H \ ({k} \X (1..s.quantity))
    BY <1>7
  <2>3. B' \subseteq B \cup ({b} \X (1..s.quantity))
    BY <1>2, <1>9 DEF Units
  <2>4. /\ IsFiniteSet(H) /\ Cardinality(H) \in Nat
        /\ IsFiniteSet(B) /\ Cardinality(B) \in Nat
        /\ Cardinality(H') \in Nat /\ Cardinality(B') \in Nat
    BY CountsFinite, CountsFinitePrime
  <2>5. Cardinality(H') + s.quantity <= Cardinality(H)
    BY <1>2, <2>1, <2>2, <2>4, ShrinkByClaim
  <2>6. Cardinality(B') <= Cardinality(B) + s.quantity
    BY <1>2, <2>3, <2>4, GrowByClaim
  <2>7. /\ (Protected(rt, n, clock))' = Cardinality(H') + Cardinality(B')
        /\ Protected(rt, n, clock) = Cardinality(H) + Cardinality(B)
    BY DEF Protected, ProtectedExcept
  <2>. HIDE DEF H, B, s
  <2>. QED BY <1>2, <2>4, <2>5, <2>6, <2>7
<1>. QED BY <1>10, <1>11

\* A booking that changes its stay takes units that fit beside everything protected but its own.
LEMMA ChangeTermsFits ==
    ASSUME TypeOK, TypeOK', NEW rt \in RoomTypes, NEW n \in Days,
           NEW b \in BookingKeys, NEW key \in ChangeKeys, NEW now \in Captured,
           NEW s \in Spaces, NEW plan \in RatePlans, ChangeTerms(b, key, s, plan, now),
           (Protected(rt, n, clock))' > Protected(rt, n, clock)
    PROVE  Fitting(rt, n)'
<1>. DEFINE H == HeldTokens(rt, n, clock)
            B == BookedTokens(rt, n, {})
            Others == BookedTokens(rt, n, {b})
<1>1. /\ b \in DOMAIN bookings /\ b \in DOMAIN allocations /\ bookings[b] \in BookingRows
      /\ UNCHANGED <<clock, rooms, windows, holds>>
      /\ CapacityAllows(s, now, {b})
      /\ bookings' = [bookings EXCEPT ![b].space = s, ![b].plan = plan]
      /\ allocations' = [allocations EXCEPT ![b] = s]
  BY DEF ChangeTerms, MoveBooking, TypeOK, IsTable, catalogue
<1>3. s.quantity \in Units /\ s.quantity \in Nat
  BY StayAssumption DEF Spaces, Units
<1>4. /\ DOMAIN bookings' = DOMAIN bookings /\ DOMAIN allocations' = DOMAIN allocations
      /\ allocations'[b] = s
      /\ \A c \in DOMAIN allocations : c # b => allocations'[c] = allocations[c]
      /\ \A c \in DOMAIN bookings : bookings'[c].status = bookings[c].status
  BY <1>1 DEF TypeOK, IsTable, BookingRows
<1>5. (OpenBookings \cap DOMAIN allocations)' = OpenBookings \cap DOMAIN allocations
  BY <1>4 DEF OpenBookings
<1>6. B' \subseteq Others \cup {cu \in {b} \X Units : Occupies(s, rt, n) /\ cu[2] <= s.quantity}
  BY <1>4, <1>5 DEF BookedTokens, UnitTokens
<1>7. H' = H /\ Others \subseteq B
  BY <1>1 DEF HeldTokens, LiveHolds, BookedTokens, UnitTokens
<1>8. Occupies(s, rt, n)
  <2>1. SUFFICES ASSUME ~Occupies(s, rt, n) PROVE FALSE
    OBVIOUS
  <2>2. H' \subseteq H /\ B' \subseteq B
    BY <1>6, <1>7, <2>1
  <2>. QED BY <2>2, NoGrowth
<1>9. B' \subseteq Others \cup ({b} \X (1..s.quantity))
  BY <1>3, <1>6 DEF Units
<1>10. /\ IsFiniteSet(HeldTokens(rt, n, now)) /\ Cardinality(HeldTokens(rt, n, now)) \in Nat
       /\ IsFiniteSet(Others) /\ Cardinality(Others) \in Nat
       /\ Cardinality(H') \in Nat /\ Cardinality(B') \in Nat
  BY CountsFinite, CountsFinitePrime
<1>11. Cardinality(B') <= Cardinality(Others) + s.quantity
  BY <1>3, <1>9, <1>10, GrowByClaim
<1>12. H' \subseteq HeldTokens(rt, n, now)
  BY <1>7, CapturedProtectsMore
<1>13. Cardinality(H') <= Cardinality(HeldTokens(rt, n, now))
  BY <1>10, <1>12, FS_Subset
<1>14. Fits(rt, n, ProtectedExcept(rt, n, now, {b}) + s.quantity)
  BY <1>1, <1>8 DEF CapacityAllows, Occupies
<1>15. /\ (Protected(rt, n, clock))' = Cardinality(H') + Cardinality(B')
       /\ ProtectedExcept(rt, n, now, {b}) = Cardinality(HeldTokens(rt, n, now)) + Cardinality(Others)
  BY DEF Protected, ProtectedExcept
<1>. HIDE DEF H, B, Others
<1>16. /\ (Protected(rt, n, clock))' \in Nat
       /\ ProtectedExcept(rt, n, now, {b}) + s.quantity \in Nat
       /\ (Protected(rt, n, clock))' <= ProtectedExcept(rt, n, now, {b}) + s.quantity
  BY <1>3, <1>10, <1>11, <1>13, <1>15
<1>. QED BY <1>1, <1>14, <1>16, FitsFewer DEF Fitting, Fits

\* A payment event reopens no cancelled booking.
LEMMA PaymentReopensNothing ==
    ASSUME TypeOK, PaymentNext
    PROVE  /\ UNCHANGED <<clock, catalogue, holds, allocations>>
           /\ OpenBookings' \subseteq OpenBookings
<1>1. PICK b \in BookingKeys :
         \/ Cancel(b) \/ StartPayment(b) \/ Promote(b) \/ FailPayment(b)
         \/ \E payment \in PaymentClass, checkout \in CheckoutState : SettlePayment(b, payment, checkout)
         \/ ExpireCheckout(b) \/ RecordOfflinePayment(b) \/ RecordRefund(b) \/ ReturnRefund(b)
  BY DEF PaymentNext
<1>2. /\ UNCHANGED <<clock, catalogue, holds, allocations>>
      /\ DOMAIN bookings' = DOMAIN bookings
  BY PaymentFrame
<1>3. ASSUME NEW c \in DOMAIN bookings, bookings[c].status = "CANCELLED"
      PROVE  bookings'[c].status = "CANCELLED"
  <2>1. bookings[c] \in BookingRows
    BY DEF TypeOK, IsTable
  <2>2. CASE Cancel(b)
    BY <2>1, <2>2, <1>3 DEF Cancel, TypeOK, IsTable, BookingRows
  <2>3. CASE StartPayment(b) \/ Promote(b) \/ FailPayment(b)
    BY <2>1, <2>3, <1>3 DEF StartPayment, Promote, FailPayment, PaymentStep, TypeOK, IsTable, BookingRows
  <2>4. CASE \/ \E payment \in PaymentClass, checkout \in CheckoutState :
                   SettlePayment(b, payment, checkout)
            \/ ExpireCheckout(b)
    BY <2>1, <2>4, <1>3 DEF SettlePayment, ExpireCheckout, PaymentStep, TypeOK, IsTable, BookingRows
  <2>5. CASE RecordOfflinePayment(b) \/ RecordRefund(b) \/ ReturnRefund(b)
    BY <2>1, <2>5, <1>3 DEF RecordOfflinePayment, RecordRefund, ReturnRefund, PaymentStep, TypeOK, IsTable, BookingRows
  <2>. QED BY <1>1, <2>2, <2>3, <2>4, <2>5
<1>. QED BY <1>2, <1>3 DEF OpenBookings

\* Steps that end holds or bookings, let time pass or edit the catalogue add no unit.
LEMMA OtherStepsAddNothing ==
    ASSUME TypeOK, TypeOK', NEW rt \in RoomTypes, NEW n \in Days,
           \/ Tick
           \/ \E k \in HoldKeys, now \in Captured : ReleaseHold(k, now)
           \/ \E now \in Captured : ExpireHolds(now)
           \/ PaymentNext
           \/ CatalogueNext
           \/ UNCHANGED vars
    PROVE  ~((Protected(rt, n, clock))' > Protected(rt, n, clock))
<1>1. ASSUME UNCHANGED <<bookings, allocations>>, DOMAIN holds' = DOMAIN holds,
             LiveHolds(clock)' \subseteq LiveHolds(clock),
             \A k \in DOMAIN holds : holds'[k].space = holds[k].space
      PROVE  ~((Protected(rt, n, clock))' > Protected(rt, n, clock))
  <2>1. BookedTokens(rt, n, {})' \subseteq BookedTokens(rt, n, {})
    BY <1>1 DEF BookedTokens, OpenBookings
  <2>2. HeldTokens(rt, n, clock)' \subseteq HeldTokens(rt, n, clock)
    BY <1>1 DEF HeldTokens, UnitTokens, LiveHolds
  <2>. QED BY <2>1, <2>2, NoGrowth
<1>2. ASSUME UNCHANGED <<clock, holds, bookings, allocations>>
      PROVE  ~((Protected(rt, n, clock))' > Protected(rt, n, clock))
  BY <1>1, <1>2 DEF LiveHolds
<1>3. CASE Tick
  <2>1. UNCHANGED <<holds, bookings, allocations>> /\ clock' = clock + 1 /\ clock \in Nat
    BY <1>3 DEF Tick, ledger, TypeOK
  <2>2. LiveHolds(clock)' \subseteq LiveHolds(clock)
    BY <2>1 DEF LiveHolds, TypeOK, IsTable, HoldRows
  <2>. QED BY <1>1, <2>1, <2>2
<1>4. ASSUME NEW k \in HoldKeys, NEW now \in Captured, ReleaseHold(k, now)
      PROVE  ~((Protected(rt, n, clock))' > Protected(rt, n, clock))
  <2>1. /\ UNCHANGED <<clock, bookings, allocations>>
        /\ k \in DOMAIN holds /\ DOMAIN holds' = DOMAIN holds
        /\ holds'[k].status # "ACTIVE" /\ holds'[k].space = holds[k].space
        /\ \A j \in DOMAIN holds : j # k => holds'[j] = holds[j]
    BY <1>4 DEF ReleaseHold, TypeOK, IsTable, HoldRows
  <2>2. LiveHolds(clock)' \subseteq LiveHolds(clock)
    BY <2>1 DEF LiveHolds
  <2>. QED BY <1>1, <2>1, <2>2
<1>5. ASSUME NEW now \in Captured, ExpireHolds(now)
      PROVE  ~((Protected(rt, n, clock))' > Protected(rt, n, clock))
  <2>1. PICK batch : holds' = [k \in DOMAIN holds |->
                 IF k \in batch THEN [holds[k] EXCEPT !.status = "EXPIRED"] ELSE holds[k]]
    BY <1>5 DEF ExpireHolds
  <2>2. /\ DOMAIN holds' = DOMAIN holds
        /\ \A k \in DOMAIN holds : /\ holds'[k].space = holds[k].space
                                   /\ holds'[k].expiresAt = holds[k].expiresAt
                                   /\ holds'[k].status = "ACTIVE" => holds[k].status = "ACTIVE"
    BY <2>1 DEF TypeOK, IsTable, HoldRows
  <2>3. UNCHANGED <<clock, bookings, allocations>>
    BY <1>5 DEF ExpireHolds
  <2>4. LiveHolds(clock)' \subseteq LiveHolds(clock)
    BY <2>2, <2>3 DEF LiveHolds
  <2>. QED BY <1>1, <2>2, <2>3, <2>4
<1>6. CASE PaymentNext
  <2>1. UNCHANGED <<clock, holds, allocations>> /\ OpenBookings' \subseteq OpenBookings
    BY <1>6, PaymentReopensNothing
  <2>2. BookedTokens(rt, n, {})' \subseteq BookedTokens(rt, n, {})
    BY <2>1 DEF BookedTokens, UnitTokens
  <2>3. HeldTokens(rt, n, clock)' \subseteq HeldTokens(rt, n, clock)
    BY <2>1 DEF HeldTokens, LiveHolds
  <2>. QED BY <2>2, <2>3, NoGrowth
<1>7. CASE CatalogueNext
  BY <1>2, <1>7, CatalogueFrame
<1>8. CASE UNCHANGED vars
  BY <1>2, <1>8 DEF vars, ledger
<1>. QED BY <1>3, <1>4, <1>5, <1>6, <1>7, <1>8

\* The no-overbooking step of every transaction.
LEMMA GrowthStep ==
    ASSUME TypeOK, [Next]_vars, NEW rt \in RoomTypes, NEW n \in Days,
           (Protected(rt, n, clock))' > Protected(rt, n, clock)
    PROVE  Fitting(rt, n)' \/ LateConfirmation
<1>1. TypeOK'
  BY TypeStep
<1>2. CASE HoldNext
  BY <1>1, <1>2, CreateHoldFits, OtherStepsAddNothing DEF HoldNext
<1>3. CASE BookingNext
  BY <1>1, <1>3, BookingSteps, ConfirmKeepsUnits, ChangeTermsFits
<1>. QED BY <1>1, <1>2, <1>3, OtherStepsAddNothing DEF Next

\* Whatever is held, booked, moved and paid concurrently, no step adds units to a night
\* beyond its capacity, except a confirmation that commits after its hold expired.
THEOREM NoOverbookingUnlessLate == Spec => GrowthFitsUnlessLate
<1>1. TypeOK /\ [Next]_vars =>
        [\A rt \in RoomTypes, n \in Days :
           (Protected(rt, n, clock))' > Protected(rt, n, clock) =>
               Fitting(rt, n)' \/ LateConfirmation]_vars
  BY GrowthStep
<1>2. Spec => []TypeOK
  BY TypeCorrect
<1>. QED BY <1>1, <1>2, PTL DEF Spec, GrowthFitsUnlessLate

\* With the time read inside the transaction there is no exception left.
THEOREM NoOverbookingWithoutLag ==
    ASSUME MaxLag = 0
    PROVE  Spec => GrowthFits
<1>1. ASSUME TypeOK, [Next]_vars
      PROVE  ~LateConfirmation
  <2>1. SUFFICES ASSUME NEW k \in DOMAIN holds, holds[k].status = "ACTIVE", holds[k].expiresAt <= clock,
                        holds'[k].status = "CONSUMED"
                 PROVE  FALSE
    BY DEF LateConfirmation
  <2>2. holds[k] \in HoldRows
    BY <1>1 DEF TypeOK, IsTable
  <2>3. ASSUME NEW j \in HoldKeys, NEW row, row.status = "ACTIVE", j \notin DOMAIN holds,
               holds' = Put(holds, j, row)
        PROVE  FALSE
    BY <2>1, <2>3 DEF Put
  <2>4. ASSUME NEW b \in BookingKeys, NEW j \in HoldKeys, NEW now \in Captured, NEW status,
               Confirm(b, j, status, now)
        PROVE  FALSE
    <3>1. /\ j \in DOMAIN holds /\ holds[j] \in HoldRows
          /\ holds[j].expiresAt > now
          /\ holds' = [holds EXCEPT ![j].status = "CONSUMED"]
      BY <1>1, <2>4 DEF Confirm, TypeOK, IsTable
    <3>2. now = clock
      BY <1>1, <2>4, CapturedNat, InventoryAssumption DEF TypeOK
    <3>3. j # k
      BY <1>1, <2>1, <3>1, <3>2 DEF HoldRows, TypeOK
    <3>4. holds'[k] = holds[k]
      BY <1>1, <3>1, <3>3 DEF TypeOK, IsTable
    <3>. QED BY <2>1, <3>4
  <2>5. CASE HoldNext
    BY <1>1, <2>1, <2>2, <2>3, <2>5 DEF HoldNext, CreateHold, ReleaseHold, TypeOK, IsTable, HoldRows
  <2>6. CASE BookingNext
    <3>1. ASSUME NEW b, NEW key, NEW s, NEW plan, NEW now, ChangeTerms(b, key, s, plan, now)
          PROVE  FALSE
      <4>1. holds' = holds
        BY <3>1 DEF ChangeTerms
      <4>. QED BY <2>1, <4>1
    <3>. QED BY <1>1, <2>4, <2>6, <3>1, BookingSteps
  <2>7. ASSUME NEW now \in Captured, ExpireHolds(now)
        PROVE  FALSE
    BY <2>1, <2>2, <2>7 DEF ExpireHolds, HoldRows
  <2>8. CASE Tick \/ PaymentNext \/ CatalogueNext \/ UNCHANGED vars
    BY <1>1, <2>1, <2>8, PaymentFrame, CatalogueFrame DEF Tick, vars, ledger
  <2>. QED BY <1>1, <2>5, <2>6, <2>7, <2>8 DEF Next
<1>2. TypeOK /\ [Next]_vars =>
        [\A rt \in RoomTypes, n \in Days :
           (Protected(rt, n, clock))' > Protected(rt, n, clock) => Fitting(rt, n)']_vars
  BY <1>1, GrowthStep
<1>3. Spec => []TypeOK
  BY TypeCorrect
<1>. QED BY <1>2, <1>3, PTL DEF Spec, GrowthFits

----------------------------------------------------------------------------
\* What overbooks a night.

\* Units are counted in natural numbers, and what a captured time protects is no less than what
\* the clock protects.
LEMMA ProtectedCounts ==
    ASSUME TypeOK, NEW rt, NEW n
    PROVE  /\ Protected(rt, n, clock) \in Nat
           /\ \A now \in Captured : /\ Protected(rt, n, now) \in Nat
                                    /\ Protected(rt, n, clock) <= Protected(rt, n, now)
<1>. DEFINE H(t) == HeldTokens(rt, n, t)
            B == BookedTokens(rt, n, {})
<1>1. \A t : Protected(rt, n, t) = Cardinality(H(t)) + Cardinality(B)
  BY DEF Protected, ProtectedExcept
<1>2. \A t : IsFiniteSet(H(t)) /\ Cardinality(H(t)) \in Nat /\ Cardinality(B) \in Nat
  BY CountsFinite
<1>3. \A now \in Captured : Cardinality(H(clock)) <= Cardinality(H(now))
  BY <1>2, CapturedProtectsMore, FS_Subset
<1>. HIDE DEF H, B
<1>. QED BY <1>1, <1>2, <1>3

\* Rooms of a type that are neither added nor archived leave its capacity alone; a new room
\* can only add to it.
LEMMA RoomsKeepCapacity ==
    ASSUME NEW rt,
           {r \in Rooms : RoomTypeOf[r] = rt /\ rooms[r] = "ACTIVE"}
             \subseteq {r \in Rooms : RoomTypeOf[r] = rt /\ rooms'[r] = "ACTIVE"}
    PROVE  /\ PhysicalCapacity(rt) \in Nat /\ PhysicalCapacity(rt)' \in Nat
           /\ PhysicalCapacity(rt) <= PhysicalCapacity(rt)'
<1>1. /\ IsFiniteSet({r \in Rooms : RoomTypeOf[r] = rt /\ rooms[r] = "ACTIVE"})
      /\ IsFiniteSet({r \in Rooms : RoomTypeOf[r] = rt /\ rooms'[r] = "ACTIVE"})
  BY FS_Subset, InventoryAssumption
<1>. QED BY <1>1, FS_Subset, FS_CardinalityType DEF PhysicalCapacity

\* A night that fits still fits when it has no more units, no less capacity, and every window
\* that covers it was there or has room for its units.
LEMMA StillFits ==
    ASSUME TypeOK, NEW rt, NEW n, NEW u \in Nat, NEW v \in Nat, u <= v, Fits(rt, n, v),
           NEW cap \in Nat, PhysicalCapacity(rt) \in Nat, PhysicalCapacity(rt) <= cap,
           NEW ws, \A w \in ws : w \in windows \/ (Covers(w, rt, n) => u <= w.capacityLimit)
    PROVE  FitsNight(cap, ws, rt, n, u)
<1>1. \A w \in windows : w.capacityLimit \in Nat
  BY DEF TypeOK, WindowRows
<1>. QED BY <1>1 DEF Fits, FitsNight

\* A catalogue edit overbooks a night only by archiving a room of its type.
LEMMA CatalogueKeepsFit ==
    ASSUME TypeOK, CatalogueNext, NEW rt \in RoomTypes, NEW n \in Days, Fitting(rt, n),
           ~RoomArchived(rt)
    PROVE  Fitting(rt, n)'
<1>. DEFINE P == Protected(rt, n, clock)
            Active == {r \in Rooms : RoomTypeOf[r] = rt /\ rooms[r] = "ACTIVE"}
            ActiveAfter == {r \in Rooms : RoomTypeOf[r] = rt /\ rooms'[r] = "ACTIVE"}
            Covered == \A w \in windows' : w \in windows \/ (Covers(w, rt, n) => P <= w.capacityLimit)
<1>1. UNCHANGED <<clock, holds, bookings, allocations>>
  BY CatalogueFrame
<1>2. (Protected(rt, n, clock))' = P /\ P \in Nat
  <2>1. (Protected(rt, n, clock))' = P
    BY <1>1 DEF Protected, ProtectedExcept, HeldTokens, BookedTokens, LiveHolds, OpenBookings
  <2>. QED BY <2>1, ProtectedCounts
<1>3. Active \subseteq ActiveAfter
  <2>. SUFFICES ASSUME NEW r \in Rooms, RoomTypeOf[r] = rt, rooms[r] = "ACTIVE"
                PROVE  rooms'[r] = "ACTIVE"
    OBVIOUS
  <2>0. rooms \in [Rooms -> RoomStatus]
    BY DEF TypeOK
  <2>1. ASSUME NEW q \in Rooms, NEW status, CreateRoom(q, status)
        PROVE  rooms'[r] = "ACTIVE"
    BY <2>0, <2>1 DEF CreateRoom
  <2>2. ASSUME NEW q \in Rooms, NEW now, ArchiveRoom(q, now)
        PROVE  rooms'[r] = "ACTIVE"
    BY <2>0, <2>2 DEF ArchiveRoom, RoomArchived
  <2>. QED BY <2>1, <2>2 DEF CatalogueNext, ArchiveRoomType, AssignRatePlan, RemoveRatePlan,
                ArchiveRatePlan, CreateWindow, ArchiveWindow, CreateRestriction, ArchiveRestriction
<1>4. Covered
  <2>1. ASSUME NEW w \in WindowInputs, NEW now \in Captured, CreateWindow(w, now)
        PROVE  Covered
    <3>1. w \in WindowRows
      BY InventoryAssumption
    <3>2. w.capacityLimit \in Nat /\ w.startDate \in Int /\ w.endDate \in Int
      BY <3>1 DEF WindowRows, Days
    <3>3. Covers(w, rt, n) => P <= w.capacityLimit
      <4>. SUFFICES ASSUME Covers(w, rt, n) PROVE P <= w.capacityLimit
        OBVIOUS
      <4>1. n \in w.startDate..w.endDate /\ w.roomType = rt
        BY <3>2 DEF Covers, Days
      <4>2. Protected(rt, n, now) <= w.capacityLimit
        BY <2>1, <4>1 DEF CreateWindow
      <4>3. P <= Protected(rt, n, now) /\ Protected(rt, n, now) \in Nat /\ P \in Nat
        BY ProtectedCounts
      <4>. HIDE DEF P
      <4>. QED BY <3>2, <4>2, <4>3
    <3>. QED BY <2>1, <3>3 DEF CreateWindow
  <2>2. ASSUME NEW w, ArchiveWindow(w)
        PROVE  Covered
    BY <2>2 DEF ArchiveWindow
  <2>3. ASSUME UNCHANGED windows
        PROVE  Covered
    BY <2>3
  <2>. HIDE DEF Covered
  <2>. QED BY <2>1, <2>2, <2>3 DEF CatalogueNext, CreateRoom, ArchiveRoom, ArchiveRoomType,
                AssignRatePlan, RemoveRatePlan, ArchiveRatePlan, CreateRestriction, ArchiveRestriction
<1>5. /\ PhysicalCapacity(rt) \in Nat /\ PhysicalCapacity(rt)' \in Nat
      /\ PhysicalCapacity(rt) <= PhysicalCapacity(rt)'
  BY <1>3, RoomsKeepCapacity
<1>6. Fits(rt, n, P)
  BY DEF Fitting
<1>. HIDE DEF P
<1>7. FitsNight(PhysicalCapacity(rt)', windows', rt, n, P)
  BY <1>2, <1>4, <1>5, <1>6, StillFits
<1>. QED BY <1>2, <1>7 DEF Fitting, Fits

\* Steps that do not edit the catalogue overbook a night only by adding units to it.
LEMMA FewerUnitsFit ==
    ASSUME TypeOK, TypeOK', NEW rt \in RoomTypes, NEW n \in Days, UNCHANGED catalogue,
           Fitting(rt, n), ~((Protected(rt, n, clock))' > Protected(rt, n, clock))
    PROVE  Fitting(rt, n)'
<1>1. Protected(rt, n, clock) \in Nat
  BY ProtectedCounts
<1>2. (Protected(rt, n, clock))' \in Nat
  <2>1. (Protected(rt, n, clock))' = Cardinality(HeldTokens(rt, n, clock)') + Cardinality(BookedTokens(rt, n, {})')
    BY DEF Protected, ProtectedExcept
  <2>2. /\ Cardinality(HeldTokens(rt, n, clock)') \in Nat
        /\ Cardinality(BookedTokens(rt, n, {})') \in Nat
    BY CountsFinitePrime
  <2>. QED BY <2>1, <2>2
<1>3. UNCHANGED <<rooms, windows>> /\ Fits(rt, n, Protected(rt, n, clock))
  BY DEF catalogue, Fitting
<1>4. (Protected(rt, n, clock))' <= Protected(rt, n, clock)
  BY <1>1, <1>2
<1>5. FitsNight(PhysicalCapacity(rt)', windows', rt, n, (Protected(rt, n, clock))')
  BY <1>1, <1>2, <1>3, <1>4, FitsFewer
<1>. QED BY <1>5 DEF Fitting, Fits

\* A night within its capacity becomes overbooked by a late confirmation or by the archival of
\* one of its rooms, and by nothing else that requests, staff and the provider do.
THEOREM TwoCausesOnly == Spec => OverbookingHasTwoCauses
<1>1. ASSUME TypeOK, [Next]_vars, NEW rt \in RoomTypes, NEW n \in Days, Fitting(rt, n),
             ~Fitting(rt, n)'
      PROVE  LateConfirmation \/ RoomArchived(rt)
  <2>1. TypeOK'
    BY <1>1, TypeStep
  <2>2. CASE CatalogueNext
    BY <1>1, <2>2, CatalogueKeepsFit
  <2>3. CASE UNCHANGED catalogue
    BY <1>1, <2>1, <2>3, FewerUnitsFit, GrowthStep
  <2>. QED BY <1>1, <2>2, <2>3, CatalogueOrLedger
<1>2. TypeOK /\ [Next]_vars =>
        [\A rt \in RoomTypes, n \in Days :
          Fitting(rt, n) /\ ~Fitting(rt, n)' => LateConfirmation \/ RoomArchived(rt)]_vars
  BY <1>1
<1>. QED BY <1>2, TypeCorrect, PTL DEF Spec, OverbookingHasTwoCauses

===============================================================================
