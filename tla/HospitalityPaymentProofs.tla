---------------------- MODULE HospitalityPaymentProofs ----------------------
(***************************************************************************)
(* What the inventory may rely on about payments, for every instance of    *)
(* HospitalityInventory: the contract of each booking's payment, that a    *)
(* cancelled booking keeps neither money nor an open payment, that an      *)
(* unresolved payment freezes its booking, and that a request changes a    *)
(* booking once. And about PublicBooking: it implements the inventory,     *)
(* keeps the inventory's properties and, unless a request is late, its     *)
(* limit on holds, promotes a booking only while it protects its units,    *)
(* lets go of an abandoned one, and offers in vain only where such a one   *)
(* still has its rooms.                                                    *)
(***************************************************************************)
EXTENDS HospitalityInventoryProofs, PublicBooking

----------------------------------------------------------------------------
\* The contract, step by step.

\* A payment is disturbed only by a change of its booking's status, payment or checkout.
LEMMA OthersStutter ==
    ASSUME NEW c, c \in DOMAIN bookings <=> c \in DOMAIN bookings',
           c \in DOMAIN bookings => /\ bookings'[c].status = bookings[c].status
                                    /\ bookings'[c].payment = bookings[c].payment
                                    /\ bookings'[c].checkout = bookings[c].checkout
    PROVE  UNCHANGED PaymentOf(c)!vars
BY DEF PaymentOf!vars

\* What a transaction that writes one row of the bookings does to the payment of each.
LEMMA RowWritten ==
    ASSUME TypeOK, NEW b \in DOMAIN bookings, NEW row \in BookingRows,
           bookings' = [bookings EXCEPT ![b] = row]
    PROVE  /\ DOMAIN bookings' = DOMAIN bookings
           /\ bookings'[b] = row
           /\ \A c : c # b => UNCHANGED PaymentOf(c)!vars
<1>1. DOMAIN bookings' = DOMAIN bookings
  BY DEF TypeOK, IsTable
<1>2. ASSUME NEW c, c # b
      PROVE  UNCHANGED PaymentOf(c)!vars
  <2>1. c \in DOMAIN bookings => bookings'[c] = bookings[c]
    BY <1>2 DEF TypeOK, IsTable
  <2>. QED BY <1>1, <2>1, OthersStutter
<1>. QED BY <1>1, <1>2 DEF TypeOK, IsTable

\* Every payment request, event and cancellation is a step of the contract of its booking.
LEMMA PaymentContractStep ==
    ASSUME TypeOK, PaymentNext, NEW c \in BookingKeys
    PROVE  PaymentOf(c)!Next \/ UNCHANGED PaymentOf(c)!vars
<1>1. PICK b \in BookingKeys :
         \/ Cancel(b) \/ StartPayment(b) \/ Promote(b) \/ FailPayment(b)
         \/ \E payment \in PaymentClass, checkout \in CheckoutState : SettlePayment(b, payment, checkout)
         \/ ExpireCheckout(b) \/ RecordOfflinePayment(b) \/ RecordRefund(b) \/ ReturnRefund(b)
  BY DEF PaymentNext
<1>2. b \in DOMAIN bookings
  BY <1>1 DEF Cancel, StartPayment, Promote, FailPayment, SettlePayment, ExpireCheckout,
              RecordOfflinePayment, RecordRefund, ReturnRefund
<1>3. bookings[b] \in BookingRows
  BY <1>2 DEF TypeOK, IsTable
<1>4. PICK row \in BookingRows : bookings' = [bookings EXCEPT ![b] = row]
  <2>1. PICK d \in DOMAIN bookings, row \in BookingRows : bookings' = [bookings EXCEPT ![d] = row]
    BY PaymentFrame
  <2>2. bookings'[b] \in BookingRows /\ bookings' = [bookings EXCEPT ![b] = bookings'[b]]
    <3>1. \E r : bookings' = [bookings EXCEPT ![b] = r]
      BY <1>1 DEF Cancel, StartPayment, Promote, FailPayment, SettlePayment, ExpireCheckout,
                  RecordOfflinePayment, RecordRefund, ReturnRefund, PaymentStep
    <3>2. IsTable(bookings', BookingKeys, BookingRows)
      BY <2>1, ExceptTable DEF TypeOK
    <3>. QED BY <1>2, <3>1, <3>2 DEF TypeOK, IsTable
  <2>. QED BY <2>2
<1>5. /\ DOMAIN bookings' = DOMAIN bookings
      /\ bookings'[b] = row
      /\ \A d : d # b => UNCHANGED PaymentOf(d)!vars
  BY <1>2, <1>4, RowWritten
<1>6. CASE Cancel(b)
  <2>1. row = [bookings[b] EXCEPT !.status = "CANCELLED"]
    BY <1>2, <1>5, <1>6 DEF Cancel, TypeOK, IsTable
  <2>2. PaymentOf(b)!Cancel
    BY <1>2, <1>3, <1>5, <1>6, <2>1 DEF Cancel, Unresolved, BookingRows, PaymentOf!Cancel, PaymentOf!Live
  <2>. QED BY <1>5, <2>2 DEF PaymentOf!Next
<1>7. CASE StartPayment(b)
  <2>1. row = [bookings[b] EXCEPT !.checkout = "PENDING"]
    BY <1>2, <1>5, <1>7 DEF StartPayment, PaymentStep, TypeOK, IsTable
  <2>2. PaymentOf(b)!StartCheckout
    BY <1>2, <1>3, <1>5, <1>7, <2>1 DEF StartPayment, Unresolved, BookingRows, PaymentOf!StartCheckout, PaymentOf!Live
  <2>. QED BY <1>5, <2>2 DEF PaymentOf!Next
<1>8. CASE Promote(b)
  <2>1. row = [bookings[b] EXCEPT !.status = "CONFIRMED"]
    BY <1>2, <1>5, <1>8 DEF Promote, PaymentStep, TypeOK, IsTable
  <2>2. PaymentOf(b)!Promote
    BY <1>2, <1>3, <1>5, <1>8, <2>1 DEF Promote, Unresolved, BookingRows, PaymentOf!Promote
  <2>. QED BY <1>5, <2>2 DEF PaymentOf!Next
<1>9. CASE FailPayment(b)
  <2>1. row = [bookings[b] EXCEPT !.checkout = "FAILED"]
    BY <1>2, <1>5, <1>9 DEF FailPayment, PaymentStep, TypeOK, IsTable
  <2>2. PaymentOf(b)!FailCheckout
    BY <1>2, <1>3, <1>5, <1>9, <2>1 DEF FailPayment, Unresolved, BookingRows, PaymentOf!FailCheckout
  <2>. QED BY <1>5, <2>2 DEF PaymentOf!Next
<1>10. CASE ExpireCheckout(b)
  <2>1. row = [bookings[b] EXCEPT !.checkout = "FAILED", !.status = "CANCELLED"]
    BY <1>2, <1>5, <1>10 DEF ExpireCheckout, PaymentStep, TypeOK, IsTable
  <2>2. PaymentOf(b)!ExpireCheckout
    BY <1>2, <1>3, <1>5, <1>10, <2>1 DEF ExpireCheckout, Unresolved, BookingRows, PaymentOf!ExpireCheckout
  <2>. QED BY <1>5, <2>2 DEF PaymentOf!Next
<1>11. CASE RecordOfflinePayment(b)
  <2>1. row = [bookings[b] EXCEPT !.payment = "SETTLED"]
    BY <1>2, <1>5, <1>11 DEF RecordOfflinePayment, PaymentStep, TypeOK, IsTable
  <2>2. PaymentOf(b)!PayOffline
    BY <1>2, <1>3, <1>5, <1>11, <2>1 DEF RecordOfflinePayment, Unresolved, BookingRows, PaymentOf!PayOffline
  <2>. QED BY <1>5, <2>2 DEF PaymentOf!Next
<1>12. CASE RecordRefund(b)
  <2>1. row = [bookings[b] EXCEPT !.payment = "REFUNDED"]
    BY <1>2, <1>5, <1>12 DEF RecordRefund, PaymentStep, TypeOK, IsTable
  <2>2. PaymentOf(b)!RefundAll
    BY <1>2, <1>3, <1>5, <1>12, <2>1 DEF RecordRefund, Unresolved, BookingRows, PaymentOf!RefundAll
  <2>. QED BY <1>5, <2>2 DEF PaymentOf!Next
<1>14. CASE ReturnRefund(b)
  <2>1. row = [bookings[b] EXCEPT !.payment = "SETTLED"]
    BY <1>2, <1>5, <1>14 DEF ReturnRefund, PaymentStep, TypeOK, IsTable
  <2>2. PaymentOf(b)!ReturnRefund
    BY <1>2, <1>3, <1>5, <1>14, <2>1 DEF ReturnRefund, Unresolved, BookingRows, PaymentOf!ReturnRefund
  <2>. QED BY <1>5, <2>2 DEF PaymentOf!Next
<1>13. ASSUME NEW payment \in PaymentClass, NEW checkout \in CheckoutState,
              SettlePayment(b, payment, checkout)
       PROVE  PaymentOf(c)!Next \/ UNCHANGED PaymentOf(c)!vars
  <2>1. row = [bookings[b] EXCEPT !.checkout = checkout, !.payment = payment]
    BY <1>2, <1>5, <1>13 DEF SettlePayment, PaymentStep, TypeOK, IsTable
  <2>2. PaymentOf(b)!Settle
    BY <1>2, <1>3, <1>5, <1>13, <2>1 DEF SettlePayment, BookingRows, PaymentOf!Settle
  <2>. QED BY <1>5, <2>2 DEF PaymentOf!Next
<1>. QED BY <1>1, <1>6, <1>7, <1>8, <1>9, <1>10, <1>11, <1>12, <1>13, <1>14

\* A booking is created with an open payment; no other step touches a payment.
LEMMA ContractStep ==
    ASSUME TypeOK, [Next]_vars, NEW c \in BookingKeys
    PROVE  PaymentOf(c)!Next \/ UNCHANGED PaymentOf(c)!vars
<1>1. CASE UNCHANGED bookings
  BY <1>1, OthersStutter
<1>2. CASE PaymentNext
  BY <1>2, PaymentContractStep
<1>3. ASSUME NEW b \in BookingKeys, NEW now \in Captured, NEW k \in HoldKeys,
             NEW status \in {"CONFIRMED", "PENDING_CONFIRMATION"}, Confirm(b, k, status, now)
      PROVE  PaymentOf(c)!Next \/ UNCHANGED PaymentOf(c)!vars
  <2>1. /\ b \notin DOMAIN bookings
        /\ DOMAIN bookings' = DOMAIN bookings \cup {b}
        /\ bookings'[b].status = status
        /\ bookings'[b].payment = "OPEN" /\ bookings'[b].checkout = "NONE"
        /\ \A d \in DOMAIN bookings : bookings'[d] = bookings[d]
    BY <1>3 DEF Confirm, Put
  <2>2. CASE c = b
    BY <2>1, <2>2 DEF PaymentOf!Next, PaymentOf!Create, PaymentOf!Live
  <2>3. CASE c # b
    BY <2>1, <2>3, OthersStutter
  <2>. QED BY <2>2, <2>3
<1>4. ASSUME NEW b \in BookingKeys, NEW now \in Captured, NEW key \in ChangeKeys,
             NEW s \in Spaces, NEW plan \in RatePlans, ChangeTerms(b, key, s, plan, now)
      PROVE  UNCHANGED PaymentOf(c)!vars
  <2>1. bookings' = [bookings EXCEPT ![b].space = s, ![b].plan = plan]
    BY <1>4 DEF ChangeTerms, MoveBooking
  <2>2. c \in DOMAIN bookings => bookings[c] \in BookingRows
    BY DEF TypeOK, IsTable
  <2>. QED BY <2>1, <2>2, OthersStutter DEF TypeOK, IsTable, BookingRows
<1>5. CASE Tick \/ HoldNext \/ (\E now \in Captured : ExpireHolds(now)) \/ CatalogueNext \/ UNCHANGED vars
  <2>1. UNCHANGED bookings
    BY <1>5, CatalogueFrame DEF Tick, HoldNext, CreateHold, ReleaseHold, ExpireHolds, vars, ledger
  <2>. QED BY <1>1, <2>1
<1>6. CASE BookingNext
  BY <1>3, <1>4, <1>6, BookingSteps
<1>. QED BY <1>2, <1>5, <1>6 DEF Next

\* Whatever is interleaved over the inventory, the payment of each booking takes only steps
\* of the contract that the payment services keep.
THEOREM PaymentContractKept == Spec => BookingsKeepPaymentContract
<1>1. TypeOK /\ [Next]_vars =>
        [\A b \in BookingKeys : PaymentOf(b)!Next \/ UNCHANGED PaymentOf(b)!vars]_vars
  BY ContractStep
<1>. QED BY <1>1, TypeCorrect, PTL DEF Spec, BookingsKeepPaymentContract

----------------------------------------------------------------------------
\* What the contract gives.

\* The invariant of one payment: a step of the contract keeps a cancelled booking free of
\* money and of an open attempt.
Clean(c) ==
    c \in DOMAIN bookings /\ bookings[c].status = "CANCELLED" =>
        bookings[c].payment # "SETTLED" /\ ~Unresolved(c)

LEMMA ContractKeepsClean ==
    ASSUME NEW c \in BookingKeys, Clean(c), PaymentOf(c)!Next \/ UNCHANGED PaymentOf(c)!vars
    PROVE  Clean(c)'
BY DEF Clean, Unresolved, PaymentOf!Next, PaymentOf!vars, PaymentOf!Live, PaymentOf!Create,
       PaymentOf!StartCheckout, PaymentOf!Promote, PaymentOf!FailCheckout, PaymentOf!Settle,
       PaymentOf!ExpireCheckout, PaymentOf!PayOffline, PaymentOf!RefundAll, PaymentOf!ReturnRefund,
       PaymentOf!Cancel

\* A cancelled booking holds no money and no open payment that could still bring some in.
THEOREM NoMoneyInCancelled == Spec => []CancelledHasNoMoney
<1>. DEFINE Inv == TypeOK /\ \A c \in BookingKeys : Clean(c)
<1>1. Init => Inv
  <2>1. Init => TypeOK
    BY InventoryAssumption DEF Init, TypeOK, IsTable, RoomStatus
  <2>. QED BY <2>1 DEF Init, Clean
<1>2. Inv /\ [Next]_vars => Inv'
  <2>1. Inv /\ [Next]_vars => TypeOK'
    BY TypeStep
  <2>2. ASSUME Inv, [Next]_vars, NEW c \in BookingKeys
        PROVE  Clean(c)'
    BY <2>2, ContractStep, ContractKeepsClean
  <2>. QED BY <2>1, <2>2
<1>3. Inv => CancelledHasNoMoney
  BY DEF Clean, CancelledHasNoMoney, TypeOK, IsTable
<1>. QED BY <1>1, <1>2, <1>3, PTL DEF Spec

----------------------------------------------------------------------------
\* What a step may do to the terms of a booking.

\* No row of a hold or a booking is deleted, and a booking keeps its hold.
LEMMA RowsStay ==
    ASSUME TypeOK, [Next]_vars
    PROVE  /\ DOMAIN holds \subseteq DOMAIN holds'
           /\ DOMAIN bookings \subseteq DOMAIN bookings'
           /\ \A b \in DOMAIN bookings : bookings'[b].hold = bookings[b].hold
<1>. DEFINE Stay == /\ DOMAIN holds \subseteq DOMAIN holds'
                    /\ DOMAIN bookings \subseteq DOMAIN bookings'
                    /\ \A b \in DOMAIN bookings : bookings'[b].hold = bookings[b].hold
<1>1. ASSUME UNCHANGED <<holds, bookings>> PROVE Stay
  BY <1>1
<1>2. CASE HoldNext
  BY <1>2 DEF HoldNext, CreateHold, ReleaseHold, Put, TypeOK, IsTable
<1>3. ASSUME NEW now \in Captured, ExpireHolds(now) PROVE Stay
  BY <1>3 DEF ExpireHolds, TypeOK, IsTable
<1>4. ASSUME NEW b \in BookingKeys, NEW now \in Captured, NEW k \in HoldKeys,
             NEW status \in {"CONFIRMED", "PENDING_CONFIRMATION"}, Confirm(b, k, status, now)
      PROVE  Stay
  BY <1>4 DEF Confirm, Put, TypeOK, IsTable
<1>5. ASSUME NEW b \in BookingKeys, NEW now \in Captured, NEW key \in ChangeKeys,
             NEW s \in Spaces, NEW plan \in RatePlans, ChangeTerms(b, key, s, plan, now)
      PROVE  Stay
  <2>1. bookings' = [bookings EXCEPT ![b].space = s, ![b].plan = plan] /\ UNCHANGED holds
    BY <1>5 DEF ChangeTerms, MoveBooking
  <2>2. \A c \in DOMAIN bookings : bookings[c] \in BookingRows
    BY DEF TypeOK, IsTable
  <2>. QED BY <2>1, <2>2 DEF TypeOK, IsTable, BookingRows
<1>6. CASE PaymentNext
  BY <1>6, PaymentFrame DEF TypeOK, IsTable
<1>7. CASE Tick \/ CatalogueNext \/ UNCHANGED vars
  BY <1>7, <1>1, CatalogueFrame DEF Tick, vars, ledger
<1>. QED BY <1>2, <1>3, <1>4, <1>5, <1>6, <1>7, BookingSteps DEF Next

\* A booking keeps its stay, plan and allocation, or it is confirmed, has no unresolved
\* payment, and moves under a key it has not used.
LEMMA TermsStep ==
    ASSUME TypeOK, LedgersAgree, [Next]_vars, NEW b \in DOMAIN bookings
    PROVE  \/ /\ bookings'[b].space = bookings[b].space
              /\ bookings'[b].plan = bookings[b].plan
              /\ allocations'[b] = allocations[b]
           \/ /\ bookings[b].status = "CONFIRMED" /\ ~Unresolved(b)
              /\ \E key \in ChangeKeys : <<b, key>> \in changes' \ changes
<1>. DEFINE Kept == /\ bookings'[b].space = bookings[b].space
                    /\ bookings'[b].plan = bookings[b].plan
                    /\ allocations'[b] = allocations[b]
            Moves == /\ bookings[b].status = "CONFIRMED" /\ ~Unresolved(b)
                     /\ \E key \in ChangeKeys : <<b, key>> \in changes' \ changes
<1>0. /\ bookings[b] \in BookingRows
      /\ b \in DOMAIN allocations
      /\ allocations[b] = bookings[b].space
  BY DEF TypeOK, IsTable, LedgersAgree, AllocationsMatchBookings
<1>1. ASSUME UNCHANGED <<bookings, allocations>>
      PROVE  Kept
  BY <1>1
<1>2. ASSUME NEW c \in BookingKeys, NEW now \in Captured, NEW k \in HoldKeys,
             NEW status \in {"CONFIRMED", "PENDING_CONFIRMATION"}, Confirm(c, k, status, now)
      PROVE  Kept
  BY <1>0, <1>2 DEF Confirm, Put
<1>3. ASSUME NEW c \in BookingKeys, NEW now \in Captured, NEW key \in ChangeKeys,
             NEW s \in Spaces, NEW plan \in RatePlans, ChangeTerms(c, key, s, plan, now)
      PROVE  Kept \/ Moves
  <2>1. /\ bookings' = [bookings EXCEPT ![c].space = s, ![c].plan = plan]
        /\ allocations' = [allocations EXCEPT ![c] = s]
        /\ changes' = changes \cup {<<c, key>>} /\ <<c, key>> \notin changes
        /\ bookings[c].status = "CONFIRMED" /\ ~Unresolved(c)
    BY <1>3 DEF ChangeTerms, MoveBooking
  <2>2. CASE c = b
    BY <2>1, <2>2
  <2>3. CASE c # b
    <3>1. bookings'[b] = bookings[b] /\ allocations'[b] = allocations[b]
      BY <1>0, <2>1, <2>3 DEF TypeOK, IsTable
    <3>. QED BY <3>1
  <2>. QED BY <2>2, <2>3
<1>4. CASE PaymentNext
  BY <1>4, PaymentFrame DEF TypeOK, IsTable
<1>5. CASE Tick \/ HoldNext \/ (\E now \in Captured : ExpireHolds(now)) \/ CatalogueNext \/ UNCHANGED vars
  <2>1. UNCHANGED <<bookings, allocations>>
    BY <1>5, CatalogueFrame DEF Tick, HoldNext, CreateHold, ReleaseHold, ExpireHolds, vars, ledger
  <2>. QED BY <1>1, <2>1
<1>6. CASE BookingNext
  BY <1>2, <1>3, <1>6, BookingSteps
<1>7. Kept \/ Moves
  BY <1>4, <1>5, <1>6 DEF Next
<1>. QED BY <1>7

\* No step of the contract cancels a booking whose payment stays unresolved, and none follows
\* a cancellation without money.
LEMMA ContractFreezes ==
    ASSUME NEW c \in DOMAIN bookings, c \in DOMAIN bookings',
           PaymentOf(c)!Next \/ UNCHANGED PaymentOf(c)!vars,
           bookings[c].status # "NONE"
    PROVE  /\ Unresolved(c) /\ Unresolved(c)' /\ bookings'[c].status = "CANCELLED" =>
                  bookings[c].status = "CANCELLED"
           /\ bookings[c].status = "CANCELLED" /\ Clean(c) =>
                  /\ bookings'[c].status = bookings[c].status
                  /\ bookings'[c].payment = bookings[c].payment
                  /\ bookings'[c].checkout = bookings[c].checkout
BY DEF Clean, Unresolved, PaymentOf!Next, PaymentOf!vars, PaymentOf!Live, PaymentOf!Create,
       PaymentOf!StartCheckout, PaymentOf!Promote, PaymentOf!FailCheckout, PaymentOf!Settle,
       PaymentOf!ExpireCheckout, PaymentOf!PayOffline, PaymentOf!RefundAll, PaymentOf!ReturnRefund,
       PaymentOf!Cancel

\* What a step does to a booking that is there, as both theorems use it.
LEMMA BookingRowStep ==
    ASSUME TypeOK, LedgersAgree, CancelledHasNoMoney, [Next]_vars, NEW b \in DOMAIN bookings
    PROVE  /\ Unresolved(b) /\ Unresolved(b)' /\ bookings'[b].status = "CANCELLED" =>
                  bookings[b].status = "CANCELLED"
           /\ bookings[b].status = "CANCELLED" =>
                  bookings'[b] = bookings[b] /\ allocations'[b] = allocations[b]
<1>1. b \in BookingKeys /\ bookings[b] \in BookingRows
  BY DEF TypeOK, IsTable
<1>2. b \in DOMAIN bookings' /\ bookings'[b].hold = bookings[b].hold
  BY RowsStay
<1>3. bookings'[b] \in BookingRows
  BY <1>2, TypeStep DEF TypeOK, IsTable
<1>4. PaymentOf(b)!Next \/ UNCHANGED PaymentOf(b)!vars
  BY <1>1, ContractStep
<1>5. bookings[b].status # "NONE" /\ Clean(b)
  BY <1>1 DEF BookingRows, BookingStatus, CancelledHasNoMoney, Clean
<1>6. ASSUME bookings[b].status = "CANCELLED"
      PROVE  bookings'[b] = bookings[b] /\ allocations'[b] = allocations[b]
  <2>1. /\ bookings'[b].space = bookings[b].space
        /\ bookings'[b].plan = bookings[b].plan
        /\ allocations'[b] = allocations[b]
    BY <1>6, TermsStep
  <2>2. /\ bookings'[b].status = bookings[b].status
        /\ bookings'[b].payment = bookings[b].payment
        /\ bookings'[b].checkout = bookings[b].checkout
    BY <1>2, <1>4, <1>5, <1>6, ContractFreezes
  <2>. QED BY <1>1, <1>2, <1>3, <2>1, <2>2 DEF BookingRows
<1>. QED BY <1>2, <1>4, <1>5, <1>6, ContractFreezes

\* While a payment of a booking is unresolved, no request moves its terms or cancels it.
THEOREM FrozenWhileUnresolved == Spec => UnresolvedPaymentFreezesBooking
<1>1. TypeOK /\ LedgersAgree /\ CancelledHasNoMoney /\ [Next]_vars =>
        [\A b \in DOMAIN bookings :
          Unresolved(b) /\ Unresolved(b)' =>
              /\ bookings'[b].space = bookings[b].space
              /\ bookings'[b].plan = bookings[b].plan
              /\ bookings'[b].status = "CANCELLED" => bookings[b].status = "CANCELLED"]_vars
  BY TermsStep, BookingRowStep
<1>. QED BY <1>1, TypeCorrect, OneHoldOneBooking, NoMoneyInCancelled, PTL
         DEF Spec, UnresolvedPaymentFreezesBooking

\* A booking's terms change only under a key it has not used, and nothing of a cancelled
\* booking changes any more.
THEOREM ChangedOncePerKey == Spec => ChangesHappenOnce
<1>1. TypeOK /\ LedgersAgree /\ CancelledHasNoMoney /\ [Next]_vars =>
        [\A b \in DOMAIN bookings :
          /\ <<bookings'[b].space, bookings'[b].plan>> # <<bookings[b].space, bookings[b].plan>> =>
                 \E key \in ChangeKeys : <<b, key>> \in changes' \ changes
          /\ bookings[b].status = "CANCELLED" =>
                 bookings'[b] = bookings[b] /\ allocations'[b] = allocations[b]]_vars
  BY TermsStep, BookingRowStep
<1>. QED BY <1>1, TypeCorrect, OneHoldOneBooking, NoMoneyInCancelled, PTL
         DEF Spec, ChangesHappenOnce

----------------------------------------------------------------------------
\* The anonymous customer.

\* Every request of a customer is a request to the inventory, or changes nothing of it.
LEMMA CustomerSteps == [PublicNext]_publicSpecVars => [Next]_vars
<1>1. CASE StaffNext
  BY <1>1 DEF StaffNext
<1>2. ASSUME NEW k \in HoldKeys, NEW now \in Captured, NEW s \in Spaces, NEW plan \in RatePlans,
             PublicHold(k, s, plan, now)
      PROVE  Next
  BY <1>2, PublicAssumption DEF PublicHold, HoldNext, Next
<1>3. ASSUME NEW k \in HoldKeys, NEW now \in Captured, PublicRelease(k, now)
      PROVE  Next
  BY <1>3 DEF PublicRelease, HoldNext, Next
<1>4. ASSUME NEW k \in HoldKeys, NEW now \in Captured, NEW b \in BookingKeys, PublicConfirm(b, k, now)
      PROVE  Next
  BY <1>4 DEF PublicConfirm, BookingNext, Next
<1>5. ASSUME NEW b \in BookingKeys,
             ClaimPublicCheckout(b) \/ RetryPublicCheckout(b) \/ BindPublicCheckout(b)
      PROVE  Next \/ UNCHANGED vars
  BY <1>5 DEF ClaimPublicCheckout, RetryPublicCheckout, BindPublicCheckout, PaymentNext, Next
<1>6. CASE UNCHANGED publicSpecVars
  BY <1>6 DEF publicSpecVars
<1>. QED BY <1>1, <1>2, <1>3, <1>4, <1>5, <1>6 DEF PublicNext, CustomerNext

\* The public booking flow implements the inventory: what is proved of the inventory under its
\* staff holds when anonymous customers hold, book and pay as well.
THEOREM PublicIsInventory == PublicSpec => Spec
<1>1. PublicInit => Init
  BY DEF PublicInit
<1>. QED BY <1>1, CustomerSteps, PTL DEF PublicSpec, Spec

\* A booking that is pending after a step of its contract was just made, or was pending before
\* with the same payment.
LEMMA PendingBefore ==
    ASSUME NEW c \in DOMAIN bookings', PaymentOf(c)!Next \/ UNCHANGED PaymentOf(c)!vars,
           c \in DOMAIN bookings => bookings[c].status # "NONE",
           bookings'[c].status = "PENDING_CONFIRMATION"
    PROVE  IF c \in DOMAIN bookings
             THEN bookings[c].status = "PENDING_CONFIRMATION" /\ bookings'[c].payment = bookings[c].payment
             ELSE bookings'[c].payment = "OPEN" /\ bookings'[c].checkout = "NONE"
<1>. DEFINE status == IF c \in DOMAIN bookings THEN bookings[c].status ELSE "NONE"
            payment == IF c \in DOMAIN bookings THEN bookings[c].payment ELSE "OPEN"
            checkout == IF c \in DOMAIN bookings THEN bookings[c].checkout ELSE "NONE"
            Before == \/ status = "PENDING_CONFIRMATION" /\ payment' = payment
                      \/ status = "NONE" /\ payment' = "OPEN" /\ checkout' = "NONE"
<1>1. status' = "PENDING_CONFIRMATION"
  OBVIOUS
<1>2. ASSUME UNCHANGED PaymentOf(c)!vars PROVE Before
  <2>1. UNCHANGED <<status, payment, checkout>>
    BY <1>2 DEF PaymentOf!vars
  <2>. QED BY <1>1, <2>1
<1>3. ASSUME PaymentOf(c)!Next PROVE Before
  <2>1. CASE PaymentOf(c)!Create
    BY <1>1, <2>1 DEF PaymentOf!Create
  <2>2. CASE PaymentOf(c)!StartCheckout \/ PaymentOf(c)!FailCheckout
    BY <1>1, <2>2 DEF PaymentOf!StartCheckout, PaymentOf!FailCheckout
  <2>3. CASE PaymentOf(c)!Promote \/ PaymentOf(c)!ExpireCheckout \/ PaymentOf(c)!Cancel
    BY <1>1, <2>3 DEF PaymentOf!Promote, PaymentOf!ExpireCheckout, PaymentOf!Cancel
  <2>4. CASE PaymentOf(c)!Settle \/ PaymentOf(c)!PayOffline
    BY <1>1, <2>4 DEF PaymentOf!Settle, PaymentOf!PayOffline
  <2>5. CASE PaymentOf(c)!RefundAll \/ PaymentOf(c)!ReturnRefund
    BY <1>1, <2>5 DEF PaymentOf!RefundAll, PaymentOf!ReturnRefund
  <2>. QED BY <1>3, <2>1, <2>2, <2>3, <2>4, <2>5 DEF PaymentOf!Next
<1>4. CASE c \in DOMAIN bookings
  BY <1>2, <1>3, <1>4
<1>5. CASE c \notin DOMAIN bookings
  BY <1>2, <1>3, <1>5
<1>. QED BY <1>4, <1>5

\* A claim was made while the window was open, and its provider call let go while reads still
\* protected the booking.
PaidInWindow(row, t) ==
    /\ WindowOpen(row.since, row.claimed)
    /\ row.started <= t
    /\ WindowOpen(row.since, row.started) \/ WindowOpen(row.claimed, row.started)

\* The inductive invariant of the window: a pending booking has no money, and its payment was
\* claimed and started in the window. AbandonedBookingsLetGo alone says nothing of a claim that
\* is made later.
WindowInv ==
    /\ PublicTypeOK
    /\ \A b \in DOMAIN bookings :
         bookings[b].status = "PENDING_CONFIRMATION" => bookings[b].payment = "OPEN"
    /\ \A b \in PendingOwned : Unresolved(b) => PaidInWindow(owned[b], clock)

LEMMA WindowStep ==
    ASSUME WindowInv, [PublicNext]_publicSpecVars
    PROVE  WindowInv'
<1>. USE DEF WindowInv
<1>1. /\ TypeOK /\ [Next]_vars
      /\ clock \in Nat
  BY CustomerSteps DEF PublicTypeOK, TypeOK
<1>2. TypeOK'
  BY <1>1, TypeStep
<1>3. /\ DOMAIN holds \subseteq DOMAIN holds'
      /\ DOMAIN bookings \subseteq DOMAIN bookings'
      /\ \A b \in DOMAIN bookings : bookings'[b].hold = bookings[b].hold
  BY <1>1, RowsStay
<1>0. ASSUME NEW row \in OwnershipRows, PaidInWindow(row, clock)
      PROVE  PaidInWindow(row, clock')
  BY <1>0, <1>1, HoldStep DEF PaidInWindow, OwnershipRows
<1>4. ASSUME NEW b \in DOMAIN bookings', bookings'[b].status = "PENDING_CONFIRMATION"
      PROVE  /\ bookings'[b].payment = "OPEN"
             /\ b \in DOMAIN bookings => bookings[b].status = "PENDING_CONFIRMATION"
             /\ b \notin DOMAIN bookings => bookings'[b].checkout = "NONE"
  <2>1. b \in BookingKeys
    BY <1>2 DEF TypeOK, IsTable
  <2>2. PaymentOf(b)!Next \/ UNCHANGED PaymentOf(b)!vars
    BY <1>1, <2>1, ContractStep
  <2>3. b \in DOMAIN bookings => bookings[b].status # "NONE"
    BY <1>1 DEF TypeOK, IsTable, BookingRows, BookingStatus
  <2>. QED BY <1>4, <2>2, <2>3, PendingBefore
<1>5. /\ IsTable(principals, DOMAIN holds, Nat)
      /\ IsTable(owned, DOMAIN bookings, OwnershipRows)
      /\ \A b \in DOMAIN owned : bookings[b].hold \in DOMAIN principals
  BY DEF PublicTypeOK
<1>6. ASSUME UNCHANGED publicVars,
             \A b \in PendingOwned : bookings'[b].checkout = "PENDING" => Unresolved(b)
      PROVE  WindowInv'
  <2>1. PublicTypeOK'
    BY <1>2, <1>3, <1>5, <1>6 DEF PublicTypeOK, publicVars, IsTable
  <2>2. \A b \in PendingOwned' : b \in PendingOwned
    BY <1>3, <1>4, <1>5, <1>6 DEF PendingOwned, publicVars, IsTable
  <2>3. \A b \in PendingOwned' : Unresolved(b)' => PaidInWindow(owned'[b], clock')
    BY <1>0, <1>5, <1>6, <2>2 DEF Unresolved, PendingOwned, IsTable, publicVars
  <2>. QED BY <1>4, <2>1, <2>3
<1>7. CASE StaffNext
  BY <1>6, <1>7 DEF StaffNext, OfCustomer
<1>8. ASSUME NEW k \in HoldKeys, NEW now \in Captured, NEW s \in Spaces, NEW plan \in RatePlans,
             PublicHold(k, s, plan, now)
      PROVE  WindowInv'
  <2>1. /\ principals' = Put(principals, k, now + PublicHoldMinutes)
        /\ owned' = owned /\ bookings' = bookings /\ k \in DOMAIN holds'
    BY <1>8 DEF PublicHold, CreateHold, Put
  <2>2. now + PublicHoldMinutes \in Nat
    BY <1>1, CapturedNat, PublicAssumption, InventoryAssumption
  <2>3. IsTable(principals', DOMAIN holds', Nat) /\ DOMAIN principals \subseteq DOMAIN principals'
    <3>1. IsTable(principals, DOMAIN holds', Nat)
      BY <1>3, <1>5 DEF IsTable
    <3>. QED BY <2>1, <2>2, <3>1 DEF IsTable, Put
  <2>4. PublicTypeOK'
    BY <1>2, <1>5, <2>1, <2>3 DEF PublicTypeOK
  <2>. QED BY <2>1, <2>4, <1>8 DEF PendingOwned, Unresolved, PublicHold, CreateHold
<1>9. ASSUME NEW k \in HoldKeys, NEW now \in Captured, PublicRelease(k, now)
      PROVE  WindowInv'
  <2>1. UNCHANGED publicVars /\ UNCHANGED bookings
    BY <1>9 DEF PublicRelease, ReleaseHold
  <2>. QED BY <1>6, <2>1 DEF Unresolved
<1>10. ASSUME NEW k \in HoldKeys, NEW now \in Captured, NEW b \in BookingKeys,
              PublicConfirm(b, k, now)
       PROVE  WindowInv'
  <2>1. PICK since \in now..clock : owned' = Put(owned, b, [since |-> since, claimed |-> 0, started |-> 0])
    BY <1>10 DEF PublicConfirm
  <2>. DEFINE row == [since |-> since, claimed |-> 0, started |-> 0]
  <2>2. /\ principals' = [principals EXCEPT ![k] = now + RecoveryTime]
        /\ k \in DOMAIN principals
        /\ b \notin DOMAIN bookings /\ b \in DOMAIN bookings'
        /\ bookings'[b].hold = k
        /\ bookings'[b].checkout = "NONE"
        /\ \A c \in DOMAIN bookings : bookings'[c] = bookings[c]
    BY <1>10 DEF PublicConfirm, Authorized, Confirm, Put
  <2>3. row \in OwnershipRows /\ now + RecoveryTime \in Nat
    BY <1>1, CapturedNat, PublicAssumption DEF OwnershipRows
  <2>4. /\ IsTable(principals', DOMAIN holds, Nat)
        /\ DOMAIN principals' = DOMAIN principals
    BY <1>5, <2>2, <2>3 DEF IsTable
  <2>5. IsTable(owned, DOMAIN bookings', OwnershipRows)
    BY <1>3, <1>5 DEF IsTable
  <2>6. /\ IsTable(owned', DOMAIN bookings', OwnershipRows)
        /\ DOMAIN owned' = DOMAIN owned \cup {b}
        /\ \A c \in DOMAIN owned : c # b => owned'[c] = owned[c]
    BY <2>1, <2>2, <2>3, <2>5 DEF IsTable, Put
  <2>7. DOMAIN owned \subseteq DOMAIN bookings
    BY <1>5 DEF IsTable
  <2>8. PublicTypeOK'
    BY <1>2, <1>3, <1>5, <2>2, <2>4, <2>6, <2>7 DEF PublicTypeOK, IsTable
  <2>9. \A c \in PendingOwned' : Unresolved(c)' => PaidInWindow(owned'[c], clock')
    BY <1>0, <1>5, <2>2, <2>6, <2>7 DEF PendingOwned, Unresolved, IsTable
  <2>. QED BY <1>4, <2>8, <2>9
<1>11. ASSUME NEW b \in PendingOwned, NEW row \in OwnershipRows, UNCHANGED principals,
              owned' = [owned EXCEPT ![b] = row], row.since = owned[b].since,
              \A c \in PendingOwned \ {b} : bookings'[c].checkout = "PENDING" => Unresolved(c),
              Unresolved(b)' => PaidInWindow(row, clock')
       PROVE  WindowInv'
  <2>1. b \in DOMAIN owned
    BY DEF PendingOwned
  <2>2. /\ IsTable(owned', DOMAIN bookings, OwnershipRows)
        /\ DOMAIN owned' = DOMAIN owned
        /\ owned'[b] = row
        /\ \A c \in DOMAIN owned : c # b => owned'[c] = owned[c]
    BY <1>5, <1>11, <2>1, ExceptTable
  <2>3. PublicTypeOK'
    BY <1>2, <1>3, <1>5, <1>11, <2>2 DEF PublicTypeOK, IsTable
  <2>4. \A c \in PendingOwned' : c \in PendingOwned
    BY <1>3, <1>4, <1>5, <2>2 DEF PendingOwned, IsTable
  <2>5. \A c \in PendingOwned' : Unresolved(c)' => PaidInWindow(owned'[c], clock')
    BY <1>0, <1>5, <1>11, <2>2, <2>4 DEF Unresolved, PendingOwned, IsTable
  <2>. QED BY <1>4, <2>3, <2>5
<1>12. ASSUME NEW b \in BookingKeys, ClaimPublicCheckout(b)
       PROVE  WindowInv'
  <2>. DEFINE row == [owned[b] EXCEPT !.claimed = clock, !.started = clock]
  <2>1. /\ b \in PendingOwned /\ b \in DOMAIN owned /\ owned[b] \in OwnershipRows
        /\ WindowOpen(owned[b].since, clock)
    BY <1>5, <1>12 DEF ClaimPublicCheckout, CustomerMayPay, PendingOwned, IsTable
  <2>2. /\ row \in OwnershipRows /\ row.since = owned[b].since /\ row.claimed = clock
        /\ row.started = clock
    BY <1>1, <2>1 DEF OwnershipRows
  <2>3. owned' = [owned EXCEPT ![b] = row]
    BY <1>12 DEF ClaimPublicCheckout
  <2>4. \A c \in DOMAIN bookings \ {b} : bookings'[c] = bookings[c]
    BY <1>12 DEF ClaimPublicCheckout, StartPayment, PaymentStep
  <2>5. UNCHANGED principals
    BY <1>12 DEF ClaimPublicCheckout
  <2>6. \A c \in PendingOwned \ {b} : bookings'[c].checkout = "PENDING" => Unresolved(c)
    BY <1>5, <2>4 DEF PendingOwned, Unresolved, IsTable
  <2>7. PaidInWindow(row, clock)
    BY <1>1, <2>1, <2>2 DEF PaidInWindow
  <2>. HIDE DEF row
  <2>. QED BY <1>0, <1>11, <2>1, <2>2, <2>3, <2>5, <2>6, <2>7
<1>13. ASSUME NEW b \in BookingKeys, RetryPublicCheckout(b)
       PROVE  WindowInv'
  <2>1. b \in PendingOwned /\ b \in DOMAIN owned /\ owned[b] \in OwnershipRows
    BY <1>5, <1>13 DEF RetryPublicCheckout, CustomerMayPay, PendingOwned, IsTable
  <2>2. /\ LetGoAgain(owned[b]) \in OwnershipRows
        /\ LetGoAgain(owned[b]).since = owned[b].since
        /\ LetGoAgain(owned[b]).claimed = owned[b].claimed
        /\ LetGoAgain(owned[b]).started = clock
    BY <1>1, <2>1 DEF OwnershipRows, LetGoAgain
  <2>3. /\ owned' = [owned EXCEPT ![b] = LetGoAgain(owned[b])]
        /\ UNCHANGED <<principals, bookings>> /\ Unresolved(b)
    BY <1>13 DEF RetryPublicCheckout, vars, ledger
  <2>4. PaidInWindow(LetGoAgain(owned[b]), clock)
    <3>1. WindowOpen(owned[b].since, owned[b].claimed)
      BY <2>1, <2>3 DEF PaidInWindow
    <3>2. WindowOpen(owned[b].since, clock) \/ WindowOpen(owned[b].claimed, clock)
      BY <1>13 DEF RetryPublicCheckout, ClaimRecoverable
    <3>. QED BY <1>1, <2>2, <3>1, <3>2 DEF PaidInWindow
  <2>. QED BY <1>0, <1>11, <2>1, <2>2, <2>3, <2>4 DEF Unresolved
<1>14. ASSUME NEW b \in BookingKeys, BindPublicCheckout(b)
       PROVE  WindowInv'
  <2>1. UNCHANGED publicVars
    BY <1>14 DEF BindPublicCheckout
  <2>2. \A c \in DOMAIN bookings : bookings'[c].checkout = bookings[c].checkout
    BY <1>14 DEF BindPublicCheckout, Promote, PaymentStep
  <2>3. DOMAIN owned \subseteq DOMAIN bookings
    BY <1>5 DEF IsTable
  <2>. QED BY <1>6, <2>1, <2>2, <2>3 DEF PendingOwned, Unresolved
<1>15. CASE UNCHANGED publicSpecVars
  BY <1>6, <1>15 DEF publicSpecVars, publicVars, vars, ledger, Unresolved
<1>. QED BY <1>7, <1>8, <1>9, <1>10, <1>12, <1>13, <1>14, <1>15 DEF PublicNext, CustomerNext

\* The window's invariant holds before anybody has held anything.
LEMMA WindowInit == PublicInit => WindowInv
<1>1. PublicInit => TypeOK
  BY InventoryAssumption DEF PublicInit, Init, TypeOK, IsTable, RoomStatus
<1>. QED BY <1>1 DEF PublicInit, Init, WindowInv, PublicTypeOK, IsTable, PendingOwned

\* Type correctness of the public flow: a principal belongs to a hold, an ownership to a booking
\* whose hold has a principal.
THEOREM PublicTypeCorrect == PublicSpec => []PublicTypeOK
<1>1. WindowInv /\ [PublicNext]_publicSpecVars => WindowInv'
  BY WindowStep
<1>2. WindowInv => PublicTypeOK
  BY DEF WindowInv
<1>. QED BY WindowInit, <1>1, <1>2, PTL DEF PublicSpec

\* An abandoned booking stops protecting its units within twice the window, for every window and
\* whatever its customer, the staff and the provider do.
THEOREM AbandonedLetGo == PublicSpec => [](PublicTypeOK /\ AbandonedBookingsLetGo)
<1>1. WindowInv /\ [PublicNext]_publicSpecVars => WindowInv'
  BY WindowStep
<1>2. WindowInv => PublicTypeOK /\ AbandonedBookingsLetGo
  <2>. SUFFICES ASSUME WindowInv, NEW b \in PendingOwned, ReadProtects(b, clock)
                PROVE  clock < owned[b].since + 2 * PaymentWindow
    BY DEF WindowInv, AbandonedBookingsLetGo
  <2>1. b \in DOMAIN owned /\ owned[b] \in OwnershipRows /\ clock \in Nat /\ bookings[b].payment = "OPEN"
    BY DEF WindowInv, PublicTypeOK, TypeOK, IsTable, PendingOwned
  <2>2. \/ WindowOpen(owned[b].since, clock)
        \/ WindowOpen(owned[b].since, owned[b].claimed) /\ WindowOpen(owned[b].claimed, clock)
    BY <2>1 DEF ReadProtects, WindowInv, PaidInWindow
  <2>. QED BY <2>1, <2>2, PublicAssumption DEF WindowOpen, OwnershipRows
<1>. QED BY WindowInit, <1>1, <1>2, PTL DEF PublicSpec

\* Only the binding of a session confirms a pending booking of a customer.
LEMMA OnlyBindingPromotes ==
    ASSUME WindowInv, [PublicNext]_publicSpecVars, NEW b \in PendingOwned,
           bookings'[b].status = "CONFIRMED"
    PROVE  BindPublicCheckout(b)
<1>1. b \in DOMAIN bookings /\ bookings[b].status # "CONFIRMED" /\ bookings[b] \in BookingRows
  BY DEF WindowInv, PublicTypeOK, TypeOK, IsTable, PendingOwned
<1>2. ASSUME bookings'[b].status = bookings[b].status
      PROVE  FALSE
  BY <1>1, <1>2
<1>3. CASE StaffNext
  BY <1>3 DEF StaffNext, OfCustomer
<1>4. ASSUME NEW k \in HoldKeys, NEW now \in Captured,
             \/ \E s \in Spaces, plan \in RatePlans : PublicHold(k, s, plan, now)
             \/ PublicRelease(k, now)
             \/ \E c \in BookingKeys : PublicConfirm(c, k, now)
      PROVE  FALSE
  <2>1. bookings'[b] = bookings[b]
    BY <1>1, <1>4 DEF PublicHold, CreateHold, PublicRelease, ReleaseHold, PublicConfirm, Confirm, Put
  <2>. QED BY <1>2, <2>1
<1>5. ASSUME NEW c \in BookingKeys, ClaimPublicCheckout(c) \/ RetryPublicCheckout(c)
      PROVE  FALSE
  BY <1>1, <1>2, <1>5 DEF ClaimPublicCheckout, StartPayment, PaymentStep, RetryPublicCheckout,
                          vars, ledger, BookingRows
<1>6. ASSUME NEW c \in BookingKeys, BindPublicCheckout(c), c # b
      PROVE  FALSE
  <2>1. bookings'[b] = bookings[b]
    BY <1>1, <1>6 DEF BindPublicCheckout, Promote, PaymentStep
  <2>. QED BY <1>2, <2>1
<1>7. ASSUME UNCHANGED publicSpecVars
      PROVE  FALSE
  BY <1>2, <1>7 DEF publicSpecVars, vars, ledger
<1>. QED BY <1>3, <1>4, <1>5, <1>6, <1>7 DEF PublicNext, CustomerNext

\* The promotion of a booking does not look at the window, and still confirms no booking that
\* reads had left out for longer than a provider call takes: the call let go while it counted.
THEOREM PromotedInTime == PublicSpec => PromotedWhileProtected
<1>1. WindowInv /\ [PublicNext]_publicSpecVars => WindowInv'
  BY WindowStep
<1>2. ASSUME WindowInv, [PublicNext]_publicSpecVars, NEW b \in PendingOwned,
             bookings'[b].status = "CONFIRMED"
      PROVE  \E t \in Captured : ReadProtects(b, t)
  <2>1. BindPublicCheckout(b)
    BY <1>2, OnlyBindingPromotes
  <2>2. Unresolved(b) /\ clock - owned[b].started <= MaxLag
    BY <2>1 DEF BindPublicCheckout, Promote
  <2>3. PaidInWindow(owned[b], clock)
    BY <1>2, <2>2 DEF WindowInv
  <2>4. owned[b].started \in Nat /\ clock \in Nat
    BY <1>2 DEF WindowInv, PublicTypeOK, TypeOK, IsTable, PendingOwned, OwnershipRows
  <2>5. owned[b].started \in Captured
    BY <2>2, <2>3, <2>4 DEF Captured, PaidInWindow
  <2>6. ReadProtects(b, owned[b].started)
    BY <2>2, <2>3 DEF ReadProtects, PaidInWindow
  <2>. QED BY <2>5, <2>6
<1>3. WindowInv /\ [PublicNext]_publicSpecVars =>
        [\A b \in PendingOwned :
          bookings'[b].status = "CONFIRMED" => \E t \in Captured : ReadProtects(b, t)]_publicSpecVars
  BY <1>2
<1>. QED BY WindowInit, <1>1, <1>3, PTL DEF PublicSpec, PromotedWhileProtected

----------------------------------------------------------------------------
\* The limit on the principals of an organization.

\* A principal whose hold is active expires with it; a confirmation gives both new lives.
PrincipalInv ==
    /\ WindowInv
    /\ \A k \in DOMAIN principals : holds[k].status = "ACTIVE" => principals[k] = holds[k].expiresAt

\* Principals are finitely many.
LEMMA ActiveFinite ==
    ASSUME PublicTypeOK
    PROVE  \A t : IsFiniteSet(Active(t)) /\ Cardinality(Active(t)) \in Nat
<1>1. ASSUME NEW t PROVE Active(t) \in SUBSET HoldKeys
  BY DEF Active, PublicTypeOK, TypeOK, IsTable
<1>. QED BY <1>1, FS_Subset, FS_CardinalityType, InventoryAssumption

LEMMA PrincipalStep ==
    ASSUME PrincipalInv, [PublicNext]_publicSpecVars
    PROVE  PrincipalInv'
<1>0. /\ WindowInv' /\ TypeOK /\ [Next]_vars /\ clock \in Nat
      /\ IsTable(principals, DOMAIN holds, Nat)
  BY WindowStep, CustomerSteps DEF PrincipalInv, WindowInv, PublicTypeOK, TypeOK
<1>1. ASSUME NEW k \in DOMAIN principals, holds'[k].status = "ACTIVE"
      PROVE  holds[k].status = "ACTIVE" /\ holds'[k].expiresAt = holds[k].expiresAt
  <2>1. k \in DOMAIN holds /\ holds[k] \in HoldRows
    BY <1>0 DEF IsTable, TypeOK
  <2>2. holds'[k] = [holds[k] EXCEPT !.status = holds'[k].status]
    BY <1>0, <2>1, HoldStep
  <2>. QED BY <1>0, <1>1, <2>1, <2>2, HoldStep DEF HoldRows
<1>2. ASSUME UNCHANGED principals
      PROVE  PrincipalInv'
  BY <1>0, <1>1, <1>2 DEF PrincipalInv
<1>3. ASSUME NEW k \in HoldKeys, NEW now \in Captured, NEW s \in Spaces, NEW plan \in RatePlans,
             PublicHold(k, s, plan, now)
      PROVE  PrincipalInv'
  <2>1. /\ principals' = Put(principals, k, now + PublicHoldMinutes)
        /\ k \in DOMAIN holds' /\ holds'[k].expiresAt = now + PublicHoldMinutes
    BY <1>3 DEF PublicHold, CreateHold, Put
  <2>2. /\ DOMAIN principals' = DOMAIN principals \cup {k}
        /\ principals'[k] = now + PublicHoldMinutes
        /\ \A j \in DOMAIN principals : j # k => principals'[j] = principals[j]
    BY <2>1 DEF Put
  <2>. QED BY <1>0, <1>1, <2>1, <2>2 DEF PrincipalInv
<1>4. ASSUME NEW k \in HoldKeys, NEW now \in Captured, NEW b \in BookingKeys, PublicConfirm(b, k, now)
      PROVE  PrincipalInv'
  <2>1. /\ principals' = [principals EXCEPT ![k] = now + RecoveryTime]
        /\ k \in DOMAIN principals /\ holds' = [holds EXCEPT ![k].status = "CONSUMED"]
    BY <1>4 DEF PublicConfirm, Authorized, Confirm
  <2>2. /\ DOMAIN principals' = DOMAIN principals
        /\ \A j \in DOMAIN principals : j # k => principals'[j] = principals[j]
    BY <1>0, <2>1 DEF IsTable
  <2>3. holds'[k].status = "CONSUMED"
    BY <1>0, <2>1 DEF IsTable, TypeOK, HoldRows
  <2>. QED BY <1>0, <1>1, <2>2, <2>3 DEF PrincipalInv
<1>5. CASE StaffNext \/ UNCHANGED publicSpecVars
  BY <1>2, <1>5 DEF StaffNext, publicSpecVars, publicVars
<1>6. ASSUME NEW k \in HoldKeys, NEW now \in Captured, PublicRelease(k, now)
      PROVE  PrincipalInv'
  BY <1>2, <1>6 DEF PublicRelease, publicVars
<1>7. ASSUME NEW b \in BookingKeys,
             ClaimPublicCheckout(b) \/ RetryPublicCheckout(b) \/ BindPublicCheckout(b)
      PROVE  PrincipalInv'
  BY <1>2, <1>7 DEF ClaimPublicCheckout, RetryPublicCheckout, BindPublicCheckout, publicVars
<1>. QED BY <1>3, <1>4, <1>5, <1>6, <1>7 DEF PublicNext, CustomerNext

\* No step of the contract reopens a payment or a cancelled booking.
LEMMA OpenBefore ==
    ASSUME NEW c \in DOMAIN bookings, c \in DOMAIN bookings',
           PaymentOf(c)!Next \/ UNCHANGED PaymentOf(c)!vars,
           bookings[c].status # "NONE",
           bookings'[c].status # "CANCELLED", bookings'[c].payment = "OPEN"
    PROVE  bookings[c].status # "CANCELLED" /\ bookings[c].payment = "OPEN"
BY DEF PaymentOf!Next, PaymentOf!vars, PaymentOf!Live, PaymentOf!Create,
       PaymentOf!StartCheckout, PaymentOf!Promote, PaymentOf!FailCheckout, PaymentOf!Settle,
       PaymentOf!ExpireCheckout, PaymentOf!PayOffline, PaymentOf!RefundAll, PaymentOf!ReturnRefund,
       PaymentOf!Cancel

\* A principal that counts after a step that makes none counted before, or has just been
\* given a booking.
LEMMA ActiveBefore ==
    ASSUME PublicTypeOK, [PublicNext]_publicSpecVars,
           NEW k \in DOMAIN principals, principals'[k] = principals[k],
           \A b \in DOMAIN owned' : bookings'[b].hold = k => b \in DOMAIN owned,
           DOMAIN owned \subseteq DOMAIN owned',
           k \in Active(clock)'
    PROVE  k \in Active(clock)
<1>1. TypeOK /\ [Next]_vars
  BY CustomerSteps DEF PublicTypeOK
<1>2. clock \in Nat /\ clock' >= clock /\ principals[k] \in Nat
  BY <1>1, HoldStep DEF TypeOK, PublicTypeOK, IsTable
<1>3. principals[k] > clock
  BY <1>1, <1>2, HoldStep DEF Active
<1>4. /\ DOMAIN owned \subseteq DOMAIN bookings
      /\ \A b \in DOMAIN bookings : b \in DOMAIN bookings' /\ bookings'[b].hold = bookings[b].hold
  BY <1>1, RowsStay DEF PublicTypeOK, IsTable
<1>5. ASSUME OwnedWith(k)' = {}
      PROVE  OwnedWith(k) = {}
  BY <1>4, <1>5 DEF OwnedWith
<1>6. ASSUME NEW b \in OwnedWith(k)', bookings'[b].status # "CANCELLED", bookings'[b].payment = "OPEN"
      PROVE  b \in OwnedWith(k) /\ bookings[b].status # "CANCELLED" /\ bookings[b].payment = "OPEN"
  <2>1. b \in DOMAIN owned /\ bookings[b].hold = k
    BY <1>4 DEF OwnedWith
  <2>2. b \in DOMAIN bookings /\ b \in DOMAIN bookings'
    BY <1>4, <2>1
  <2>3. b \in BookingKeys /\ bookings[b].status # "NONE"
    BY <1>1, <2>2 DEF TypeOK, IsTable, BookingRows, BookingStatus
  <2>4. PaymentOf(b)!Next \/ UNCHANGED PaymentOf(b)!vars
    BY <1>1, <2>3, ContractStep
  <2>. QED BY <1>6, <2>1, <2>2, <2>3, <2>4, OpenBefore DEF OwnedWith
<1>. QED BY <1>3, <1>5, <1>6 DEF Active

\* Steps that make no principal and no ownership make none active.
LEMMA NoNewActive ==
    ASSUME PublicTypeOK, [PublicNext]_publicSpecVars, UNCHANGED principals, DOMAIN owned' = DOMAIN owned
    PROVE  Active(clock)' \subseteq Active(clock)
BY ActiveBefore DEF Active

\* A public hold makes one more, and is admitted below the limit of those its time captured.
LEMMA HoldWithinLimit ==
    ASSUME PublicTypeOK, PublicTypeOK', NEW k \in HoldKeys, NEW now \in Captured, NEW s \in Spaces,
           NEW plan \in RatePlans, PublicHold(k, s, plan, now)
    PROVE  Cardinality(Active(clock))' <= PublicLimit
<1>1. /\ Cardinality(Active(now)) < PublicLimit
      /\ principals' = Put(principals, k, now + PublicHoldMinutes)
      /\ UNCHANGED <<clock, bookings, owned>>
  BY DEF PublicHold, Admitted, CreateHold
<1>2. /\ DOMAIN principals' = DOMAIN principals \cup {k}
      /\ \A j \in DOMAIN principals : j # k => principals'[j] = principals[j]
  BY <1>1 DEF Put
<1>3. now \in Nat /\ now <= clock /\ clock \in Nat
  BY CapturedNat DEF PublicTypeOK, TypeOK
<1>4. \A j \in DOMAIN principals : principals[j] \in Nat
  BY DEF PublicTypeOK, IsTable
<1>5. Active(clock)' \subseteq Active(now) \cup {k}
  BY <1>1, <1>2, <1>3, <1>4 DEF Active, OwnedWith
<1>6. IsFiniteSet(Active(now)) /\ Cardinality(Active(now)) \in Nat
  BY ActiveFinite
<1>7. /\ IsFiniteSet(Active(now) \cup {k})
      /\ Cardinality(Active(now) \cup {k}) \in Nat
      /\ Cardinality(Active(now) \cup {k}) <= Cardinality(Active(now)) + 1
  <2>1. /\ IsFiniteSet(Active(now) \cup {k})
        /\ Cardinality(Active(now) \cup {k})
             = IF k \in Active(now) THEN Cardinality(Active(now)) ELSE Cardinality(Active(now)) + 1
    BY <1>6, FS_AddElement
  <2>. QED BY <1>6, <2>1
<1>8. /\ Cardinality(Active(clock)') <= Cardinality(Active(now) \cup {k})
      /\ Cardinality(Active(clock)') \in Nat
  BY <1>5, <1>7, FS_Subset, FS_CardinalityType
<1>. QED BY <1>1, <1>6, <1>7, <1>8, PublicAssumption

\* A confirmation in time gives a booking to a principal that counted already.
LEMMA ConfirmKeepsActive ==
    ASSUME PrincipalInv, LedgersAgree, [PublicNext]_publicSpecVars, ~LateConfirmation,
           NEW k \in HoldKeys, NEW now \in Captured, NEW b \in BookingKeys, PublicConfirm(b, k, now)
    PROVE  Active(clock)' \subseteq Active(clock)
<1>1. PublicTypeOK /\ TypeOK /\ clock \in Nat
  BY DEF PrincipalInv, WindowInv, PublicTypeOK, TypeOK
<1>2. /\ k \in DOMAIN principals /\ k \in DOMAIN holds /\ holds[k].status = "ACTIVE"
      /\ holds' = [holds EXCEPT ![k].status = "CONSUMED"]
      /\ principals' = [principals EXCEPT ![k] = now + RecoveryTime]
      /\ b \notin DOMAIN bookings
      /\ \A c \in DOMAIN bookings : bookings[c].hold # k
      /\ bookings'[b].hold = k /\ \A c \in DOMAIN bookings : bookings'[c] = bookings[c]
  BY DEF PublicConfirm, Authorized, Confirm, Put
<1>3. \E since : owned' = Put(owned, b, [since |-> since, claimed |-> 0, started |-> 0])
  BY DEF PublicConfirm
<1>4. DOMAIN owned' = DOMAIN owned \cup {b} /\ DOMAIN owned \subseteq DOMAIN bookings
  BY <1>1, <1>3 DEF Put, PublicTypeOK, IsTable
<1>5. holds[k] \in HoldRows /\ holds'[k].status = "CONSUMED"
  BY <1>1, <1>2 DEF TypeOK, IsTable, HoldRows
<1>6. holds[k].expiresAt > clock
  <2>1. ~(holds[k].expiresAt <= clock)
    BY <1>2, <1>5 DEF LateConfirmation
  <2>. QED BY <1>1, <1>5, <2>1 DEF HoldRows
<1>7. k \in Active(clock)
  <2>1. principals[k] > clock
    BY <1>2, <1>6 DEF PrincipalInv
  <2>2. OwnedWith(k) = {}
    BY <1>2, <1>4 DEF OwnedWith
  <2>. QED BY <1>2, <2>1, <2>2 DEF Active
<1>8. /\ DOMAIN principals' = DOMAIN principals
      /\ \A j \in DOMAIN principals : j # k => principals'[j] = principals[j]
  BY <1>1, <1>2 DEF PublicTypeOK, IsTable
<1>9. ASSUME NEW j \in Active(clock)', j # k
      PROVE  j \in Active(clock)
  <2>1. j \in DOMAIN principals
    BY <1>8 DEF Active
  <2>2. \A c \in DOMAIN owned' : bookings'[c].hold = j => c \in DOMAIN owned
    BY <1>2, <1>4, <1>9
  <2>. QED BY <1>1, <1>4, <1>8, <1>9, <2>1, <2>2, ActiveBefore
<1>. QED BY <1>7, <1>9

\* Nothing makes more principals active than the limit allows, except a confirmation that commits
\* after its hold and principal have expired.
THEOREM LimitKept == PublicSpec => LimitHoldsUnlessLate
<1>1. PublicInit => PrincipalInv
  BY WindowInit DEF PublicInit, PrincipalInv
<1>2. PrincipalInv /\ [PublicNext]_publicSpecVars => PrincipalInv'
  BY PrincipalStep
<1>3. ASSUME PrincipalInv, PrincipalInv', LedgersAgree, [PublicNext]_publicSpecVars,
             Cardinality(Active(clock))' > Cardinality(Active(clock))
      PROVE  Cardinality(Active(clock))' <= PublicLimit \/ LateConfirmation
  <2>1. PublicTypeOK /\ PublicTypeOK'
    BY <1>3 DEF PrincipalInv, WindowInv
  <2>2. ASSUME Active(clock)' \subseteq Active(clock)
        PROVE  FALSE
    <3>1. IsFiniteSet(Active(clock)) /\ Cardinality(Active(clock)) \in Nat
      BY <2>1, ActiveFinite
    <3>2. Cardinality(Active(clock)') \in Nat /\ Cardinality(Active(clock)') <= Cardinality(Active(clock))
      BY <2>2, <3>1, FS_Subset, FS_CardinalityType
    <3>. QED BY <1>3, <3>1, <3>2
  <2>3. ASSUME UNCHANGED principals, DOMAIN owned' = DOMAIN owned
        PROVE  FALSE
    BY <1>3, <2>1, <2>2, <2>3, NoNewActive
  <2>4. CASE StaffNext \/ UNCHANGED publicSpecVars
    BY <2>3, <2>4 DEF StaffNext, publicSpecVars, publicVars
  <2>5. ASSUME NEW k \in HoldKeys, NEW now \in Captured, NEW s \in Spaces, NEW plan \in RatePlans,
               PublicHold(k, s, plan, now)
        PROVE  Cardinality(Active(clock))' <= PublicLimit
    BY <2>1, <2>5, HoldWithinLimit
  <2>6. ASSUME NEW k \in HoldKeys, NEW now \in Captured, PublicRelease(k, now)
        PROVE  FALSE
    BY <2>3, <2>6 DEF PublicRelease, publicVars
  <2>7. ASSUME NEW k \in HoldKeys, NEW now \in Captured, NEW b \in BookingKeys, PublicConfirm(b, k, now)
        PROVE  LateConfirmation
    BY <1>3, <2>2, <2>7, ConfirmKeepsActive
  <2>8. ASSUME NEW b \in BookingKeys,
               ClaimPublicCheckout(b) \/ RetryPublicCheckout(b) \/ BindPublicCheckout(b)
        PROVE  FALSE
    BY <2>3, <2>8 DEF ClaimPublicCheckout, RetryPublicCheckout, BindPublicCheckout, publicVars
  <2>. QED BY <1>3, <2>4, <2>5, <2>6, <2>7, <2>8 DEF PublicNext, CustomerNext
<1>4. PrincipalInv /\ PrincipalInv' /\ LedgersAgree /\ [PublicNext]_publicSpecVars =>
        [LET before == Cardinality(Active(clock))
             after == Cardinality(Active(clock))'
         IN  after > before => after <= PublicLimit \/ LateConfirmation]_publicSpecVars
  BY <1>3
<1>5. PublicSpec => []LedgersAgree
  BY PublicIsInventory, OneHoldOneBooking, PTL
<1>. QED BY <1>1, <1>2, <1>4, <1>5, PTL DEF PublicSpec, LimitHoldsUnlessLate

----------------------------------------------------------------------------
\* What a read offers and what can be held.

LEMMA FitsWithLess ==
    ASSUME TypeOK, NEW rt, NEW n, NEW u \in Nat, NEW v \in Nat, u <= v, Fits(rt, n, v)
    PROVE  Fits(rt, n, u)
<1>1. IsFiniteSet({r \in Rooms : RoomTypeOf[r] = rt /\ rooms[r] = "ACTIVE"})
  BY FS_Subset, InventoryAssumption
<1>2. PhysicalCapacity(rt) \in Nat
  BY <1>1, FS_CardinalityType DEF PhysicalCapacity
<1>3. \A w \in windows : w.capacityLimit \in Nat
  BY DEF TypeOK, WindowRows
<1>. QED BY <1>2, <1>3 DEF Fits, FitsNight

\* The pending booking of an abandoned payment still takes room type rt on night n.
AbandonedOn(rt, n) == \E b \in PendingOwned : ~ReadProtects(b, clock) /\ Occupies(allocations[b], rt, n)

\* A read counts the same units as a hold, except those of abandoned bookings.
LEMMA ReadCounts ==
    ASSUME TypeOK, LedgersAgree, NEW rt, NEW n
    PROVE  /\ ReadTokens(rt, n, clock) \subseteq BookedTokens(rt, n, {})
           /\ ~AbandonedOn(rt, n) => ReadTokens(rt, n, clock) = BookedTokens(rt, n, {})
<1>1. (OpenBookings \cap DOMAIN allocations) \ {} = OpenBookings
  BY DEF LedgersAgree, AllocationsMatchBookings, OpenBookings
<1>2. ASSUME ~AbandonedOn(rt, n), NEW b \in OpenBookings, Occupies(allocations[b], rt, n)
      PROVE  ReadProtects(b, clock)
  BY <1>2 DEF AbandonedOn, ReadProtects
<1>. QED BY <1>1, <1>2 DEF ReadTokens, BookedTokens, UnitTokens

\* Every stay that can be held is offered, and a stay offered in vain overlaps the booking of an
\* abandoned payment.
OffersFollowHolds ==
    \A s \in Spaces, plan \in RatePlans :
        /\ Bookable(s.roomType, plan) /\ RestrictionsAllow(restrictions, s, plan) /\ CapacityAllows(s, clock, {})
             => Offered(s, plan, clock)
        /\ Offered(s, plan, clock) /\ ~CapacityAllows(s, clock, {})
             => \E n \in Nights(s) : AbandonedOn(s.roomType, n)

LEMMA OffersFollow == TypeOK /\ LedgersAgree => OffersFollowHolds
<1>. SUFFICES ASSUME TypeOK, LedgersAgree, NEW s \in Spaces, NEW plan \in RatePlans
              PROVE  /\ Bookable(s.roomType, plan) /\ RestrictionsAllow(restrictions, s, plan)
                          /\ CapacityAllows(s, clock, {})
                          => Offered(s, plan, clock)
                     /\ Offered(s, plan, clock) /\ ~CapacityAllows(s, clock, {})
                          => \E n \in Nights(s) : AbandonedOn(s.roomType, n)
  BY DEF OffersFollowHolds
<1>. DEFINE rt == s.roomType
            H(n) == Cardinality(HeldTokens(rt, n, clock))
            R(n) == Cardinality(ReadTokens(rt, n, clock))
            B(n) == Cardinality(BookedTokens(rt, n, {}))
<1>1. s.quantity \in Nat
  BY StayAssumption DEF Spaces, Units
<1>2. ASSUME NEW n
      PROVE  /\ H(n) \in Nat /\ B(n) \in Nat /\ R(n) \in Nat /\ R(n) <= B(n)
             /\ ~AbandonedOn(rt, n) => R(n) = B(n)
  <2>1. IsFiniteSet(BookedTokens(rt, n, {})) /\ H(n) \in Nat /\ B(n) \in Nat
    BY CountsFinite
  <2>2. IsFiniteSet(ReadTokens(rt, n, clock)) /\ R(n) <= B(n)
    BY <2>1, ReadCounts, FS_Subset
  <2>3. R(n) \in Nat
    BY <2>2, FS_CardinalityType
  <2>. QED BY <2>1, <2>2, <2>3, ReadCounts
<1>3. /\ CapacityAllows(s, clock, {}) <=> \A n \in Nights(s) : Fits(rt, n, H(n) + B(n) + s.quantity)
      /\ Offered(s, plan, clock) <=>
           /\ Bookable(rt, plan) /\ RestrictionsAllow(restrictions, s, plan)
           /\ \A n \in Nights(s) : Fits(rt, n, H(n) + R(n) + s.quantity)
  BY DEF CapacityAllows, ProtectedExcept, Offered
<1>. HIDE DEF H, R, B
<1>4. ASSUME NEW n \in Nights(s), Fits(rt, n, H(n) + B(n) + s.quantity)
      PROVE  Fits(rt, n, H(n) + R(n) + s.quantity)
  <2>1. /\ H(n) + R(n) + s.quantity \in Nat /\ H(n) + B(n) + s.quantity \in Nat
        /\ H(n) + R(n) + s.quantity <= H(n) + B(n) + s.quantity
    BY <1>1, <1>2
  <2>. QED BY <1>4, <2>1, FitsWithLess
<1>. QED BY <1>2, <1>3, <1>4

\* Reads and holds differ in abandoned bookings only: whatever can be held is offered, and an
\* offered stay cannot be held only where a pending booking whose payment window is over still
\* has its rooms.
THEOREM OffersDifferByAbandoned == PublicSpec => []OffersFollowHolds
<1>1. PublicSpec => [](TypeOK /\ LedgersAgree)
  BY PublicIsInventory, TypeCorrect, OneHoldOneBooking, PTL
<1>. QED BY <1>1, OffersFollow, PTL

\* What the inventory keeps under staff it keeps when anonymous customers hold, book and pay too.
THEOREM PublicKeepsInventory ==
    PublicSpec =>
        /\ [](LedgersAgree /\ LiveHoldsStayBookable /\ CancelledHasNoMoney)
        /\ HoldsEndOnce /\ ChangesHappenOnce /\ UnresolvedPaymentFreezesBooking
        /\ GrowthFitsUnlessLate /\ OverbookingHasTwoCauses
        /\ BookingsKeepPaymentContract
BY PublicIsInventory, OneHoldOneBooking, HeldStaysBookable, NoMoneyInCancelled, HoldsEndOnceOnly,
   ChangedOncePerKey, FrozenWhileUnresolved, NoOverbookingUnlessLate, TwoCausesOnly, PaymentContractKept, PTL

=============================================================================
