# Verification of the booking engine

This directory holds TLA+ models of the booking engine under `src/`, the TLC configurations that
check them, and proofs that TLAPS checks. Part 1 is the inventory of the system, part 2 the plan,
part 3 describes the models, their runs and their bounds, part 4 the proofs, part 5 what the runs
found, part 6 what is not covered.

Paths below `src/server/` are written without that prefix.

## 1. Inventory

The engine is a multi-tenant TypeScript application over PostgreSQL. Every operation is a
transaction, Serializable or under advisory locks (`availability/availability-allocation-lock.ts`
per property and room type, `bookings/hospitality-booking-mutation-lock.ts` per booking), so that
operations interleave at transaction boundaries. Three things cross those boundaries: the time,
which a service captures before its transaction waits for a connection or a lock; calls to payment
and supplier providers, which happen between two transactions; and the provider's signed events.
There is no scheduler in the repository: expiry is evaluated lazily, against the time of whoever
reads.

| component | state | operations | what is hard |
|---|---|---|---|
| Availability (`availability/`) | holds, capacity windows | create, release, expire holds; create, archive windows | captured times, expiry instant, competition for the last unit |
| Catalogue (`inventory/hospitality-*`) | rooms, room types, rate plans, assignments, restrictions | create, assign, remove, archive | retiring what a hold or a booking relies on |
| Confirmation (`bookings/hospitality-booking-confirmation-core.ts`) | bookings, allocations | consume a hold | retries, stale restrictions and times |
| Cancellation, reschedule (`bookings/hospitality-booking-cancellation-service.ts`, `…-reschedule-service.ts`) | status, dates, allocation, reschedule audit | cancel, move | payments in flight, repeated requests |
| Checkout and offline payments (`payments/`) | payment rows, Checkout sessions, accepted events | request, store, fail; session and PaymentIntent events; offline payment and refund; lookup | process stops between claim and answer, retries, events late, repeated, out of order |
| Provider refunds (`payments/stripe-refund-*`) | refund rows | claim, execute, events, reconcile | ambiguous outcomes, several sources |
| Commercial amendments (`bookings/hospitality-booking-commercial-amendment-*`) | amendments, target holds | prepare, settle, apply, cancel, recover | expiry during settlement |
| Public booking (`bookings/public-*`, reads of `availability/`) | principals, ownership of holds and bookings | hold, release, confirm, pay, read | a limit shared with staff and events, windows that end by themselves, abandoned allocations |
| Invoices, adjustment notes (`payments/*invoice*`, `*adjustment*`) | documents, frozen settlement evidence | issue, note of an amendment, note of the cancellation | payments that change behind an issued note, competing requests |
| Rental (`bookings/rental-*`, `inventory/rental-*`) | units, unavailable dates, holds, bookings, custody, inspection, damage | hold, book, pick up, extend, return, inspect, repair | snapshots older than the lock, long sequences of operations |
| Rental money (`payments/rental-*`) | payments, priced amendments, bond, damage liability, late fee | pay, refund, amend, collect, release, forfeit, settle | several ledgers of one booking, money of amendments that ended |
| Supplier reservations (`suppliers/`) | attempts with leases | create, reconcile | lost answers |
| Accounts, memberships, branding, integrations, HTTP | rows, sessions, credentials | administration | abuse limits |

Interactions: confirmation turns a hold into a booking and its allocation; availability counts
unexpired holds and the allocations of bookings not cancelled; cancellation and reschedule refuse
while a payment is unresolved; Checkout promotes a public booking from PENDING_CONFIRMATION to
CONFIRMED, and its expired session cancels the booking; catalogue edits look at unexpired holds.

What makes each correct:

- availability: no step protects more units of a night than its rooms and windows offer; a hold
  ends once, and is called expired only when it is due;
- confirmation: one hold, one booking, one matching allocation;
- cancellation: final, and never of a booking with money or with an unresolved payment;
- public booking: the limit on anonymous holds is kept; an abandoned booking stops protecting its units by
  itself, and is not confirmed after reads have let its units go;
- reschedule: allocation and booking move together, once for each request key;
- catalogue: what is held stays bookable, and the rooms cover what was sold;
- rental: accepted stays of a unit are disjoint; what the customer has paid lies within the accepted
  price, whatever amendments came and went, and a liability is met once;
- documents: a note verifies for good, an amendment is documented once, the cancellation comes last;
- payments: the booking's payment status agrees with its ledger, the ledger with the provider; at
  most one attempt is unresolved; success is final; sessions are closed at last.

`PROJECT.json` lists each component, and every hazard at its line.

## 2. Plan

| order | module | stands for | status |
|---|---|---|---|
| 1 | `StayInventory` | nights, windows, restrictions, counting of units: pure operators | done |
| 2 | `HospitalityInventory` | catalogue, holds, bookings, allocations, payment steps | done |
| 3 | `HospitalityInventoryProofs`, `HospitalityPaymentProofs` | proofs about 2 and 13 | done |
| 4 | `PaymentContract` | what a booking may rely on about its payment | done |
| 5 | `BookingPayments` | Checkout, events, offline payments of one booking | done |
| 6 | `BookingPaymentsProofs` | proofs about 5 | done |
| 7 | `BookingRefunds`, `BookingRefundsProofs` | provider refunds over several sources, their events and reconciliation | done |
| 8 | `HospitalityAmendments`, `HospitalityAmendmentProofs` | prepare, settle, apply, cancel and recover | done |
| 9 | `RentalUnits`, `RentalProofs` | unit holds, bookings, custody, inspection, damage, maintenance | done |
| 10 | `SupplierReservations`, `ServicesProofs` | attempts with leases, ambiguous outcomes, reconciliation | done |
| 11 | `RentalLedger`, `RentalProofs` | price, amendments, bond, damage and late fee of a rental | done |
| 12 | `LegalDocuments`, `BookingRefundsProofs` | invoices, adjustment and cancellation notes of one booking | done |
| 13 | `PublicBooking`, `HospitalityPaymentProofs` | limits, payment-start window, abandoned allocations, availability reads | done |
| 14 | `SumProofs` | lemmas about sums over finite sets, for 7, 8, 11 and 12 | done |

Composition. `HospitalityInventory` uses the operators of `StayInventory`. `PaymentContract` joins
the two halves: `BookingPayments` implements it (`KeepsPaymentContract`, an INSTANCE under a
refinement mapping), and `HospitalityInventory` takes exactly its steps for each of its bookings
(`BookingsKeepPaymentContract`); `BookingRefunds` implements it too, with `ReturnRefund` for a refund
that is returned after its success. `PublicBooking` extends `HospitalityInventory` and implements it
(`PublicIsInventory`): what is proved of the inventory holds with anonymous customers too, and
`PublicKeepsInventory` says so property by property. `MCServices` runs `HospitalityAmendments`,
`RentalUnits`, `RentalLedger` and `SupplierReservations`, `MCBookingRefunds` runs `BookingRefunds` and
`LegalDocuments`; that a behaviour of either is one of each of its parts is proved (`EachServiceIsOne`,
`EachSideIsOne`).

## 3. Models and runs

### StayInventory, HospitalityInventory

A stay has a room type, an arrival, a departure and a quantity; a night is a day from arrival to
the day before departure. `Nights`, `Occupies`, `Covers`, `WindowsOverlap` and `Allows` translate
the date comparisons of `availability-domain.ts` and `availability-hold-domain.ts`. The code adds
up quantities; the model counts *unit tokens* (row, unit), `UnitTokens`, whose cardinality is that
sum.

| variable | code |
|---|---|
| `rooms`, `roomTypes`, `ratePlans`, `assigned`, `windows`, `restrictions` | the active rows of the catalogue tables |
| `holds` | `HospitalityAvailabilityHold` by idempotency key |
| `bookings`, `allocations` | `HospitalityBooking` and its allocation by idempotency key |
| `changes` | the audit rows that record which key rescheduled or commercially modified which booking |
| `clock` | the time; a request acts with a time of up to `MaxLag` before it |

Each action is one service call that commits; refusals change nothing. The fields `payment` and
`checkout` of a booking class its payment status and its attempts by what they permit; `PaymentNext`
holds the steps the payment services take.

A reschedule and a commercial modification change a booking and its allocation by the same rules
(`ChangeTerms`): the new dates, or the new room type, quantity and plan, are measured without the
booking's own units, and the key of the request is recorded so that its repetition changes nothing.

`inventory_ledger` (`MCInventoryLedger.cfg`, with `PublicBooking` below): one room, two holds, two bookings,
one reschedule key, three nights to stay on, a clock up to 2 with a lag of 1 and holds of 2 minutes. Two
holds and two bookings let requests compete for a hold and a room and let retries use other keys; a
second booking is needed for a hold booked twice; the clock lets a request act before, at and after
an expiry.

`inventory_capacity` (`MCInventoryCapacity.cfg`): two rooms, quantities of up to 2, one window, one
restriction, two holds, one booking, one modification key, holds of one minute, a clock up to 1;
439 044 states. Two rooms and quantities of two are needed for a stay that fits one night and not the
next, one booking to set holds against allocations, one window to undercut what is protected. Each
run has one of the two kinds of change, since both together take too long; the theorem
`NoOverbookingUnlessLate` covers both.

`late_confirmation` looks for what part 5 reports.

No fairness is assumed of the inventory: nothing schedules `expireHospitalityAvailabilityHolds`,
and requests come when somebody makes them. Deadlock is not checked in any run: a bounded clock and
bounded key sets let every behaviour stop.

Bounds by name: `LastDay`, `MaxUnits`, `HoldKeys`, `BookingKeys`, `RescheduleKeys`, `ModificationKeys`,
`WindowInputs`,
`RestrictionInputs`, `HoldMinutes`, `ExpiryBatch`, `MaxTime`, `MaxLag`. Rooms are symmetric, and so
are the keys.

### PublicBooking

The anonymous customer over the same inventory. `principals` is the expiry of the principal each public
hold created, `owned` the ownership rows of bookings with the time of the booking's last claim.

| action | code |
|---|---|
| `PublicHold` | the limit, the hold and its principal in one transaction, under the organization's lock |
| `PublicRelease`, `PublicConfirm` | by the capability of the hold, which ends with it; the principal of a booking lives for `RecoveryTime` |
| `ClaimPublicCheckout`, `RetryPublicCheckout` | the transaction before the provider call, for a new request key and for a key that is claimed |
| `BindPublicCheckout` | the transaction after it, which promotes the booking and does not look at the window again |
| `ReadProtects`, `Offered` | what an availability read protects and offers |

`StaffNext` is every step of `HospitalityInventory` by somebody else: staff, bulk expiry, the provider's
events. `OfCustomer` names the three steps nobody but a customer takes. A provider call and the
transaction after it take `MaxLag` at most, as a captured time does; the code has a deadline for both.
`BookingPayments` has the calls, sessions and events of an attempt, which are one step each here.

The same run `inventory_ledger` checks it: a behaviour of `MCPublicBooking` chooses at its start between
the inventory under staff (clock up to `StaffTime` 2) and one public booking with two holds, over a
clock up to 4, without changes of the catalogue and of the terms; 631 000 states together. `PublicLimit`
1 lets a second hold meet the limit; holds of 2, a `PaymentWindow` of 2 and a clock of 4 let a claim be
made at the end of the first window and outlive it; `RecoveryTime` 6 is longer than both windows, as 24
hours are. Two public bookings are left to the theorem. `abandoned_allocation` has the same bounds and
looks for what part 5 reports. The model assumes no fairness: that an abandoned booking lets go is a
safety property of the clock, since nothing has to be scheduled for it.

Bounds by name: `PublicLimit`, `PublicUnits`, `PublicHoldMinutes`, `PaymentWindow`, `RecoveryTime`,
`StaffTime`.

### PaymentContract

Three variables: the booking's status, its payment (OPEN, SETTLED, REFUNDED) and whether an attempt
is unresolved. It promises that an attempt starts only while none is unresolved and the payment is
open, that money arrives only at a confirmed booking, that a refund of everything and a cancellation
wait for the unresolved attempt, and that a cancelled booking never changes.

### BookingPayments

One public booking, its attempts (`Keys`: the request keys, which are also the identity of their
payment row, their session and their PaymentIntent) and the provider.

| variable | code |
|---|---|
| `booking` | `status` and `paymentStatus` of the booking |
| `payments` | the CAPTURE rows; `ref` is `ClaimReference` as long as the row carries an internal reference, else the PaymentIntent's key |
| `sessions` | `PaymentCheckoutSession` rows |
| `offline`, `refunded` | the rows of offline payment and refund |
| `calls` | Checkout requests between their two transactions, with the time their claim captured |
| `lookups` | PaymentIntent statuses staff read and have not stored |
| `provider`, `undelivered` | the provider's sessions and PaymentIntents, and its events not accepted yet |

A Checkout request is three steps: `ClaimCheckout` commits the claim; the provider answers or
refuses (`ProviderAnswers`, `ProviderRefuses`); `PersistCheckoutSession` or
`MarkCheckoutClaimFailed` commits the outcome. `AbandonCall` may end it anywhere: the process stops,
the answer is lost, or the error is retryable. A retry carries the expiry `claim.authorizedAt` + 33
minutes, so the provider takes it for the same request only at the same time (`SameRequest`); this
is how `stripe-checkout-provider.ts` forms the request and `stripe-provider-response-evidence.ts`
reads the refusal.

An accepted event is recorded under its id, so that its redelivery changes nothing: accepting it
takes it out of `undelivered`. A handler that throws leaves it there. Events are accepted in any
order. Checkout accepts cards only, so a completed session is a paid one; an unsuccessful card
attempt leaves the PaymentIntent in one of `AttemptStatuses`.

`checkout` (`MCCheckout.cfg`): two keys, a total of 2, two calls in flight, a clock up to 1 with a
payment window of 1, unsuccessful attempts that require action; 489 745 states. Two keys are needed
for a failed attempt and its successor, two calls for a retry that overtakes its first request, a
total of 2 for a partial refund, one tick for a retry that is another request and for the end of the
window. `requires_payment_method` and `canceled` are alike to `Reconciled`; the former occurs in
the next run.

`checkout_liveness` (`MCCheckoutLiveness.cfg`): `FairSpec` with one call in flight, a total of 1 and
declined cards; 64 524 states. Fairness: the provider redelivers an event until it is accepted, its
sessions expire and their PaymentIntents are cancelled, and a call in flight ends because the
transport and the database have timeouts. Nothing is assumed of guests or staff: no payment, retry
or lookup has to happen. `StoredSessionsClose` needs this fairness, and fails if the expiry handler
closes a session only together with its booking.

`checkout_retry`, `event_attempt` and `stale_claim` look for what part 5 reports.

Bounds by name: `Keys`, `Total`, `StartWindow`, `MaxTime`, `MaxCalls`.

### BookingRefunds

One confirmed, paid booking whose money came from several captures, the sources. `Keys` are request
keys of refunds, and the identity of their rows and of their refund objects at the provider.

| variable | code |
|---|---|
| `booking` | `status` and `paymentStatus` |
| `refunds` | the REFUND rows; `ref` is `ClaimReference` until the provider named the row |
| `calls` | refund requests between their two transactions |
| `snapshots` | refund states retrieved from the provider and not yet applied |
| `provider`, `undelivered`, `ingested` | the provider's refunds, its events not acknowledged, those of them recorded |
| `credentials` | whether the provider accepts the tenant's credentials |

`Plans` is `deriveBookingRefundExecutionPlan`: nothing unresolved, the status agrees with the ledger,
the next source (the largest remaining balance, then the first reference) covers the amount. An event
is handled in two transactions with a retrieval between them (`IngestRefund`, `RetrieveForEvent`,
`ApplySnapshot`), as `stripe-refund-lifecycle-service.ts` does; a handler that throws leaves its event
to be delivered again. A refund may be returned after its success, so statuses move in both directions.

`refunds` (`MCRefunds.cfg`): two keys, sources of 1 and 3, one call and one retrieval in flight;
1 398 517 states, 1 243 820 of them refunds. Two uneven sources are needed for a refund that must not exceed its source although
the booking would cover it, and for a choice between sources that changes as they are refunded; two
keys for a claim that an event of another refund could take; one call and one retrieval interleave
with all events of both refunds.

Bounds by name: `Captured`, `Keys`, `FirstStatuses`, `Moves`, `MaxCalls`, `MaxSnapshots`.

### LegalDocuments

The tax invoices of one booking and the adjustment notes that follow them.

| variable | code |
|---|---|
| `legalBooking` | status, payment status and accepted total |
| `legalMoney` | the `PaymentTransaction` rows in the order of their creation |
| `changes` | the amendments that were settled; `issued` counts the documents that existed at the application |
| `documents` | invoices and notes in the order of their issue; `frozen` is the evidence the trigger of `20260924222000` stores with a note of an amendment |
| `noteRequests` | requests between the transaction that finds a note available and the one that issues it |

A note of an amendment continues a chain: the amendment starts at the price the last document of the
invoice left and was applied after it (`Continues`), and its settlement is ready (`SettledBy`). Later
readers and writers recompute the chain from the frozen rows (`ChainVerifies`); a repeated note does so
under its lock before and after its insert, a first note does not. A cancellation is noted in one of two
ways: of an invoice without notes, by the one refund of its whole amount; of a chain, by the booking
refunded since its last note. Amendments and refunds are reduced to their effect on the rows (one step
prepares and settles an amendment by one row); `HospitalityAmendments` and `BookingRefunds` have their
details. Sums, fingerprints and components of a price are one number.

It is checked in the run `refunds`, beside `BookingRefunds` and without a row in common (`side`, chosen
at the start, is the one that moves): a booking at 2, three amendments of +1 or -1, two
invoices, two refunds of the booking, one refund returned, two requests in flight. Three amendments are
needed for one that is applied before the note of its predecessor and for a chain of two beside money
outside it, two invoices and two requests for two documents of the same amendment or refund.

Bounds by name: `BookedPrice`, `PriceChanges`, `MaxPriceChanges`, `MaxInvoices`, `MaxBookingRefunds`,
`MaxReturns`, `MaxNoteRequests`.

### HospitalityAmendments

One confirmed, paid booking, its amendments, its payment rows in the order of their claims, and the
provider's object of each row.

| variable | code |
|---|---|
| `amendedBooking` | total and version of the booking |
| `amendments` | the amendment rows; `due` is the expiry time having passed, `hold` the target hold |
| `amendmentRows` | the booking's payments and refunds, linked to an amendment or not |
| `amendmentProvider` | the Session or refund of each row: first answer and present state |
| `amendmentCalls`, `amendmentSnapshots` | provider calls in flight, states retrieved and not applied |

An amendment is prepared, paid by its customer (a Checkout Session) or refunded by the hotel (a refund
per source), and applied. If it expires after money moved, recovery returns the money by refunds, or by
a recovery Session for money already refunded, before it is closed as expired. `Executes` and
`Compensates` are the settlement plans, computed from the ledger without the row that is repeated.
`Active` is the guard that the booking's other changes ask (`ChangeAmendedBooking`).

Assumed of the environment: the provider repeats its first answer to a key, and a Session is paid
only after it was bound, because the customer gets its address from the answer of the binding request.

### RentalUnits

Rentals (a hold and the booking made from it), the units of one type at one location, their rows of
unavailable dates, and the local day.

| variable | code |
|---|---|
| `rentals` | hold, booking, allocation and custody of each rental, its inspection and damage case |
| `rentalUnits` | archived, operational status and maintenance work of each unit |
| `rentalBlocks` | unavailable dates |
| `rentalDay` | the local date |
| `rentalSnapshot` | the holds visible to the one request that waits for the unit lock |

All writers of a unit take its advisory lock. Holds are created and released at READ COMMITTED, the
other writers are Serializable: their snapshot is older than the lock, so that a hold committed
meanwhile is invisible to them. `TakeSnapshot` takes it, the request acts on it (`SeenHolds`), and
`RollBack` ends one that is refused. `rental_snapshot` looks for what part 5 reports.

### RentalLedger

The money of one rental booking.

| variable | code |
|---|---|
| `rentalBooking` | status and custody of the booking |
| `rentalSources` | its offline payments, and what refunds took of each |
| `rentalAmendments` | the priced amendments with their settlement and its compensation; `taken` is the payment a decrease was refunded from, `returned` what refunds after the application took of an increase |
| `rentalBond` | the security bond: requirement, collection, release, forfeiture |
| `rentalDamage`, `rentalLate` | decision, payment and refund of the damage liability and of the late-return fee |

Every writer is Serializable and takes the booking's lock, and the manual provider answers within the
transaction: one operation is one action. The code keeps a row per movement, each with a reference of
its own, and sums them up; the model keeps the sums that a decision reads. An operation repeated with
its key is answered from its row. The readiness and dates of the unit, the state of its damage case,
the pickup window and a changed quotation are refusals taken as passed. The version an amendment was
prepared against cannot change while it is PREPARED, since pickup, cancellation and other amendments
refuse then. A prepared amendment that is due is expired by the next preparation or by its own replay.

The effective settlement (`EffectiveBalances`, `EffectiveNet`) reads the rows as the applied amendment
left them: a refund of an applied increase comes from its charge before the price. It answers with a
conflict when a balance is negative or the net exceeds the effective total, and then refuses refunds
and cancellation alike; `RentalMoneyWithinTerms` says that it never does (`Reconciled`).

### SupplierReservations

One reservation operation, its current attempt, the workers that execute attempts, and the sales the
supplier makes.

| variable | code |
|---|---|
| `supplierOp` | the operation row: status, attempt count, locator, confirmation, recovery reference |
| `supplierAttempt` | the current attempt: kind, status, whether its provider request was marked as started |
| `supplierWork` | what each worker is doing and has read |
| `supplierSales` | the supplier's side of each request that was let go |

A worker claims an attempt with a lease, marks it before it lets the request go, and settles it. A
lease may end at any time (`RecoverStaleAttempt`), although its worker lives on: an unmarked attempt
goes back to PREPARED, a marked one becomes AMBIGUOUS and is reconciled. Every transaction locks the
operation first, so each is one action.

Assumed of the supplier: it answers NOT_FOUND only of a sale that no longer stands, and a synchronisation
never sells. A create whose request was let go and whose answer was lost stays AMBIGUOUS without a
locator: the code leaves it to staff.

### MCServices

`services` (`MCServices.cfg`) checks `HospitalityAmendments`, `RentalUnits`, `RentalLedger` and
`SupplierReservations` in one run: they share no row, a behaviour moves one of them, chosen at its start (`service`), and a state of all together satisfies a property of
one exactly when the state in which the others have not moved does. 859 441 states. The ledger moves in
two halves, `price` without the charges after the return and `charges` without the price: the two meet
only in the booking's status and custody and in the bond, which both halves move, and no operation of
one reads what only the other writes, except forfeiture, which belongs to `charges`.

- Amendments: two of +1 and -3 over two captures of 2, two payment rows, one provider call and one
  version change. Two are needed for one that meets the other's payment or version, two captures for a
  refund of 3 that takes two sources.
- Rental units: two rentals, two units, one block, two days to rent and a local day up to 2. Two rentals
  are needed for dates that meet, two units for a substitution.
- Rental ledger: a price of 3 in at most two payments, two amendments of +1 or -2, a bond of 2 and
  liabilities of 1 and 2. Two payments and a decrease of 2 are needed for a decrease that only one of
  them covers, two amendments for one that was compensated before another, two liabilities for one that
  the bond matches and one that it does not.
- Suppliers: two workers for a lease that ended and five attempts for submission, reconciliation and
  recovery to follow each other.

Bounds by name: `MaxAmendmentRows`, `MaxAmendmentCalls`, `MaxBookingVersion`, `Deltas`,
`BookedCaptures`, `LastRentalDay`, `MaxSupplierAttempts`, `RentalTotal`, `RentalDeltas`, `BondAmount`,
`LiabilityAmounts`, `MaxRentalSources`, `MaxRentalAmendments`.

### Properties

Each property stands in its module under a comment that says what it means, and each has a mutant: a
definition of the model with a plausible mistake that the run must find. The mutants are the
operators marked `Mutant`, each before the definition it replaces; no specification uses them.

## 4. Proofs

The theorems hold for all values of the constants that satisfy `StayAssumption`,
`InventoryAssumption`, `PublicAssumption`, `PaymentsAssumption`, `RefundsAssumption`, `RentalDaysAssumption`,
`RentalRowsAssumption`, `SupplierAssumption`, `RentalMoneyAssumption`, `LegalAssumption` and
`AmendmentsAssumption`: finite sets,
natural bounds, and special values outside the sets they extend. `RefundsAssumption` adds that a paid
booking has a capture and that the provider leaves a refund that failed or was cancelled as it is. TLC
evaluates the assumptions in every run.

| module | theorem | property |
|---|---|---|
| `HospitalityInventoryProofs` | `TypeCorrect` | `TypeOK`, a part of `PublicTypeOK` |
| | `OneHoldOneBooking` | `LedgersAgree`: `HoldsBookedOnce` and `AllocationsMatchBookings` |
| | `HoldsEndOnceOnly` | `HoldsEndOnce` |
| | `HeldStaysBookable` | `LiveHoldsStayBookable` |
| | `NoOverbookingUnlessLate` | `GrowthFitsUnlessLate` |
| | `NoOverbookingWithoutLag` | `GrowthFits`, if `MaxLag = 0` |
| | `TwoCausesOnly` | `OverbookingHasTwoCauses` |
| `HospitalityPaymentProofs` | `PaymentContractKept` | `BookingsKeepPaymentContract` |
| | `NoMoneyInCancelled` | (`CancelledHasNoMoney`, no property of a run: the contract implies it) |
| | `FrozenWhileUnresolved` | `UnresolvedPaymentFreezesBooking` |
| | `ChangedOncePerKey` | `ChangesHappenOnce` |
| | `PublicIsInventory` | `PublicSpec` implements `Spec` |
| | `PublicTypeCorrect` | `PublicTypeOK` |
| | `LimitKept` | `LimitHoldsUnlessLate` |
| | `PromotedInTime` | `PromotedWhileProtected` |
| | `AbandonedLetGo` | `AbandonedBookingsLetGo` |
| | `OffersDifferByAbandoned` | the cause of finding 2 (`OffersFollowHolds`) |
| | `PublicKeepsInventory` | the properties of the inventory, of `PublicSpec` |
| `BookingPaymentsProofs` | `TypeCorrect` | `TypeOK` |
| | `AttemptsAgree` | `AttemptsAgreeWithProvider`: `OneUnresolvedAttempt` and `AttemptsFollowProvider` |
| | `SuccessIsReal` | `SuccessIsProviderTruth` |
| | `SuccessStays` | `SuccessIsFinal` |
| | `ServicesKeepContract` | `KeepsPaymentContract` |
| | `StatusAgrees` | `StatusMatchesLedger` |
| | `CancelledIsSettled` | `CancelledKeepsNoMoney` |
| | `RefusalsAreBehindMixedAttempts` | the cause of findings 3 and 4 |
| | `StaleClaimsStay` | what ends the claim of finding 5 |
| | `StoredSessionsHeard` | what `StoredSessionsClose` rests on beside fairness |
| `BookingRefundsProofs` | `RefundsTypeCorrect` | `TypeOK`, a part of `RefundsTypeOK` |
| | `BookingFollowsLedger` | `StatusMatchesLedger` |
| | `LostAreFound` | `LostRefundsAreFound` |
| | `RefundsFitSources` | `SourcesCoverRefunds` |
| | `RefundsAreTheirOwn` | `RefundsKeepTheirRequest` |
| | `MoneyStaysAccounted` | `MoneyIsAccounted` |
| | `RefundsKeepContract` | `KeepsPaymentContract` |
| | `DocumentsEnd` | `DocumentsEndAtZero` |
| | `ChainsVerify` | `NotesStayVerifiable` |
| | `LegalTypeCorrect` | `LegalTypeOK`, a part of `RefundsTypeOK` |
| | `RefundRowsTypeCorrect` | `RefundsTypeOK` |
| `HospitalityAmendmentProofs` | `AmendmentsTypeCorrect` | `AmendmentsTypeOK`, a part of `ServicesTypeOK` |
| | `PaidAreRecorded` | `PaidSessionsAreRecorded` |
| | `DifferenceMovesOnce` | `AmendmentMovesItsDifference` |
| | `AmendmentsEndBalanced` | `AmendmentsCloseBalanced` |
| | `ActiveAmendmentProtects` | `AmendmentProtectsBooking` |
| `RentalProofs` | `RentalTypeCorrect` | `RentalsTypeOK`, a part of `ServicesTypeOK` |
| | `UnitsStaySeparate` | `UnitsAreNotShared` |
| | `HoldsLoseToSnapshots` | what takes the dates of a live hold (finding 6) |
| | `SnapshotsAreBehindLostHolds` | `HoldsKeepTheirUnit`, if no snapshot misses a live hold |
| | `AvailableIsClear` | `AvailableUnitsAreClear` |
| | `LiabilityIsMetOnce` | `LiabilityMetOnce` |
| | `RentalLedgerTypeCorrect` | `RentalLedgerTypeOK`, a part of `ServicesTypeOK` |
| | `RentalMoneyKept` | `RentalMoneyWithinTerms` |
| `ServicesProofs` | `SupplierTypeCorrect` | `SupplierTypeOK`, a part of `ServicesTypeOK` |
| | `BuysOnce` | `SoldOnce` |
| | `OutcomeIsReal` | `OutcomeIsSupplierTruth` |
| | `ServicesTypeCorrect` | `ServicesTypeOK` |

Ledger. The inductive invariant is `TypeOK` with `HoldsBookedOnce` and `AllocationsMatchBookings`.
Neither of the two is inductive on types alone: a confirmation needs an ACTIVE hold, and no booking
from a hold that is not CONSUMED. `HoldsEndOnce` is an action
property: `HoldStep` says what one step may do to a hold, and the invariant `ExpiredWereDue` covers the steps
that leave an expired one alone. `LiveHoldsStayBookable` is inductive with the types: whoever retires a room
type or a plan, or takes an assignment away, looks at the holds alive at the time it captured, and those
include the holds alive when it commits.

Capacity. `GrowthFitsUnlessLate` is an action property, proved step by step from `TypeOK`. A night's
protected units are the cardinality of a set of tokens, so the lemmas count sets: the tokens are
finite (`TokensFinite`); a claim adds as many tokens as it has units on a night it occupies and none
elsewhere (`ClaimTokens`, `GrowByClaim`); ending a claim adds none (`ShrinkByClaim`); a captured
time protects no less than the clock does (`CapturedProtectsMore`). Then each action: a new hold is
measured by `CapacityAllows` (`CreateHoldFits`); a confirmation trades a live hold for an allocation
of the same stay (`ConfirmKeepsUnits`); a reschedule or a modification measures its new stay without
its old one (`ChangeTermsFits`); all others add nothing (`OtherStepsAddNothing`). The exception is the confirmation
of a hold that expired, which protects nothing any more: `NoOverbookingWithoutLag` shows that the
captured time is its only cause. `TwoCausesOnly` adds the steps of the catalogue: a night that fits its
rooms and windows stops doing so by a late confirmation or the archival of one of its rooms only, since a
new window measures what is protected and nothing else lowers a capacity (`CatalogueKeepsFit`,
`FewerUnitsFit`).

Money. Every step of the inventory is, for every booking, a step of `PaymentContract` or leaves its
three variables alone (`ContractStep`). In the contract a cancelled booking has neither settled
money nor an unresolved attempt, and this is inductive; `NoMoneyInCancelled` follows for the
inventory, which shows that what the contract promises is enough. `FrozenWhileUnresolved` and
`ChangedOncePerKey` are action properties over the same facts: a step of a booking's terms finds its payment
resolved and records its key (`TermsStep`), a step of the contract touches no terms (`BookingRowStep`), and
nothing takes the money or the allocation of a cancelled booking.

Public bookings. Each step of `PublicBooking` is a step of the inventory or leaves it alone
(`CustomerSteps`), so that `PublicIsInventory` needs no invariant. `AbandonedBookingsLetGo` is not
inductive: it says nothing of a claim made later. `WindowInv` adds that the payment of a pending booking
was claimed while its window was open and that a pending booking has no money; a claim then lets go one
window after it was made, and a retry does not renew it. What the contract says of a pending booking
(`PendingBefore`) carries it through every step of staff and provider (`WindowStep`). `PromotedInTime` asks
more, and `PaidInWindow` records it: the time of the last claim lies in the window of the booking or of its
first claim, and is not ahead of the clock. `LimitKept` counts principals: with `PrincipalInv` (the
principal of an active hold ends with it) only a hold and a confirmation put an active principal where
there was none. A hold has counted them under the organization's lock at a captured time, when no fewer
were active; a confirmation that commits in time replaces the one of its hold.

Offers. `OffersDifferByAbandoned` compares what a read protects with what a hold counts, night by night
and by the cardinality of their tokens (`FitsWithLess`): the tokens of a read are those of a hold without
the abandoned bookings', so that whatever can be held is offered, and where no abandoned booking meets the
stay the two decide alike.

Attempts. `OneUnresolvedAttempt` and `SuccessIsProviderTruth` are not inductive: an event or a lookup
in flight could name money the provider never took, or a failed row turn pending. `AttemptInv` adds
what binds the rows, the events and the lookups of an attempt to the provider's objects
(`AttemptsFollowProvider`); the run `checkout` checks both together. The proof has
one lemma for each group of actions: requests, provider, events, staff.

The ledger of a booking. `StatusMatchesLedger` and `CancelledKeepsNoMoney` hold by `MoneyInv`, which adds to
`AttemptInv` how each status came about: by offline money (`OfflineFollows`), by a successful attempt
(`PaidFollows`), by a refund of all of it (`RefundFollows`), and that a cancelled booking had none left
(`CancelFollows`). Mixed up attempts are excepted, as in the properties themselves.
`RefusalsAreBehindMixedAttempts` shows where they come from, by its hypothesis on steps: where a refused
repetition fails no claim whose session is stored (`RefusalsSpareSessions`, which behaviours without a
repetition satisfy and the code does not ensure), `SparedInv` is inductive. Every attempt that failed with
a stored session failed as its session expired (`FailedFollows`), so that the only candidate of an event
is its own row (`OwnCandidate`), and the exceptions of `CancelledKeepsNoMoney` are not needed.
`StaleClaimsStay` is an action property: step by step, nothing but `EndsStaleClaim` takes the claim of an
expired session in which a card was tried.
`StoredSessionsHeard` is the safety part of `StoredSessionsClose`. `HeardInv`: an answer still to be stored
is of an open session (`AnswersAreOpen`), because a session is paid only at its stored address and outlives
the call that opened it; and what ended a stored session at the provider is an event not accepted yet. With `AttemptInv` that
event is one the handler acts on, unless the attempt is mixed up, and acting on it closes the session.

Refunds. `RefundsInv` is what holds with and without credentials: types; what is known of the provider's
refund behind each row, call, event and retrieval (`RowInv`, `ToldInv`: whatever was told of a refund
exists, and one that was told to have failed has); that a row naming another request's refund leaves that
one no claim (`NamedInv`); that the status is the ledger's, with nothing pending in a cancelled booking
(`LedgerInv`). `AcceptedInv` adds what needs accepted credentials: a row FAILED only if the provider's
refund did or was refused (`RefusalsInv`), and each source covers what is held of it (`CoverInv`).
`CoverInv` holds because every step that lets a row hold money again plans it (`PlanCovers`) or finds it
held already. The event of a refund binds to its own claim, since a candidate must be the only one
and the own claim is one as long as nothing named it.

Refinement. `ServicesKeepContract` is that `BookingPayments` implements `PaymentContract`: the initial
state maps to an initial state, and each step to a step of the contract or a stutter. Two facts of
`AttemptInv` carry it: with one unresolved attempt at most, failing or expiring an attempt leaves none
unresolved (`Fails`); and the completed session of an attempt that already counts as successful finds
a booking that is settled, not refunded (`StatusFollows`), so that it changes nothing. Together with
`PaymentContractKept` the abstract steps which the inventory takes are those the services implement.

Suppliers. `SoldOnce` is not inductive: a worker that outlived its lease could let go a second request.
`SupplierInv` says why it does not. Of the operation (`OperationInv`): no sequence above the attempt
count has a sale (`LaterUnsold`), an operation that may submit again has none that stands
(`QuietUnsold`), a create runs alone (`CreateAlone`), locator and confirmation name a sale that was
made (`RowNamesSale`, `ConfirmedNamesBoth`), and the row satisfies its check constraints (`OperationRowFits`).
Of the workers: what each holds was true of the attempt it claimed (`WorkersHold`), and no two of them
hold the right to buy (`BuyersDiffer`). The proof goes by groups of actions: claims, requests, staging,
settlements, recovery. The number of workers and of attempts is arbitrary.

Rental charges. `LiabilityMetOnce` follows from `ChargesInv`: a bond is FORFEITED only together with a
liability of its own amount that is UNPAID. This is inductive because a payment or a refund of the
liability refuses a forfeited bond, a liability is decided once, and no step of the price or of custody
touches either row (`PriceKeepsCharges`). It holds for any bond, liabilities and sequence of operations.

Rental money. `RentalMoneyWithinTerms` compares two sums of the same rows, and neither it nor the effective
settlement is inductive. `MoneyInv` says how the columns of an amendment go together (`RowFits`): one that
ended is not SETTLED, an applied one is, what refunds returned of a charge is within the charge, and a
settled decrease is within the balance of the one source it was taken from. With at most one amendment
that has not ended, which finds the price paid in full while it is PREPARED, every sum over amendments has
one term or none (`CustomerNetIs`, `EffectiveWithout`, `EffectiveWith`), so that what the customer has paid
and what the effective settlement finds come out the same (`MoneyIsWithinTerms`). Two steps need a
reason. A refund after the application takes from a source what the decrease left of it, so that the settled
decrease stays covered (`TakeKeepsMoney`); and a decrease subtracts from a source what others took of it, which
is never negative, since a charge names no source (`TakenIsNatural`). The number of payments and of
amendments is arbitrary.

Documents. `DocumentsEndAtZero` follows from `DocumentsInv`: documents are a sequence in which each names
an invoice before it and an invoice names itself (`Placed`), nothing of its invoice follows a cancellation
(`CancellationsLast`), and requests in flight name invoices. It is inductive because each of the four
steps that issue a document finds in its own transaction that it may follow (`MayFollow`,
`IssueKeepsDocuments`): what the request found earlier is not needed. No bound enters. `NotesStayVerifiable`
needs in addition that a note names an amendment and rows there are (`Named`); then `VerifyInv` is inductive
by three facts. Rows and amendments keep what a chain is computed from (`MoneyKept`, `ChangesKept`), so that
a verified chain stays so (`ChainStays`, `VerifiedStays`). A document of another invoice, an invoice and a
cancellation leave a chain alone (`OtherDocumentKeepsChains`). A repeated note is issued by a
transaction that verifies the chain after its insert, and a first note alone adds up by what its request
is refused for (`FirstNoteVerifies`).

The types (`LegalTypeOK`) need that a refund names a payment there is and a request an amendment there is
(`LegalRefer`): otherwise a row appended later could be the one that was named.

Amendments. `AmendmentsInv` has four parts. At most one amendment is PREPARED (`RecordsFit`), because a
preparation is refused beside one that moved money and ends any other. A row says no more than
the provider's object does (`RowAgrees`): a FAILED row has no payment behind it, a SUCCEEDED one has, and
an unresolved row belongs to an amendment that is still PREPARED. What is in flight has not been overtaken:
an answer is the provider's first (`CallAgrees`), and a retrieved state stays true of a settled or expired
object, or its row has not moved since (`SnapshotAgrees`). Last, the sums (`SumsFit`): with *taken* the rows that
are not FAILED, captures taken for a charge are within its difference and refunds taken within the captures
that settled; of a reduction, both are within the difference. Sums of settled rows alone would not be inductive,
since a row claimed today settles tomorrow. The steps fall into three kinds. A claim adds what `Executes` or
`Compensates` computes from a ledger without unresolved rows, where taken and settled are the same
(`TakenIsSettled`, `ExecutionFits`, `CompensationFits`). A write to a row never revives a FAILED one and never
unsettles a capture, so that its sums only shrink on the left and grow on the right (`RowStep`). All others
leave the rows alone (`RecordsStep`, `ProviderStep`). `AmendmentsCloseBalanced` and
`AmendmentProtectsBooking` are then one look at each step that ends an amendment or changes the booking; the
latter needs that no other amendment is PREPARED.

Rental units. `RowsInv` is the types and how the columns of a row go together (`RowFollows`: an allocation
is cut short only after the return, and a rental is returned on or after its first day). `SharingInv`
adds the two halves of `UnitsAreNotShared`: accepted stays of a unit are disjoint, because a confirmation,
an extension and a substitution look at the allocations under the unit lock, whatever holds
they do not see; and a unit in custody is not archived (`CustodyIsNotArchived`). `AvailableUnitsAreClear`
needs the rows only. Holds are what a stale snapshot misses, and `HoldsLoseToSnapshots` shows that nothing
else takes their dates: each step that leaves a live hold without its unit is a request that waited for the
lock since before the hold was made (`Unseen`), and a new hold is measured against all rows. With
the hypothesis that no snapshot misses a live hold, `HoldsKeepTheirUnit` is inductive with `RowsInv`
(`SnapshotsAreBehindLostHolds`).

Sums. `SumProofs` proves what the other modules cite about `SumFunctionOnSet` of the community modules:
that it exists, adds an element, splits, agrees on equal functions, is monotone in its set, and
follows the change of one value (`SumChange`). The
library's induction theorems are not available to these provers, so induction goes over sets of numbers and
of subsets: `NatSetInduction` and `SubsetInduction` take the set of the n, or of the subsets, for which a
fact holds.

Runs of several components. `MCServices` and `MCBookingRefunds` choose at the start which component moves.
A step of either is a step of each component or leaves its variables alone, so what is proved of a component
holds of the run; the type invariants `ServicesTypeOK` and `RefundsTypeOK` follow from those of the parts.

Out of the prover's reach, and left to TLC: liveness under fairness and ENABLED (`StoredSessionsClose`).
It is the only property of a passing run that no theorem states; by `StoredSessionsHeard`, what is left to
TLC is that a fair provider ends the session and has its event accepted. No module here declares a RECURSIVE
operator.

## 5. What the runs found

Six runs expect a violation; each checks one sentence of the documentation. The theorems
of part 4 named in the entries say, for all constants, what is behind them.

1. `late_confirmation`: a confirmation compares the hold's expiry with a time captured before it
   waited for the lock, and does not read the capacity again. The hold may have expired and its units
   been sold meanwhile (`docs/availability.md`: "no overbooking"). `NoOverbookingUnlessLate`: no other step overbooks by
   taking units.
2. `abandoned_allocation`: a read leaves out the allocation of an abandoned public booking, but hold
   creation (`availability/hospitality-availability-hold-core.ts:102`), reschedules and capacity windows
   count it. The room is offered and every hold request for it is refused, until staff cancels the
   booking; `docs/booking-flow.md:29` says that availability stops counting it and that no job is
   needed. It errs on the safe side: the room is not sold twice, even when the booking is still bound.
   `OffersDifferByAbandoned`: reads and holds differ in nothing else.
3. `checkout_retry`: `docs/public-booking-payments.md` has a stopped request recovered by its retry
   under the same key. The retry sends another expiry under that key, is refused for it, and its
   refusal fails an attempt whose session is open. The guest may then pay a session whose attempt is
   marked failed; the completed event still settles it, unless the booking was cancelled meanwhile,
   which nothing prevents any more: this is the exception in `CancelledKeepsNoMoney`.
4. `event_attempt`: `docs/stripe-webhook-payment-attempt-authority.md` has an older PaymentIntent's
   event stay with the older attempt. A failed attempt has no PaymentIntent reference, so its event
   is bound to the pending claim of the next attempt (`MixedUp`). `StatusMatchesLedger`,
   `CancelledKeepsNoMoney` and `StoredSessionsClose` exclude mixed up attempts by name.
   `RefusalsAreBehindMixedAttempts`: 3 and 4 have one cause, the refused repetition that fails an attempt
   whose session is stored; without it neither happens.
5. `stale_claim`: `docs/public-booking-payments.md` says that a stale claim cannot protect inventory
   forever. After a declined card the expired session keeps its claim for recovery, and the event of
   the cancelled PaymentIntent throws, because a capture of an unpaid booking cannot be reconciled;
   the claim stays pending and blocks cancellation and new attempts. The counterexample is fair.
   `StaleClaimsStay`: only a refused repetition, offline money or the late payment of an earlier attempt
   ends it.
6. `rental_snapshot`: `docs/rental-availability-block-booking-authority.md` has a block refused where a
   live hold overlaps. A block, confirmation or reschedule that waits for the unit lock does not see a
   hold committed during its wait, and takes its dates. Accepted bookings are not affected
   (`UnitsAreNotShared`): a confirmation looks at blocks and allocations again.
   `SnapshotsAreBehindLostHolds`: without such a snapshot every live hold keeps its unit.

Observed while modelling, without a run of their own:

- Archiving a room looks at unexpired holds, not at allocations (`inventory/hospitality-service.ts:222`):
  the rooms left may not cover the bookings, against `docs/availability.md:7`. It is one of the two causes
  that `OverbookingHasTwoCauses` names.
- Confirmation reads no restriction (`bookings/hospitality-booking-confirmation-core.ts:115`), although
  `docs/availability.md:39` says that it revalidates the current ones.
- A refund's state is retrieved before the transaction that applies it
  (`payments/stripe-refund-lifecycle-service.ts:177` and `:188`), so that an older answer may be applied
  last; `docs/stripe-refund-lifecycle-authority.md:7` asks for present state. Another event or a
  reconciliation repairs it.
- A refund returned after the booking was cancelled is not recorded: its handler requires CONFIRMED.
- When credentials are revoked between a lost answer and its retry, the refusal (401, 403) fails the
  claim of a refund that exists: the exception in `MoneyIsAccounted`.
- A refund whose claim was failed may be revived. Its first call was answered by the provider, the credentials
  were revoked, the repetition was refused and failed the claim, and another refund took the source; then
  the answer of the first call is recorded, because the update compares the row with what the same
  transaction read and not with PENDING (`payments/stripe-refund-service.ts:508`). The refunds of the source
  then exceed it, against `docs/stripe-refunds.md:9`. It takes two calls of one refund in flight, one more
  than the run has; `SourcesCoverRefunds` is stated for accepted credentials.
- An older partial refund can no longer be reconciled when later refunds changed the next source.
- A payment of an amendment that was claimed and never bound can be neither repeated nor reconciled
  once the amendment is due; recovery then waits for the provider forever. A recovery refund that
  FAILED is not claimed again either, since its key is its source. Both leave the amendment prepared
  and the booking protected; `AmendmentsCloseBalanced` holds because nothing closes it.
- When a decrease of a rental is settled from a payment and compensated by a payment of its own, the
  original ledger may refund the first payment in whole. The refunds recorded against it then exceed
  it, and a later decrease finds a negative balance and cannot be settled (`DecreaseSources`); the
  amendment can still be cancelled, and the customer's total stays right.
- A rental bond may be released while a liability is open (`ReleaseBond`), and a liability that was paid
  and refunded can no longer be met from the bond (`ForfeitBond`).
- The writers of a first note compare the settlement with all payment rows, the trigger freezes those of
  no amendment and of the chain, and nothing verifies the new note. Issued after money of an amendment
  outside its chain has moved, it never verifies, and no document of its invoice can follow
  (`docs/commercial-adjustment-settlement-evidence.md:3` speaks of the complete settlement): the
  exception in `NotesStayVerifiable`.
- An amendment applied before the note of its predecessor was issued can never be documented
  (`Continues`), and one state of a booking may be invoiced more than once.
- The cancellation note of an invoice without notes looks for one refund of its whole amount and not at
  the net settlement: a refund of an amendment that is returned later leaves money behind a zero document.
- Pickup does not look at another booking's open, overdue custody of the unit: the exception in
  `SecondCustodyIsOverdue`, a part of `UnitsAreNotShared`.

## 6. What is not modelled, and why

- Of public bookings, capabilities are modelled by their expiry and ownership only, and the search over
  room types is left out.
- Of documents, preparation, numbers, tax, receipts, exports and reads are left out.
- Of rental money, the policies that set prices, bonds, fees and liabilities are left out: their results
  are constants or choices of the model.
- Of amendments, direct authorization and capture, settlement by hand and the terms of the target are
  left out; of suppliers, search, offers, terms, transport and the parsing of responses.
- Direct card authorization and capture (`payments/stripe-payment-service.ts`) have no caller but
  tests, so AUTHORIZED is not a status of the model.
- Tenancy, permissions, request fingerprints, prices, currencies and metadata are refusals that the
  models take as passed; a conflict that rolls a transaction back leaves no trace and is no action.
- The serialization of transactions is taken from PostgreSQL's advisory locks and Serializable
  isolation, not modelled.
- Reads, pages, route handlers, formatting, exports and cryptography keep no state of interest.
- The provider is modelled from what the code sends and accepts: idempotent session creation, one
  PaymentIntent per session, events delivered at least once and in any order.
