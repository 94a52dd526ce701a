---------------------------- MODULE PublicBooking ----------------------------
(***************************************************************************)
(* The anonymous customer over the inventory: the principal a public hold  *)
(* creates, the limit on the principals of one organization, the pending   *)
(* booking they own, and the window in which its payment may be started.   *)
(* An availability read leaves out a pending booking whose window is over. *)
(*                                                                         *)
(* Staff, bulk expiry and the provider act on the same holds and bookings. *)
(* A Checkout request reads the clock once it has the booking's lock; its  *)
(* provider call and the transaction after it take MaxLag at most.         *)
(***************************************************************************)
EXTENDS HospitalityInventory

CONSTANTS
    PublicLimit,        \* active principals of an organization (24 in the code)
    PublicUnits,        \* rooms of one public hold (4)
    PublicHoldMinutes,  \* life of a public hold (15 minutes)
    PaymentWindow,      \* time in which a payment may be started (15 minutes)
    RecoveryTime        \* life of a principal with a booking (24 hours)

ASSUME PublicAssumption ==
    /\ PublicLimit \in Nat \ {0}
    /\ PublicUnits \in Nat \ {0}
    /\ PublicHoldMinutes \in HoldMinutes
    /\ PaymentWindow \in Nat \ {0}
    /\ RecoveryTime \in Nat /\ RecoveryTime > 2 * PaymentWindow

VARIABLES
    principals,  \* the expiry of the principal that owns each public hold
    owned        \* the bookings principals own: when the ownership was written, the payment
                 \* last claimed and its provider call last let go (0 before)

publicVars == <<principals, owned>>
publicSpecVars == <<vars, publicVars>>

OwnershipRows == [since : Nat, claimed : Nat, started : Nat]

PublicTypeOK ==
    /\ TypeOK
    /\ IsTable(principals, DOMAIN holds, Nat)
    /\ IsTable(owned, DOMAIN bookings, OwnershipRows)
    /\ \A b \in DOMAIN owned : bookings[b].hold \in DOMAIN principals

----------------------------------------------------------------------------
\* Principals.

OwnedWith(k) == {b \in DOMAIN owned : bookings[b].hold = k}

\* Principals that count against the limit: unexpired, with no booking or an open unpaid one.
\* An AUTHORIZED booking, which only staff can make of a public one, counts in the code and is
\* SETTLED here.
Active(t) ==
    {k \in DOMAIN principals :
       /\ principals[k] > t
       /\ \/ OwnedWith(k) = {}
          \/ \E b \in OwnedWith(k) : bookings[b].status # "CANCELLED" /\ bookings[b].payment = "OPEN"}

\* Mutant: the limit itself is still admitted.
AdmittedAtLimit(now) == Cardinality(Active(now)) <= PublicLimit

Admitted(now) == Cardinality(Active(now)) < PublicLimit

\* The limit, the hold and its principal are one transaction, under the organization's lock.
PublicHold(k, s, plan, now) ==
    /\ s.quantity <= PublicUnits
    /\ Admitted(now)
    /\ CreateHold(k, s, plan, PublicHoldMinutes, now)
    /\ principals' = Put(principals, k, now + PublicHoldMinutes)
    /\ UNCHANGED owned

\* The capability of the hold ends with it.
Authorized(k, now) == k \in DOMAIN principals /\ holds[k].expiresAt > now /\ principals[k] > now

PublicRelease(k, now) ==
    /\ Authorized(k, now)
    /\ ReleaseHold(k, now)
    /\ UNCHANGED publicVars

\* The booking waits for its payment and its principal lives on; the ownership row takes the
\* database's time.
PublicConfirm(b, k, now) ==
    /\ Authorized(k, now)
    /\ Confirm(b, k, "PENDING_CONFIRMATION", now)
    /\ principals' = [principals EXCEPT ![k] = now + RecoveryTime]
    /\ \E since \in now..clock :
         owned' = Put(owned, b, [since |-> since, claimed |-> 0, started |-> 0])

----------------------------------------------------------------------------
\* The payment window.

PendingOwned == {b \in DOMAIN owned : bookings[b].status = "PENDING_CONFIRMATION"}

WindowOpen(start, t) == start + PaymentWindow > t

\* Mutant: a claim keeps its booking however old it is.
ClaimKeeps(b, t) == Unresolved(b)

\* checkoutRetryKeepsPaymentStartRecoverable: the claim is young itself.
ClaimRecoverable(b, t) == Unresolved(b) /\ WindowOpen(owned[b].claimed, t)

CustomerMayPay(b) == b \in PendingOwned /\ principals[bookings[b].hold] > clock

ClaimPublicCheckout(b) ==
    /\ CustomerMayPay(b)
    /\ WindowOpen(owned[b].since, clock)
    /\ StartPayment(b)
    /\ owned' = [owned EXCEPT ![b].claimed = clock, ![b].started = clock]
    /\ UNCHANGED principals

\* Mutant: a retry renews its claim.
Renewed(row) == [row EXCEPT !.claimed = clock, !.started = clock]

LetGoAgain(row) == [row EXCEPT !.started = clock]

\* The same request again: the provider is called again for the claim.
RetryPublicCheckout(b) ==
    /\ CustomerMayPay(b)
    /\ Unresolved(b)
    /\ WindowOpen(owned[b].since, clock) \/ ClaimRecoverable(b, clock)
    /\ owned' = [owned EXCEPT ![b] = LetGoAgain(@)]
    /\ UNCHANGED <<principals, vars>>

\* The provider answered with a session; the window is not looked at again.
BindPublicCheckout(b) ==
    /\ b \in PendingOwned
    /\ clock - owned[b].started <= MaxLag
    /\ Promote(b)
    /\ UNCHANGED publicVars

\* shouldProtectPendingPublicBookingAllocation. A pending booking has no open session: the
\* transaction that stores one promotes it.
ReadProtects(b, t) ==
    b \in PendingOwned =>
        \/ bookings[b].payment = "SETTLED"
        \/ WindowOpen(owned[b].since, t)
        \/ Unresolved(b) /\ WindowOpen(owned[b].claimed, t)

\* What a read at time t offers.
ReadTokens(rt, n, t) ==
    UnitTokens({b \in OpenBookings : ReadProtects(b, t)}, allocations, rt, n)

Offered(s, plan, t) ==
    /\ Bookable(s.roomType, plan)
    /\ RestrictionsAllow(restrictions, s, plan)
    /\ \A n \in Nights(s) :
         Fits(s.roomType, n, Cardinality(HeldTokens(s.roomType, n, t))
                               + Cardinality(ReadTokens(s.roomType, n, t)) + s.quantity)

----------------------------------------------------------------------------
\* What nobody but the customer does: a pending booking is made, its payment claimed, its
\* session bound.
OfCustomer ==
    \/ \E b \in DOMAIN bookings' \ DOMAIN bookings : bookings'[b].status = "PENDING_CONFIRMATION"
    \/ \E b \in PendingOwned :
         \/ bookings'[b].status = "CONFIRMED"
         \/ bookings'[b].checkout = "PENDING" /\ ~Unresolved(b)

StaffNext == Next /\ ~OfCustomer /\ UNCHANGED publicVars

PublicInit ==
    /\ Init
    /\ principals = [k \in {} |-> 0]
    /\ owned = [b \in {} |-> 0]

CustomerNext ==
    \/ \E k \in HoldKeys, now \in Captured :
         \/ \E s \in Spaces, plan \in RatePlans : PublicHold(k, s, plan, now)
         \/ PublicRelease(k, now)
         \/ \E b \in BookingKeys : PublicConfirm(b, k, now)
    \/ \E b \in BookingKeys :
         \/ ClaimPublicCheckout(b)
         \/ RetryPublicCheckout(b)
         \/ BindPublicCheckout(b)

PublicNext == StaffNext \/ CustomerNext

PublicSpec == PublicInit /\ [][PublicNext]_publicSpecVars

----------------------------------------------------------------------------
\* Properties.

\* Nothing makes more principals active than the limit allows, although holds end, bookings are
\* made, paid, refunded and cancelled by others meanwhile, except a confirmation that commits
\* after its hold and principal have expired.
LimitHoldsUnlessLate ==
    [][LET before == Cardinality(Active(clock))
           after == Cardinality(Active(clock))'
       IN  after > before => after <= PublicLimit \/ LateConfirmation]_publicSpecVars

\* A pending booking that reads have left out is not confirmed any more by its customer: the
\* promotion, which does not look at the window, follows a request that reads protected, by the
\* time a provider call takes at most.
PromotedWhileProtected ==
    [][\A b \in PendingOwned :
          bookings'[b].status = "CONFIRMED" => \E t \in Captured : ReadProtects(b, t)]_publicSpecVars

\* An abandoned booking stops protecting its units by itself: within twice the window, whatever
\* its customer repeats and however often the provider refuses.
AbandonedBookingsLetGo ==
    \A b \in PendingOwned : ReadProtects(b, clock) => clock < owned[b].since + 2 * PaymentWindow

----------------------------------------------------------------------------
\* docs/booking-flow.md:29: "If none apply, availability stops counting the abandoned pending
\* allocation." Every stay a read offers could be held; but hold creation counts every
\* allocation that is not cancelled.
OfferedStaysCanBeHeld ==
    \A s \in Spaces, plan \in RatePlans :
        Offered(s, plan, clock) => CapacityAllows(s, clock, {})

=============================================================================
