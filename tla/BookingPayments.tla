-------------------------- MODULE BookingPayments --------------------------
(***************************************************************************)
(* The payment of one public booking: hosted Checkout with its claims, its *)
(* provider sessions and the provider's signed events, payments and        *)
(* refunds recorded by hand, the lookup of a payment by staff, and the     *)
(* cancellation of the booking.                                            *)
(*                                                                         *)
(* A Checkout request commits a claim, calls the provider outside any      *)
(* transaction and stores the answer in a second transaction; between them *)
(* the process may stop and everybody else may act.  A request key is also *)
(* the identity of its payment row, its session and its PaymentIntent.     *)
(* Checkout accepts cards only, so that a completed session is a paid one. *)
(***************************************************************************)
EXTENDS Integers, FiniteSets

CONSTANTS
    Keys,           \* request keys of Checkout attempts
    ClaimReference, \* the internal reference of a row the provider has not named yet
    Total,          \* the booking's total
    StartWindow,    \* payment-start window (15 minutes in the code)
    AttemptStatuses, \* what an unsuccessful card attempt leaves the PaymentIntent in
    MaxTime,        \* bound on the clock
    MaxCalls        \* bound on the provider calls in flight

ASSUME PaymentsAssumption ==
    /\ IsFiniteSet(Keys)
    /\ ClaimReference \notin Keys
    /\ Total \in Nat \ {0}
    /\ StartWindow \in Nat
    /\ AttemptStatuses \subseteq {"requires_payment_method", "requires_action"}
    /\ MaxTime \in Nat
    /\ MaxCalls \in Nat

VARIABLES
    clock,
    booking,        \* its status and paymentStatus
    payments,       \* the CAPTURE row of each key, status NONE before it is claimed
    sessions,       \* the stored Checkout session of each key
    offline,        \* an offline payment of the total is recorded
    refunded,       \* refunded by hand of that payment
    calls,          \* provider calls of Checkout requests in flight
    lookups,        \* PaymentIntent statuses staff requests have read and not stored
    provider,       \* the provider's session and PaymentIntent of each key
    undelivered     \* the provider's events not yet accepted

ours == <<booking, payments, sessions, offline, refunded>>
vars == <<clock, ours, calls, lookups, provider, undelivered>>

BookingStatus == {"PENDING_CONFIRMATION", "CONFIRMED", "CANCELLED"}
PaymentStatus == {"UNPAID", "FAILED", "PAID", "PARTIALLY_REFUNDED", "REFUNDED"}
IntentStatus == AttemptStatuses \cup {"succeeded", "canceled"}

PaymentRows == [status : {"NONE", "PENDING", "SUCCEEDED", "FAILED"},
                ref : Keys \cup {ClaimReference}, createdAt : 0..MaxTime]
ProviderRows == [session : {"none", "open", "complete", "expired"},
                 requestedAt : 0..MaxTime, intent : IntentStatus \cup {"none"}]
Calls == [key : Keys, at : 0..MaxTime, phase : {"CALLING", "ANSWERED", "REFUSED"}]
Events == (IntentStatus \cup {"completed", "expired"}) \X Keys

TypeOK ==
    /\ clock \in 0..MaxTime
    /\ booking \in [status : BookingStatus, paymentStatus : PaymentStatus]
    /\ payments \in [Keys -> PaymentRows]
    /\ sessions \in [Keys -> {"NONE", "OPEN", "COMPLETED", "EXPIRED"}]
    /\ offline \in BOOLEAN
    /\ refunded \in 0..Total
    /\ calls \subseteq Calls
    /\ lookups \subseteq (IntentStatus \cup {"none"}) \X Keys
    /\ provider \in [Keys -> ProviderRows]
    /\ undelivered \subseteq Events

----------------------------------------------------------------------------
\* What the transactions read.

Rows(status) == {k \in Keys : payments[k].status = status}
AcceptsPayment == booking.paymentStatus \in {"UNPAID", "FAILED"}
IsClaim(k) == payments[k].status = "PENDING" /\ payments[k].ref = ClaimReference

PaymentStartWindowIsOpen(since) == since + StartWindow > clock

\* A booking not yet confirmed starts its payment in the window after it was made, or
\* retries an unresolved claim in the window after the claim. The booking was made at 0.
MayStartPayment(k) ==
    booking.status = "PENDING_CONFIRMATION" =>
        \/ PaymentStartWindowIsOpen(0)
        \/ payments[k].status = "PENDING" /\ PaymentStartWindowIsOpen(payments[k].createdAt)

\* deriveBookingPaymentStatusFromNetSettlement for a booking with received money.
StatusOfNet(net) ==
    IF net >= Total THEN "PAID" ELSE IF net = 0 THEN "REFUNDED" ELSE "PARTIALLY_REFUNDED"

----------------------------------------------------------------------------
\* A Checkout request.

Call(k) == [key |-> k, at |-> clock, phase |-> "CALLING"]

\* The transaction before the provider call: a new key is claimed unless another attempt is
\* unresolved or successful, a claimed key is called again.
ClaimCheckout(k) ==
    /\ booking.status \in {"PENDING_CONFIRMATION", "CONFIRMED"}
    /\ MayStartPayment(k)
    /\ AcceptsPayment
    /\ Cardinality(calls \cup {Call(k)}) <= MaxCalls
    /\ \/ /\ payments[k].status = "NONE"
          /\ Rows("PENDING") = {}
          /\ Rows("SUCCEEDED") = {}
          /\ payments' = [payments EXCEPT ![k] =
                            [status |-> "PENDING", ref |-> ClaimReference, createdAt |-> clock]]
       \/ /\ IsClaim(k)
          /\ UNCHANGED payments
    /\ calls' = calls \cup {Call(k)}
    /\ UNCHANGED <<clock, booking, sessions, offline, refunded, lookups, provider, undelivered>>

Answer(c, phase) == calls' = (calls \ {c}) \cup {[c EXCEPT !.phase = phase]}
EndCall(c) == calls' = calls \ {c}

\* The provider knows the session of the key for a request it has seen. The request carries
\* the session's expiry in seconds, counted from its claim: only a repetition at the same time
\* is the same request, and none is left when the session expires half an hour later.
SameRequest(c) ==
    /\ provider[c.key].session \in {"open", "complete"}
    /\ provider[c.key].requestedAt = c.at

\* The provider opens the session of the key, or finds it again by its idempotency key.
ProviderAnswers(c) ==
    /\ c.phase = "CALLING"
    /\ \/ /\ provider[c.key].session = "none"
          /\ provider' = [provider EXCEPT ![c.key].session = "open",
                                          ![c.key].requestedAt = c.at]
       \/ SameRequest(c) /\ UNCHANGED provider
    /\ Answer(c, "ANSWERED")
    /\ UNCHANGED <<clock, ours, lookups, undelivered>>

\* A definitive refusal: also of a different request under the key of an earlier one.
ProviderRefuses(c) ==
    /\ c.phase = "CALLING"
    /\ ~SameRequest(c)
    /\ Answer(c, "REFUSED")
    /\ UNCHANGED <<clock, ours, lookups, provider, undelivered>>

\* The process stops, the answer is lost, or the provider's error is worth a retry.
AbandonCall(c) ==
    /\ EndCall(c)
    /\ UNCHANGED <<clock, ours, lookups, provider, undelivered>>

\* Mutant: the payment is not looked at again after the call.
PersistUnchecked(c) ==
    /\ c.phase = "ANSWERED"
    /\ sessions' = [sessions EXCEPT ![c.key] = "OPEN"]
    /\ booking' = [booking EXCEPT !.status = "CONFIRMED"]
    /\ EndCall(c)
    /\ UNCHANGED <<clock, payments, offline, refunded, lookups, provider, undelivered>>

\* Stores the session of a claim still pending and confirms the booking that waited for it.
\* A claim resolved meanwhile is refused; a session stored before is answered again.
PersistCheckoutSession(c) ==
    /\ c.phase = "ANSWERED"
    /\ IF IsClaim(c.key) /\ sessions[c.key] = "NONE"
         THEN /\ sessions' = [sessions EXCEPT ![c.key] = "OPEN"]
              /\ booking' = IF booking.status = "PENDING_CONFIRMATION" /\ AcceptsPayment
                              THEN [booking EXCEPT !.status = "CONFIRMED"] ELSE booking
         ELSE UNCHANGED <<sessions, booking>>
    /\ EndCall(c)
    /\ UNCHANGED <<clock, payments, offline, refunded, lookups, provider, undelivered>>

\* A refused call fails its claim, whether or not a session of the claim is stored.
MarkCheckoutClaimFailed(c) ==
    /\ c.phase = "REFUSED"
    /\ IF IsClaim(c.key)
         THEN /\ payments' = [payments EXCEPT ![c.key].status = "FAILED"]
              /\ booking' = IF booking.status # "CANCELLED" /\ AcceptsPayment
                              THEN [booking EXCEPT !.paymentStatus = "FAILED"] ELSE booking
         ELSE UNCHANGED <<payments, booking>>
    /\ EndCall(c)
    /\ UNCHANGED <<clock, sessions, offline, refunded, lookups, provider, undelivered>>

----------------------------------------------------------------------------
\* The guest at the provider. The session's address is given out once it is stored.

CanPay(k) == provider[k].session = "open" /\ sessions[k] # "NONE"

AttemptCard(k, result) ==
    /\ CanPay(k)
    /\ provider' = [provider EXCEPT ![k].intent = result]
    /\ undelivered' = undelivered \cup {<<result, k>>}
    /\ UNCHANGED <<clock, ours, calls, lookups>>

Pay(k) ==
    /\ CanPay(k)
    /\ provider' = [provider EXCEPT ![k].session = "complete", ![k].intent = "succeeded"]
    /\ undelivered' = undelivered \cup {<<"completed", k>>, <<"succeeded", k>>}
    /\ UNCHANGED <<clock, ours, calls, lookups>>

\* The session expires half an hour after it was opened: its answer is stored or lost by then,
\* since the provider's and the database's timeouts end the call that opened it.
ExpireSession(k) ==
    /\ provider[k].session = "open"
    /\ sessions[k] = "NONE" => \A c \in calls : c.key = k => c.phase # "ANSWERED"
    /\ provider' = [provider EXCEPT ![k].session = "expired"]
    /\ undelivered' = undelivered \cup {<<"expired", k>>}
    /\ UNCHANGED <<clock, ours, calls, lookups>>

CancelIntent(k) ==
    /\ provider[k].session = "expired"
    /\ provider[k].intent \in AttemptStatuses
    /\ provider' = [provider EXCEPT ![k].intent = "canceled"]
    /\ undelivered' = undelivered \cup {<<"canceled", k>>}
    /\ UNCHANGED <<clock, ours, calls, lookups>>

----------------------------------------------------------------------------
\* The provider's events, delivered in any order. An accepted event is recorded and its
\* redelivery changes nothing; one whose handler throws is delivered again.

Accept(event) ==
    /\ event \in undelivered
    /\ undelivered' = undelivered \ {event}

\* Mutant: the booking's status is not looked at.
SettlesAnySession(k) ==
    /\ sessions[k] \in {"OPEN", "COMPLETED"}
    /\ \A j \in Keys \ {k} : payments[j].ref # k
    /\ payments[k].status = "SUCCEEDED" => payments[k].ref = k

\* The completed session settles its payment, also one marked failed, and the booking.
SettlesSession(k) ==
    /\ booking.status = "CONFIRMED"
    /\ sessions[k] \in {"OPEN", "COMPLETED"}
    /\ \A j \in Keys \ {k} : payments[j].ref # k
    /\ payments[k].status = "SUCCEEDED" => payments[k].ref = k

SessionCompleted(k) ==
    /\ Accept(<<"completed", k>>)
    /\ \/ /\ SettlesSession(k)
          /\ payments' = [payments EXCEPT ![k].status = "SUCCEEDED", ![k].ref = k]
          /\ booking' = [booking EXCEPT !.paymentStatus = "PAID"]
          /\ sessions' = [sessions EXCEPT ![k] = "COMPLETED"]
       \/ /\ booking.status # "CONFIRMED" \/ sessions[k] \in {"NONE", "EXPIRED"}
          /\ UNCHANGED <<payments, booking, sessions>>
    /\ UNCHANGED <<clock, offline, refunded, calls, lookups, provider>>

\* decideStripeCheckoutExpiration answers CANCEL_BOOKING.
ReleasesBooking(k) ==
    /\ booking.status = "CONFIRMED"
    /\ AcceptsPayment
    /\ Rows("SUCCEEDED") = {}
    /\ provider[k].intent = "none"
    /\ IsClaim(k)

\* Mutant: the session is closed only together with its booking.
ExpireReleasedSession(k) ==
    /\ Accept(<<"expired", k>>)
    /\ IF sessions[k] \in {"OPEN", "EXPIRED"} /\ ReleasesBooking(k)
         THEN /\ payments' = [payments EXCEPT ![k].status = "FAILED"]
              /\ booking' = [booking EXCEPT !.status = "CANCELLED"]
              /\ sessions' = [sessions EXCEPT ![k] = "EXPIRED"]
         ELSE UNCHANGED <<payments, booking, sessions>>
    /\ UNCHANGED <<clock, offline, refunded, calls, lookups, provider>>

SessionExpired(k) ==
    /\ Accept(<<"expired", k>>)
    /\ sessions' = [sessions EXCEPT ![k] = IF @ = "OPEN" THEN "EXPIRED" ELSE @]
    /\ IF sessions[k] \in {"OPEN", "EXPIRED"} /\ ReleasesBooking(k)
         THEN /\ payments' = [payments EXCEPT ![k].status = "FAILED"]
              /\ booking' = [booking EXCEPT !.status = "CANCELLED"]
         ELSE UNCHANGED <<payments, booking>>
    /\ UNCHANGED <<clock, offline, refunded, calls, lookups, provider>>

\* The row that carries the PaymentIntent, or else the claim that waits for one.
Candidates(k) ==
    LET exact == {j \in Keys : payments[j].status # "NONE" /\ payments[j].ref = k}
    IN  IF exact # {} THEN exact ELSE {j \in Keys : IsClaim(j)}

\* Mutant: a payment under way counts as made.
ReconciledEarly(s) == IF s \in {"succeeded", "requires_action"} THEN "SUCCEEDED" ELSE "FAILED"

\* reconcileStripeTransactionState for a CAPTURE.
Reconciled(s) ==
    IF s = "succeeded" THEN "SUCCEEDED"
    ELSE IF s = "requires_action" THEN "PENDING" ELSE "FAILED"

\* Mutant: a settled row is not left alone.
IntentIgnoredWhenFailed(j, s) ==
    \/ payments[j].status = "FAILED" /\ s # "succeeded"
    \/ sessions[j] = "OPEN" /\ s # "succeeded"

IntentIgnored(j, s) ==
    \/ payments[j].status = "SUCCEEDED"
    \/ payments[j].status = "FAILED" /\ s # "succeeded"
    \/ sessions[j] = "OPEN" /\ s # "succeeded"

\* reconciledBookingPaymentStatus: a capture is only recorded for a booking already paid,
\* whose status it keeps; otherwise the handler throws.
KeepsPaymentStatus == ~AcceptsPayment

IntentEvent(k, s) ==
    /\ Accept(<<s, k>>)
    /\ \/ /\ booking.status = "CONFIRMED"
          /\ KeepsPaymentStatus
          /\ \E j \in Candidates(k) :
               /\ ~IntentIgnored(j, s)
               /\ payments' = [payments EXCEPT ![j].status = Reconciled(s), ![j].ref = k]
       \/ /\ \/ booking.status # "CONFIRMED"
             \/ Candidates(k) = {}
             \/ \E j \in Candidates(k) : IntentIgnored(j, s)
          /\ UNCHANGED payments
    /\ UNCHANGED <<clock, booking, sessions, offline, refunded, calls, lookups, provider>>

----------------------------------------------------------------------------
\* Staff.

\* The lookup of a pending payment the provider has named, and the transaction after it.
LookUpIntent(k) ==
    /\ payments[k].status = "PENDING"
    /\ payments[k].ref # ClaimReference
    /\ lookups' = lookups \cup {<<provider[payments[k].ref].intent, k>>}
    /\ UNCHANGED <<clock, ours, calls, provider, undelivered>>

ReconcileIntent(k, s) ==
    /\ <<s, k>> \in lookups
    /\ lookups' = lookups \ {<<s, k>>}
    /\ IF /\ payments[k].status = "PENDING"
          /\ booking.status = "CONFIRMED"
          /\ KeepsPaymentStatus
         THEN payments' = [payments EXCEPT ![k].status = Reconciled(s)]
         ELSE UNCHANGED payments
    /\ UNCHANGED <<clock, booking, sessions, offline, refunded, calls, provider, undelivered>>

RecordManualOfflinePayment ==
    /\ booking.status = "CONFIRMED"
    /\ AcceptsPayment
    /\ offline' = TRUE
    /\ booking' = [booking EXCEPT !.paymentStatus = "PAID"]
    /\ UNCHANGED <<clock, payments, sessions, refunded, calls, lookups, provider, undelivered>>

\* Mutants: attempts are not looked at; neither is what was refunded before.
RefundableBesideAttempts(amount) ==
    /\ booking.status = "CONFIRMED"
    /\ booking.paymentStatus \in {"PAID", "PARTIALLY_REFUNDED"}
    /\ offline
    /\ amount <= Total - refunded

RefundableAgain(amount) ==
    /\ booking.status = "CONFIRMED"
    /\ booking.paymentStatus \in {"PAID", "PARTIALLY_REFUNDED"}
    /\ Rows("PENDING") = {}
    /\ Rows("SUCCEEDED") = {}
    /\ offline
    /\ amount <= Total

\* deriveBookingRefundExecutionPlan for the manual provider: nothing unresolved, no other
\* provider settled, the status agrees with the ledger, the source covers the amount.
ManuallyRefundable(amount) ==
    /\ booking.status = "CONFIRMED"
    /\ booking.paymentStatus \in {"PAID", "PARTIALLY_REFUNDED"}
    /\ Rows("PENDING") = {}
    /\ Rows("SUCCEEDED") = {}
    /\ offline
    /\ booking.paymentStatus = StatusOfNet(Total - refunded)
    /\ amount <= Total - refunded

RecordManualOfflineRefund(amount) ==
    /\ ManuallyRefundable(amount)
    /\ refunded' = refunded + amount
    /\ booking' = [booking EXCEPT !.paymentStatus = StatusOfNet(Total - refunded - amount)]
    /\ UNCHANGED <<clock, payments, sessions, offline, calls, lookups, provider, undelivered>>

CancelBooking ==
    /\ booking.status \in {"PENDING_CONFIRMATION", "CONFIRMED"}
    /\ booking.paymentStatus \in {"UNPAID", "FAILED", "REFUNDED"}
    /\ Rows("PENDING") = {}
    /\ booking' = [booking EXCEPT !.status = "CANCELLED"]
    /\ UNCHANGED <<clock, payments, sessions, offline, refunded, calls, lookups, provider, undelivered>>

----------------------------------------------------------------------------
Tick ==
    /\ clock < MaxTime
    /\ clock' = clock + 1
    /\ UNCHANGED <<ours, calls, lookups, provider, undelivered>>

\* A public booking just confirmed from its hold.
Init ==
    /\ clock = 0
    /\ booking = [status |-> "PENDING_CONFIRMATION", paymentStatus |-> "UNPAID"]
    /\ payments = [k \in Keys |-> [status |-> "NONE", ref |-> ClaimReference, createdAt |-> 0]]
    /\ sessions = [k \in Keys |-> "NONE"]
    /\ offline = FALSE
    /\ refunded = 0
    /\ calls = {}
    /\ lookups = {}
    /\ provider = [k \in Keys |-> [session |-> "none", requestedAt |-> 0, intent |-> "none"]]
    /\ undelivered = {}

RequestNext ==
    \/ \E k \in Keys : ClaimCheckout(k)
    \/ \E c \in calls :
         \/ PersistCheckoutSession(c)
         \/ MarkCheckoutClaimFailed(c)
         \/ AbandonCall(c)

ProviderNext ==
    \/ \E c \in calls : ProviderAnswers(c) \/ ProviderRefuses(c)
    \/ \E k \in Keys :
         \/ \E result \in AttemptStatuses : AttemptCard(k, result)
         \/ Pay(k)
         \/ ExpireSession(k)
         \/ CancelIntent(k)

EventNext ==
    \E k \in Keys :
      \/ SessionCompleted(k)
      \/ SessionExpired(k)
      \/ \E s \in IntentStatus : IntentEvent(k, s)

StaffNext ==
    \/ \E k \in Keys : LookUpIntent(k) \/ \E s \in IntentStatus : ReconcileIntent(k, s)
    \/ RecordManualOfflinePayment
    \/ \E amount \in 1..Total : RecordManualOfflineRefund(amount)
    \/ CancelBooking

Next ==
    \/ Tick
    \/ RequestNext
    \/ ProviderNext
    \/ EventNext
    \/ StaffNext

Spec == Init /\ [][Next]_vars

\* A call ends: it is answered, refused or given up when its deadline passes.
EndsCall(c) == PersistCheckoutSession(c) \/ MarkCheckoutClaimFailed(c) \/ AbandonCall(c)

\* The provider redelivers an event until it is accepted, its sessions expire, and calls have
\* deadlines. Nothing is assumed of guests and staff.
Fairness ==
    /\ \A k \in Keys, at \in 0..MaxTime :
         WF_vars(\E c \in calls : c.key = k /\ c.at = at /\ EndsCall(c))
    /\ \A k \in Keys : WF_vars(ExpireSession(k)) /\ WF_vars(CancelIntent(k))
    /\ \A k \in Keys : WF_vars(SessionCompleted(k)) /\ WF_vars(SessionExpired(k))
    /\ \A k \in Keys, s \in IntentStatus : WF_vars(IntentEvent(k, s))

FairSpec == Spec /\ Fairness

----------------------------------------------------------------------------
\* Properties.

Net == Total * Cardinality(Rows("SUCCEEDED")) + (IF offline THEN Total ELSE 0) - refunded

\* A PaymentIntent was recorded under another attempt than its own.
MixedUp(k) ==
    \/ \E j \in Keys \ {k} : payments[j].ref = k
    \/ payments[k].ref \notin {ClaimReference, k}

\* The booking's payment status agrees with the money its rows account for, although Checkout
\* events, offline payments and refunds write them in any order. Only an event recorded under
\* another attempt than its own can add money after a refund and leave the status behind.
StatusMatchesLedger ==
    /\ AcceptsPayment => Net = 0
    /\ booking.paymentStatus = "PAID" => Net >= Total
    /\ (\A k \in Keys : ~MixedUp(k)) =>
         /\ booking.paymentStatus = "PARTIALLY_REFUNDED" => 0 < Net /\ Net < Total
         /\ booking.paymentStatus = "REFUNDED" => Net = 0

\* Two attempts are never unresolved together: an event without a row of its own has at most
\* one claim it can be taken for.
OneUnresolvedAttempt == \A j, k \in Rows("PENDING") : j = k

\* What binds the rows of an attempt to the provider: the session is stored before the guest
\* can pay, and follows the provider's;
SessionFollows(k) ==
    /\ provider[k].intent = "succeeded" <=> provider[k].session = "complete"
    /\ provider[k].intent # "none" => sessions[k] # "NONE"
    /\ \A s \in IntentStatus : <<s, k>> \in undelivered => sessions[k] # "NONE"
    /\ <<"completed", k>> \in undelivered \/ <<"succeeded", k>> \in undelivered =>
         provider[k].session = "complete"
    /\ sessions[k] = "EXPIRED" \/ <<"expired", k>> \in undelivered => provider[k].session = "expired"

\* the payment follows its session, and is named unresolved only after the session expired;
PaymentFollows(k) ==
    /\ sessions[k] # "NONE" => payments[k].status # "NONE"
    /\ sessions[k] = "COMPLETED" => payments[k].status = "SUCCEEDED"
    /\ payments[k].status = "NONE" => payments[k].ref = ClaimReference
    /\ payments[k].status \in {"PENDING", "FAILED"} /\ payments[k].ref = k => provider[k].session = "expired"
    /\ payments[k].status = "SUCCEEDED" =>
         payments[k].ref \in Keys /\ provider[payments[k].ref].session = "complete"

\* a lookup in flight never says more than the provider does;
LookupFollows(k) ==
    \A s \in IntentStatus \cup {"none"} : <<s, k>> \in lookups =>
        /\ payments[k].ref \in Keys
        /\ s = "succeeded" /\ payments[k].status = "PENDING" => provider[payments[k].ref].session = "complete"

\* and the booking's payment status follows the payment.
StatusFollows(k) ==
    /\ payments[k].status = "PENDING" => booking.paymentStatus # "REFUNDED"
    /\ payments[k].status = "SUCCEEDED" => ~AcceptsPayment
    /\ payments[k].status = "SUCCEEDED" /\ payments[k].ref = k /\ <<"completed", k>> \in undelivered =>
         booking.paymentStatus # "REFUNDED"

\* Every attempt agrees with the provider, whatever is in flight, and no PaymentIntent is
\* named by two payments: what the claim, the two transactions around the provider call, the
\* events in any order and the lookups of staff have to keep together.
AttemptsFollowProvider ==
    /\ \A k \in Keys : SessionFollows(k) /\ PaymentFollows(k) /\ LookupFollows(k) /\ StatusFollows(k)
    /\ \A j, k \in Keys : payments[j].ref = payments[k].ref /\ payments[j].ref # ClaimReference => j = k

\* The two together: they are one inductive argument.
AttemptsAgreeWithProvider == OneUnresolvedAttempt /\ AttemptsFollowProvider

\* A payment counts as successful only if the provider took the money of the PaymentIntent it
\* names, and no two payments count the same PaymentIntent.
SuccessIsProviderTruth ==
    \A k \in Rows("SUCCEEDED") :
        /\ payments[k].ref \in Keys
        /\ provider[payments[k].ref].intent = "succeeded"
        /\ \A j \in Rows("SUCCEEDED") : payments[j].ref = payments[k].ref => j = k

\* A cancelled booking has no unresolved attempt; money the provider took for it belongs to an
\* attempt a refused retry had marked failed; and it keeps no money on record, unless an event
\* was recorded under another attempt than its own.
CancelledKeepsNoMoney ==
    booking.status = "CANCELLED" =>
        /\ Rows("PENDING") = {}
        /\ \A k \in Keys : provider[k].intent = "succeeded" => payments[k].status = "FAILED" \/ MixedUp(k)
        /\ (\A k \in Keys : ~MixedUp(k)) => Net = 0

\* Late, repeated and reordered events leave a successful payment as it is.
SuccessIsFinal ==
    [][\A k \in Rows("SUCCEEDED") : payments'[k] = payments[k]]_vars

\* Every stored session is closed at last, unless its booking is cancelled or its attempt is
\* mixed up with another.
StoredSessionsClose ==
    \A k \in Keys :
        sessions[k] = "OPEN" ~>
            sessions[k] # "OPEN" \/ booking.status = "CANCELLED" \/ MixedUp(k)

\* The services keep the contract that the rest of the system is built on.
Contract == INSTANCE PaymentContract WITH
    status <- booking.status,
    payment <- IF AcceptsPayment THEN "OPEN"
               ELSE IF booking.paymentStatus = "REFUNDED" THEN "REFUNDED" ELSE "SETTLED",
    checkout <- IF Rows("PENDING") # {} THEN "PENDING"
                ELSE IF Rows("FAILED") # {} THEN "FAILED" ELSE "NONE"

KeepsPaymentContract == Contract!Spec

----------------------------------------------------------------------------
\* What the documentation says and the code does not keep.

\* docs/public-booking-payments.md: "A process failure after provider creation but before
\* persistence is recovered by retrying the same public request key". The attempt of an open
\* session is not failed by its own retry.
RetryKeepsOpenSession ==
    [][\A k \in Keys :
          provider[k].session = "open" /\ payments[k].status = "PENDING" =>
              payments'[k].status # "FAILED"]_vars

\* docs/stripe-webhook-payment-attempt-authority.md: "A later webhook for the older
\* PaymentIntent must remain attached to that older operation".
EventsKeepTheirAttempt == \A k \in Keys : payments[k].ref \in {ClaimReference, k}

\* docs/public-booking-payments.md: "a stale unresolved claim cannot protect inventory
\* forever". The claim of an expired session is resolved at last, or its booking is paid
\* otherwise: until then the confirmed booking keeps its rooms and cannot be cancelled.
StaleClaimsEnd ==
    \A k \in Keys :
        /\ booking.status = "CONFIRMED" /\ AcceptsPayment
        /\ provider[k].session = "expired" /\ payments[k].status = "PENDING"
        ~> payments[k].status # "PENDING" \/ ~AcceptsPayment

=============================================================================
