--------------------------- MODULE BookingRefunds ---------------------------
(***************************************************************************)
(* Refunds of one confirmed and paid booking through the payment provider: *)
(* the claim, the provider call, the transaction that stores its answer,   *)
(* the provider's signed events, the retrieval of a refund's present state *)
(* and the transaction that applies it, and the booking's cancellation.    *)
(*                                                                         *)
(* The booking's money came from several captures, its sources; a refund   *)
(* names one of them.  A provider refund is not final: it may succeed and  *)
(* be returned later.  The request key of a refund is also the identity of *)
(* its row and of its refund object at the provider.                       *)
(***************************************************************************)
EXTENDS Integers, FiniteSets, Functions

CONSTANTS
    Captured,       \* the captured amount of each source 1, 2, ... in the order of their references
    Keys,           \* request keys of refunds
    ClaimReference, \* the internal reference of a row the provider has not named yet
    FirstStatuses,  \* statuses in which the provider creates a refund
    Moves,          \* the status changes of a refund at the provider
    MaxCalls,       \* bound on the provider calls in flight
    MaxSnapshots    \* bound on the retrievals in flight

ProviderStatus == {"pending", "requires_action", "succeeded", "failed", "canceled"}

\* A paid booking has a capture; a refund that failed or was cancelled at the provider stays so.
ASSUME RefundsAssumption ==
    /\ 1 \in DOMAIN Captured /\ IsFiniteSet(DOMAIN Captured)
    /\ DOMAIN Captured = 1..Cardinality(DOMAIN Captured)
    /\ Captured \in [DOMAIN Captured -> Nat \ {0}]
    /\ IsFiniteSet(Keys)
    /\ ClaimReference \notin Keys
    /\ FirstStatuses \subseteq ProviderStatus
    /\ Moves \subseteq (ProviderStatus \ {"failed", "canceled"}) \X ProviderStatus
    /\ MaxCalls \in Nat
    /\ MaxSnapshots \in Nat

VARIABLES
    booking,        \* its status and paymentStatus
    refunds,        \* the REFUND row of each key, status NONE before it is claimed
    calls,          \* provider calls of refund requests in flight
    snapshots,      \* refund states retrieved and not yet applied
    provider,       \* the provider's refund object of each key
    undelivered,    \* the provider's events whose delivery has not been acknowledged
    ingested,       \* those of them already recorded
    credentials     \* the provider accepts the tenant's credentials

vars == <<booking, refunds, calls, snapshots, provider, undelivered, ingested, credentials>>

Sources == DOMAIN Captured
Total == SumFunctionOnSet(Captured, Sources)

RefundRows == [status : {"NONE", "PENDING", "SUCCEEDED", "FAILED"}, ref : Keys \cup {ClaimReference},
               source : Sources, amount : 0..Total]
ProviderRows == [status : ProviderStatus \cup {"none", "refused"},
                 answered : ProviderStatus \cup {"none"}]
SettledStatus == {"PAID", "PARTIALLY_REFUNDED", "REFUNDED"}
Calls == [key : Keys, phase : {"CALLING", "ANSWERED", "REFUSED"}, next : SettledStatus]
Events == ProviderStatus \X Keys
Snapshots == [key : Keys, status : ProviderStatus, cause : ProviderStatus \cup {"staff"}]

TypeOK ==
    /\ booking \in [status : {"CONFIRMED", "CANCELLED"}, paymentStatus : SettledStatus]
    /\ refunds \in [Keys -> RefundRows]
    /\ calls \subseteq Calls
    /\ snapshots \subseteq Snapshots
    /\ provider \in [Keys -> ProviderRows]
    /\ undelivered \subseteq Events
    /\ ingested \subseteq undelivered
    /\ credentials \in BOOLEAN

----------------------------------------------------------------------------
\* The settlement ledger without the rows of X.

AmountOfRefunds(S) == SumFunctionOnSet([k \in Keys |-> refunds[k].amount], S)
Counted(status, X) == {k \in Keys \ X : refunds[k].status = status}
RefundedOf(s, X) == AmountOfRefunds({k \in Counted("SUCCEEDED", X) : refunds[k].source = s})
Remaining(s, X) == Captured[s] - RefundedOf(s, X)
Net(X) == Total - AmountOfRefunds(Counted("SUCCEEDED", X))

\* deriveBookingPaymentStatusFromNetSettlement.
StatusOfNet(net) ==
    IF net = 0 THEN "REFUNDED" ELSE IF net = Total THEN "PAID" ELSE "PARTIALLY_REFUNDED"

\* deriveNextBookingRefundSource: the largest remaining balance, the first reference of equals.
IsNextSource(s, X) ==
    /\ Remaining(s, X) > 0
    /\ \A r \in Sources \ {s} :
         Remaining(s, X) > Remaining(r, X) \/ (Remaining(s, X) = Remaining(r, X) /\ s < r)

\* Mutant: the amount is compared with the whole booking.
PlansOverSource(s, amount, paymentStatus, X) ==
    /\ Counted("PENDING", X) = {}
    /\ paymentStatus = StatusOfNet(Net(X))
    /\ IsNextSource(s, X)
    /\ amount <= Net(X)

\* deriveBookingRefundExecutionPlan over the ledger without X, for a booking in a payment status:
\* nothing unresolved, the status agrees with the ledger, the next source covers the amount.
Plans(s, amount, paymentStatus, X) ==
    /\ Counted("PENDING", X) = {}
    /\ \A r \in Sources : Remaining(r, X) >= 0
    /\ paymentStatus = StatusOfNet(Net(X))
    /\ IsNextSource(s, X)
    /\ amount <= Remaining(s, X)

IsClaim(k) == refunds[k].status = "PENDING" /\ refunds[k].ref = ClaimReference

----------------------------------------------------------------------------
\* A refund request.

Call(k, next) == [key |-> k, phase |-> "CALLING", next |-> next]

\* The transaction before the provider call. A new key is planned and claimed; the retry of a
\* claim must still be what the plan says of it.
ClaimRefund(k, s, amount) ==
    /\ Cardinality(calls) < MaxCalls
    /\ booking.status = "CONFIRMED"
    /\ booking.paymentStatus \in {"PAID", "PARTIALLY_REFUNDED"}
    /\ \/ /\ refunds[k].status = "NONE"
          /\ Plans(s, amount, booking.paymentStatus, {})
          /\ refunds' = [refunds EXCEPT ![k] = [status |-> "PENDING", ref |-> ClaimReference,
                                                source |-> s, amount |-> amount]]
       \/ /\ IsClaim(k)
          /\ s = refunds[k].source /\ amount = refunds[k].amount
          /\ Plans(s, amount, booking.paymentStatus, {k})
          /\ UNCHANGED refunds
    /\ calls' = calls \cup {Call(k, StatusOfNet(Net({k}) - amount))}
    /\ UNCHANGED <<booking, snapshots, provider, undelivered, ingested, credentials>>

EndCall(c) == calls' = calls \ {c}

\* stripeRefundPersistenceStatus and reconcileStripeRefundState.
RowStatus(status) ==
    IF status = "succeeded" THEN "SUCCEEDED"
    ELSE IF status \in {"failed", "canceled"} THEN "FAILED" ELSE "PENDING"

\* The row takes the provider's reference and status; a success moves the booking, whose status
\* is derived from the whole ledger: with another refund unresolved the transaction throws.
Record(k, ref, status) ==
    /\ refunds' = [refunds EXCEPT ![k].ref = ref, ![k].status = status]
    /\ IF status = "SUCCEEDED"
         THEN /\ Counted("PENDING", {k}) = {}
              /\ booking' = [booking EXCEPT !.paymentStatus =
                               StatusOfNet(Net({k}) - refunds[k].amount)]
         ELSE UNCHANGED booking

\* The transaction after the call. A row the provider has named meanwhile is left alone.
PersistRefund(c) ==
    /\ c.phase = "ANSWERED"
    /\ IF refunds[c.key].ref = ClaimReference
         THEN /\ \A j \in Keys : refunds[j].ref # c.key
              /\ booking.status = "CONFIRMED"
              /\ Record(c.key, c.key, RowStatus(provider[c.key].answered))
              /\ booking'.paymentStatus \in {booking.paymentStatus, c.next}
         ELSE UNCHANGED <<refunds, booking>>
    /\ EndCall(c)
    /\ UNCHANGED <<snapshots, provider, undelivered, ingested, credentials>>

\* Mutant: a call without an answer fails its claim too.
FailUnanswered(c) ==
    /\ IF IsClaim(c.key) THEN refunds' = [refunds EXCEPT ![c.key].status = "FAILED"]
                         ELSE UNCHANGED refunds
    /\ EndCall(c)
    /\ UNCHANGED <<booking, snapshots, provider, undelivered, ingested, credentials>>

\* A definitive refusal fails the claim.
FailInternalClaim(c) ==
    /\ c.phase = "REFUSED"
    /\ IF IsClaim(c.key) THEN refunds' = [refunds EXCEPT ![c.key].status = "FAILED"]
                         ELSE UNCHANGED refunds
    /\ EndCall(c)
    /\ UNCHANGED <<booking, snapshots, provider, undelivered, ingested, credentials>>

\* The process stops, the answer is lost or worth a retry, or a transaction throws.
AbandonCall(c) ==
    /\ EndCall(c)
    /\ UNCHANGED <<booking, refunds, snapshots, provider, undelivered, ingested, credentials>>

----------------------------------------------------------------------------
\* The provider. It answers a key once and repeats that answer.

Answer(c, phase) == calls' = (calls \ {c}) \cup {[c EXCEPT !.phase = phase]}
Emit(status, k) ==
    /\ undelivered' = undelivered \cup {<<status, k>>}
    /\ ingested' = ingested \ {<<status, k>>}

ProviderHeld(s) ==
    AmountOfRefunds({k \in Keys : /\ provider[k].status \in {"pending", "requires_action", "succeeded"}
                                  /\ refunds[k].source = s})

ProviderRefunds(c, status) ==
    /\ credentials
    /\ c.phase = "CALLING"
    /\ provider[c.key].status = "none"
    /\ ProviderHeld(refunds[c.key].source) + refunds[c.key].amount <= Captured[refunds[c.key].source]
    /\ provider' = [provider EXCEPT ![c.key] = [status |-> status, answered |-> status]]
    /\ Answer(c, "ANSWERED")
    /\ Emit(status, c.key)
    /\ UNCHANGED <<booking, refunds, snapshots, credentials>>

ProviderRepeats(c) ==
    /\ credentials
    /\ c.phase = "CALLING"
    /\ provider[c.key].status # "none"
    /\ Answer(c, IF provider[c.key].status = "refused" THEN "REFUSED" ELSE "ANSWERED")
    /\ UNCHANGED <<booking, refunds, snapshots, provider, undelivered, ingested, credentials>>

ProviderRefuses(c) ==
    /\ credentials
    /\ c.phase = "CALLING"
    /\ provider[c.key].status = "none"
    /\ provider' = [provider EXCEPT ![c.key].status = "refused"]
    /\ Answer(c, "REFUSED")
    /\ UNCHANGED <<booking, refunds, snapshots, undelivered, ingested, credentials>>

RevokeCredentials ==
    /\ credentials
    /\ credentials' = FALSE
    /\ UNCHANGED <<booking, refunds, calls, snapshots, provider, undelivered, ingested>>

\* Credentials are refused before the key is looked up.
RefuseCredentials(c) ==
    /\ ~credentials
    /\ c.phase = "CALLING"
    /\ Answer(c, "REFUSED")
    /\ UNCHANGED <<booking, refunds, snapshots, provider, undelivered, ingested, credentials>>

ProviderMoves(k, status) ==
    /\ <<provider[k].status, status>> \in Moves
    /\ provider' = [provider EXCEPT ![k].status = status]
    /\ Emit(status, k)
    /\ UNCHANGED <<booking, refunds, calls, snapshots, credentials>>

----------------------------------------------------------------------------
\* The handler of a refund event: a transaction that records it and may bind a claim to the
\* refund, the retrieval of the refund, and a transaction that applies what was retrieved.
\* An event whose handler throws is delivered again.

\* Mutant: a claim is bound to a refund that another row has.
BoundOnce(k, j) == TRUE

\* The refund is nobody else's.
UnclaimedReference(k, j) == \A i \in Keys \ {j} : refunds[i].ref # k

Matching(k) ==
    {j \in Keys : IsClaim(j) /\ refunds[j].source = refunds[k].source
                             /\ refunds[j].amount = refunds[k].amount}

\* Mutant: a claim is not looked for.
NamedCandidates(k) == {j \in Keys : refunds[j].status = "PENDING" /\ refunds[j].ref = k}

\* The pending row that carries the refund, or else a claim of its source and amount.
Candidates(k) ==
    LET exact == {j \in Keys : refunds[j].status = "PENDING" /\ refunds[j].ref = k}
    IN  IF exact # {} THEN exact ELSE Matching(k)

IngestRefund(k, status) ==
    /\ <<status, k>> \in undelivered \ ingested
    /\ ingested' = ingested \cup {<<status, k>>}
    /\ \/ /\ booking.status = "CONFIRMED"
          /\ Cardinality(Candidates(k)) = 1
          /\ \E j \in Candidates(k) :
               /\ Plans(refunds[j].source, refunds[j].amount, booking.paymentStatus, {j})
               /\ UnclaimedReference(k, j)
               /\ Record(j, k, RowStatus(status))
       \/ /\ booking.status # "CONFIRMED" \/ Candidates(k) = {}
          /\ UNCHANGED <<booking, refunds>>
    /\ UNCHANGED <<calls, snapshots, provider, undelivered, credentials>>

Snapshot(k, cause) == [key |-> k, status |-> provider[k].status, cause |-> cause]

RetrieveForEvent(k, status) ==
    /\ Cardinality(snapshots) < MaxSnapshots
    /\ <<status, k>> \in ingested
    /\ \E j \in Keys : refunds[j].ref = k
    /\ credentials
    /\ snapshots' = snapshots \cup {Snapshot(k, status)}
    /\ UNCHANGED <<booking, refunds, calls, provider, undelivered, ingested, credentials>>

\* Mutant: the record of an acknowledged event stays.
AcknowledgeOnce(e) ==
    /\ undelivered' = undelivered \ {e}
    /\ UNCHANGED ingested

Acknowledge(e) ==
    /\ undelivered' = undelivered \ {e}
    /\ ingested' = ingested \ {e}

\* Nothing carries the refund: the event is done.
DismissEvent(k, status) ==
    /\ <<status, k>> \in ingested
    /\ \A j \in Keys : refunds[j].ref # k
    /\ Acknowledge(<<status, k>>)
    /\ UNCHANGED <<booking, refunds, calls, snapshots, provider, credentials>>

\* bookingPaymentStatusForRefundLifecycle.
StatusWith(k, status) ==
    StatusOfNet(Net({k}) - (IF status = "SUCCEEDED" THEN refunds[k].amount ELSE 0))

\* Staff may reconcile a refund the provider has named: the state it is in and the plan must
\* agree before the retrieval as after it.
Reconcilable(k) ==
    /\ booking.status = "CONFIRMED"
    /\ Plans(refunds[k].source, refunds[k].amount, StatusOfNet(Net({k})), {k})
    /\ booking.paymentStatus = StatusWith(k, refunds[k].status)

RetrieveForStaff(k) ==
    /\ Cardinality(snapshots) < MaxSnapshots
    /\ refunds[k].ref # ClaimReference
    /\ credentials
    /\ Reconcilable(k)
    /\ snapshots' = snapshots \cup {Snapshot(refunds[k].ref, "staff")}
    /\ UNCHANGED <<booking, refunds, calls, provider, undelivered, ingested, credentials>>

\* Mutant: the booking keeps its status when a refund stops being successful.
ApplyForward(n) ==
    /\ snapshots' = snapshots \ {n}
    /\ \E k \in Keys :
         /\ refunds[k].ref = n.key
         /\ Reconcilable(k)
         /\ refunds' = [refunds EXCEPT ![k].status = RowStatus(n.status)]
         /\ booking' = IF RowStatus(n.status) = "SUCCEEDED"
                         THEN [booking EXCEPT !.paymentStatus = StatusWith(k, "SUCCEEDED")]
                         ELSE booking
    /\ Acknowledge(<<n.cause, n.key>>)
    /\ UNCHANGED <<calls, provider, credentials>>

\* The row and the booking follow what was retrieved, in either direction.
ApplySnapshot(n) ==
    /\ snapshots' = snapshots \ {n}
    /\ \E k \in Keys :
         /\ refunds[k].ref = n.key
         /\ Reconcilable(k)
         /\ refunds' = [refunds EXCEPT ![k].status = RowStatus(n.status)]
         /\ booking' = [booking EXCEPT !.paymentStatus = StatusWith(k, RowStatus(n.status))]
    /\ Acknowledge(<<n.cause, n.key>>)
    /\ UNCHANGED <<calls, provider, credentials>>

\* The handler stops or throws after the retrieval.
AbandonSnapshot(n) ==
    /\ snapshots' = snapshots \ {n}
    /\ UNCHANGED <<booking, refunds, calls, provider, undelivered, ingested, credentials>>

----------------------------------------------------------------------------
\* Mutant: unresolved refunds do not keep the booking.
CancelUnresolved ==
    /\ booking.status = "CONFIRMED"
    /\ booking.paymentStatus \in {"PARTIALLY_REFUNDED", "REFUNDED"}
    /\ booking' = [booking EXCEPT !.status = "CANCELLED"]
    /\ UNCHANGED <<refunds, calls, snapshots, provider, undelivered, ingested, credentials>>

CancelBooking ==
    /\ booking.status = "CONFIRMED"
    /\ booking.paymentStatus = "REFUNDED"
    /\ Counted("PENDING", {}) = {}
    /\ booking' = [booking EXCEPT !.status = "CANCELLED"]
    /\ UNCHANGED <<refunds, calls, snapshots, provider, undelivered, ingested, credentials>>

\* A confirmed booking whose captures have settled.
Init ==
    /\ booking = [status |-> "CONFIRMED", paymentStatus |-> "PAID"]
    /\ refunds = [k \in Keys |-> [status |-> "NONE", ref |-> ClaimReference, source |-> 1, amount |-> 0]]
    /\ calls = {}
    /\ snapshots = {}
    /\ provider = [k \in Keys |-> [status |-> "none", answered |-> "none"]]
    /\ undelivered = {}
    /\ ingested = {}
    /\ credentials = TRUE

RequestNext ==
    \/ \E k \in Keys, s \in Sources : \E amount \in 1..Captured[s] : ClaimRefund(k, s, amount)
    \/ \E c \in calls : PersistRefund(c) \/ FailInternalClaim(c) \/ AbandonCall(c)

ProviderNext ==
    \/ \E c \in calls :
         \/ \E status \in FirstStatuses : ProviderRefunds(c, status)
         \/ ProviderRepeats(c)
         \/ ProviderRefuses(c)
         \/ RefuseCredentials(c)
    \/ \E k \in Keys, move \in Moves : ProviderMoves(k, move[2])
    \/ RevokeCredentials

EventNext ==
    \/ \E e \in undelivered :
         \/ IngestRefund(e[2], e[1])
         \/ RetrieveForEvent(e[2], e[1])
         \/ DismissEvent(e[2], e[1])
    \/ \E n \in snapshots : ApplySnapshot(n) \/ AbandonSnapshot(n)

StaffNext ==
    \/ \E k \in Keys : RetrieveForStaff(k)
    \/ CancelBooking

Next == RequestNext \/ ProviderNext \/ EventNext \/ StaffNext

Spec == Init /\ [][Next]_vars

----------------------------------------------------------------------------
\* Properties.

\* The booking's payment status is the one its ledger derives, at every moment, although refund
\* requests, events and retrievals change the ledger in any order and in both directions.
StatusMatchesLedger == booking.paymentStatus = StatusOfNet(Net({}))

\* What is refunded of a source, the unresolved part included, never exceeds what it collected,
\* as long as the provider accepts the tenant's credentials. When they are revoked between two
\* requests of one refund, the refusal of the second fails the claim, another refund may take the
\* source, and the answer of the first then revives the claim, whose status nothing compares.
SourcesCoverRefunds ==
    credentials => \A s \in Sources :
        RefundedOf(s, {})
          + AmountOfRefunds({k \in Counted("PENDING", {}) : refunds[k].source = s}) <= Captured[s]

\* No refund of the provider is recorded under another request than its own, and none under two,
\* as long as the provider accepts the tenant's credentials.
RefundsKeepTheirRequest == credentials => \A k \in Keys : refunds[k].ref \in {ClaimReference, k}

\* Money the provider has refunded, or may still refund, is never out of account: its row is
\* successful or unresolved, whatever calls were lost, refused or repeated. When credentials are
\* revoked between a lost answer and its retry, the refusal fails the claim of a refund that
\* exists, and the property ends there.
Outstanding(k) == provider[k].status \in {"pending", "requires_action", "succeeded"}
MoneyIsAccounted ==
    credentials => \A k \in Keys : Outstanding(k) => refunds[k].status \in {"PENDING", "SUCCEEDED"}

\* A claim whose refund exists is never lost with its call: an event that will find it is still to
\* come, although the process stopped, the answer was lost and nobody retries.
LostRefundsAreFound ==
    \A k \in Keys : IsClaim(k) /\ provider[k].answered # "none" =>
        \E status \in ProviderStatus : <<status, k>> \in undelivered \ ingested

\* The steps of a booking's refunds are steps of the payment contract.
Contract == INSTANCE PaymentContract WITH
    status <- booking.status,
    payment <- IF booking.paymentStatus = "REFUNDED" THEN "REFUNDED" ELSE "SETTLED",
    checkout <- "NONE"

KeepsPaymentContract == [][Contract!Next]_(Contract!vars)

=============================================================================
