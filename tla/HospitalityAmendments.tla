------------------------ MODULE HospitalityAmendments ------------------------
(***************************************************************************)
(* Commercial amendments of one confirmed and paid booking: a prepared     *)
(* change of its terms and total, the provider payment or refunds that     *)
(* settle the difference, its application, and, when it expires after      *)
(* money moved, the recovery that returns the money before it is closed.   *)
(*                                                                         *)
(* A payment row is claimed in one transaction, the provider is called,    *)
(* and its answer binds the row in another.  A customer pays through a     *)
(* Checkout Session of the provider, which may be open after the amendment *)
(* expired.  The booking's other changes ask whether an amendment is       *)
(* active before they write.                                               *)
(***************************************************************************)
EXTENDS Integers, Sequences, FiniteSets, Functions

CONSTANTS
    Amendments,         \* identities of amendments
    NoAmendment,        \* the amendment of a payment made before any
    BookedCaptures,     \* the amounts of the captures that paid the booking, a sequence
    Deltas,             \* price differences an amendment may have
    MaxAmendmentRows,   \* bound on the payment rows of the booking
    MaxAmendmentCalls,  \* bound on the provider calls in flight
    MaxBookingVersion   \* bound on the booking's version

ASSUME AmendmentsAssumption ==
    /\ IsFiniteSet(Amendments)
    /\ NoAmendment \notin Amendments
    /\ BookedCaptures \in Seq(Nat \ {0})
    /\ Deltas \subseteq Int \ {0}
    /\ {MaxAmendmentRows, MaxAmendmentCalls, MaxBookingVersion} \subseteq Nat

VARIABLES
    amendedBooking,     \* its total and version; it is CONFIRMED and PAID throughout
    amendments,         \* the row of each amendment, status NONE before it is prepared
    amendmentRows,      \* the booking's payment rows in the order of their claims
    amendmentProvider,  \* the provider's object of each row: what it first answered and is now
    amendmentCalls,     \* provider calls in flight, with the answer if there is one
    amendmentSnapshots  \* provider states retrieved and not yet applied

amendmentVars == <<amendedBooking, amendments, amendmentRows, amendmentProvider,
                   amendmentCalls, amendmentSnapshots>>

AmendmentStatus == {"NONE", "PREPARED", "APPLIED", "CANCELLED", "EXPIRED"}
ProviderChanges == {"expired", "paid", "succeeded", "failed"}
ProviderStates == {"none", "refused", "open", "paid", "expired", "pending", "succeeded", "failed"}
RowIds == DOMAIN amendmentRows

AmendmentsTypeOK ==
    /\ amendedBooking \in [total : Nat, version : 0..MaxBookingVersion]
    /\ amendments \in [Amendments ->
         [status : AmendmentStatus, before : Nat, delta : Deltas \cup {0},
          version : 0..MaxBookingVersion, due : BOOLEAN,
          hold : {"NONE", "ACTIVE", "RELEASED", "EXPIRED"}]]
    /\ amendmentRows \in Seq(
         [amendment : Amendments \cup {NoAmendment}, kind : {"CAPTURE", "REFUND"},
          purpose : {"adjust", "recover"}, amount : Nat \ {0}, source : Nat,
          status : {"AMBIGUOUS", "SUCCEEDED", "FAILED"}, bound : BOOLEAN])
    /\ Len(amendmentRows) <= Len(BookedCaptures) + MaxAmendmentRows
    /\ amendmentProvider \in [RowIds -> [first : ProviderStates, now : ProviderStates]]
    /\ amendmentCalls \subseteq [row : RowIds, answer : ProviderStates]
    /\ amendmentSnapshots \subseteq [row : RowIds, now : ProviderStates]

----------------------------------------------------------------------------
\* The settlement ledger without the rows of X.

RowSum(S) == SumFunctionOnSet([i \in RowIds |-> amendmentRows[i].amount], S)
Linked(a, X) == {i \in RowIds \ X : amendmentRows[i].amendment = a}
Settled(S, kind) == {i \in S : amendmentRows[i].status = "SUCCEEDED" /\ amendmentRows[i].kind = kind}
Unresolved(S) == {i \in S : amendmentRows[i].status = "AMBIGUOUS"}
Effect(S) == RowSum(Settled(S, "CAPTURE")) - RowSum(Settled(S, "REFUND"))
NetSettled(X) == Effect(RowIds \ X)
Refundable(s, X) == amendmentRows[s].amount
    - RowSum({i \in Settled(RowIds \ X, "REFUND") : amendmentRows[i].source = s})
SourcesReconcile(X) == \A s \in Settled(RowIds \ X, "CAPTURE") : Refundable(s, X) >= 0

After(a) == amendments[a].before + amendments[a].delta
IsCharge(a) == amendments[a].delta > 0
Between(n, x, y) == (x <= n /\ n <= y) \/ (y <= n /\ n <= x)
Lesser(x, y) == IF x < y THEN x ELSE y

\* deriveNextBookingRefundSource: the largest remaining balance, the first reference of equals.
IsRefundSource(s, S, X) ==
    /\ s \in Settled(S \ X, "CAPTURE")
    /\ Refundable(s, X) > 0
    /\ \A r \in Settled(S \ X, "CAPTURE") \ {s} :
         Refundable(s, X) > Refundable(r, X) \/ (Refundable(s, X) = Refundable(r, X) /\ s < r)

----------------------------------------------------------------------------
\* What an amendment's payments still need.

\* Mutant: only a settled payment counts as activity.
SettledActivity(a) == \E i \in Linked(a, {}) : amendmentRows[i].status = "SUCCEEDED"

\* hospitalityCommercialAmendmentPaymentActivityRequiresRecovery.
PaymentActivity(a) == \E i \in Linked(a, {}) : amendmentRows[i].status # "FAILED"

\* Mutant: an expired amendment is never active.
ActiveUntilDue(a) == amendments[a].status = "PREPARED" /\ ~amendments[a].due

\* findActiveHospitalityBookingCommercialAmendment.
Active(a) ==
    /\ amendments[a].status = "PREPARED"
    /\ amendments[a].due => PaymentActivity(a)

\* deriveHospitalityCommercialAmendmentSettlementState is not a CONFLICT: the amendment's rows
\* move money its way only and the rest of the ledger is as it was when it was prepared.
SettlementAgrees(a, X) ==
    /\ \A i \in Linked(a, X) : amendmentRows[i].kind = (IF IsCharge(a) THEN "CAPTURE" ELSE "REFUND")
    /\ Unresolved(RowIds \ X) \subseteq Linked(a, X)
    /\ Between(Effect(Linked(a, X)), 0, amendments[a].delta)
    /\ SourcesReconcile(X)
    /\ NetSettled(X) = amendments[a].before + Effect(Linked(a, X))

\* Mutant: another attempt is allowed beside one the provider has not resolved.
RequiresAnother(a, X) ==
    /\ SettlementAgrees(a, X)
    /\ Effect(Linked(a, X)) # amendments[a].delta

RequiresExecution(a, X) ==
    /\ SettlementAgrees(a, X)
    /\ Unresolved(Linked(a, X)) = {}
    /\ Effect(Linked(a, X)) # amendments[a].delta

ReadyToApply(a) ==
    /\ SettlementAgrees(a, {})
    /\ Unresolved(Linked(a, {})) = {}
    /\ Effect(Linked(a, {})) = amendments[a].delta

\* The booking has the total it was prepared from; a request also checks the booking's version.
BookingMatches(a) == amendments[a].status = "PREPARED" /\ amendedBooking.total = amendments[a].before
BookingUnchanged(a) == BookingMatches(a) /\ amendedBooking.version = amendments[a].version

Kind(s) == IF s = 0 THEN "CAPTURE" ELSE "REFUND"

\* deriveHospitalityCommercialAmendmentExecutionDecision is EXECUTE: a charge of what remains, with
\* no source, or a refund of what remains as far as the next source has it.
Executes(a, source, X) ==
    /\ BookingUnchanged(a)
    /\ ~amendments[a].due
    /\ IsCharge(a) <=> source = 0
    /\ RequiresExecution(a, X)
    /\ source # 0 => IsRefundSource(source, RowIds, X)

ExecutionAmount(a, source, X) ==
    LET remaining == amendments[a].delta - Effect(Linked(a, X))
    IN  IF source = 0 THEN remaining ELSE Lesser(-remaining, Refundable(source, X))

\* deriveHospitalityCommercialAmendmentRecoveryDecision has an answer: the amendment expired and
\* the ledger differs from the total before it by what its own rows moved.
RecoveryAgrees(a, X) ==
    /\ BookingUnchanged(a)
    /\ amendments[a].due
    /\ Unresolved(RowIds \ X) \subseteq Linked(a, X)
    /\ SourcesReconcile(X)
    /\ NetSettled(X) = amendments[a].before + Effect(Linked(a, X))
    /\ Between(NetSettled(X), amendments[a].before, After(a))

\* Mutant: what the provider has not resolved is not waited for.
ReadyWhenRestored(a) ==
    /\ RecoveryAgrees(a, {})
    /\ NetSettled({}) = amendments[a].before

ReadyToExpire(a) ==
    /\ RecoveryAgrees(a, {})
    /\ Unresolved(Linked(a, {})) = {}
    /\ NetSettled({}) = amendments[a].before

Excess(a, X) == NetSettled(X) - amendments[a].before

\* COMPENSATE: money above the total before goes back to the amendment's own captures, money below
\* it is asked of the customer again.
Compensates(a, source, X) ==
    /\ RecoveryAgrees(a, X)
    /\ Unresolved(Linked(a, X)) = {}
    /\ Excess(a, X) # 0
    /\ IF Excess(a, X) < 0 THEN source = 0 ELSE IsRefundSource(source, Linked(a, X), X)

CompensationAmount(a, source, X) ==
    IF source = 0 THEN -Excess(a, X) ELSE Lesser(Excess(a, X), Refundable(source, X))

----------------------------------------------------------------------------
\* The amendment itself.

\* An ended or recovered amendment lets go of its units: a due hold expires, another is released.
LetGo(r) ==
    [r EXCEPT !.hold = IF @ # "ACTIVE" THEN @ ELSE IF r.due THEN "EXPIRED" ELSE "RELEASED"]
Ended(r, status) == LetGo([r EXCEPT !.status = status])

\* Preparing expires the due amendments that moved no money and is refused beside any other.
PrepareAmendment(a, delta, hold) ==
    /\ amendments[a].status = "NONE"
    /\ \A b \in Amendments : amendments[b].status = "PREPARED" =>
         amendments[b].due /\ ~PaymentActivity(b)
    /\ Unresolved(RowIds) = {}
    /\ SourcesReconcile({})
    /\ NetSettled({}) = amendedBooking.total
    /\ amendedBooking.total + delta >= 0
    /\ amendments' = [b \in Amendments |->
         IF b = a
           THEN [status |-> "PREPARED", before |-> amendedBooking.total, delta |-> delta,
                 version |-> amendedBooking.version, due |-> FALSE, hold |-> hold]
           ELSE IF amendments[b].status = "PREPARED" THEN Ended(amendments[b], "EXPIRED")
           ELSE amendments[b]]
    /\ UNCHANGED <<amendedBooking, amendmentRows, amendmentProvider, amendmentCalls,
                   amendmentSnapshots>>

\* A cancellation, or the replay of the request that prepared an amendment now due.
CancelAmendment(a) ==
    /\ amendments[a].status = "PREPARED"
    /\ ~PaymentActivity(a)
    /\ amendments' = [amendments EXCEPT ![a] =
         Ended(@, IF amendments[a].due THEN "EXPIRED" ELSE "CANCELLED")]
    /\ UNCHANGED <<amendedBooking, amendmentRows, amendmentProvider, amendmentCalls,
                   amendmentSnapshots>>

ExpireAmendment(a) ==
    /\ amendments[a].status = "PREPARED"
    /\ ~amendments[a].due
    /\ amendments' = [amendments EXCEPT ![a].due = TRUE]
    /\ UNCHANGED <<amendedBooking, amendmentRows, amendmentProvider, amendmentCalls,
                   amendmentSnapshots>>

\* A hold is released by its identity, or expired by a later request for its units.
EndAmendmentHold(a) ==
    /\ amendments[a].hold = "ACTIVE"
    /\ amendments' = [amendments EXCEPT ![a] = LetGo(@)]
    /\ UNCHANGED <<amendedBooking, amendmentRows, amendmentProvider, amendmentCalls,
                   amendmentSnapshots>>

\* Any other change of the booking's terms: refused while an amendment is active or a
\* payment unresolved.
ChangeAmendedBooking ==
    /\ \A a \in Amendments : ~Active(a)
    /\ Unresolved(RowIds) = {}
    /\ amendedBooking.version < MaxBookingVersion
    /\ amendedBooking' = [amendedBooking EXCEPT !.version = @ + 1]
    /\ UNCHANGED <<amendments, amendmentRows, amendmentProvider, amendmentCalls,
                   amendmentSnapshots>>

ApplyAmendment(a) ==
    /\ BookingUnchanged(a)
    /\ ~amendments[a].due
    /\ amendments[a].hold \in {"NONE", "ACTIVE"}
    /\ ReadyToApply(a)
    /\ amendedBooking.version < MaxBookingVersion
    /\ amendedBooking' = [total |-> After(a), version |-> amendedBooking.version + 1]
    /\ amendments' = [amendments EXCEPT ![a] = Ended(@, "APPLIED")]
    /\ UNCHANGED <<amendmentRows, amendmentProvider, amendmentCalls, amendmentSnapshots>>

\* An application that cannot succeed sends the settled money into recovery.
RouteToRecovery(a) ==
    /\ amendments[a].status = "PREPARED"
    /\ ~amendments[a].due
    /\ ReadyToApply(a)
    /\ amendments' = [amendments EXCEPT ![a] = [LetGo(@) EXCEPT !.due = TRUE]]
    /\ UNCHANGED <<amendedBooking, amendmentRows, amendmentProvider, amendmentCalls,
                   amendmentSnapshots>>

FinalizeRecovery(a) ==
    /\ ReadyToExpire(a)
    /\ amendments' = [amendments EXCEPT ![a] = Ended(@, "EXPIRED")]
    /\ UNCHANGED <<amendedBooking, amendmentRows, amendmentProvider, amendmentCalls,
                   amendmentSnapshots>>

----------------------------------------------------------------------------
\* The claim of a payment, the provider call and its answer.

MayClaim ==
    /\ Len(amendmentRows) < Len(BookedCaptures) + MaxAmendmentRows
    /\ Cardinality(amendmentCalls) < MaxAmendmentCalls

Claim(a, purpose, source, amount) ==
    /\ amendmentRows' = Append(amendmentRows,
         [amendment |-> a, kind |-> Kind(source), purpose |-> purpose, amount |-> amount,
          source |-> source, status |-> "AMBIGUOUS", bound |-> FALSE])
    /\ amendmentProvider' = Append(amendmentProvider, [first |-> "none", now |-> "none"])
    /\ amendmentCalls' = amendmentCalls \cup {[row |-> Len(amendmentRows'), answer |-> "none"]}
    /\ UNCHANGED <<amendedBooking, amendments, amendmentSnapshots>>

ClaimAdjustment(a, source) ==
    /\ MayClaim
    /\ Executes(a, source, {})
    /\ Claim(a, "adjust", source, ExecutionAmount(a, source, {}))

ClaimCharge(a) == ClaimAdjustment(a, 0)

ClaimAdjustmentRefund(a, source) == ClaimAdjustment(a, source)

\* A recovery refund's key is the source it returns: it is claimed once, whatever became of it.
ClaimRecoveryRefund(a, source) ==
    /\ MayClaim
    /\ Compensates(a, source, {})
    /\ ~\E i \in Linked(a, {}) :
         amendmentRows[i].purpose = "recover" /\ amendmentRows[i].source = source
    /\ Claim(a, "recover", source, CompensationAmount(a, source, {}))

\* Only an amendment that lowers the total asks its customer to pay again.
ClaimRecoverySession(a) ==
    /\ MayClaim
    /\ ~IsCharge(a)
    /\ Compensates(a, 0, {})
    /\ Claim(a, "recover", 0, CompensationAmount(a, 0, {}))

Repeat(i) ==
    /\ amendmentRows[i].amendment # NoAmendment
    /\ amendmentRows[i].status = "AMBIGUOUS"
    /\ Cardinality(amendmentCalls) < MaxAmendmentCalls
    /\ amendmentCalls' = amendmentCalls \cup {[row |-> i, answer |-> "none"]}
    /\ UNCHANGED <<amendedBooking, amendments, amendmentRows, amendmentProvider, amendmentSnapshots>>

\* A claim repeated: the ledger without the row must still ask for what the row says. A Session is
\* asked for again as long as it is unsettled, a refund until the provider named it.
RepeatAdjustment(i) ==
    LET r == amendmentRows[i]
    IN  /\ Repeat(i)
        /\ r.purpose = "adjust"
        /\ r.bound => r.kind = "CAPTURE"
        /\ Executes(r.amendment, r.source, {i})
        /\ r.amount = ExecutionAmount(r.amendment, r.source, {i})

RepeatRecovery(i) ==
    LET r == amendmentRows[i]
    IN  /\ Repeat(i)
        /\ r.purpose = "recover"
        /\ r.bound => r.kind = "CAPTURE"
        /\ Compensates(r.amendment, r.source, {i})
        /\ r.amount = CompensationAmount(r.amendment, r.source, {i})

\* The provider repeats its first answer to a key; a Session it repeats may have expired.
ProviderAnswers(c, first) ==
    LET p == amendmentProvider[c.row]
    IN  /\ c.answer = "none"
        /\ IF p.first = "none"
             THEN /\ first \in IF amendmentRows[c.row].kind = "CAPTURE"
                               THEN {"open", "refused"} ELSE {"pending", "succeeded", "refused"}
                  /\ amendmentProvider' = [amendmentProvider EXCEPT ![c.row] =
                                             [first |-> first, now |-> first]]
             ELSE /\ first = IF p.now = "expired" THEN "expired" ELSE p.first
                  /\ UNCHANGED amendmentProvider
        /\ amendmentCalls' = (amendmentCalls \ {c}) \cup {[c EXCEPT !.answer = first]}
        /\ UNCHANGED <<amendedBooking, amendments, amendmentRows, amendmentSnapshots>>

RowStatusOf(state) ==
    IF state \in {"paid", "succeeded"} THEN "SUCCEEDED"
    ELSE IF state \in {"expired", "failed", "refused"} THEN "FAILED" ELSE "AMBIGUOUS"

Update(i, status, bound) ==
    amendmentRows' = [amendmentRows EXCEPT ![i].status = status, ![i].bound = bound]
EndCall(c) ==
    /\ amendmentCalls' = amendmentCalls \ {c}
    /\ UNCHANGED <<amendedBooking, amendments, amendmentProvider, amendmentSnapshots>>

IsClaim(r) == r.status = "AMBIGUOUS" /\ ~r.bound

\* A definitive refusal ends a claim the provider has not named.
FailClaim(c) ==
    LET r == amendmentRows[c.row]
    IN  /\ c.answer = "refused"
        /\ IF IsClaim(r) THEN Update(c.row, "FAILED", FALSE) ELSE UNCHANGED amendmentRows
        /\ EndCall(c)

\* A Session that has expired leaves its claim as it is.
BindSession(c) ==
    LET r == amendmentRows[c.row]
    IN  /\ r.kind = "CAPTURE" /\ c.answer \in {"open", "expired"}
        /\ IF IsClaim(r) /\ c.answer = "open"
             THEN Update(c.row, "AMBIGUOUS", TRUE) ELSE UNCHANGED amendmentRows
        /\ EndCall(c)

PersistAdjustmentRefund(c) ==
    LET r == amendmentRows[c.row]
    IN  /\ r.kind = "REFUND" /\ r.purpose = "adjust" /\ c.answer \in {"pending", "succeeded"}
        /\ IF r.bound THEN UNCHANGED amendmentRows ELSE Update(c.row, RowStatusOf(c.answer), TRUE)
        /\ EndCall(c)

PersistRecoveryRefund(c) ==
    LET r == amendmentRows[c.row]
    IN  /\ r.kind = "REFUND" /\ r.purpose = "recover" /\ c.answer \in {"pending", "succeeded"}
        /\ IF r.status = "AMBIGUOUS"
             THEN Update(c.row, RowStatusOf(c.answer), TRUE) ELSE UNCHANGED amendmentRows
        /\ EndCall(c)

\* The process ends, or the provider's answer is lost on its way.
LoseAnswer(c) ==
    /\ amendmentCalls' = amendmentCalls \ {c}
    /\ UNCHANGED <<amendedBooking, amendments, amendmentRows, amendmentProvider,
                   amendmentSnapshots>>

----------------------------------------------------------------------------
\* The customer, the provider, and what is learnt from it afterwards.

\* A Session is paid by the customer who was given its address, or it expires; a refund is
\* settled, fails, or fails after it was settled.
ProviderState(i, next) ==
    /\ <<amendmentProvider[i].now, next>> \in
         {<<"open", "expired">>, <<"pending", "succeeded">>, <<"pending", "failed">>,
          <<"succeeded", "failed">>} \cup (IF amendmentRows[i].bound THEN {<<"open", "paid">>} ELSE {})
    /\ amendmentProvider' = [amendmentProvider EXCEPT ![i].now = next]
    /\ UNCHANGED <<amendedBooking, amendments, amendmentRows, amendmentCalls,
                   amendmentSnapshots>>

\* A refund that belongs to the amendment itself is followed for life, any other row until it is
\* resolved.
FollowedForLife(r) == r.kind = "REFUND" /\ r.purpose = "adjust"

\* A signed event or a reconciliation request: the provider's state, read before the transaction.
RetrieveState(i) ==
    /\ amendmentRows[i].amendment # NoAmendment
    /\ amendmentRows[i].bound
    /\ FollowedForLife(amendmentRows[i]) \/ amendmentRows[i].status = "AMBIGUOUS"
    /\ amendmentSnapshots = {}
    /\ amendmentSnapshots' = {[row |-> i, now |-> amendmentProvider[i].now]}
    /\ UNCHANGED <<amendedBooking, amendments, amendmentRows, amendmentProvider, amendmentCalls>>

Write(s) ==
    /\ Update(s.row, RowStatusOf(s.now), TRUE)
    /\ amendmentSnapshots' = amendmentSnapshots \ {s}
    /\ UNCHANGED <<amendedBooking, amendments, amendmentProvider, amendmentCalls>>

\* The transaction after it. A customer's payment is written while it is unresolved and its
\* amendment prepared, due or not.
WriteSession(s) ==
    LET r == amendmentRows[s.row]
    IN  r.kind = "CAPTURE" /\ r.purpose = "adjust" /\ r.status = "AMBIGUOUS"
        /\ BookingMatches(r.amendment) /\ Write(s)

\* The amendment's own refund takes the state whatever its status and the amendment's.
WriteAdjustmentRefund(s) == FollowedForLife(amendmentRows[s.row]) /\ Write(s)

WriteRecoverySession(s) ==
    LET r == amendmentRows[s.row]
    IN  r.kind = "CAPTURE" /\ r.purpose = "recover" /\ r.status = "AMBIGUOUS"
        /\ BookingMatches(r.amendment) /\ amendments[r.amendment].due /\ Write(s)

WriteRecoveryRefund(s) ==
    LET r == amendmentRows[s.row]
    IN  r.kind = "REFUND" /\ r.purpose = "recover" /\ r.status = "AMBIGUOUS"
        /\ BookingMatches(r.amendment) /\ amendments[r.amendment].due /\ Write(s)

\* The transaction is refused or never starts.
DropState(s) ==
    /\ amendmentSnapshots' = amendmentSnapshots \ {s}
    /\ UNCHANGED <<amendedBooking, amendments, amendmentRows, amendmentProvider, amendmentCalls>>

----------------------------------------------------------------------------

BookedRow(n) == [amendment |-> NoAmendment, kind |-> "CAPTURE", purpose |-> "adjust",
                 amount |-> n, source |-> 0, status |-> "SUCCEEDED", bound |-> TRUE]

AmendmentsInit ==
    /\ amendmentRows = [i \in DOMAIN BookedCaptures |-> BookedRow(BookedCaptures[i])]
    /\ amendedBooking = [total |-> RowSum(RowIds), version |-> 0]
    /\ amendments = [a \in Amendments |-> [status |-> "NONE", before |-> 0, delta |-> 0,
                                           version |-> 0, due |-> FALSE, hold |-> "NONE"]]
    /\ amendmentProvider = [i \in RowIds |-> [first |-> "open", now |-> "paid"]]
    /\ amendmentCalls = {}
    /\ amendmentSnapshots = {}

AmendmentsNext ==
    \/ \E a \in Amendments :
         \/ \E d \in Deltas, h \in {"NONE", "ACTIVE"} : PrepareAmendment(a, d, h)
         \/ CancelAmendment(a)
         \/ ExpireAmendment(a)
         \/ EndAmendmentHold(a)
         \/ ApplyAmendment(a)
         \/ RouteToRecovery(a)
         \/ FinalizeRecovery(a)
         \/ ClaimCharge(a)
         \/ ClaimRecoverySession(a)
         \/ \E s \in RowIds : ClaimAdjustmentRefund(a, s) \/ ClaimRecoveryRefund(a, s)
    \/ ChangeAmendedBooking
    \/ \E i \in RowIds : RepeatAdjustment(i) \/ RepeatRecovery(i) \/ RetrieveState(i)
    \/ \E i \in RowIds, state \in ProviderChanges : ProviderState(i, state)
    \/ \E c \in amendmentCalls :
         \/ \E state \in ProviderStates : ProviderAnswers(c, state)
         \/ FailClaim(c)
         \/ BindSession(c)
         \/ PersistAdjustmentRefund(c)
         \/ PersistRecoveryRefund(c)
         \/ LoseAnswer(c)
    \/ \E s \in amendmentSnapshots :
         \/ WriteSession(s)
         \/ WriteAdjustmentRefund(s)
         \/ WriteRecoverySession(s)
         \/ WriteRecoveryRefund(s)
         \/ DropState(s)

AmendmentsSpec == AmendmentsInit /\ [][AmendmentsNext]_amendmentVars

----------------------------------------------------------------------------

\* An amendment ends with its payments resolved: one that is applied moved exactly its difference,
\* one that is cancelled or expired moved nothing or was given back, and neither keeps its units.
AmendmentsCloseBalanced ==
    [][\A a \in Amendments :
         (amendments[a].status = "PREPARED" /\ amendments'[a].status # "PREPARED") =>
           /\ Unresolved(Linked(a, {})) = {}
           /\ Effect(Linked(a, {})) = IF amendments'[a].status = "APPLIED"
                                        THEN amendments[a].delta ELSE 0
           /\ amendments'[a].hold # "ACTIVE"]_amendmentVars

\* While an amendment has payments under way or settled, due or not, nothing changes its booking
\* but its own application.
AmendmentProtectsBooking ==
    [][amendedBooking' # amendedBooking =>
         \A a \in Amendments :
           (amendments[a].status = "PREPARED" /\ \E i \in Linked(a, {}) : amendmentRows[i].status # "FAILED") =>
             amendments'[a].status = "APPLIED"]_amendmentVars

\* A Session the customer paid is recorded, or it can still be: its row is unresolved and its
\* amendment is still prepared.
PaidSessionsAreRecorded ==
    \A i \in RowIds : amendmentProvider[i].now = "paid" =>
        \/ amendmentRows[i].status = "SUCCEEDED"
        \/ /\ amendmentRows[i].status = "AMBIGUOUS"
           /\ amendments[amendmentRows[i].amendment].status = "PREPARED"

\* At the provider, whatever was repeated, lost or expired, the customer of an amendment pays its
\* difference at most once, gets back no more than was paid, and is refunded it at most once.
ProviderSum(a, states) == RowSum({i \in Linked(a, {}) : amendmentProvider[i].now \in states})
AmendmentMovesItsDifference ==
    \A a \in Amendments :
        LET paid == ProviderSum(a, {"paid"})
            returned == ProviderSum(a, {"pending", "succeeded"})
        IN  IF IsCharge(a)
              THEN paid <= amendments[a].delta /\ returned <= paid
              ELSE paid <= -amendments[a].delta /\ returned <= -amendments[a].delta

============================================================================
