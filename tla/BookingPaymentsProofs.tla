------------------------ MODULE BookingPaymentsProofs ------------------------
(***************************************************************************)
(* Theorems about BookingPayments, for every set of request keys, total,   *)
(* payment-start window and bound on the clock and the calls: its types,   *)
(* the agreement of attempts with the provider, the refinement of          *)
(* PaymentContract, the agreement of the booking with its ledger, and the  *)
(* one step behind events recorded under another attempt than their own,   *)
(* what ends a stale claim, and that the end of a stored session is heard. *)
(***************************************************************************)
EXTENDS BookingPayments, FiniteSetTheorems, TLAPS

LEMMA StatusOfNetType == \A net : StatusOfNet(net) \in PaymentStatus
BY DEF StatusOfNet, PaymentStatus

\* Rewriting fields of a row keeps it a row.
LEMMA PaymentRow ==
    ASSUME TypeOK, NEW k \in Keys, NEW status \in {"PENDING", "SUCCEEDED", "FAILED"}
    PROVE  /\ [payments EXCEPT ![k].status = status] \in [Keys -> PaymentRows]
           /\ \A ref \in Keys :
                [payments EXCEPT ![k].status = status, ![k].ref = ref] \in [Keys -> PaymentRows]
<1>1. payments[k] \in PaymentRows
  BY DEF TypeOK
<1>2. /\ [payments[k] EXCEPT !.status = status] \in PaymentRows
      /\ \A ref \in Keys : [payments[k] EXCEPT !.status = status, !.ref = ref] \in PaymentRows
  BY <1>1 DEF PaymentRows
<1>3. [payments EXCEPT ![k].status = status] \in [Keys -> PaymentRows]
  BY <1>2 DEF TypeOK
<1>4. ASSUME NEW ref \in Keys
      PROVE  [payments EXCEPT ![k].status = status, ![k].ref = ref] \in [Keys -> PaymentRows]
  BY <1>2 DEF TypeOK
<1>. QED BY <1>3, <1>4

LEMMA ProviderRow ==
    ASSUME TypeOK, NEW k \in Keys
    PROVE  /\ [provider EXCEPT ![k].session = "expired"] \in [Keys -> ProviderRows]
           /\ \A intent \in IntentStatus : [provider EXCEPT ![k].intent = intent] \in [Keys -> ProviderRows]
           /\ [provider EXCEPT ![k].session = "complete", ![k].intent = "succeeded"] \in [Keys -> ProviderRows]
           /\ \A at \in 0..MaxTime :
                [provider EXCEPT ![k].session = "open", ![k].requestedAt = at] \in [Keys -> ProviderRows]
<1>1. provider[k] \in ProviderRows /\ "succeeded" \in IntentStatus
  BY DEF TypeOK, IntentStatus
<1>2. /\ [provider[k] EXCEPT !.session = "expired"] \in ProviderRows
      /\ \A intent \in IntentStatus : [provider[k] EXCEPT !.intent = intent] \in ProviderRows
      /\ [provider[k] EXCEPT !.session = "complete", !.intent = "succeeded"] \in ProviderRows
      /\ \A at \in 0..MaxTime : [provider[k] EXCEPT !.session = "open", !.requestedAt = at] \in ProviderRows
  BY <1>1 DEF ProviderRows
<1>3. [provider EXCEPT ![k].session = "expired"] \in [Keys -> ProviderRows]
  BY <1>2 DEF TypeOK
<1>4. ASSUME NEW intent \in IntentStatus
      PROVE  [provider EXCEPT ![k].intent = intent] \in [Keys -> ProviderRows]
  BY <1>2 DEF TypeOK
<1>5. [provider EXCEPT ![k].session = "complete", ![k].intent = "succeeded"] \in [Keys -> ProviderRows]
  BY <1>2 DEF TypeOK
<1>6. ASSUME NEW at \in 0..MaxTime
      PROVE  [provider EXCEPT ![k].session = "open", ![k].requestedAt = at] \in [Keys -> ProviderRows]
  BY <1>2 DEF TypeOK
<1>. QED BY <1>3, <1>4, <1>5, <1>6

LEMMA BookingRow ==
    ASSUME TypeOK
    PROVE  /\ \A status \in BookingStatus : [booking EXCEPT !.status = status].status = status
           /\ \A status \in BookingStatus :
                [booking EXCEPT !.status = status] \in [status : BookingStatus, paymentStatus : PaymentStatus]
           /\ \A payment \in PaymentStatus :
                [booking EXCEPT !.paymentStatus = payment] \in [status : BookingStatus, paymentStatus : PaymentStatus]
BY DEF TypeOK

LEMMA ReconciledStatus == \A s : Reconciled(s) \in {"PENDING", "SUCCEEDED", "FAILED"}
BY DEF Reconciled

----------------------------------------------------------------------------
\* Type correctness, one lemma for each actor.

LEMMA RequestType ==
    ASSUME TypeOK, RequestNext
    PROVE  TypeOK'
<1>1. ASSUME NEW k \in Keys, ClaimCheckout(k)
      PROVE  TypeOK'
  <2>1. Call(k) \in Calls
    BY DEF TypeOK, Call, Calls
  <2>2. [status |-> "PENDING", ref |-> ClaimReference, createdAt |-> clock] \in PaymentRows
    BY DEF TypeOK, PaymentRows
  <2>3. payments' \in [Keys -> PaymentRows]
    BY <1>1, <2>2 DEF ClaimCheckout, TypeOK
  <2>. QED BY <1>1, <2>1, <2>3 DEF ClaimCheckout, TypeOK
<1>2. ASSUME NEW c \in calls, PersistCheckoutSession(c)
      PROVE  TypeOK'
  <2>1. booking' \in [status : BookingStatus, paymentStatus : PaymentStatus]
    BY <1>2, BookingRow DEF PersistCheckoutSession, TypeOK, BookingStatus
  <2>2. sessions' \in [Keys -> {"NONE", "OPEN", "COMPLETED", "EXPIRED"}]
    BY <1>2 DEF PersistCheckoutSession, TypeOK
  <2>. QED BY <1>2, <2>1, <2>2 DEF PersistCheckoutSession, EndCall, TypeOK
<1>3. ASSUME NEW c \in calls, MarkCheckoutClaimFailed(c)
      PROVE  TypeOK'
  <2>1. booking' \in [status : BookingStatus, paymentStatus : PaymentStatus]
    BY <1>3, BookingRow DEF MarkCheckoutClaimFailed, TypeOK, PaymentStatus
  <2>2. c.key \in Keys
    BY DEF TypeOK, Calls
  <2>3. payments' \in [Keys -> PaymentRows]
    <3>1. [payments EXCEPT ![c.key].status = "FAILED"] \in [Keys -> PaymentRows]
      BY <2>2, PaymentRow
    <3>. QED BY <1>3, <3>1 DEF MarkCheckoutClaimFailed, TypeOK
  <2>. QED BY <1>3, <2>1, <2>3 DEF MarkCheckoutClaimFailed, EndCall, TypeOK
<1>4. ASSUME NEW c \in calls, AbandonCall(c)
      PROVE  TypeOK'
  BY <1>4 DEF AbandonCall, EndCall, ours, TypeOK
<1>. QED BY <1>1, <1>2, <1>3, <1>4 DEF RequestNext

LEMMA ProviderType ==
    ASSUME TypeOK, ProviderNext
    PROVE  TypeOK'
<1>1. ASSUME NEW c \in calls, ProviderAnswers(c) \/ ProviderRefuses(c)
      PROVE  TypeOK'
  <2>1. c \in Calls /\ \A phase \in {"ANSWERED", "REFUSED"} : [c EXCEPT !.phase = phase] \in Calls
    BY DEF TypeOK, Calls
  <2>2. calls' \subseteq Calls
    BY <1>1, <2>1 DEF ProviderAnswers, ProviderRefuses, Answer, TypeOK
  <2>3. provider' \in [Keys -> ProviderRows]
    <3>1. c.key \in Keys /\ c.at \in 0..MaxTime
      BY <2>1 DEF Calls
    <3>2. [provider EXCEPT ![c.key].session = "open", ![c.key].requestedAt = c.at] \in [Keys -> ProviderRows]
      BY <3>1, ProviderRow
    <3>. QED BY <1>1, <3>2 DEF ProviderAnswers, ProviderRefuses, TypeOK
  <2>. QED BY <1>1, <2>2, <2>3 DEF ProviderAnswers, ProviderRefuses, ours, TypeOK
<1>2. ASSUME NEW new \in SUBSET Events, provider' \in [Keys -> ProviderRows],
             undelivered' = undelivered \cup new, UNCHANGED <<clock, ours, calls, lookups>>
      PROVE  TypeOK'
  BY <1>2 DEF ours, TypeOK
<1>3. /\ AttemptStatuses \cup {"succeeded", "canceled"} = IntentStatus
      /\ \A k \in Keys, e \in IntentStatus \cup {"completed", "expired"} : <<e, k>> \in Events
  BY DEF IntentStatus, Events
<1>4. ASSUME NEW k \in Keys, NEW result \in AttemptStatuses, AttemptCard(k, result)
      PROVE  TypeOK'
  <2>1. [provider EXCEPT ![k].intent = result] \in [Keys -> ProviderRows]
    BY <1>3, ProviderRow
  <2>2. {<<result, k>>} \in SUBSET Events
    BY <1>3
  <2>. QED BY <1>2, <1>4, <2>1, <2>2 DEF AttemptCard
<1>5. ASSUME NEW k \in Keys, Pay(k)
      PROVE  TypeOK'
  <2>1. provider' \in [Keys -> ProviderRows]
    BY <1>5, ProviderRow DEF Pay
  <2>2. {<<"completed", k>>, <<"succeeded", k>>} \in SUBSET Events
    BY <1>3
  <2>. QED BY <1>2, <1>5, <2>1, <2>2 DEF Pay
<1>6. ASSUME NEW k \in Keys, ExpireSession(k)
      PROVE  TypeOK'
  <2>1. [provider EXCEPT ![k].session = "expired"] \in [Keys -> ProviderRows]
    BY <1>3, ProviderRow
  <2>2. {<<"expired", k>>} \in SUBSET Events
    BY <1>3
  <2>. QED BY <1>2, <1>6, <2>1, <2>2 DEF ExpireSession
<1>7. ASSUME NEW k \in Keys, CancelIntent(k)
      PROVE  TypeOK'
  <2>1. [provider EXCEPT ![k].intent = "canceled"] \in [Keys -> ProviderRows]
    BY <1>3, ProviderRow
  <2>2. {<<"canceled", k>>} \in SUBSET Events
    BY <1>3
  <2>. QED BY <1>2, <1>7, <2>1, <2>2 DEF CancelIntent
<1>. QED BY <1>1, <1>4, <1>5, <1>6, <1>7 DEF ProviderNext

LEMMA EventType ==
    ASSUME TypeOK, EventNext
    PROVE  TypeOK'
<1>1. ASSUME NEW k \in Keys, SessionCompleted(k)
      PROVE  TypeOK'
  <2>1. payments' \in [Keys -> PaymentRows]
    <3>1. [payments EXCEPT ![k].status = "SUCCEEDED", ![k].ref = k] \in [Keys -> PaymentRows]
      BY PaymentRow
    <3>. QED BY <1>1, <3>1 DEF SessionCompleted, TypeOK
  <2>2. booking' \in [status : BookingStatus, paymentStatus : PaymentStatus]
    BY <1>1, BookingRow DEF SessionCompleted, TypeOK, PaymentStatus
  <2>3. sessions' \in [Keys -> {"NONE", "OPEN", "COMPLETED", "EXPIRED"}]
    BY <1>1 DEF SessionCompleted, TypeOK
  <2>. QED BY <1>1, <2>1, <2>2, <2>3 DEF SessionCompleted, Accept, TypeOK
<1>2. ASSUME NEW k \in Keys, SessionExpired(k)
      PROVE  TypeOK'
  <2>1. payments' \in [Keys -> PaymentRows]
    <3>1. [payments EXCEPT ![k].status = "FAILED"] \in [Keys -> PaymentRows]
      BY PaymentRow
    <3>. QED BY <1>2, <3>1 DEF SessionExpired, TypeOK
  <2>2. booking' \in [status : BookingStatus, paymentStatus : PaymentStatus]
    BY <1>2, BookingRow DEF SessionExpired, TypeOK, BookingStatus
  <2>3. sessions' \in [Keys -> {"NONE", "OPEN", "COMPLETED", "EXPIRED"}]
    BY <1>2 DEF SessionExpired, TypeOK
  <2>. QED BY <1>2, <2>1, <2>2, <2>3 DEF SessionExpired, Accept, TypeOK
<1>3. ASSUME NEW k \in Keys, NEW s \in IntentStatus, IntentEvent(k, s)
      PROVE  TypeOK'
  <2>1. Candidates(k) \subseteq Keys
    BY DEF Candidates
  <2>2. payments' \in [Keys -> PaymentRows]
    <3>1. ASSUME NEW j \in Candidates(k)
          PROVE  [payments EXCEPT ![j].status = Reconciled(s), ![j].ref = k] \in [Keys -> PaymentRows]
      <4>1. j \in Keys
        BY <2>1
      <4>. QED BY <4>1, ReconciledStatus, PaymentRow
    <3>. QED BY <1>3, <3>1 DEF IntentEvent, TypeOK
  <2>. QED BY <1>3, <2>2 DEF IntentEvent, Accept, TypeOK
<1>. QED BY <1>1, <1>2, <1>3 DEF EventNext

LEMMA StaffType ==
    ASSUME TypeOK, StaffNext
    PROVE  TypeOK'
<1>1. ASSUME NEW k \in Keys, LookUpIntent(k)
      PROVE  TypeOK'
  <2>1. payments[k].ref \in Keys
    BY <1>1 DEF LookUpIntent, TypeOK, PaymentRows
  <2>2. provider[payments[k].ref].intent \in IntentStatus \cup {"none"}
    BY <2>1 DEF TypeOK, ProviderRows
  <2>. QED BY <1>1, <2>2 DEF LookUpIntent, ours, TypeOK
<1>2. ASSUME NEW k \in Keys, NEW s \in IntentStatus, ReconcileIntent(k, s)
      PROVE  TypeOK'
  <2>1. payments' \in [Keys -> PaymentRows]
    <3>1. [payments EXCEPT ![k].status = Reconciled(s)] \in [Keys -> PaymentRows]
      BY ReconciledStatus, PaymentRow
    <3>. QED BY <1>2, <3>1 DEF ReconcileIntent, TypeOK
  <2>. QED BY <1>2, <2>1 DEF ReconcileIntent, TypeOK
<1>3. CASE RecordManualOfflinePayment \/ CancelBooking
  <2>1. booking' \in [status : BookingStatus, paymentStatus : PaymentStatus]
    BY <1>3, BookingRow DEF RecordManualOfflinePayment, CancelBooking, PaymentStatus, BookingStatus
  <2>. QED BY <1>3, <2>1 DEF RecordManualOfflinePayment, CancelBooking, TypeOK
<1>4. ASSUME NEW amount \in 1..Total, RecordManualOfflineRefund(amount)
      PROVE  TypeOK'
  <2>1. refunded' \in 0..Total
    BY <1>4, PaymentsAssumption DEF RecordManualOfflineRefund, ManuallyRefundable, TypeOK
  <2>2. booking' \in [status : BookingStatus, paymentStatus : PaymentStatus]
    BY <1>4, BookingRow, StatusOfNetType DEF RecordManualOfflineRefund
  <2>. QED BY <1>4, <2>1, <2>2 DEF RecordManualOfflineRefund, TypeOK
<1>. QED BY <1>1, <1>2, <1>3, <1>4 DEF StaffNext

LEMMA TypeStep == TypeOK /\ [Next]_vars => TypeOK'
<1>1. TypeOK /\ Tick => TypeOK'
  BY PaymentsAssumption DEF TypeOK, Tick, ours
<1>2. TypeOK /\ UNCHANGED vars => TypeOK'
  BY DEF TypeOK, vars, ours
<1>. QED BY <1>1, <1>2, RequestType, ProviderType, EventType, StaffType DEF Next

LEMMA TypeInit == Init => TypeOK
<1>. SUFFICES ASSUME Init PROVE TypeOK
  OBVIOUS
<1>1. 0 \in 0..MaxTime /\ 0 \in 0..Total
  BY PaymentsAssumption
<1>2. /\ [status |-> "NONE", ref |-> ClaimReference, createdAt |-> 0] \in PaymentRows
      /\ [session |-> "none", requestedAt |-> 0, intent |-> "none"] \in ProviderRows
  BY <1>1 DEF PaymentRows, ProviderRows
<1>3. booking \in [status : BookingStatus, paymentStatus : PaymentStatus]
  BY DEF Init, BookingStatus, PaymentStatus
<1>. QED BY <1>1, <1>2, <1>3 DEF Init, TypeOK

\* Type correctness: a refund never exceeds the payment, and no row leaves its states.
THEOREM TypeCorrect == Spec => []TypeOK
BY TypeInit, TypeStep, PTL DEF Spec

----------------------------------------------------------------------------
\* The attempts agree with the provider: the inductive invariant.

Follows(k) == SessionFollows(k) /\ PaymentFollows(k) /\ LookupFollows(k) /\ StatusFollows(k)

RefsAreOwn == \A j, k \in Keys : payments[j].ref = payments[k].ref /\ payments[j].ref # ClaimReference => j = k

AttemptInv == TypeOK /\ OneUnresolvedAttempt /\ AttemptsFollowProvider

LEMMA AttemptInvParts ==
    AttemptInv <=> TypeOK /\ OneUnresolvedAttempt /\ (\A k \in Keys : Follows(k)) /\ RefsAreOwn
BY DEF AttemptInv, AttemptsFollowProvider, Follows, RefsAreOwn

\* The provider's names are not the internal reference.
LEMMA Names == ClaimReference \notin Keys /\ AttemptStatuses \cap {"succeeded", "canceled", "none", "completed", "expired"} = {}
BY PaymentsAssumption

----------------------------------------------------------------------------
\* Requests.

LEMMA RequestKeepsAttempts ==
    ASSUME AttemptInv, RequestNext
    PROVE  OneUnresolvedAttempt' /\ (\A k \in Keys : Follows(k)') /\ RefsAreOwn'
<1>. USE AttemptInvParts
<1>0. ASSUME UNCHANGED <<payments, sessions, provider, undelivered, lookups, booking>>
      PROVE  OneUnresolvedAttempt' /\ (\A k \in Keys : Follows(k)') /\ RefsAreOwn'
  BY <1>0 DEF Follows, SessionFollows, PaymentFollows, LookupFollows, StatusFollows, AcceptsPayment, RefsAreOwn, OneUnresolvedAttempt, Rows
<1>1. ASSUME NEW k \in Keys, ClaimCheckout(k)
      PROVE  OneUnresolvedAttempt' /\ (\A j \in Keys : Follows(j)') /\ RefsAreOwn'
  <2>1. UNCHANGED <<sessions, provider, undelivered, lookups, booking>>
    BY <1>1 DEF ClaimCheckout
  <2>2. CASE UNCHANGED payments
    BY <1>0, <2>1, <2>2
  <2>3. CASE payments[k].status = "NONE"
    <3>1. /\ payments' = [payments EXCEPT ![k] = [status |-> "PENDING", ref |-> ClaimReference, createdAt |-> clock]]
          /\ Rows("PENDING") = {} /\ AcceptsPayment
      BY <1>1, <2>3 DEF ClaimCheckout, IsClaim
    <3>2. /\ payments'[k].status = "PENDING" /\ payments'[k].ref = ClaimReference
          /\ \A j \in Keys : j # k => payments'[j] = payments[j]
      BY <3>1 DEF TypeOK
    <3>3. OneUnresolvedAttempt'
      BY <3>1, <3>2 DEF OneUnresolvedAttempt, Rows
    <3>4. RefsAreOwn'
      BY <3>2 DEF RefsAreOwn
    <3>5. ASSUME NEW j \in Keys
          PROVE  Follows(j)'
      <4>1. SessionFollows(j)'
        BY <2>1 DEF SessionFollows, Follows
      <4>2. PaymentFollows(j)'
        BY <2>1, <3>2, <2>3, Names DEF Follows, PaymentFollows
      <4>3. LookupFollows(j)'
        BY <2>1, <3>2, <2>3, Names DEF Follows, LookupFollows, PaymentFollows
      <4>4. StatusFollows(j)'
        BY <2>1, <3>1, <3>2 DEF Follows, StatusFollows, AcceptsPayment
      <4>. QED BY <4>1, <4>2, <4>3, <4>4 DEF Follows
    <3>. QED BY <3>3, <3>4, <3>5
  <2>. QED BY <1>1, <2>2, <2>3 DEF ClaimCheckout
<1>2. ASSUME NEW c \in calls, PersistCheckoutSession(c)
      PROVE  OneUnresolvedAttempt' /\ (\A j \in Keys : Follows(j)') /\ RefsAreOwn'
  <2>1. UNCHANGED <<payments, provider, undelivered, lookups, booking.paymentStatus>>
    BY <1>2, BookingRow DEF PersistCheckoutSession, TypeOK
  <2>2. c.key \in Keys
    BY DEF TypeOK, Calls
  <2>3. \A j \in Keys : \/ sessions'[j] = sessions[j]
                        \/ sessions[j] = "NONE" /\ sessions'[j] = "OPEN" /\ IsClaim(j)
    BY <1>2, <2>2 DEF PersistCheckoutSession, TypeOK
  <2>4. ASSUME NEW j \in Keys
        PROVE  Follows(j)'
    <3>1. SessionFollows(j)'
      BY <2>1, <2>3 DEF SessionFollows, Follows
    <3>2. PaymentFollows(j)'
      BY <2>1, <2>3 DEF Follows, PaymentFollows, IsClaim
    <3>3. LookupFollows(j)' /\ StatusFollows(j)'
      BY <2>1 DEF Follows, LookupFollows, StatusFollows, AcceptsPayment
    <3>. QED BY <3>1, <3>2, <3>3 DEF Follows
  <2>. QED BY <2>1, <2>4 DEF OneUnresolvedAttempt, Rows, RefsAreOwn
<1>3. ASSUME NEW c \in calls, MarkCheckoutClaimFailed(c)
      PROVE  OneUnresolvedAttempt' /\ (\A j \in Keys : Follows(j)') /\ RefsAreOwn'
  <2>1. UNCHANGED <<sessions, provider, undelivered, lookups>>
    BY <1>3 DEF MarkCheckoutClaimFailed
  <2>2. c.key \in Keys
    BY DEF TypeOK, Calls
  <2>3. CASE UNCHANGED <<payments, booking>>
    BY <1>0, <2>1, <2>3
  <2>4. CASE IsClaim(c.key)
    <3>1. /\ payments' = [payments EXCEPT ![c.key].status = "FAILED"]
          /\ \/ booking' = booking
             \/ AcceptsPayment /\ booking' = [booking EXCEPT !.paymentStatus = "FAILED"]
      BY <1>3, <2>4 DEF MarkCheckoutClaimFailed
    <3>2. /\ payments[c.key].status = "PENDING" /\ payments'[c.key].status = "FAILED"
          /\ payments'[c.key].ref = ClaimReference /\ payments[c.key].ref = ClaimReference
          /\ \A j \in Keys : j # c.key => payments'[j] = payments[j]
      BY <2>2, <2>4, <3>1 DEF TypeOK, IsClaim, PaymentRows
    <3>3. /\ AcceptsPayment' <=> AcceptsPayment
          /\ booking'.paymentStatus = "REFUNDED" <=> booking.paymentStatus = "REFUNDED"
      BY <3>1 DEF AcceptsPayment, TypeOK
    <3>4. ASSUME NEW j \in Keys
          PROVE  Follows(j)'
      <4>1. SessionFollows(j)'
        BY <2>1 DEF SessionFollows, Follows
      <4>2. PaymentFollows(j)'
        BY <2>1, <3>2, Names DEF Follows, PaymentFollows
      <4>3. LookupFollows(j)'
        BY <2>1, <3>2, Names DEF Follows, LookupFollows
      <4>4. StatusFollows(j)'
        BY <2>1, <3>2, <3>3 DEF Follows, StatusFollows
      <4>. QED BY <4>1, <4>2, <4>3, <4>4 DEF Follows
    <3>5. OneUnresolvedAttempt' /\ RefsAreOwn'
      BY <2>2, <3>2 DEF OneUnresolvedAttempt, Rows, RefsAreOwn
    <3>. QED BY <3>4, <3>5
  <2>. QED BY <1>3, <2>3, <2>4 DEF MarkCheckoutClaimFailed
<1>4. ASSUME NEW c \in calls, AbandonCall(c)
      PROVE  OneUnresolvedAttempt' /\ (\A j \in Keys : Follows(j)') /\ RefsAreOwn'
  BY <1>0, <1>4 DEF AbandonCall, ours
<1>. QED BY <1>1, <1>2, <1>3, <1>4 DEF RequestNext

----------------------------------------------------------------------------
\* The provider.

LEMMA ProviderKeepsAttempts ==
    ASSUME AttemptInv, ProviderNext
    PROVE  OneUnresolvedAttempt' /\ (\A k \in Keys : Follows(k)') /\ RefsAreOwn'
<1>. USE AttemptInvParts
<1>1. UNCHANGED <<payments, sessions, lookups, booking>>
  BY DEF ProviderNext, ProviderAnswers, ProviderRefuses, AttemptCard, Pay, ExpireSession, CancelIntent, ours
<1>2. OneUnresolvedAttempt' /\ RefsAreOwn'
  BY <1>1 DEF OneUnresolvedAttempt, Rows, RefsAreOwn
\* The provider's sessions stay complete, or expired, for ever.
<1>3. ASSUME \A j \in Keys : /\ provider[j].session = "complete" => provider'[j].session = "complete"
                             /\ provider[j].session = "expired" => provider'[j].session = "expired",
             \A j \in Keys : SessionFollows(j)',
             \A j \in Keys : <<"completed", j>> \in undelivered' => \/ <<"completed", j>> \in undelivered
                                                                   \/ provider[j].session = "open"
      PROVE  \A j \in Keys : Follows(j)'
  <2>1. ASSUME NEW j \in Keys
        PROVE  PaymentFollows(j)' /\ LookupFollows(j)' /\ StatusFollows(j)'
    <3>1. PaymentFollows(j)'
      BY <1>1, <1>3 DEF Follows, PaymentFollows
    <3>2. LookupFollows(j)'
      BY <1>1, <1>3 DEF Follows, LookupFollows
    <3>3. StatusFollows(j)'
      BY <1>1, <1>3 DEF Follows, StatusFollows, PaymentFollows, AcceptsPayment
    <3>. QED BY <3>1, <3>2, <3>3
  <2>. QED BY <1>3, <2>1 DEF Follows
<1>4. \A j \in Keys : provider[j] \in ProviderRows
  BY DEF TypeOK
<1>5. ASSUME NEW c \in calls, ProviderAnswers(c) \/ ProviderRefuses(c)
      PROVE  \A j \in Keys : Follows(j)'
  <2>1. c.key \in Keys /\ undelivered' = undelivered
    BY <1>5 DEF TypeOK, Calls, ProviderAnswers, ProviderRefuses
  <2>2. \A j \in Keys : /\ provider'[j].intent = provider[j].intent
                        /\ \/ provider'[j].session = provider[j].session
                           \/ provider[j].session = "none" /\ provider'[j].session = "open"
    BY <1>4, <1>5, <2>1 DEF ProviderAnswers, ProviderRefuses, TypeOK, ProviderRows
  <2>3. \A j \in Keys : SessionFollows(j)'
    BY <1>1, <2>1, <2>2 DEF SessionFollows, Follows
  <2>. QED BY <1>3, <2>1, <2>2, <2>3
<1>6. ASSUME NEW k \in Keys, NEW result \in AttemptStatuses, AttemptCard(k, result)
      PROVE  \A j \in Keys : Follows(j)'
  <2>1. /\ provider'[k].session = "open" /\ provider[k].session = "open" /\ provider'[k].intent = result
        /\ \A j \in Keys : j # k => provider'[j] = provider[j]
        /\ sessions[k] # "NONE" /\ undelivered' = undelivered \cup {<<result, k>>}
    BY <1>4, <1>6 DEF AttemptCard, CanPay, TypeOK, ProviderRows
  <2>2. \A j \in Keys : SessionFollows(j)'
    BY <1>1, <2>1, Names DEF SessionFollows, Follows
  <2>3. \A j \in Keys : <<"completed", j>> \in undelivered' => <<"completed", j>> \in undelivered \/ j = k
    BY <2>1
  <2>. QED BY <1>3, <2>1, <2>2, <2>3
<1>7. ASSUME NEW k \in Keys, Pay(k)
      PROVE  \A j \in Keys : Follows(j)'
  <2>1. /\ provider[k].session = "open" /\ provider'[k].session = "complete" /\ provider'[k].intent = "succeeded"
        /\ \A j \in Keys : j # k => provider'[j] = provider[j]
        /\ sessions[k] # "NONE" /\ undelivered' = undelivered \cup {<<"completed", k>>, <<"succeeded", k>>}
    BY <1>4, <1>7 DEF Pay, CanPay, TypeOK, ProviderRows
  <2>2. \A j \in Keys : SessionFollows(j)'
    BY <1>1, <2>1 DEF SessionFollows, Follows
  <2>. QED BY <1>3, <2>1, <2>2
<1>8. ASSUME NEW k \in Keys, ExpireSession(k)
      PROVE  \A j \in Keys : Follows(j)'
  <2>1. /\ provider[k].session = "open" /\ provider'[k].session = "expired" /\ provider'[k].intent = provider[k].intent
        /\ \A j \in Keys : j # k => provider'[j] = provider[j]
        /\ undelivered' = undelivered \cup {<<"expired", k>>}
    BY <1>4, <1>8 DEF ExpireSession, TypeOK, ProviderRows
  <2>2. "expired" \notin IntentStatus
    BY PaymentsAssumption DEF IntentStatus
  <2>3. \A j \in Keys : SessionFollows(j)'
    BY <1>1, <2>1, <2>2 DEF SessionFollows, Follows
  <2>. QED BY <1>3, <2>1, <2>3
<1>9. ASSUME NEW k \in Keys, CancelIntent(k)
      PROVE  \A j \in Keys : Follows(j)'
  <2>1. /\ provider[k].session = "expired" /\ provider'[k].session = "expired"
        /\ provider[k].intent \in AttemptStatuses /\ provider'[k].intent = "canceled"
        /\ \A j \in Keys : j # k => provider'[j] = provider[j]
        /\ undelivered' = undelivered \cup {<<"canceled", k>>}
    BY <1>4, <1>9 DEF CancelIntent, TypeOK, ProviderRows
  <2>2. \A j \in Keys : SessionFollows(j)'
    BY <1>1, <2>1, Names DEF SessionFollows, Follows
  <2>. QED BY <1>3, <2>1, <2>2
<1>10. \A k \in Keys : Follows(k)'
  BY <1>5, <1>6, <1>7, <1>8, <1>9 DEF ProviderNext
<1>. QED BY <1>2, <1>10

----------------------------------------------------------------------------
\* Events. Removing an accepted event from those undelivered disturbs nothing.

LEMMA Delivered ==
    ASSUME NEW event, Accept(event)
    PROVE  event \in undelivered /\ undelivered' \subseteq undelivered
BY DEF Accept

\* A row of one attempt is resolved or named; every other row stays as it is.
LEMMA EventKeepsAttempts ==
    ASSUME AttemptInv, EventNext
    PROVE  OneUnresolvedAttempt' /\ (\A k \in Keys : Follows(k)') /\ RefsAreOwn'
<1>. USE AttemptInvParts
<1>1. /\ UNCHANGED <<provider, lookups>>
      /\ undelivered' \subseteq undelivered
  BY Delivered DEF EventNext, SessionCompleted, SessionExpired, IntentEvent
<1>2. ASSUME UNCHANGED <<payments, sessions, booking>>
      PROVE  OneUnresolvedAttempt' /\ (\A k \in Keys : Follows(k)') /\ RefsAreOwn'
  BY <1>1, <1>2 DEF Follows, SessionFollows, PaymentFollows, LookupFollows, StatusFollows, AcceptsPayment,
                    RefsAreOwn, OneUnresolvedAttempt, Rows
<1>3. \A j \in Keys : payments[j] \in PaymentRows
  BY DEF TypeOK
<1>4. ASSUME NEW k \in Keys, SessionCompleted(k)
      PROVE  OneUnresolvedAttempt' /\ (\A j \in Keys : Follows(j)') /\ RefsAreOwn'
  <2>1. CASE UNCHANGED <<payments, booking, sessions>>
    BY <1>2, <2>1
  <2>2. CASE SettlesSession(k) /\ ~UNCHANGED <<payments, booking, sessions>>
    <3>1. /\ payments' = [payments EXCEPT ![k].status = "SUCCEEDED", ![k].ref = k]
          /\ booking' = [booking EXCEPT !.paymentStatus = "PAID"]
          /\ sessions' = [sessions EXCEPT ![k] = "COMPLETED"]
      BY <1>4, <2>2 DEF SessionCompleted
    <3>2. /\ payments'[k].status = "SUCCEEDED" /\ payments'[k].ref = k
          /\ \A j \in Keys : j # k => payments'[j] = payments[j]
          /\ sessions'[k] = "COMPLETED" /\ sessions[k] # "NONE"
          /\ \A j \in Keys : j # k => sessions'[j] = sessions[j]
          /\ booking'.paymentStatus = "PAID"
      BY <1>3, <2>2, <3>1 DEF SettlesSession, TypeOK, PaymentRows
    <3>3. <<"completed", k>> \in undelivered
      BY <1>4 DEF SessionCompleted, Accept
    <3>4. provider[k].session = "complete"
      BY <3>3 DEF Follows, SessionFollows
    <3>5. OneUnresolvedAttempt'
      BY <3>2 DEF OneUnresolvedAttempt, Rows
    <3>6. RefsAreOwn'
      BY <2>2, <3>2 DEF SettlesSession, RefsAreOwn
    <3>7. ASSUME NEW j \in Keys
          PROVE  Follows(j)'
      <4>1. SessionFollows(j)'
        BY <1>1, <3>2 DEF Follows, SessionFollows
      <4>2. PaymentFollows(j)'
        BY <1>1, <3>2, <3>4 DEF Follows, PaymentFollows
      <4>3. LookupFollows(j)'
        BY <1>1, <3>2 DEF Follows, LookupFollows
      <4>4. StatusFollows(j)'
        BY <3>2 DEF StatusFollows, AcceptsPayment
      <4>. QED BY <4>1, <4>2, <4>3, <4>4 DEF Follows
    <3>. QED BY <3>5, <3>6, <3>7
  <2>. QED BY <1>4, <2>1, <2>2 DEF SessionCompleted
<1>5. ASSUME NEW k \in Keys, SessionExpired(k)
      PROVE  OneUnresolvedAttempt' /\ (\A j \in Keys : Follows(j)') /\ RefsAreOwn'
  <2>1. provider[k].session = "expired"
    <3>1. <<"expired", k>> \in undelivered
      BY <1>5 DEF SessionExpired, Accept
    <3>. QED BY <3>1 DEF Follows, SessionFollows
  <2>2. \A j \in Keys : \/ sessions'[j] = sessions[j]
                        \/ j = k /\ sessions[j] = "OPEN" /\ sessions'[j] = "EXPIRED"
    BY <1>5 DEF SessionExpired, TypeOK
  <2>3. /\ booking'.paymentStatus = booking.paymentStatus
        /\ \A j \in Keys : \/ payments'[j] = payments[j]
                           \/ /\ IsClaim(j)
                              /\ payments'[j].status = "FAILED" /\ payments'[j].ref = ClaimReference
    BY <1>3, <1>5 DEF SessionExpired, ReleasesBooking, IsClaim, TypeOK, PaymentRows
  <2>4. OneUnresolvedAttempt' /\ RefsAreOwn'
    BY <2>3 DEF OneUnresolvedAttempt, Rows, RefsAreOwn, IsClaim
  <2>5. ASSUME NEW j \in Keys
        PROVE  Follows(j)'
    <3>1. SessionFollows(j)'
      BY <1>1, <2>1, <2>2 DEF Follows, SessionFollows
    <3>2. PaymentFollows(j)'
      BY <1>1, <2>2, <2>3, Names DEF Follows, PaymentFollows, IsClaim
    <3>3. LookupFollows(j)'
      BY <1>1, <2>3, Names DEF Follows, LookupFollows, IsClaim
    <3>4. StatusFollows(j)'
      BY <1>1, <2>3 DEF Follows, StatusFollows, AcceptsPayment, IsClaim
    <3>. QED BY <3>1, <3>2, <3>3, <3>4 DEF Follows
  <2>. QED BY <2>4, <2>5
<1>6. ASSUME NEW k \in Keys, NEW s \in IntentStatus, IntentEvent(k, s)
      PROVE  OneUnresolvedAttempt' /\ (\A j \in Keys : Follows(j)') /\ RefsAreOwn'
  <2>1. UNCHANGED <<sessions, booking>>
    BY <1>6 DEF IntentEvent
  <2>2. CASE UNCHANGED payments
    BY <1>2, <2>1, <2>2
  <2>3. ASSUME NEW j \in Candidates(k), ~IntentIgnored(j, s), KeepsPaymentStatus,
               payments' = [payments EXCEPT ![j].status = Reconciled(s), ![j].ref = k]
        PROVE  OneUnresolvedAttempt' /\ (\A i \in Keys : Follows(i)') /\ RefsAreOwn'
    <3>1. j \in Keys /\ (payments[j].ref = k \/ (IsClaim(j) /\ \A i \in Keys : payments[i].ref # k))
      <4>1. \A i \in Keys : payments[i].ref = k => payments[i].status # "NONE"
        BY Names DEF Follows, PaymentFollows
      <4>. DEFINE exact == {i \in Keys : payments[i].status # "NONE" /\ payments[i].ref = k}
      <4>2. j \in IF exact # {} THEN exact ELSE {i \in Keys : IsClaim(i)}
        BY <2>3 DEF Candidates
      <4>3. CASE exact # {}
        BY <4>2, <4>3
      <4>4. CASE exact = {}
        BY <4>1, <4>2, <4>4
      <4>. QED BY <4>3, <4>4
    <3>2. /\ payments'[j].status = Reconciled(s) /\ payments'[j].ref = k
          /\ \A i \in Keys : i # j => payments'[i] = payments[i]
      BY <1>3, <2>3, <3>1 DEF TypeOK, PaymentRows
    <3>3. /\ payments[j].status \in {"PENDING", "FAILED"}
          /\ Reconciled(s) = "SUCCEEDED" <=> s = "succeeded"
          /\ Reconciled(s) # "SUCCEEDED" => payments[j].status = "PENDING" /\ sessions[j] # "OPEN"
      <4>1. payments[j].status # "NONE" /\ payments[j].status \in {"NONE", "PENDING", "SUCCEEDED", "FAILED"}
        BY <1>3, <2>3, <3>1 DEF Candidates, IsClaim, PaymentRows
      <4>. QED BY <2>3, <4>1 DEF IntentIgnored, Reconciled
    <3>4. /\ <<s, k>> \in undelivered
          /\ s = "succeeded" => provider[k].session = "complete"
          /\ sessions[k] # "NONE"
      <4>1. <<s, k>> \in undelivered
        BY <1>6 DEF IntentEvent, Accept
      <4>. QED BY <4>1 DEF Follows, SessionFollows
    <3>5. OneUnresolvedAttempt'
      BY <3>1, <3>2, <3>3 DEF OneUnresolvedAttempt, Rows
    <3>6. RefsAreOwn'
      BY <3>1, <3>2 DEF RefsAreOwn
    \* A row of the event's own attempt, resolved without money: its session is not open, not
    \* unknown and not completed, hence it expired.
    <3>7. j = k /\ Reconciled(s) # "SUCCEEDED" => provider[k].session = "expired"
      <4>1. sessions[k] \in {"NONE", "OPEN", "COMPLETED", "EXPIRED"}
        BY DEF TypeOK
      <4>. QED BY <3>3, <3>4, <4>1 DEF Follows, PaymentFollows, SessionFollows
    <3>8. ASSUME NEW i \in Keys
          PROVE  Follows(i)'
      <4>1. SessionFollows(i)'
        BY <1>1, <2>1 DEF Follows, SessionFollows
      <4>2. PaymentFollows(i)'
        BY <1>1, <2>1, <3>2, <3>3, <3>4, <3>7, ReconciledStatus DEF Follows, PaymentFollows
      <4>3. LookupFollows(i)'
        <5>1. CASE i # j
          BY <1>1, <3>2, <5>1 DEF Follows, LookupFollows
        <5>2. CASE i = j /\ payments[j].ref = k
          BY <1>1, <3>2, <3>3, <5>2 DEF Follows, LookupFollows
        <5>3. CASE i = j /\ IsClaim(j)
          BY <1>1, <3>2, <5>3, Names DEF Follows, LookupFollows, IsClaim
        <5>. QED BY <3>1, <5>1, <5>2, <5>3
      <4>4. StatusFollows(i)'
        <5>1. CASE i # j
          BY <1>1, <2>1, <3>2, <5>1 DEF Follows, StatusFollows, AcceptsPayment
        <5>2. CASE i = j
          <6>1. payments[j].status = "PENDING" => booking.paymentStatus # "REFUNDED"
            BY <3>1 DEF Follows, StatusFollows
          <6>2. payments[j].status = "FAILED" /\ j = k => <<"completed", k>> \notin undelivered
            BY <3>1 DEF Follows, PaymentFollows, SessionFollows, IsClaim
          <6>. QED BY <1>1, <2>1, <2>3, <3>2, <3>3, <5>2, <6>1, <6>2 DEF StatusFollows, AcceptsPayment, KeepsPaymentStatus
        <5>. QED BY <5>1, <5>2
      <4>. QED BY <4>1, <4>2, <4>3, <4>4 DEF Follows
    <3>. QED BY <3>5, <3>6, <3>8
  <2>. QED BY <1>6, <2>2, <2>3 DEF IntentEvent
<1>. QED BY <1>4, <1>5, <1>6 DEF EventNext

----------------------------------------------------------------------------
\* Staff.

LEMMA StaffKeepsAttempts ==
    ASSUME AttemptInv, StaffNext
    PROVE  OneUnresolvedAttempt' /\ (\A k \in Keys : Follows(k)') /\ RefsAreOwn'
<1>. USE AttemptInvParts
<1>1. UNCHANGED <<sessions, provider, undelivered>>
  BY DEF StaffNext, LookUpIntent, ReconcileIntent, RecordManualOfflinePayment, RecordManualOfflineRefund,
         CancelBooking, ours
<1>2. ASSUME NEW k \in Keys, LookUpIntent(k)
      PROVE  OneUnresolvedAttempt' /\ (\A j \in Keys : Follows(j)') /\ RefsAreOwn'
  <2>1. UNCHANGED <<payments, booking>> /\ payments[k].status = "PENDING" /\ payments[k].ref \in Keys
    BY <1>2 DEF LookUpIntent, ours, TypeOK, PaymentRows
  <2>2. lookups' = lookups \cup {<<provider[payments[k].ref].intent, k>>}
    BY <1>2 DEF LookUpIntent
  <2>3. ASSUME NEW j \in Keys
        PROVE  Follows(j)'
    <3>1. SessionFollows(j)' /\ PaymentFollows(j)' /\ StatusFollows(j)'
      BY <1>1, <2>1 DEF Follows, SessionFollows, PaymentFollows, StatusFollows, AcceptsPayment
    <3>2. LookupFollows(j)'
      BY <1>1, <2>1, <2>2 DEF Follows, LookupFollows, SessionFollows
    <3>. QED BY <3>1, <3>2 DEF Follows
  <2>. QED BY <2>1, <2>3 DEF OneUnresolvedAttempt, Rows, RefsAreOwn
<1>3. ASSUME NEW k \in Keys, NEW s \in IntentStatus, ReconcileIntent(k, s)
      PROVE  OneUnresolvedAttempt' /\ (\A j \in Keys : Follows(j)') /\ RefsAreOwn'
  <2>1. booking' = booking /\ lookups' \subseteq lookups /\ <<s, k>> \in lookups
    BY <1>3 DEF ReconcileIntent
  <2>2. CASE UNCHANGED payments
    BY <1>1, <2>1, <2>2 DEF Follows, SessionFollows, PaymentFollows, LookupFollows, StatusFollows, AcceptsPayment,
                            RefsAreOwn, OneUnresolvedAttempt, Rows
  <2>3. CASE /\ payments[k].status = "PENDING"
             /\ KeepsPaymentStatus
             /\ payments' = [payments EXCEPT ![k].status = Reconciled(s)]
    <3>1. /\ payments'[k].status = Reconciled(s) /\ payments'[k].ref = payments[k].ref
          /\ \A j \in Keys : j # k => payments'[j] = payments[j]
      BY <2>3 DEF TypeOK, PaymentRows
    <3>2. /\ payments[k].ref \in Keys
          /\ Reconciled(s) = "SUCCEEDED" => provider[payments[k].ref].session = "complete"
      BY <2>1, <2>3 DEF Follows, LookupFollows, Reconciled
    <3>3. OneUnresolvedAttempt' /\ RefsAreOwn'
      BY <2>3, <3>1 DEF OneUnresolvedAttempt, Rows, RefsAreOwn
    <3>4. ASSUME NEW j \in Keys
          PROVE  Follows(j)'
      <4>1. SessionFollows(j)'
        BY <1>1 DEF Follows, SessionFollows
      <4>2. PaymentFollows(j)'
        BY <1>1, <2>3, <3>1, <3>2, ReconciledStatus DEF Follows, PaymentFollows
      <4>3. LookupFollows(j)'
        BY <1>1, <2>1, <2>3, <3>1 DEF Follows, LookupFollows
      <4>4. StatusFollows(j)'
        BY <1>1, <2>1, <2>3, <3>1 DEF Follows, StatusFollows, AcceptsPayment, KeepsPaymentStatus
      <4>. QED BY <4>1, <4>2, <4>3, <4>4 DEF Follows
    <3>. QED BY <3>3, <3>4
  <2>. QED BY <1>3, <2>2, <2>3 DEF ReconcileIntent
<1>4. ASSUME UNCHANGED <<payments, lookups>>,
             \A k \in Keys : payments[k].status = "PENDING" => booking'.paymentStatus # "REFUNDED",
             \A k \in Keys : payments[k].status = "SUCCEEDED" =>
                 /\ booking'.paymentStatus \notin {"UNPAID", "FAILED"}
                 /\ booking'.paymentStatus = "REFUNDED" => booking.paymentStatus = "REFUNDED"
      PROVE  OneUnresolvedAttempt' /\ (\A k \in Keys : Follows(k)') /\ RefsAreOwn'
  <2>1. ASSUME NEW k \in Keys
        PROVE  Follows(k)'
    <3>1. SessionFollows(k)' /\ PaymentFollows(k)' /\ LookupFollows(k)'
      BY <1>1, <1>4 DEF Follows, SessionFollows, PaymentFollows, LookupFollows
    <3>2. StatusFollows(k)'
      BY <1>1, <1>4 DEF Follows, StatusFollows, AcceptsPayment
    <3>. QED BY <3>1, <3>2 DEF Follows
  <2>. QED BY <1>4, <2>1 DEF OneUnresolvedAttempt, Rows, RefsAreOwn
<1>5. CASE RecordManualOfflinePayment
  <2>1. UNCHANGED <<payments, lookups>> /\ booking'.paymentStatus = "PAID"
    BY <1>5 DEF RecordManualOfflinePayment, TypeOK
  <2>. QED BY <1>4, <2>1
<1>6. ASSUME NEW amount \in 1..Total, RecordManualOfflineRefund(amount)
      PROVE  OneUnresolvedAttempt' /\ (\A k \in Keys : Follows(k)') /\ RefsAreOwn'
  <2>1. UNCHANGED <<payments, lookups>>
    BY <1>6 DEF RecordManualOfflineRefund
  <2>2. \A k \in Keys : payments[k].status \notin {"PENDING", "SUCCEEDED"}
    BY <1>6 DEF RecordManualOfflineRefund, ManuallyRefundable, Rows
  <2>. QED BY <1>4, <2>1, <2>2
<1>7. CASE CancelBooking
  <2>1. UNCHANGED <<payments, lookups>> /\ booking'.paymentStatus = booking.paymentStatus
    BY <1>7 DEF CancelBooking, TypeOK
  <2>. QED BY <1>4, <2>1 DEF Follows, StatusFollows, AcceptsPayment
<1>. QED BY <1>2, <1>3, <1>5, <1>6, <1>7 DEF StaffNext

----------------------------------------------------------------------------
\* What follows for the attempts.

LEMMA AttemptInit == Init => AttemptInv
<1>. SUFFICES ASSUME Init PROVE AttemptInv
  OBVIOUS
<1>1. OneUnresolvedAttempt /\ RefsAreOwn
  BY DEF Init, OneUnresolvedAttempt, Rows, RefsAreOwn
<1>2. ASSUME NEW k \in Keys
      PROVE  Follows(k)
  BY DEF Init, Follows, SessionFollows, PaymentFollows, LookupFollows, StatusFollows
<1>. QED BY <1>1, <1>2, TypeInit, AttemptInvParts

LEMMA AttemptStep == AttemptInv /\ [Next]_vars => AttemptInv'
<1>. SUFFICES ASSUME AttemptInv, [Next]_vars
              PROVE  OneUnresolvedAttempt' /\ (\A k \in Keys : Follows(k)') /\ RefsAreOwn'
  <2>1. AttemptInv' <=> (TypeOK /\ OneUnresolvedAttempt /\ (\A k \in Keys : Follows(k)) /\ RefsAreOwn)'
    BY DEF AttemptInv, AttemptsFollowProvider, Follows, RefsAreOwn
  <2>. QED BY <2>1, TypeStep DEF AttemptInv
<1>1. CASE Tick \/ UNCHANGED vars
  <2>1. UNCHANGED <<payments, sessions, booking, provider, undelivered, lookups>>
    BY <1>1 DEF Tick, vars, ours
  <2>. QED BY <2>1, AttemptInvParts DEF Follows, SessionFollows, PaymentFollows, LookupFollows, StatusFollows,
              AcceptsPayment, RefsAreOwn, OneUnresolvedAttempt, Rows
<1>. QED BY <1>1, RequestKeepsAttempts, ProviderKeepsAttempts, EventKeepsAttempts, StaffKeepsAttempts DEF Next

\* At most one attempt is unresolved, and every attempt agrees with the provider, whatever is
\* in flight, repeated or reordered.
THEOREM AttemptsAgree == Spec => []AttemptsAgreeWithProvider
<1>1. AttemptInv => AttemptsAgreeWithProvider
  BY DEF AttemptInv, AttemptsAgreeWithProvider
<1>. QED BY <1>1, AttemptInit, AttemptStep, PTL DEF Spec

\* A payment counts as successful only if the provider took its money, and counts once.
THEOREM SuccessIsReal == Spec => []SuccessIsProviderTruth
<1>1. AttemptInv => SuccessIsProviderTruth
  <2>. SUFFICES ASSUME AttemptInv, NEW k \in Rows("SUCCEEDED")
                PROVE  /\ payments[k].ref \in Keys
                       /\ provider[payments[k].ref].intent = "succeeded"
                       /\ \A j \in Rows("SUCCEEDED") : payments[j].ref = payments[k].ref => j = k
    BY DEF SuccessIsProviderTruth
  <2>1. k \in Keys /\ payments[k].status = "SUCCEEDED"
    BY DEF Rows
  <2>2. payments[k].ref \in Keys /\ provider[payments[k].ref].session = "complete"
    BY <2>1, AttemptInvParts DEF Follows, PaymentFollows
  <2>3. provider[payments[k].ref].intent = "succeeded"
    BY <2>2, AttemptInvParts DEF Follows, SessionFollows
  <2>4. \A j \in Rows("SUCCEEDED") : payments[j].ref = payments[k].ref => j = k
    BY <2>1, <2>2, Names, AttemptInvParts DEF Rows, RefsAreOwn
  <2>. QED BY <2>2, <2>3, <2>4
<1>. QED BY <1>1, AttemptInit, AttemptStep, PTL DEF Spec

\* A successful payment keeps its row.
LEMMA SuccessStep ==
    ASSUME TypeOK, [Next]_vars, NEW k \in Rows("SUCCEEDED")
    PROVE  payments'[k] = payments[k]
<1>1. k \in Keys /\ payments[k] \in PaymentRows /\ payments[k].status = "SUCCEEDED"
  BY DEF Rows, TypeOK
<1>2. CASE RequestNext
  BY <1>1, <1>2 DEF RequestNext, ClaimCheckout, PersistCheckoutSession, MarkCheckoutClaimFailed,
                          AbandonCall, IsClaim, ours, TypeOK
<1>3. CASE ProviderNext \/ Tick \/ UNCHANGED vars
  BY <1>1, <1>3 DEF ProviderNext, ProviderAnswers, ProviderRefuses, AttemptCard, Pay, ExpireSession,
                    CancelIntent, Tick, ours, vars
<1>4. ASSUME NEW j \in Keys, SessionCompleted(j)
      PROVE  payments'[k] = payments[k]
  BY <1>1, <1>4 DEF SessionCompleted, SettlesSession, TypeOK, PaymentRows
<1>5. ASSUME NEW j \in Keys, SessionExpired(j)
      PROVE  payments'[k] = payments[k]
  BY <1>1, <1>5 DEF SessionExpired, ReleasesBooking, IsClaim, TypeOK
<1>6. ASSUME NEW j \in Keys, NEW s \in IntentStatus, IntentEvent(j, s)
      PROVE  payments'[k] = payments[k]
  BY <1>1, <1>6 DEF IntentEvent, IntentIgnored, TypeOK
<1>7. CASE StaffNext
  BY <1>1, <1>7 DEF StaffNext, LookUpIntent, ReconcileIntent, RecordManualOfflinePayment,
                          RecordManualOfflineRefund, CancelBooking, ours, TypeOK
<1>. QED BY <1>1, <1>2, <1>3, <1>4, <1>5, <1>6, <1>7 DEF Next, EventNext

\* Late, repeated and reordered events leave a successful payment as it is.
THEOREM SuccessStays == Spec => SuccessIsFinal
<1>1. TypeOK /\ [Next]_vars => [\A k \in Rows("SUCCEEDED") : payments'[k] = payments[k]]_vars
  BY SuccessStep
<1>. QED BY <1>1, TypeCorrect, PTL DEF Spec, SuccessIsFinal

----------------------------------------------------------------------------
\* The contract that the rest of the system is built on.

\* What the contract sees of the payment and of the attempts.
Payment == IF AcceptsPayment THEN "OPEN"
           ELSE IF booking.paymentStatus = "REFUNDED" THEN "REFUNDED" ELSE "SETTLED"
Checkout == IF Rows("PENDING") # {} THEN "PENDING"
            ELSE IF Rows("FAILED") # {} THEN "FAILED" ELSE "NONE"

\* The contract sees rows only through their statuses.
LEMMA SameStatuses ==
    ASSUME \A k \in Keys : payments'[k].status = payments[k].status
    PROVE  Rows("PENDING")' = Rows("PENDING") /\ Rows("FAILED")' = Rows("FAILED") /\ Checkout' = Checkout
BY DEF Rows, Checkout

LEMMA Unseen ==
    ASSUME booking'.status = booking.status, Payment' = Payment,
           \A k \in Keys : payments'[k].status = payments[k].status
    PROVE  UNCHANGED Contract!vars
BY SameStatuses DEF Contract!vars, Payment, Checkout

LEMMA Untouched ==
    ASSUME UNCHANGED <<booking, payments>>
    PROVE  UNCHANGED Contract!vars
BY Unseen DEF Payment, AcceptsPayment

\* One row changes its status.
LEMMA Fails ==
    ASSUME AttemptInv, NEW k \in Keys, payments[k].status = "PENDING", payments'[k].status = "FAILED",
           \A j \in Keys : j # k => payments'[j] = payments[j],
           booking'.status = booking.status, Payment' = Payment
    PROVE  Contract!FailCheckout
<1>1. Checkout = "PENDING"
  BY DEF Checkout, Rows
<1>2. Rows("PENDING")' = {}
  BY DEF AttemptInv, OneUnresolvedAttempt, Rows
<1>3. Rows("FAILED")' # {}
  BY DEF Rows
<1>4. Checkout' = "FAILED"
  BY <1>2, <1>3 DEF Checkout
<1>. QED BY <1>1, <1>4 DEF Contract!FailCheckout, Payment, Checkout

LEMMA Settles ==
    ASSUME NEW k \in Keys, payments[k].status \in {"PENDING", "FAILED"}, payments'[k].status = "SUCCEEDED",
           \A j \in Keys : j # k => payments'[j] = payments[j],
           booking.status = "CONFIRMED", booking'.status = booking.status,
           Payment' = "SETTLED" \/ (Payment # "OPEN" /\ Payment' = Payment)
    PROVE  Contract!Settle
<1>1. Checkout # "NONE"
  BY DEF Checkout, Rows
<1>2. Rows("PENDING")' \subseteq Rows("PENDING")
  BY DEF Rows
<1>3. Checkout' \in {"NONE", "FAILED", Checkout}
  BY <1>2 DEF Checkout
<1>. QED BY <1>1, <1>3 DEF Contract!Settle, Payment, Checkout

----------------------------------------------------------------------------
\* Each group of actions.

LEMMA RequestKeepsContract ==
    ASSUME AttemptInv, RequestNext
    PROVE  Contract!Next \/ UNCHANGED Contract!vars
<1>1. ASSUME NEW k \in Keys, ClaimCheckout(k)
      PROVE  Contract!Next \/ UNCHANGED Contract!vars
  <2>1. CASE UNCHANGED payments
    BY <1>1, <2>1, Untouched DEF ClaimCheckout
  <2>2. CASE /\ Rows("PENDING") = {}
             /\ payments' = [payments EXCEPT ![k] =
                               [status |-> "PENDING", ref |-> ClaimReference, createdAt |-> clock]]
    <3>1. booking.status \in Contract!Live /\ Payment = "OPEN" /\ UNCHANGED booking
      BY <1>1 DEF ClaimCheckout, Contract!Live, Payment
    <3>2. payments'[k].status = "PENDING"
      BY <2>2 DEF AttemptInv, TypeOK
    <3>3. Checkout # "PENDING" /\ Checkout' = "PENDING"
      BY <2>2, <3>2 DEF Checkout, Rows
    <3>4. Payment' = Payment
      BY <3>1 DEF Payment, AcceptsPayment
    <3>5. Contract!StartCheckout
      BY <3>1, <3>3, <3>4 DEF Contract!StartCheckout, Payment, Checkout
    <3>. QED BY <3>5 DEF Contract!Next
  <2>. QED BY <1>1, <2>1, <2>2 DEF ClaimCheckout
<1>2. ASSUME NEW c \in calls, PersistCheckoutSession(c)
      PROVE  Contract!Next \/ UNCHANGED Contract!vars
  <2>1. UNCHANGED payments
    BY <1>2 DEF PersistCheckoutSession
  <2>2. CASE UNCHANGED booking
    BY <2>1, <2>2, Untouched
  <2>3. CASE /\ IsClaim(c.key) /\ booking.status = "PENDING_CONFIRMATION" /\ AcceptsPayment
             /\ booking' = [booking EXCEPT !.status = "CONFIRMED"]
    <3>1. c.key \in Keys
      BY DEF AttemptInv, TypeOK, Calls
    <3>2. Checkout = "PENDING" /\ Checkout' = Checkout
      BY <2>1, <2>3, <3>1, SameStatuses DEF IsClaim, Checkout, Rows
    <3>3. booking'.status = "CONFIRMED" /\ booking'.paymentStatus = booking.paymentStatus
      BY <2>3 DEF AttemptInv, TypeOK
    <3>4. Payment = "OPEN" /\ Payment' = Payment
      BY <2>3, <3>3 DEF Payment, AcceptsPayment
    <3>5. Contract!Promote
      BY <2>3, <3>2, <3>3, <3>4 DEF Contract!Promote, Payment, Checkout
    <3>. QED BY <3>5 DEF Contract!Next
  <2>. QED BY <1>2, <2>2, <2>3 DEF PersistCheckoutSession
<1>3. ASSUME NEW c \in calls, MarkCheckoutClaimFailed(c)
      PROVE  Contract!Next \/ UNCHANGED Contract!vars
  <2>1. CASE UNCHANGED <<payments, booking>>
    BY <2>1, Untouched
  <2>2. CASE /\ IsClaim(c.key)
             /\ payments' = [payments EXCEPT ![c.key].status = "FAILED"]
             /\ booking' = IF booking.status # "CANCELLED" /\ AcceptsPayment
                              THEN [booking EXCEPT !.paymentStatus = "FAILED"] ELSE booking
    <3>1. c.key \in Keys
      BY DEF AttemptInv, TypeOK, Calls
    <3>2. /\ payments[c.key].status = "PENDING" /\ payments'[c.key].status = "FAILED"
          /\ \A j \in Keys : j # c.key => payments'[j] = payments[j]
      BY <2>2, <3>1 DEF IsClaim, AttemptInv, TypeOK, PaymentRows
    <3>3. booking'.status = booking.status /\ Payment' = Payment
      BY <2>2 DEF AttemptInv, TypeOK, Payment, AcceptsPayment
    <3>. QED BY <3>1, <3>2, <3>3, Fails DEF Contract!Next
  <2>. QED BY <1>3, <2>1, <2>2 DEF MarkCheckoutClaimFailed
<1>4. ASSUME NEW c \in calls, AbandonCall(c)
      PROVE  UNCHANGED Contract!vars
  BY <1>4, Untouched DEF AbandonCall, ours
<1>. QED BY <1>1, <1>2, <1>3, <1>4 DEF RequestNext

\* A row that an event or a lookup reconciles while the booking is settled otherwise.
LEMMA ReconciliationKeepsContract ==
    ASSUME AttemptInv, NEW k \in Keys, NEW s,
           booking.status = "CONFIRMED", KeepsPaymentStatus, UNCHANGED booking,
           payments[k].status = "PENDING" \/ (payments[k].status = "FAILED" /\ s = "succeeded"),
           payments'[k].status = Reconciled(s),
           \A j \in Keys : j # k => payments'[j] = payments[j]
    PROVE  Contract!Next \/ UNCHANGED Contract!vars
<1>1. Payment # "OPEN" /\ Payment' = Payment
  BY DEF Payment, AcceptsPayment, KeepsPaymentStatus
<1>2. CASE Reconciled(s) = "SUCCEEDED"
  BY <1>1, <1>2, Settles DEF Contract!Next
<1>3. CASE Reconciled(s) = "FAILED"
  <2>1. payments[k].status = "PENDING"
    BY <1>3 DEF Reconciled
  <2>. QED BY <1>1, <1>3, <2>1, Fails DEF Contract!Next
<1>4. CASE Reconciled(s) = "PENDING"
  <2>1. payments[k].status = "PENDING"
    BY <1>4 DEF Reconciled
  <2>. QED BY <1>1, <1>4, <2>1, Unseen
<1>. QED BY <1>2, <1>3, <1>4 DEF Reconciled

LEMMA EventKeepsContract ==
    ASSUME AttemptInv, EventNext
    PROVE  Contract!Next \/ UNCHANGED Contract!vars
<1>1. ASSUME NEW k \in Keys, SessionCompleted(k)
      PROVE  Contract!Next \/ UNCHANGED Contract!vars
  <2>1. CASE UNCHANGED <<payments, booking>>
    BY <2>1, Untouched
  <2>2. CASE /\ SettlesSession(k)
             /\ payments' = [payments EXCEPT ![k].status = "SUCCEEDED", ![k].ref = k]
             /\ booking' = [booking EXCEPT !.paymentStatus = "PAID"]
    <3>1. /\ payments'[k].status = "SUCCEEDED"
          /\ \A j \in Keys : j # k => payments'[j] = payments[j]
      BY <2>2 DEF AttemptInv, TypeOK, PaymentRows
    <3>2. booking.status = "CONFIRMED" /\ booking'.status = booking.status /\ booking'.paymentStatus = "PAID"
      BY <2>2 DEF SettlesSession, AttemptInv, TypeOK
    <3>3. Payment' = "SETTLED"
      BY <3>2 DEF Payment, AcceptsPayment
    <3>4. payments[k].status \in {"PENDING", "FAILED", "SUCCEEDED"}
      <4>1. sessions[k] # "NONE"
        BY <2>2 DEF SettlesSession
      <4>. QED BY <4>1, AttemptInvParts DEF Follows, PaymentFollows, TypeOK, PaymentRows
    <3>5. CASE payments[k].status = "SUCCEEDED"
      <4>1. <<"completed", k>> \in undelivered
        BY <1>1 DEF SessionCompleted, Accept
      <4>2. payments[k].ref = k
        BY <2>2, <3>5 DEF SettlesSession
      <4>3. Payment = "SETTLED"
        BY <3>5, <4>1, <4>2, AttemptInvParts DEF Follows, StatusFollows, Payment
      <4>. QED BY <3>1, <3>2, <3>3, <3>5, <4>3, Unseen
    <3>6. CASE payments[k].status \in {"PENDING", "FAILED"}
      BY <3>1, <3>2, <3>3, <3>6, Settles DEF Contract!Next
    <3>. QED BY <3>4, <3>5, <3>6
  <2>. QED BY <1>1, <2>1, <2>2 DEF SessionCompleted
<1>2. ASSUME NEW k \in Keys, SessionExpired(k)
      PROVE  Contract!Next \/ UNCHANGED Contract!vars
  <2>1. CASE UNCHANGED <<payments, booking>>
    BY <2>1, Untouched
  <2>2. CASE /\ ReleasesBooking(k)
             /\ payments' = [payments EXCEPT ![k].status = "FAILED"]
             /\ booking' = [booking EXCEPT !.status = "CANCELLED"]
    <3>1. payments[k].status = "PENDING" /\ booking.status = "CONFIRMED" /\ Payment = "OPEN"
      BY <2>2 DEF ReleasesBooking, IsClaim, Payment
    <3>2. /\ payments'[k].status = "FAILED"
          /\ \A j \in Keys : j # k => payments'[j] = payments[j]
      BY <2>2 DEF AttemptInv, TypeOK, PaymentRows
    <3>3. booking'.status = "CANCELLED" /\ Payment' = Payment
      BY <2>2 DEF AttemptInv, TypeOK, Payment, AcceptsPayment
    <3>4. Rows("PENDING")' = {} /\ Rows("FAILED")' # {} /\ Rows("PENDING") # {}
      BY <3>1, <3>2 DEF AttemptInv, OneUnresolvedAttempt, Rows
    <3>5. Checkout = "PENDING" /\ Checkout' = "FAILED"
      BY <3>4 DEF Checkout
    <3>6. Contract!ExpireCheckout
      BY <3>1, <3>3, <3>5 DEF Contract!ExpireCheckout, Payment, Checkout
    <3>. QED BY <3>6 DEF Contract!Next
  <2>. QED BY <1>2, <2>1, <2>2 DEF SessionExpired
<1>3. ASSUME NEW k \in Keys, NEW s \in IntentStatus, IntentEvent(k, s)
      PROVE  Contract!Next \/ UNCHANGED Contract!vars
  <2>1. UNCHANGED booking
    BY <1>3 DEF IntentEvent
  <2>2. CASE UNCHANGED payments
    BY <2>1, <2>2, Untouched
  <2>3. CASE /\ booking.status = "CONFIRMED" /\ KeepsPaymentStatus
             /\ \E j \in Candidates(k) :
                  /\ ~IntentIgnored(j, s)
                  /\ payments' = [payments EXCEPT ![j].status = Reconciled(s), ![j].ref = k]
    <3>1. PICK j \in Candidates(k) :
                  /\ ~IntentIgnored(j, s)
                  /\ payments' = [payments EXCEPT ![j].status = Reconciled(s), ![j].ref = k]
      BY <2>3
    <3>2. j \in Keys /\ payments[j].status # "NONE"
      BY DEF Candidates, IsClaim
    <3>3. payments[j].status = "PENDING" \/ (payments[j].status = "FAILED" /\ s = "succeeded")
      BY <3>1, <3>2 DEF IntentIgnored, AttemptInv, TypeOK, PaymentRows
    <3>4. /\ payments'[j].status = Reconciled(s)
          /\ \A i \in Keys : i # j => payments'[i] = payments[i]
      BY <3>1, <3>2 DEF AttemptInv, TypeOK, PaymentRows
    <3>. QED BY <2>1, <2>3, <3>2, <3>3, <3>4, ReconciliationKeepsContract
  <2>. QED BY <1>3, <2>2, <2>3 DEF IntentEvent
<1>. QED BY <1>1, <1>2, <1>3 DEF EventNext

LEMMA StaffKeepsContract ==
    ASSUME AttemptInv, StaffNext
    PROVE  Contract!Next \/ UNCHANGED Contract!vars
<1>1. ASSUME NEW k \in Keys, LookUpIntent(k)
      PROVE  UNCHANGED Contract!vars
  BY <1>1, Untouched DEF LookUpIntent, ours
<1>2. ASSUME NEW k \in Keys, NEW s \in IntentStatus, ReconcileIntent(k, s)
      PROVE  Contract!Next \/ UNCHANGED Contract!vars
  <2>1. UNCHANGED booking
    BY <1>2 DEF ReconcileIntent
  <2>2. CASE UNCHANGED payments
    BY <2>1, <2>2, Untouched
  <2>3. CASE /\ payments[k].status = "PENDING" /\ booking.status = "CONFIRMED" /\ KeepsPaymentStatus
             /\ payments' = [payments EXCEPT ![k].status = Reconciled(s)]
    <3>1. /\ payments'[k].status = Reconciled(s)
          /\ \A j \in Keys : j # k => payments'[j] = payments[j]
      BY <2>3 DEF AttemptInv, TypeOK, PaymentRows
    <3>. QED BY <2>1, <2>3, <3>1, ReconciliationKeepsContract
  <2>. QED BY <1>2, <2>2, <2>3 DEF ReconcileIntent
<1>3. CASE RecordManualOfflinePayment
  <2>1. booking.status = "CONFIRMED" /\ Payment = "OPEN"
    BY <1>3 DEF RecordManualOfflinePayment, Payment
  <2>2. booking'.status = booking.status /\ Payment' = "SETTLED"
    BY <1>3 DEF RecordManualOfflinePayment, AttemptInv, TypeOK, Payment, AcceptsPayment
  <2>3. Checkout' = Checkout
    BY <1>3, SameStatuses DEF RecordManualOfflinePayment
  <2>4. Contract!PayOffline
    BY <2>1, <2>2, <2>3 DEF Contract!PayOffline, Payment, Checkout
  <2>. QED BY <2>4 DEF Contract!Next
<1>4. ASSUME NEW amount \in 1..Total, RecordManualOfflineRefund(amount)
      PROVE  Contract!Next \/ UNCHANGED Contract!vars
  <2>1. /\ booking.status = "CONFIRMED" /\ Payment = "SETTLED" /\ Checkout # "PENDING"
        /\ UNCHANGED payments
    BY <1>4 DEF RecordManualOfflineRefund, ManuallyRefundable, Payment, AcceptsPayment, Checkout
  <2>2. booking'.status = booking.status /\ booking'.paymentStatus \in {"PAID", "REFUNDED", "PARTIALLY_REFUNDED"}
    BY <1>4 DEF RecordManualOfflineRefund, AttemptInv, TypeOK, StatusOfNet
  <2>3. Checkout' = Checkout
    BY <2>1, SameStatuses
  <2>4. CASE booking'.paymentStatus = "REFUNDED"
    <3>1. Payment' = "REFUNDED"
      BY <2>4 DEF Payment, AcceptsPayment
    <3>2. Contract!RefundAll
      BY <2>1, <2>2, <2>3, <3>1 DEF Contract!RefundAll, Payment, Checkout
    <3>. QED BY <3>2 DEF Contract!Next
  <2>5. CASE booking'.paymentStatus # "REFUNDED"
    <3>1. Payment' = Payment
      BY <2>1, <2>2, <2>5 DEF Payment, AcceptsPayment
    <3>. QED BY <2>1, <2>2, <3>1, Unseen
  <2>. QED BY <2>4, <2>5
<1>5. CASE CancelBooking
  <2>1. /\ booking.status \in Contract!Live /\ Payment \in {"OPEN", "REFUNDED"}
        /\ Checkout # "PENDING"
    BY <1>5 DEF CancelBooking, Contract!Live, Payment, AcceptsPayment, Checkout
  <2>2. booking'.status = "CANCELLED" /\ Payment' = Payment
    BY <1>5 DEF CancelBooking, AttemptInv, TypeOK, Payment, AcceptsPayment
  <2>3. Checkout' = Checkout
    BY <1>5, SameStatuses DEF CancelBooking
  <2>4. Contract!Cancel
    BY <2>1, <2>2, <2>3 DEF Contract!Cancel, Payment, Checkout
  <2>. QED BY <2>4 DEF Contract!Next
<1>. QED BY <1>1, <1>2, <1>3, <1>4, <1>5 DEF StaffNext

----------------------------------------------------------------------------
\* The refinement.

LEMMA InitKeepsContract ==
    ASSUME Init
    PROVE  Contract!Init
<1>1. Rows("PENDING") = {} /\ Rows("FAILED") = {}
  BY DEF Init, Rows
<1>. QED BY <1>1 DEF Init, Contract!Init, Contract!Live, AcceptsPayment

LEMMA StepKeepsContract ==
    ASSUME AttemptInv, [Next]_vars
    PROVE  Contract!Next \/ UNCHANGED Contract!vars
<1>1. CASE Tick \/ ProviderNext \/ UNCHANGED vars
  <2>1. UNCHANGED <<booking, payments>>
    BY <1>1 DEF Tick, ProviderNext, ProviderAnswers, ProviderRefuses, AttemptCard, Pay, ExpireSession,
                CancelIntent, vars, ours
  <2>. QED BY <2>1, Untouched
<1>. QED BY <1>1, RequestKeepsContract, EventKeepsContract, StaffKeepsContract DEF Next

\* The requests of guests and staff, the provider's events in any order, and the lookups
\* together keep the contract that the inventory's bookings rely on.
THEOREM ServicesKeepContract == Spec => KeepsPaymentContract
<1>1. Init => Contract!Init
  BY InitKeepsContract
<1>2. AttemptInv /\ [Next]_vars => [Contract!Next]_(Contract!vars)
  BY StepKeepsContract
<1>. QED BY <1>1, <1>2, AttemptInit, AttemptStep, PTL DEF Spec, KeepsPaymentContract, Contract!Spec

----------------------------------------------------------------------------
\* The booking and the money of its ledger.

\* A successful row under its own PaymentIntent, as a completed session leaves it.
OwnSuccess(k) == payments[k].status = "SUCCEEDED" /\ payments[k].ref = k

\* Nothing but an event recorded under another attempt can bring money now.
NoMoneyComes == Rows("PENDING") = {} /\ \A k \in Keys : ~OwnSuccess(k)

OfflineFollows ==
    /\ ~offline => refunded = 0
    /\ offline => ~AcceptsPayment

PaidFollows == booking.paymentStatus = "PAID" => Rows("SUCCEEDED") # {} \/ (offline /\ refunded = 0)

\* Money is given back only where nothing is unresolved and no provider settled.
RefundFollows ==
    /\ booking.paymentStatus \in {"PARTIALLY_REFUNDED", "REFUNDED"} => NoMoneyComes /\ offline
    /\ booking.paymentStatus = "PARTIALLY_REFUNDED" => 0 < refunded /\ refunded < Total
    /\ booking.paymentStatus = "REFUNDED" => refunded = Total

CancelFollows == booking.status = "CANCELLED" => NoMoneyComes /\ (offline => refunded = Total)

\* The strengthening of StatusMatchesLedger and CancelledKeepsNoMoney.
MoneyInv == AttemptInv /\ OfflineFollows /\ PaidFollows /\ RefundFollows /\ CancelFollows

\* No successful payment while the booking still accepts one.
LEMMA OpenHasNoSuccess ==
    ASSUME AttemptInv, AcceptsPayment
    PROVE  Rows("SUCCEEDED") = {} /\ \A k \in Keys : ~OwnSuccess(k)
BY AttemptInvParts DEF Follows, StatusFollows, Rows, OwnSuccess

\* What a step may do to the rows: a new attempt is claimed only while the booking accepts a
\* payment; an attempt succeeds under its own name only with the event that settles the
\* booking, or out of one that was unresolved.
RowsMayChange ==
    \A k \in Keys :
        /\ payments'[k].status = "PENDING" =>
             payments[k].status = "PENDING" \/ (AcceptsPayment /\ booking.status # "CANCELLED")
        /\ OwnSuccess(k)' =>
             \/ OwnSuccess(k)
             \/ booking'.paymentStatus = "PAID" /\ booking'.status = "CONFIRMED"
             \/ Rows("PENDING") # {} /\ UNCHANGED booking

LEMMA RowsStep ==
    ASSUME AttemptInv, [Next]_vars
    PROVE  RowsMayChange
<1>. USE AttemptInvParts
<1>1. \A k \in Keys : payments[k] \in PaymentRows
  BY DEF TypeOK
<1>2. CASE UNCHANGED payments
  BY <1>2 DEF RowsMayChange, OwnSuccess
<1>3. ASSUME NEW k \in Keys, ClaimCheckout(k)
      PROVE  RowsMayChange
  BY <1>1, <1>3, Names DEF ClaimCheckout, RowsMayChange, OwnSuccess, TypeOK
<1>4. ASSUME NEW k \in Keys, payments'[k].status = "FAILED",
             \A j \in Keys : j # k => payments'[j] = payments[j]
      PROVE  RowsMayChange
  BY <1>4 DEF RowsMayChange, OwnSuccess
<1>5. ASSUME NEW c \in calls, MarkCheckoutClaimFailed(c)
      PROVE  RowsMayChange
  <2>1. CASE payments' = [payments EXCEPT ![c.key].status = "FAILED"]
    <3>1. c.key \in Keys
      BY DEF TypeOK, Calls
    <3>2. payments'[c.key].status = "FAILED" /\ \A j \in Keys : j # c.key => payments'[j] = payments[j]
      BY <1>1, <2>1, <3>1 DEF TypeOK, PaymentRows
    <3>. QED BY <1>4, <3>1, <3>2
  <2>. QED BY <1>2, <1>5, <2>1 DEF MarkCheckoutClaimFailed
<1>6. ASSUME NEW k \in Keys, SessionCompleted(k)
      PROVE  RowsMayChange
  <2>1. CASE /\ SettlesSession(k)
             /\ payments' = [payments EXCEPT ![k].status = "SUCCEEDED", ![k].ref = k]
             /\ booking' = [booking EXCEPT !.paymentStatus = "PAID"]
    <3>1. booking'.paymentStatus = "PAID" /\ booking'.status = "CONFIRMED"
      BY <2>1 DEF SettlesSession, TypeOK
    <3>2. payments'[k].status = "SUCCEEDED" /\ \A j \in Keys : j # k => payments'[j] = payments[j]
      BY <1>1, <2>1 DEF TypeOK, PaymentRows
    <3>. QED BY <3>1, <3>2 DEF RowsMayChange
  <2>. QED BY <1>2, <1>6, <2>1 DEF SessionCompleted
<1>7. ASSUME NEW k \in Keys, SessionExpired(k)
      PROVE  RowsMayChange
  <2>1. CASE payments' = [payments EXCEPT ![k].status = "FAILED"]
    <3>1. payments'[k].status = "FAILED" /\ \A j \in Keys : j # k => payments'[j] = payments[j]
      BY <1>1, <2>1 DEF TypeOK, PaymentRows
    <3>. QED BY <1>4, <3>1
  <2>. QED BY <1>2, <1>7, <2>1 DEF SessionExpired
<1>8. ASSUME NEW k \in Keys, NEW s \in IntentStatus, IntentEvent(k, s)
      PROVE  RowsMayChange
  <2>1. ASSUME NEW j \in Candidates(k), ~IntentIgnored(j, s),
               payments' = [payments EXCEPT ![j].status = Reconciled(s), ![j].ref = k]
        PROVE  RowsMayChange
    <3>1. j \in Keys /\ (payments[j].ref = k \/ IsClaim(j))
      <4>. DEFINE exact == {i \in Keys : payments[i].status # "NONE" /\ payments[i].ref = k}
      <4>1. j \in IF exact # {} THEN exact ELSE {i \in Keys : IsClaim(i)}
        BY <2>1 DEF Candidates
      <4>2. CASE exact # {}
        BY <4>1, <4>2
      <4>3. CASE exact = {}
        BY <4>1, <4>3
      <4>. QED BY <4>2, <4>3
    <3>2. /\ payments'[j].status = Reconciled(s) /\ payments'[j].ref = k
          /\ \A i \in Keys : i # j => payments'[i] = payments[i]
      BY <1>1, <2>1, <3>1 DEF TypeOK, PaymentRows
    <3>3. payments[j].status = "FAILED" \/ payments[j].status = "PENDING"
      BY <1>1, <2>1, <3>1, Names DEF IntentIgnored, PaymentRows, Follows, PaymentFollows, IsClaim
    <3>4. Reconciled(s) = "PENDING" => payments[j].status = "PENDING"
      BY <2>1, <3>3 DEF IntentIgnored, Reconciled
    <3>5. <<s, k>> \in undelivered /\ UNCHANGED booking
      BY <1>8 DEF IntentEvent, Accept
    \* A row of the event's own attempt, not yet successful: its session expired, and the
    \* event says nothing of money.
    <3>6. CASE j = k /\ payments[j].ref = k
      <4>1. provider[k].session = "expired"
        BY <3>3, <3>6 DEF Follows, PaymentFollows
      <4>2. s # "succeeded"
        BY <3>5, <4>1 DEF Follows, SessionFollows
      <4>3. Reconciled(s) # "SUCCEEDED"
        BY <4>2 DEF Reconciled
      <4>. QED BY <3>2, <3>4, <3>6, <4>3 DEF RowsMayChange, OwnSuccess
    <3>7. CASE IsClaim(j)
      <4>1. Rows("PENDING") # {}
        BY <3>1, <3>7 DEF Rows, IsClaim
      <4>. QED BY <3>2, <3>4, <3>5, <4>1 DEF RowsMayChange, OwnSuccess
    <3>8. CASE j # k
      BY <3>2, <3>4, <3>8 DEF RowsMayChange, OwnSuccess
    <3>. QED BY <3>1, <3>6, <3>7, <3>8
  <2>. QED BY <1>2, <1>8, <2>1 DEF IntentEvent
<1>9. ASSUME NEW k \in Keys, NEW s \in IntentStatus, ReconcileIntent(k, s)
      PROVE  RowsMayChange
  <2>1. CASE payments[k].status = "PENDING" /\ payments' = [payments EXCEPT ![k].status = Reconciled(s)]
    <3>1. Rows("PENDING") # {} /\ UNCHANGED booking
      BY <1>9, <2>1 DEF ReconcileIntent, Rows
    <3>2. \A j \in Keys : j # k => payments'[j] = payments[j]
      BY <2>1
    <3>. QED BY <2>1, <3>1, <3>2 DEF RowsMayChange, OwnSuccess
  <2>. QED BY <1>2, <1>9, <2>1 DEF ReconcileIntent
<1>10. CASE Tick \/ ProviderNext \/ UNCHANGED vars
  BY <1>2, <1>10 DEF Tick, ProviderNext, ProviderAnswers, ProviderRefuses, AttemptCard, Pay, ExpireSession,
                     CancelIntent, vars, ours
<1>11. CASE RequestNext
  BY <1>2, <1>3, <1>5, <1>11 DEF RequestNext, PersistCheckoutSession, AbandonCall, ours
<1>12. CASE EventNext
  BY <1>6, <1>7, <1>8, <1>12 DEF EventNext
<1>13. CASE StaffNext
  BY <1>2, <1>9, <1>13 DEF StaffNext, LookUpIntent, RecordManualOfflinePayment, RecordManualOfflineRefund,
                           CancelBooking, ours
<1>. QED BY <1>10, <1>11, <1>12, <1>13 DEF Next

\* What a step may do to the booking and to the money recorded by hand.
Confirms == booking'.status \in {booking.status, "CONFIRMED"} /\ UNCHANGED <<booking.paymentStatus, offline, refunded>>

MarksFailed ==
    /\ AcceptsPayment
    /\ booking'.paymentStatus = "FAILED"
    /\ UNCHANGED <<booking.status, offline, refunded>>

MarksPaid ==
    /\ booking.status = "CONFIRMED"
    /\ booking'.paymentStatus = "PAID"
    /\ Rows("SUCCEEDED")' # {}
    /\ UNCHANGED <<booking.status, offline, refunded>>

Cancels ==
    /\ booking.paymentStatus \in {"UNPAID", "FAILED", "REFUNDED"}
    /\ Rows("PENDING")' = {}
    /\ UNCHANGED <<booking.paymentStatus, offline, refunded>>

LEMMA BookingStep ==
    ASSUME AttemptInv, [Next]_vars
    PROVE  \/ Confirms
           \/ MarksFailed
           \/ MarksPaid
           \/ Cancels
           \/ RecordManualOfflinePayment
           \/ \E amount \in 1..Total : RecordManualOfflineRefund(amount)
<1>. USE AttemptInvParts
<1>1. CASE UNCHANGED <<booking, offline, refunded>>
  BY <1>1 DEF Confirms
<1>2. ASSUME NEW c \in calls, PersistCheckoutSession(c)
      PROVE  Confirms
  BY <1>2, BookingRow DEF PersistCheckoutSession, Confirms, TypeOK
<1>3. ASSUME NEW c \in calls, MarkCheckoutClaimFailed(c)
      PROVE  Confirms \/ MarksFailed
  BY <1>3 DEF MarkCheckoutClaimFailed, Confirms, MarksFailed, TypeOK
<1>4. ASSUME NEW k \in Keys, SessionCompleted(k)
      PROVE  Confirms \/ MarksPaid
  <2>1. CASE /\ SettlesSession(k)
             /\ payments' = [payments EXCEPT ![k].status = "SUCCEEDED", ![k].ref = k]
             /\ booking' = [booking EXCEPT !.paymentStatus = "PAID"]
    <3>1. Rows("SUCCEEDED")' # {}
      BY <2>1 DEF Rows, TypeOK, PaymentRows
    <3>. QED BY <1>4, <2>1, <3>1 DEF SessionCompleted, SettlesSession, MarksPaid, TypeOK
  <2>2. CASE UNCHANGED booking
    BY <1>4, <2>2 DEF SessionCompleted, Confirms
  <2>. QED BY <1>4, <2>1, <2>2 DEF SessionCompleted
<1>5. ASSUME NEW k \in Keys, SessionExpired(k)
      PROVE  Confirms \/ Cancels
  <2>1. CASE /\ ReleasesBooking(k)
             /\ payments' = [payments EXCEPT ![k].status = "FAILED"]
             /\ booking' = [booking EXCEPT !.status = "CANCELLED"]
    <3>1. /\ payments[k].status = "PENDING" /\ payments'[k].status = "FAILED"
          /\ \A j \in Keys : j # k => payments'[j] = payments[j]
      BY <2>1 DEF ReleasesBooking, IsClaim, TypeOK, PaymentRows
    <3>2. Rows("PENDING")' = {}
      BY <3>1 DEF OneUnresolvedAttempt, Rows
    <3>. QED BY <1>5, <2>1, <3>2 DEF SessionExpired, ReleasesBooking, AcceptsPayment, Cancels, TypeOK
  <2>2. CASE UNCHANGED booking
    BY <1>5, <2>2 DEF SessionExpired, Confirms
  <2>. QED BY <1>5, <2>1, <2>2 DEF SessionExpired
<1>6. CASE CancelBooking
  BY <1>6 DEF CancelBooking, Cancels, Rows, TypeOK
<1>7. CASE Tick \/ ProviderNext \/ UNCHANGED vars
  BY <1>1, <1>7 DEF Tick, ProviderNext, ProviderAnswers, ProviderRefuses, AttemptCard, Pay, ExpireSession,
                    CancelIntent, vars, ours
<1>8. CASE RequestNext
  BY <1>1, <1>2, <1>3, <1>8 DEF RequestNext, ClaimCheckout, AbandonCall, ours
<1>9. CASE EventNext
  BY <1>1, <1>4, <1>5, <1>9 DEF EventNext, IntentEvent
<1>10. CASE StaffNext
  BY <1>1, <1>6, <1>10 DEF StaffNext, LookUpIntent, ReconcileIntent, ours
<1>. QED BY <1>7, <1>8, <1>9, <1>10 DEF Next

LEMMA MoneyStep == MoneyInv /\ [Next]_vars => MoneyInv'
<1>. SUFFICES ASSUME MoneyInv, [Next]_vars
              PROVE  (OfflineFollows /\ PaidFollows /\ RefundFollows /\ CancelFollows)'
  BY AttemptStep DEF MoneyInv
<1>1. TypeOK /\ AttemptInv
  BY DEF MoneyInv, AttemptInv
<1>2. RowsMayChange
  BY <1>1, RowsStep
<1>3. Rows("SUCCEEDED") # {} => Rows("SUCCEEDED")' # {}
  BY <1>1, SuccessStep DEF Rows
\* Where no money can come, none comes, unless the booking is open or settled by the step.
<1>4. ASSUME NoMoneyComes, ~AcceptsPayment \/ booking.status = "CANCELLED",
             booking'.paymentStatus # "PAID" \/ booking'.status # "CONFIRMED"
      PROVE  NoMoneyComes'
  BY <1>2, <1>4 DEF RowsMayChange, NoMoneyComes, Rows
<1>5. CASE Confirms
  BY <1>1, <1>3, <1>4, <1>5 DEF MoneyInv, Confirms, OfflineFollows, PaidFollows, RefundFollows, CancelFollows, AcceptsPayment, TypeOK
<1>6. CASE MarksFailed
  BY <1>1, <1>4, <1>6 DEF MoneyInv, MarksFailed, OfflineFollows, PaidFollows, RefundFollows, CancelFollows, AcceptsPayment, TypeOK
<1>7. CASE MarksPaid
  BY <1>7 DEF MoneyInv, MarksPaid, OfflineFollows, PaidFollows, RefundFollows, CancelFollows, AcceptsPayment
<1>8. CASE Cancels
  <2>1. CASE AcceptsPayment
    <3>1. ~offline /\ \A k \in Keys : ~OwnSuccess(k)
      BY <1>1, <2>1, OpenHasNoSuccess DEF MoneyInv, OfflineFollows
    <3>2. \A k \in Keys : OwnSuccess(k)' => Rows("PENDING") # {} /\ UNCHANGED booking
      BY <1>2, <1>8, <2>1, <3>1 DEF Cancels, RowsMayChange, AcceptsPayment
    <3>. QED BY <1>8, <2>1, <3>1, <3>2 DEF MoneyInv, Cancels, OfflineFollows, PaidFollows, RefundFollows, CancelFollows, AcceptsPayment, NoMoneyComes
  <2>2. CASE ~AcceptsPayment
    BY <1>1, <1>4, <1>8, <2>2 DEF MoneyInv, Cancels, OfflineFollows, PaidFollows, RefundFollows, CancelFollows, AcceptsPayment
  <2>. QED BY <2>1, <2>2
<1>9. CASE RecordManualOfflinePayment
  BY <1>1, <1>9 DEF RecordManualOfflinePayment, MoneyInv, OfflineFollows, PaidFollows, RefundFollows, CancelFollows, AcceptsPayment, TypeOK
<1>10. ASSUME NEW amount \in 1..Total, RecordManualOfflineRefund(amount)
       PROVE  (OfflineFollows /\ PaidFollows /\ RefundFollows /\ CancelFollows)'
  <2>1. /\ refunded' = refunded + amount /\ refunded \in Nat /\ amount <= Total - refunded /\ Total \in Nat
        /\ offline /\ offline' = offline
    BY <1>1, <1>10, PaymentsAssumption DEF RecordManualOfflineRefund, ManuallyRefundable, TypeOK
  <2>2. /\ booking.status = "CONFIRMED" /\ booking'.status = booking.status
        /\ booking'.paymentStatus = StatusOfNet(Total - refunded - amount)
    BY <1>1, <1>10 DEF RecordManualOfflineRefund, ManuallyRefundable, TypeOK
  <2>3. /\ 0 < refunded' /\ refunded' <= Total
        /\ booking'.paymentStatus \in {"PARTIALLY_REFUNDED", "REFUNDED"}
        /\ booking'.paymentStatus = "REFUNDED" <=> refunded' = Total
    BY <2>1, <2>2 DEF StatusOfNet
  <2>4. NoMoneyComes'
    BY <1>10 DEF RecordManualOfflineRefund, ManuallyRefundable, NoMoneyComes, OwnSuccess, Rows
  <2>. QED BY <2>1, <2>2, <2>3, <2>4, PaymentsAssumption DEF OfflineFollows, PaidFollows, RefundFollows, CancelFollows, AcceptsPayment
<1>. QED BY <1>1, <1>5, <1>6, <1>7, <1>8, <1>9, <1>10, BookingStep

LEMMA MoneyInit == Init => MoneyInv
BY AttemptInit DEF Init, MoneyInv, OfflineFollows, PaidFollows, RefundFollows, CancelFollows, AcceptsPayment

----------------------------------------------------------------------------
\* The net of the ledger.

LEMMA NetOfRows ==
    ASSUME TypeOK
    PROVE  /\ Net \in Int
           /\ Rows("SUCCEEDED") = {} => Net = (IF offline THEN Total ELSE 0) - refunded
           /\ Rows("SUCCEEDED") # {} => Net >= Total + (IF offline THEN Total ELSE 0) - refunded
<1>. DEFINE n == Cardinality(Rows("SUCCEEDED"))
<1>1. IsFiniteSet(Rows("SUCCEEDED"))
  <2>1. Rows("SUCCEEDED") \subseteq Keys
    BY DEF Rows
  <2>. QED BY <2>1, PaymentsAssumption, FS_Subset
<1>2. n \in Nat /\ (n = 0 <=> Rows("SUCCEEDED") = {})
  BY <1>1, FS_CardinalityType, FS_EmptySet
<1>3. Total \in Nat /\ refunded \in Nat
  BY PaymentsAssumption DEF TypeOK
<1>4. Net = Total * n + (IF offline THEN Total ELSE 0) - refunded
  BY DEF Net
<1>. HIDE DEF n
<1>5. Total * n \in Nat /\ (n # 0 => Total * n >= Total) /\ (n = 0 => Total * n = 0)
  BY <1>2, <1>3
<1>. DEFINE product == Total * n
<1>. HIDE DEF product
<1>6. product \in Nat /\ Net = product + (IF offline THEN Total ELSE 0) - refunded
  BY <1>4, <1>5 DEF product
<1>7. (n # 0 => product >= Total) /\ (n = 0 => product = 0)
  BY <1>5 DEF product
<1>. QED BY <1>2, <1>3, <1>6, <1>7

\* Without a mixed-up row, a settled PaymentIntent is settled under its own attempt.
LEMMA UnmixedSuccess ==
    ASSUME AttemptInv, \A k \in Keys : ~MixedUp(k), \A k \in Keys : ~OwnSuccess(k)
    PROVE  Rows("SUCCEEDED") = {}
BY AttemptInvParts, Names DEF Follows, PaymentFollows, MixedUp, OwnSuccess, Rows

\* The booking's payment status agrees with the money its rows account for, in whatever order
\* Checkout events, offline payments and refunds wrote them.
THEOREM StatusAgrees == Spec => []StatusMatchesLedger
<1>1. MoneyInv => StatusMatchesLedger
  <2>. SUFFICES ASSUME MoneyInv PROVE StatusMatchesLedger
    OBVIOUS
  <2>1. AttemptInv /\ TypeOK /\ Total \in Nat \ {0} /\ refunded \in Nat
    BY PaymentsAssumption DEF MoneyInv, AttemptInv, TypeOK
  <2>2. AcceptsPayment => Net = 0
    BY <2>1, OpenHasNoSuccess, NetOfRows DEF MoneyInv, OfflineFollows
  <2>3. booking.paymentStatus = "PAID" => Net >= Total
    BY <2>1, NetOfRows, PaymentsAssumption DEF MoneyInv, OfflineFollows, PaidFollows, TypeOK
  <2>4. ASSUME \A k \in Keys : ~MixedUp(k)
        PROVE  /\ booking.paymentStatus = "PARTIALLY_REFUNDED" => 0 < Net /\ Net < Total
               /\ booking.paymentStatus = "REFUNDED" => Net = 0
    BY <2>1, <2>4, UnmixedSuccess, NetOfRows DEF MoneyInv, RefundFollows, NoMoneyComes
  <2>. QED BY <2>2, <2>3, <2>4 DEF StatusMatchesLedger
<1>. QED BY <1>1, MoneyInit, MoneyStep, PTL DEF Spec

LEMMA MoneyCancelled == MoneyInv => CancelledKeepsNoMoney
<1>. SUFFICES ASSUME MoneyInv, booking.status = "CANCELLED"
              PROVE  /\ Rows("PENDING") = {}
                     /\ \A k \in Keys : provider[k].intent = "succeeded" => payments[k].status = "FAILED" \/ MixedUp(k)
                     /\ (\A k \in Keys : ~MixedUp(k)) => Net = 0
  BY DEF CancelledKeepsNoMoney
<1>1. AttemptInv /\ TypeOK /\ Total \in Nat /\ refunded \in Nat
  BY PaymentsAssumption DEF MoneyInv, AttemptInv, TypeOK
<1>2. NoMoneyComes /\ (offline => refunded = Total)
  BY DEF MoneyInv, CancelFollows
<1>3. ASSUME NEW k \in Keys, provider[k].intent = "succeeded"
      PROVE  payments[k].status = "FAILED" \/ MixedUp(k)
  <2>1. payments[k].status \notin {"NONE", "PENDING"}
    BY <1>1, <1>2, <1>3, AttemptInvParts DEF Follows, SessionFollows, PaymentFollows, NoMoneyComes, Rows
  <2>2. CASE payments[k].status = "SUCCEEDED"
    BY <1>1, <1>2, <2>2, AttemptInvParts, Names DEF Follows, PaymentFollows, NoMoneyComes, OwnSuccess, MixedUp
  <2>. QED BY <1>1, <2>1, <2>2 DEF TypeOK, PaymentRows
<1>4. (\A k \in Keys : ~MixedUp(k)) => Net = 0
  BY <1>1, <1>2, UnmixedSuccess, NetOfRows DEF MoneyInv, OfflineFollows, NoMoneyComes
<1>. QED BY <1>2, <1>3, <1>4 DEF NoMoneyComes

\* A cancelled booking has no unresolved attempt and keeps no money on record; money the
\* provider took for it belongs to an attempt that a refused retry had marked failed.
THEOREM CancelledIsSettled == Spec => []CancelledKeepsNoMoney
BY MoneyCancelled, MoneyInit, MoneyStep, PTL DEF Spec

----------------------------------------------------------------------------
\* What the refused repetition of a request is behind.

\* A refused call fails its claim only while no session of the claim is stored.
RefusalsSpareSessions ==
    \A c \in calls : MarkCheckoutClaimFailed(c) => sessions[c.key] = "NONE" \/ UNCHANGED payments

\* An attempt whose session is stored fails once the session expired, under its own
\* PaymentIntent or together with the booking.
FailedFollows(k) ==
    payments[k].status = "FAILED" =>
        \/ sessions[k] = "NONE"
        \/ /\ provider[k].session = "expired"
           /\ payments[k].ref = k \/ booking.status = "CANCELLED"

SparedInv == MoneyInv /\ EventsKeepTheirAttempt /\ \A k \in Keys : FailedFollows(k)

\* With an event of an attempt goes the row of that attempt.
LEMMA OwnCandidate ==
    ASSUME SparedInv, NEW k \in Keys, NEW s \in IntentStatus, <<s, k>> \in undelivered,
           booking.status = "CONFIRMED", NEW j \in Candidates(k)
    PROVE  j = k
<1>. USE AttemptInvParts
<1>1. AttemptInv /\ EventsKeepTheirAttempt /\ FailedFollows(k)
  BY DEF SparedInv, MoneyInv
<1>2. sessions[k] # "NONE" /\ payments[k].status \in {"PENDING", "SUCCEEDED", "FAILED"}
  <2>1. payments[k] \in PaymentRows
    BY <1>1 DEF AttemptInv, TypeOK
  <2>2. sessions[k] # "NONE"
    BY <1>1 DEF Follows, SessionFollows
  <2>3. payments[k].status # "NONE"
    BY <1>1, <2>2 DEF Follows, PaymentFollows
  <2>. QED BY <2>1, <2>2, <2>3 DEF PaymentRows
<1>. DEFINE exact == {i \in Keys : payments[i].status # "NONE" /\ payments[i].ref = k}
<1>3. j \in IF exact # {} THEN exact ELSE {i \in Keys : IsClaim(i)}
  BY DEF Candidates
<1>4. CASE exact # {}
  BY <1>1, <1>3, <1>4, Names DEF EventsKeepTheirAttempt
<1>5. CASE exact = {}
  <2>1. j \in Keys /\ IsClaim(j) /\ payments[k].ref # k
    BY <1>2, <1>3, <1>5
  <2>2. payments[k].status # "SUCCEEDED"
    BY <1>1, <2>1, Names DEF Follows, PaymentFollows, EventsKeepTheirAttempt
  <2>3. payments[k].status # "FAILED"
    BY <1>1, <1>2, <2>1 DEF FailedFollows
  <2>. QED BY <1>1, <1>2, <2>1, <2>2, <2>3 DEF OneUnresolvedAttempt, Rows, IsClaim
<1>. QED BY <1>4, <1>5

LEMMA SparedInit == Init => SparedInv
BY MoneyInit DEF Init, SparedInv, EventsKeepTheirAttempt, FailedFollows

LEMMA SparedStep == SparedInv /\ [Next]_vars /\ (Next => RefusalsSpareSessions) => SparedInv'
<1>. SUFFICES ASSUME SparedInv, [Next]_vars, Next => RefusalsSpareSessions
              PROVE  (EventsKeepTheirAttempt /\ \A k \in Keys : FailedFollows(k))'
  BY MoneyStep DEF SparedInv
<1>. USE AttemptInvParts
<1>1. /\ TypeOK /\ AttemptInv /\ EventsKeepTheirAttempt
      /\ \A k \in Keys : FailedFollows(k) /\ payments[k].ref \in {ClaimReference, k}
      /\ \A k \in Keys : payments[k] \in PaymentRows /\ provider[k] \in ProviderRows
  BY DEF SparedInv, MoneyInv, AttemptInv, TypeOK, EventsKeepTheirAttempt
<1>2. ASSUME UNCHANGED <<payments, sessions, provider>>, booking.status = "CANCELLED" => booking'.status = "CANCELLED"
      PROVE  (EventsKeepTheirAttempt /\ \A k \in Keys : FailedFollows(k))'
  BY <1>1, <1>2 DEF EventsKeepTheirAttempt, FailedFollows
<1>3. ASSUME NEW k \in Keys, ClaimCheckout(k)
      PROVE  (EventsKeepTheirAttempt /\ \A j \in Keys : FailedFollows(j))'
  <2>1. /\ UNCHANGED <<sessions, provider, booking>>
        /\ \A j \in Keys : \/ payments'[j] = payments[j]
                           \/ payments'[j].status = "PENDING" /\ payments'[j].ref = ClaimReference
    BY <1>1, <1>3 DEF ClaimCheckout, TypeOK
  <2>. QED BY <1>1, <2>1 DEF EventsKeepTheirAttempt, FailedFollows
<1>4. ASSUME NEW c \in calls, PersistCheckoutSession(c)
      PROVE  (EventsKeepTheirAttempt /\ \A j \in Keys : FailedFollows(j))'
  <2>1. UNCHANGED <<payments, provider>> /\ (booking.status = "CANCELLED" => booking'.status = "CANCELLED")
    BY <1>1, <1>4 DEF PersistCheckoutSession, TypeOK
  <2>2. \A j \in Keys : sessions'[j] = sessions[j] \/ payments[j].status = "PENDING"
    BY <1>1, <1>4 DEF PersistCheckoutSession, IsClaim, TypeOK
  <2>. QED BY <1>1, <2>1, <2>2 DEF EventsKeepTheirAttempt, FailedFollows
<1>5. ASSUME NEW c \in calls, MarkCheckoutClaimFailed(c)
      PROVE  (EventsKeepTheirAttempt /\ \A j \in Keys : FailedFollows(j))'
  <2>1. UNCHANGED <<sessions, provider>> /\ booking'.status = booking.status
    BY <1>1, <1>5 DEF MarkCheckoutClaimFailed, TypeOK
  <2>2. CASE UNCHANGED payments
    BY <1>2, <2>1, <2>2
  <2>3. CASE ~UNCHANGED payments
    <3>1. c.key \in Keys /\ sessions[c.key] = "NONE"
      <4>1. Next
        BY <1>5 DEF Next, RequestNext
      <4>. QED BY <1>1, <1>5, <2>3, <4>1 DEF RefusalsSpareSessions, TypeOK, Calls
    <3>2. payments' = [payments EXCEPT ![c.key].status = "FAILED"]
      BY <1>5, <2>3 DEF MarkCheckoutClaimFailed
    <3>3. /\ payments'[c.key].ref = payments[c.key].ref
          /\ \A j \in Keys : j # c.key => payments'[j] = payments[j]
      BY <1>1, <3>1, <3>2 DEF TypeOK, PaymentRows
    <3>. QED BY <1>1, <2>1, <3>1, <3>3 DEF EventsKeepTheirAttempt, FailedFollows
  <2>. QED BY <2>2, <2>3
<1>6. CASE ProviderNext
  <2>1. UNCHANGED <<payments, sessions, booking>>
    BY <1>6 DEF ProviderNext, ProviderAnswers, ProviderRefuses, AttemptCard, Pay, ExpireSession, CancelIntent, ours
  <2>2. ASSUME NEW k \in Keys, provider[k].session = "expired"
        PROVE  provider'[k].session = "expired"
    <3>1. CASE UNCHANGED provider
      BY <2>2, <3>1
    <3>2. ASSUME NEW c \in calls, provider[c.key].session = "none",
                 provider' = [provider EXCEPT ![c.key].session = "open", ![c.key].requestedAt = c.at]
          PROVE  provider'[k].session = "expired"
      BY <1>1, <2>2, <3>2 DEF TypeOK
    <3>3. ASSUME NEW j \in Keys, NEW result, AttemptCard(j, result) \/ Pay(j) \/ ExpireSession(j) \/ CancelIntent(j)
          PROVE  provider'[k].session = "expired"
      BY <1>1, <2>2, <3>3 DEF AttemptCard, CanPay, Pay, ExpireSession, CancelIntent, TypeOK, ProviderRows
    <3>. QED BY <1>6, <3>1, <3>2, <3>3 DEF ProviderNext, ProviderAnswers, ProviderRefuses
  <2>. QED BY <1>1, <2>1, <2>2 DEF EventsKeepTheirAttempt, FailedFollows
<1>7. ASSUME NEW k \in Keys, SessionCompleted(k)
      PROVE  (EventsKeepTheirAttempt /\ \A j \in Keys : FailedFollows(j))'
  <2>1. UNCHANGED provider /\ booking'.status = booking.status
    BY <1>1, <1>7 DEF SessionCompleted, TypeOK
  <2>2. CASE UNCHANGED <<payments, booking, sessions>>
    BY <1>2, <2>1, <2>2
  <2>3. CASE /\ payments' = [payments EXCEPT ![k].status = "SUCCEEDED", ![k].ref = k]
             /\ sessions' = [sessions EXCEPT ![k] = "COMPLETED"]
    <3>1. /\ payments'[k].status = "SUCCEEDED" /\ payments'[k].ref = k
          /\ \A j \in Keys : j # k => payments'[j] = payments[j] /\ sessions'[j] = sessions[j]
      BY <1>1, <2>3 DEF TypeOK, PaymentRows
    <3>. QED BY <1>1, <2>1, <3>1 DEF EventsKeepTheirAttempt, FailedFollows
  <2>. QED BY <1>7, <2>2, <2>3 DEF SessionCompleted
<1>8. ASSUME NEW k \in Keys, SessionExpired(k)
      PROVE  (EventsKeepTheirAttempt /\ \A j \in Keys : FailedFollows(j))'
  <2>1. provider[k].session = "expired" /\ UNCHANGED provider
    <3>1. <<"expired", k>> \in undelivered /\ UNCHANGED provider
      BY <1>8 DEF SessionExpired, Accept
    <3>. QED BY <1>1, <3>1 DEF Follows, SessionFollows
  <2>2. \A j \in Keys : sessions[j] = "NONE" => sessions'[j] = "NONE"
    BY <1>1, <1>8 DEF SessionExpired, TypeOK
  <2>3. \/ UNCHANGED payments /\ booking'.status = booking.status
        \/ payments' = [payments EXCEPT ![k].status = "FAILED"] /\ booking'.status = "CANCELLED"
    BY <1>1, <1>8 DEF SessionExpired, TypeOK
  <2>4. \A j \in Keys : payments'[j] = payments[j] \/ (j = k /\ payments'[j].ref = payments[j].ref /\ booking'.status = "CANCELLED")
    BY <1>1, <2>3 DEF TypeOK, PaymentRows
  <2>. QED BY <1>1, <2>1, <2>2, <2>3, <2>4 DEF EventsKeepTheirAttempt, FailedFollows
<1>9. ASSUME NEW k \in Keys, NEW s \in IntentStatus, IntentEvent(k, s)
      PROVE  (EventsKeepTheirAttempt /\ \A j \in Keys : FailedFollows(j))'
  <2>1. UNCHANGED <<sessions, booking, provider>> /\ <<s, k>> \in undelivered
    BY <1>9 DEF IntentEvent, Accept
  <2>2. CASE UNCHANGED payments
    BY <1>2, <2>1, <2>2
  <2>3. ASSUME booking.status = "CONFIRMED", NEW j \in Candidates(k), ~IntentIgnored(j, s),
               payments' = [payments EXCEPT ![j].status = Reconciled(s), ![j].ref = k]
        PROVE  (EventsKeepTheirAttempt /\ \A i \in Keys : FailedFollows(i))'
    <3>1. j = k
      BY <2>1, <2>3, OwnCandidate
    <3>2. /\ payments'[k].status = Reconciled(s) /\ payments'[k].ref = k
          /\ \A i \in Keys : i # k => payments'[i] = payments[i]
      BY <1>1, <2>3, <3>1 DEF TypeOK, PaymentRows
    \* A row resolved without money: its session is not open, not unknown and not completed.
    <3>3. Reconciled(s) = "FAILED" => provider[k].session = "expired"
      <4>1. sessions[k] \in {"OPEN", "COMPLETED", "EXPIRED"}
        BY <1>1, <2>1 DEF Follows, SessionFollows, TypeOK
      <4>. QED BY <1>1, <2>3, <3>1, <4>1 DEF IntentIgnored, Reconciled, Follows, PaymentFollows, SessionFollows
    <3>. QED BY <1>1, <2>1, <3>2, <3>3 DEF EventsKeepTheirAttempt, FailedFollows
  <2>. QED BY <1>9, <2>2, <2>3 DEF IntentEvent
<1>10. ASSUME NEW k \in Keys, NEW s \in IntentStatus, ReconcileIntent(k, s)
       PROVE  (EventsKeepTheirAttempt /\ \A j \in Keys : FailedFollows(j))'
  <2>1. UNCHANGED <<sessions, booking, provider>> /\ <<s, k>> \in lookups
    BY <1>10 DEF ReconcileIntent
  <2>2. CASE UNCHANGED payments
    BY <1>2, <2>1, <2>2
  <2>3. CASE payments[k].status = "PENDING" /\ payments' = [payments EXCEPT ![k].status = Reconciled(s)]
    <3>1. payments[k].ref = k
      BY <1>1, <2>1, Names DEF Follows, LookupFollows
    <3>2. provider[k].session = "expired"
      BY <1>1, <2>3, <3>1 DEF Follows, PaymentFollows
    <3>3. /\ payments'[k].ref = payments[k].ref
          /\ \A j \in Keys : j # k => payments'[j] = payments[j]
      BY <1>1, <2>3 DEF TypeOK, PaymentRows
    <3>. QED BY <1>1, <2>1, <3>1, <3>2, <3>3 DEF EventsKeepTheirAttempt, FailedFollows
  <2>. QED BY <1>10, <2>2, <2>3 DEF ReconcileIntent
<1>11. CASE Tick \/ UNCHANGED vars
  BY <1>2, <1>11 DEF Tick, vars, ours
<1>12. CASE RequestNext
  BY <1>2, <1>3, <1>4, <1>5, <1>12 DEF RequestNext, AbandonCall, ours
<1>13. CASE EventNext
  BY <1>7, <1>8, <1>9, <1>13 DEF EventNext
<1>14. CASE StaffNext
  <2>2. CASE \E k \in Keys, s \in IntentStatus : ReconcileIntent(k, s)
    BY <1>10, <2>2
  <2>3. ASSUME \/ \E k \in Keys : LookUpIntent(k)
               \/ RecordManualOfflinePayment
               \/ \E amount \in 1..Total : RecordManualOfflineRefund(amount)
               \/ CancelBooking
        PROVE  /\ UNCHANGED <<payments, sessions, provider>>
               /\ booking.status = "CANCELLED" => booking'.status = "CANCELLED"
    BY <1>1, <2>3 DEF LookUpIntent, RecordManualOfflinePayment, RecordManualOfflineRefund, CancelBooking, ours, TypeOK
  <2>. QED BY <1>2, <1>14, <2>2, <2>3 DEF StaffNext
<1>. QED BY <1>6, <1>11, <1>12, <1>13, <1>14 DEF Next

\* Money of the provider for a cancelled booking, and a cancelled booking with money on record.
CancelledUnpaid ==
    booking.status = "CANCELLED" => Net = 0 /\ \A k \in Keys : provider[k].intent # "succeeded"

\* The refused repetition of a request that already stored its session is all that is behind
\* an event recorded under another attempt, and behind money the provider took for a cancelled
\* booking: if a refusal failed only claims without a stored session, neither would happen,
\* and every other attempt that failed would have failed with its expired session.
THEOREM RefusalsAreBehindMixedAttempts ==
    Spec /\ [][RefusalsSpareSessions]_vars =>
        [](EventsKeepTheirAttempt /\ CancelledUnpaid /\ \A k \in Keys : FailedFollows(k))
<1>1. SparedInv => EventsKeepTheirAttempt /\ CancelledUnpaid /\ \A k \in Keys : FailedFollows(k)
  <2>. SUFFICES ASSUME SparedInv, booking.status = "CANCELLED"
                PROVE  Net = 0 /\ \A k \in Keys : provider[k].intent # "succeeded"
    BY DEF SparedInv, CancelledUnpaid
  <2>1. \A k \in Keys : ~MixedUp(k)
    BY Names DEF SparedInv, EventsKeepTheirAttempt, MixedUp
  <2>2. CancelledKeepsNoMoney
    BY MoneyCancelled DEF SparedInv
  <2>3. ASSUME NEW k \in Keys, provider[k].intent = "succeeded"
        PROVE  FALSE
    <3>1. payments[k].status = "FAILED" /\ FailedFollows(k) /\ AttemptInv
      BY <2>1, <2>2, <2>3 DEF CancelledKeepsNoMoney, SparedInv, MoneyInv
    <3>2. sessions[k] # "NONE" /\ provider[k].session = "complete"
      BY <2>3, <3>1, AttemptInvParts DEF Follows, SessionFollows
    <3>. QED BY <3>1, <3>2 DEF FailedFollows
  <2>. QED BY <2>1, <2>2, <2>3 DEF CancelledKeepsNoMoney
<1>2. SparedInv /\ [Next]_vars /\ [RefusalsSpareSessions]_vars => SparedInv'
  <2>1. CASE UNCHANGED vars
    <3>1. RefusalsSpareSessions
      BY <2>1 DEF vars, ours, RefusalsSpareSessions
    <3>. QED BY <3>1, SparedStep
  <2>2. CASE RefusalsSpareSessions
    BY <2>2, SparedStep
  <2>. QED BY <2>1, <2>2
<1>. QED BY <1>1, <1>2, SparedInit, PTL DEF Spec

----------------------------------------------------------------------------
\* What ends a stale claim.

\* The claim of an expired session in which a card was tried.
StaleClaim(k) ==
    /\ booking.status = "CONFIRMED" /\ AcceptsPayment
    /\ IsClaim(k)
    /\ provider[k].session = "expired" /\ provider[k].intent # "none"

\* A guest repeats the request and is refused, money is recorded by hand, or an earlier attempt
\* is paid after all.
EndsStaleClaim(k) ==
    \/ \E c \in calls : c.key = k /\ MarkCheckoutClaimFailed(c)
    \/ RecordManualOfflinePayment
    \/ \E j \in Keys \ {k} : SessionCompleted(j) /\ booking'.paymentStatus = "PAID"

LEMMA StaleClaimStep ==
    ASSUME AttemptInv, Next, NEW k \in Keys, StaleClaim(k), ~EndsStaleClaim(k)
    PROVE  StaleClaim(k)'
<1>. USE AttemptInvParts
<1>1. /\ TypeOK /\ payments[k] \in PaymentRows /\ provider[k] \in ProviderRows
      /\ payments[k].status = "PENDING" /\ payments[k].ref = ClaimReference
  BY DEF AttemptInv, TypeOK, StaleClaim, IsClaim
<1>2. ASSUME UNCHANGED payments[k], UNCHANGED provider[k], booking'.status = "CONFIRMED",
             booking'.paymentStatus = booking.paymentStatus \/ booking'.paymentStatus = "FAILED"
      PROVE  StaleClaim(k)'
  BY <1>2 DEF StaleClaim, IsClaim, AcceptsPayment
<1>3. ASSUME NEW j \in Keys, ClaimCheckout(j)
      PROVE  StaleClaim(k)'
  <2>1. j = k \/ UNCHANGED payments
    BY <1>1, <1>3 DEF ClaimCheckout, Rows
  <2>2. UNCHANGED <<payments, provider, booking>>
    BY <1>1, <1>3, <2>1 DEF ClaimCheckout
  <2>. QED BY <1>2, <2>2 DEF StaleClaim
<1>4. ASSUME NEW c \in calls, PersistCheckoutSession(c)
      PROVE  StaleClaim(k)'
  BY <1>1, <1>2, <1>4 DEF PersistCheckoutSession, StaleClaim, TypeOK
<1>5. ASSUME NEW c \in calls, MarkCheckoutClaimFailed(c)
      PROVE  StaleClaim(k)'
  <2>1. c.key # k
    BY <1>5 DEF EndsStaleClaim
  <2>2. UNCHANGED provider /\ payments'[k] = payments[k] /\ booking'.status = booking.status
    BY <1>1, <1>5, <2>1 DEF MarkCheckoutClaimFailed, TypeOK
  <2>3. booking'.paymentStatus \in {booking.paymentStatus, "FAILED"}
    BY <1>1, <1>5 DEF MarkCheckoutClaimFailed, TypeOK
  <2>. QED BY <1>2, <2>2, <2>3 DEF StaleClaim
<1>6. CASE ProviderNext
  <2>1. UNCHANGED <<payments, booking>>
    BY <1>6 DEF ProviderNext, ProviderAnswers, ProviderRefuses, AttemptCard, Pay, ExpireSession, CancelIntent, ours
  <2>2. provider'[k].session = "expired" /\ provider'[k].intent # "none"
    <3>1. CASE UNCHANGED provider
      BY <3>1 DEF StaleClaim
    <3>2. ASSUME NEW c \in calls, provider[c.key].session = "none",
                 provider' = [provider EXCEPT ![c.key].session = "open", ![c.key].requestedAt = c.at]
          PROVE  provider'[k].session = "expired" /\ provider'[k].intent # "none"
      BY <1>1, <3>2 DEF TypeOK, StaleClaim
    <3>3. ASSUME NEW j \in Keys, NEW result, AttemptCard(j, result) \/ Pay(j) \/ ExpireSession(j) \/ CancelIntent(j)
          PROVE  provider'[k].session = "expired" /\ provider'[k].intent # "none"
      <4>1. CASE j = k
        BY <1>1, <3>3, <4>1 DEF AttemptCard, CanPay, Pay, ExpireSession, CancelIntent, TypeOK, ProviderRows, StaleClaim
      <4>2. CASE j # k
        BY <1>1, <3>3, <4>2 DEF AttemptCard, CanPay, Pay, ExpireSession, CancelIntent, TypeOK, ProviderRows, StaleClaim
      <4>. QED BY <4>1, <4>2
    <3>. QED BY <1>6, <3>1, <3>2, <3>3 DEF ProviderNext, ProviderAnswers, ProviderRefuses
  <2>. QED BY <2>1, <2>2 DEF StaleClaim, IsClaim, AcceptsPayment
<1>7. ASSUME NEW j \in Keys, SessionCompleted(j)
      PROVE  StaleClaim(k)'
  <2>1. CASE j = k
    <3>1. <<"completed", k>> \in undelivered
      BY <1>7, <2>1 DEF SessionCompleted, Accept
    <3>. QED BY <1>1, <3>1 DEF Follows, SessionFollows, StaleClaim
  <2>2. CASE j # k
    <3>1. booking'.paymentStatus # "PAID"
      BY <1>7, <2>2 DEF EndsStaleClaim
    <3>2. UNCHANGED <<payments, booking, provider>>
      BY <1>1, <1>7, <3>1 DEF SessionCompleted, TypeOK
    <3>. QED BY <1>2, <3>2 DEF StaleClaim
  <2>. QED BY <2>1, <2>2
<1>8. ASSUME NEW j \in Keys, SessionExpired(j)
      PROVE  StaleClaim(k)'
  <2>1. ~ReleasesBooking(j)
    BY <1>1 DEF ReleasesBooking, StaleClaim, IsClaim, OneUnresolvedAttempt, Rows
  <2>2. UNCHANGED <<payments, booking, provider>>
    BY <1>8, <2>1 DEF SessionExpired
  <2>. QED BY <1>2, <2>2 DEF StaleClaim
<1>9. ASSUME NEW j \in Keys, NEW s \in IntentStatus, IntentEvent(j, s)
      PROVE  StaleClaim(k)'
  <2>1. UNCHANGED <<payments, booking, provider>>
    BY <1>9 DEF IntentEvent, KeepsPaymentStatus, StaleClaim
  <2>. QED BY <1>2, <2>1 DEF StaleClaim
<1>10. ASSUME StaffNext
       PROVE  StaleClaim(k)'
  <2>1. ~CancelBooking /\ ~RecordManualOfflinePayment /\ \A amount \in 1..Total : ~RecordManualOfflineRefund(amount)
    BY <1>1 DEF EndsStaleClaim, CancelBooking, RecordManualOfflineRefund, ManuallyRefundable, Rows, StaleClaim
  <2>2. UNCHANGED <<payments, booking, provider>>
    BY <1>10, <2>1 DEF StaffNext, LookUpIntent, ReconcileIntent, KeepsPaymentStatus, StaleClaim, ours
  <2>. QED BY <1>2, <2>2 DEF StaleClaim
<1>11. CASE Tick
  BY <1>2, <1>11 DEF Tick, ours, StaleClaim
<1>12. CASE RequestNext
  <2>1. ASSUME NEW c \in calls, AbandonCall(c)
        PROVE  StaleClaim(k)'
    BY <1>2, <2>1 DEF AbandonCall, ours, StaleClaim
  <2>. QED BY <1>3, <1>4, <1>5, <1>12, <2>1 DEF RequestNext
<1>13. CASE EventNext
  BY <1>7, <1>8, <1>9, <1>13 DEF EventNext
<1>. QED BY <1>6, <1>10, <1>11, <1>12, <1>13 DEF Next

\* No event, no lookup and no cancellation by staff resolves the claim of an expired session in
\* which a card was tried: until a guest repeats the request, money is recorded by hand or an
\* earlier attempt is paid after all, the claim stays and the booking keeps its rooms.
THEOREM StaleClaimsStay == Spec => [][\A k \in Keys : StaleClaim(k) => StaleClaim(k)' \/ EndsStaleClaim(k)]_vars
<1>1. AttemptInv /\ [Next]_vars => [\A k \in Keys : StaleClaim(k) => StaleClaim(k)' \/ EndsStaleClaim(k)]_vars
  BY StaleClaimStep
<1>. QED BY <1>1, AttemptInit, AttemptStep, PTL DEF Spec

----------------------------------------------------------------------------
\* Why a stored session is closed at last: what of StoredSessionsClose does not need fairness.

\* An answer that is still to be stored is of an open session, and a booking that waits for its
\* session has none.
AnswersAreOpen ==
    \A c \in calls : c.phase = "ANSWERED" /\ sessions[c.key] = "NONE" => provider[c.key].session = "open"
NoneStoredBefore ==
    booking.status = "PENDING_CONFIRMATION" => AcceptsPayment /\ \A k \in Keys : sessions[k] = "NONE"

\* What ended a stored session at the provider is an event not accepted yet.
Heard(k) ==
    sessions[k] = "OPEN" /\ booking.status # "CANCELLED" =>
        \/ provider[k].session = "open"
        \/ provider[k].session = "complete" /\ <<"completed", k>> \in undelivered
        \/ provider[k].session = "expired" /\ <<"expired", k>> \in undelivered

HeardInv == AnswersAreOpen /\ NoneStoredBefore /\ \A k \in Keys : Heard(k)

LEMMA HeardInit == Init => HeardInv
BY DEF Init, HeardInv, AnswersAreOpen, NoneStoredBefore, Heard, AcceptsPayment

\* The event of a session leaves it closed, or the booking is cancelled.
LEMMA EventClosesSession ==
    ASSUME TypeOK, NoneStoredBefore, NEW k \in Keys, SessionCompleted(k) \/ SessionExpired(k)
    PROVE  sessions'[k] # "OPEN" \/ booking.status = "CANCELLED"
<1>1. /\ DOMAIN sessions = Keys
      /\ booking.status \in {"PENDING_CONFIRMATION", "CONFIRMED", "CANCELLED"}
  BY DEF TypeOK, BookingStatus
<1>2. CASE SettlesSession(k) /\ sessions' = [sessions EXCEPT ![k] = "COMPLETED"]
  BY <1>1, <1>2
<1>3. CASE /\ booking.status # "CONFIRMED" \/ sessions[k] \in {"NONE", "EXPIRED"}
           /\ UNCHANGED sessions
  BY <1>1, <1>3 DEF NoneStoredBefore
<1>4. CASE SessionExpired(k)
  <2>1. sessions' = [sessions EXCEPT ![k] = IF sessions[k] = "OPEN" THEN "EXPIRED" ELSE sessions[k]]
    BY <1>4 DEF SessionExpired
  <2>. QED BY <1>1, <2>1
<1>. QED BY <1>2, <1>3, <1>4 DEF SessionCompleted

LEMMA HeardStep == AttemptInv /\ HeardInv /\ [Next]_vars => HeardInv'
<1>. SUFFICES ASSUME AttemptInv, HeardInv, [Next]_vars
              PROVE  HeardInv'
  OBVIOUS
<1>. USE AttemptInvParts
<1>1. /\ TypeOK /\ AnswersAreOpen /\ NoneStoredBefore
      /\ \A k \in Keys : Heard(k) /\ SessionFollows(k)
      /\ \A k \in Keys : provider[k] \in ProviderRows
      /\ \A c \in calls : c.key \in Keys /\ c.at \in 0..MaxTime /\ c.phase \in {"CALLING", "ANSWERED", "REFUSED"}
  BY DEF HeardInv, Follows, TypeOK, Calls
\* Calls may end, and a booking may be cancelled or move its payment status.
<1>2. ASSUME UNCHANGED <<sessions, provider>>,
             \A c \in calls' : c.phase = "ANSWERED" => c \in calls,
             \A k \in Keys, s \in {"completed", "expired"} :
                 <<s, k>> \in undelivered => <<s, k>> \in undelivered',
             booking' = booking \/ booking.status = "CONFIRMED" \/ booking'.status # "PENDING_CONFIRMATION"
               \/ (AcceptsPayment /\ AcceptsPayment'),
             booking'.status \in {booking.status, "CANCELLED"}
      PROVE  HeardInv'
  <2>1. AnswersAreOpen'
    BY <1>1, <1>2 DEF AnswersAreOpen
  <2>2. NoneStoredBefore'
    BY <1>1, <1>2 DEF NoneStoredBefore, AcceptsPayment
  <2>3. \A k \in Keys : Heard(k)'
    BY <1>1, <1>2 DEF Heard
  <2>. QED BY <2>1, <2>2, <2>3 DEF HeardInv
<1>3. ASSUME NEW k \in Keys, ClaimCheckout(k)
      PROVE  HeardInv'
  BY <1>2, <1>3 DEF ClaimCheckout, Call
<1>4. ASSUME NEW c \in calls, PersistCheckoutSession(c)
      PROVE  HeardInv'
  <2>1. /\ UNCHANGED <<provider, undelivered>> /\ calls' \subseteq calls
        /\ c.phase = "ANSWERED" /\ c.key \in Keys
    BY <1>1, <1>4 DEF PersistCheckoutSession, EndCall
  <2>2. CASE UNCHANGED <<sessions, booking>>
    BY <1>2, <2>1, <2>2
  <2>3. CASE /\ sessions[c.key] = "NONE" /\ sessions' = [sessions EXCEPT ![c.key] = "OPEN"]
             /\ booking' = IF booking.status = "PENDING_CONFIRMATION" /\ AcceptsPayment
                             THEN [booking EXCEPT !.status = "CONFIRMED"] ELSE booking
    <3>1. /\ sessions'[c.key] = "OPEN" /\ provider[c.key].session = "open"
          /\ \A j \in Keys : j # c.key => sessions'[j] = sessions[j]
      BY <1>1, <2>1, <2>3 DEF TypeOK, AnswersAreOpen
    <3>2. booking'.status # "PENDING_CONFIRMATION" /\ (booking'.status = "CANCELLED" <=> booking.status = "CANCELLED")
      BY <1>1, <2>3 DEF TypeOK, NoneStoredBefore
    <3>3. AnswersAreOpen'
      BY <1>1, <2>1, <3>1 DEF AnswersAreOpen
    <3>4. \A j \in Keys : Heard(j)'
      BY <1>1, <2>1, <3>1, <3>2 DEF Heard
    <3>. QED BY <3>2, <3>3, <3>4 DEF HeardInv, NoneStoredBefore
  <2>. QED BY <1>4, <2>2, <2>3 DEF PersistCheckoutSession
<1>5. ASSUME NEW c \in calls, MarkCheckoutClaimFailed(c)
      PROVE  HeardInv'
  <2>1. UNCHANGED <<sessions, provider, undelivered>> /\ calls' \subseteq calls
    BY <1>5 DEF MarkCheckoutClaimFailed, EndCall
  <2>2. /\ booking'.status = booking.status
        /\ booking' = booking \/ (AcceptsPayment /\ AcceptsPayment')
    BY <1>1, <1>5 DEF MarkCheckoutClaimFailed, TypeOK, AcceptsPayment
  <2>. QED BY <1>2, <2>1, <2>2
<1>6. ASSUME NEW c \in calls, AbandonCall(c) \/ ProviderRefuses(c)
      PROVE  HeardInv'
  <2>1. UNCHANGED <<booking, sessions, provider, undelivered>>
    BY <1>6 DEF AbandonCall, ProviderRefuses, ours
  <2>2. \A d \in calls' : d.phase = "ANSWERED" => d \in calls
    BY <1>1, <1>6 DEF AbandonCall, ProviderRefuses, EndCall, Answer, TypeOK, Calls
  <2>. QED BY <1>2, <2>1, <2>2
<1>7. ASSUME NEW c \in calls, ProviderAnswers(c)
      PROVE  HeardInv'
  <2>1. UNCHANGED <<booking, sessions, undelivered>> /\ c.key \in Keys
    BY <1>1, <1>7 DEF ProviderAnswers, ours
  <2>2. /\ \A k \in Keys : provider[k].session # "none" => provider'[k].session = provider[k].session
        /\ provider'[c.key].session \in {"open", "complete"}
        /\ provider'[c.key].session = "complete" => provider[c.key].session = "complete"
    BY <1>1, <1>7, <2>1 DEF ProviderAnswers, SameRequest, TypeOK, ProviderRows
  <2>3. \A d \in calls' : d.phase = "ANSWERED" => d \in calls \/ d.key = c.key
    BY <1>1, <1>7 DEF ProviderAnswers, Answer, TypeOK, Calls
  <2>4. provider[c.key].session = "complete" => sessions[c.key] # "NONE"
    BY <1>1, <2>1 DEF SessionFollows
  <2>5. AnswersAreOpen'
    <3>. SUFFICES ASSUME NEW d \in calls', d.phase = "ANSWERED", sessions[d.key] = "NONE"
                  PROVE  provider'[d.key].session = "open"
      BY <2>1 DEF AnswersAreOpen
    <3>1. CASE d.key = c.key
      BY <2>2, <2>4, <3>1
    <3>2. CASE d \in calls
      BY <1>1, <2>2, <3>2 DEF AnswersAreOpen
    <3>. QED BY <2>3, <3>1, <3>2
  <2>6. \A k \in Keys : Heard(k)'
    BY <1>1, <2>1, <2>2 DEF Heard
  <2>. QED BY <1>1, <2>1, <2>5, <2>6 DEF HeardInv, NoneStoredBefore, AcceptsPayment
\* The guest and the clock of the provider: what ends a session is sent as an event.
<1>8. ASSUME NEW k \in Keys, \/ \E result \in AttemptStatuses : AttemptCard(k, result)
                             \/ Pay(k) \/ ExpireSession(k) \/ CancelIntent(k)
      PROVE  HeardInv'
  <2>1. UNCHANGED <<booking, sessions, calls>> /\ undelivered \subseteq undelivered'
    BY <1>8 DEF AttemptCard, Pay, ExpireSession, CancelIntent, ours
  <2>2. \A j \in Keys :
           \/ provider'[j].session = provider[j].session
           \/ /\ j = k /\ provider'[k].session = "complete" /\ <<"completed", k>> \in undelivered'
              /\ sessions[k] # "NONE"
           \/ /\ j = k /\ provider'[k].session = "expired" /\ <<"expired", k>> \in undelivered'
              /\ sessions[k] = "NONE" => \A c \in calls : c.key = k => c.phase # "ANSWERED"
    <3>1. CASE CancelIntent(k) \/ \E result \in AttemptStatuses : AttemptCard(k, result)
      BY <1>1, <3>1 DEF AttemptCard, CancelIntent, TypeOK, ProviderRows
    <3>2. CASE Pay(k)
      BY <1>1, <3>2 DEF Pay, CanPay, TypeOK, ProviderRows
    <3>3. CASE ExpireSession(k)
      BY <1>1, <3>3 DEF ExpireSession, TypeOK, ProviderRows
    <3>. QED BY <1>8, <3>1, <3>2, <3>3
  <2>3. AnswersAreOpen'
    BY <1>1, <2>1, <2>2 DEF AnswersAreOpen
  <2>4. \A j \in Keys : Heard(j)'
    BY <1>1, <2>1, <2>2 DEF Heard
  <2>. QED BY <1>1, <2>1, <2>3, <2>4 DEF HeardInv, NoneStoredBefore, AcceptsPayment
\* An event of a session is accepted as the session is closed.
<1>9. ASSUME NEW k \in Keys, SessionCompleted(k) \/ SessionExpired(k)
      PROVE  HeardInv'
  <2>1. /\ UNCHANGED <<provider, calls>>
        /\ \A j \in Keys, s \in {"completed", "expired"} :
               j # k /\ <<s, j>> \in undelivered => <<s, j>> \in undelivered'
    BY <1>9 DEF SessionCompleted, SessionExpired, Accept
  <2>2. /\ \A j \in Keys : sessions[j] # "NONE" <=> sessions'[j] # "NONE"
        /\ \A j \in Keys : j # k => sessions'[j] = sessions[j]
        /\ booking'.status \in {booking.status, "CANCELLED"}
        /\ booking.status = "PENDING_CONFIRMATION" => booking' = booking
    BY <1>1, <1>9 DEF SessionCompleted, SettlesSession, SessionExpired, ReleasesBooking, TypeOK
  <2>3. sessions'[k] # "OPEN" \/ booking.status = "CANCELLED"
    BY <1>1, <1>9, EventClosesSession
  <2>4. AnswersAreOpen'
    BY <1>1, <2>1, <2>2 DEF AnswersAreOpen
  <2>5. \A j \in Keys : Heard(j)'
    BY <1>1, <2>1, <2>2, <2>3 DEF Heard
  <2>6. NoneStoredBefore'
    BY <1>1, <2>2 DEF NoneStoredBefore, AcceptsPayment, TypeOK
  <2>. QED BY <2>4, <2>5, <2>6 DEF HeardInv
<1>10. ASSUME NEW k \in Keys, NEW s \in IntentStatus, IntentEvent(k, s)
       PROVE  HeardInv'
  <2>1. s \notin {"completed", "expired"}
    BY Names DEF IntentStatus
  <2>2. UNCHANGED <<booking, sessions, provider, calls>> /\ undelivered' = undelivered \ {<<s, k>>}
    BY <1>10 DEF IntentEvent, Accept
  <2>. QED BY <1>2, <2>1, <2>2
<1>11. CASE StaffNext \/ Tick \/ UNCHANGED vars
  <2>1. UNCHANGED <<sessions, provider, undelivered, calls>>
    BY <1>11 DEF StaffNext, LookUpIntent, ReconcileIntent, RecordManualOfflinePayment, RecordManualOfflineRefund,
                 CancelBooking, Tick, vars, ours
  <2>2. /\ booking' = booking \/ booking.status = "CONFIRMED" \/ booking'.status # "PENDING_CONFIRMATION"
        /\ booking'.status \in {booking.status, "CANCELLED"}
    BY <1>1, <1>11 DEF StaffNext, LookUpIntent, ReconcileIntent, RecordManualOfflinePayment, RecordManualOfflineRefund,
                       ManuallyRefundable, CancelBooking, Tick, vars, ours, TypeOK
  <2>. QED BY <1>2, <2>1, <2>2
<1>. QED
  BY <1>3, <1>4, <1>5, <1>6, <1>7, <1>8, <1>9, <1>10, <1>11 DEF Next, RequestNext, ProviderNext, EventNext

\* A stored session that is open here and whose attempt is not mixed up is open at the provider,
\* or what ended it is on its way and will be handled: no answer, refusal, retry or other event
\* can lose it. (SessionExpired accepts its event without a condition.)
StoredSessionsAreHeard ==
    \A k \in Keys : sessions[k] = "OPEN" /\ booking.status # "CANCELLED" /\ ~MixedUp(k) =>
        \/ provider[k].session = "open"
        \/ <<"completed", k>> \in undelivered /\ SettlesSession(k)
        \/ <<"expired", k>> \in undelivered

\* The event of a session closes it.
EventsCloseSessions ==
    \A k \in Keys :
        sessions[k] = "OPEN" /\ booking.status # "CANCELLED" /\ (SessionCompleted(k) \/ SessionExpired(k)) =>
            sessions'[k] # "OPEN"

\* What StoredSessionsClose rests on beside fairness: as long as a stored session is open, the
\* event that closes it is to come, or on its way and acceptable, and accepting it closes the
\* session (the two session events in ingestStripePaymentWebhook, stripe-webhook-service.ts).
THEOREM StoredSessionsHeard == Spec => []StoredSessionsAreHeard /\ [][EventsCloseSessions]_vars
<1>. USE AttemptInvParts
<1>1. AttemptInv /\ HeardInv => StoredSessionsAreHeard
  <2>. SUFFICES ASSUME AttemptInv, HeardInv, NEW k \in Keys, sessions[k] = "OPEN",
                       booking.status # "CANCELLED", ~MixedUp(k)
                PROVE  \/ provider[k].session = "open"
                       \/ <<"completed", k>> \in undelivered /\ SettlesSession(k)
                       \/ <<"expired", k>> \in undelivered
    BY DEF StoredSessionsAreHeard
  <2>1. booking.status = "CONFIRMED"
    BY DEF HeardInv, NoneStoredBefore, TypeOK, BookingStatus
  <2>2. payments[k].status = "SUCCEEDED" => payments[k].ref = k
    BY Names DEF Follows, PaymentFollows, MixedUp
  <2>3. SettlesSession(k)
    BY <2>1, <2>2 DEF SettlesSession, MixedUp
  <2>. QED BY <2>3 DEF HeardInv, Heard
<1>2. AttemptInv /\ HeardInv /\ [Next]_vars => [EventsCloseSessions]_vars
  BY EventClosesSession DEF EventsCloseSessions, HeardInv
<1>. QED BY <1>1, <1>2, AttemptInit, AttemptStep, HeardInit, HeardStep, PTL DEF Spec

=============================================================================
